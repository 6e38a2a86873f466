---------------------------- MODULE Results_proofs ----------------------------
(***************************************************************************)
(* How results reach the one they are for: the host SDK's output queue and *)
(* the crowd application's upload, each for any size of its buffers and    *)
(* any number of results.                                                  *)
(*                                                                         *)
(* Upload.  The messages that wait form one line: what the consumer has    *)
(* cached, the queue, and the message about to be sent.  The rings hold    *)
(* what the line claims, one claim behind the other; actions take from the *)
(* front of both or put at the end of both.  A box lies at one place of    *)
(* the server, the text, the card and the ring.                            *)
(*                                                                         *)
(* Output.  Items are numbered as their headers arrive, so ownership and   *)
(* order follow from one order: what was handled, then what the output     *)
(* thread holds, then the queue from its head to its tail, then what the   *)
(* message thread works on.                                                *)
(***************************************************************************)
EXTENDS TrackingUpload, HostOutput, SequenceTheorems, WellFoundedInduction, TLAPS

-----------------------------------------------------------------------------
(* Induction                                                               *)

LEMMA StepInduction ==
  ASSUME NEW S, 0 \in S, \A n \in Nat : n \in S => n + 1 \in S
  PROVE  Nat \subseteq S
<1> DEFINE T == Nat \ S
           R == {pair \in Nat \X Nat : pair[1] < pair[2]}
<1>1. IsWellFoundedOn(R, Nat)
  BY NatLessThanWellFounded DEF OpToRel
<1>2. SUFFICES ASSUME T # {} PROVE FALSE
  OBVIOUS
<1>3. PICK x \in T : \A y \in T : <<y, x>> \notin R
  <2> HIDE DEF T, R
  <2>1. T \subseteq Nat
    BY DEF T
  <2> QED BY <1>1, <1>2, <2>1, WFMin
<1>4. x # 0 /\ x - 1 \in Nat /\ x - 1 \notin S
  OBVIOUS
<1>5. <<x - 1, x>> \in R /\ x - 1 \in T
  BY <1>4
<1> QED BY <1>3, <1>5

\* A function whose values each follow from the one before.
Unfolds(g, n, b, rule) ==
  g = [k \in 0..n |-> IF k = 0 THEN b ELSE rule[<<k, g[k - 1]>>]]

LEMMA UnfoldsExists ==
  ASSUME NEW X, NEW b \in X, NEW n \in Nat, NEW rule \in [(1..n) \X X -> X]
  PROVE  \E g \in [0..n -> X] : Unfolds(g, n, b, rule)
<1> DEFINE S == {m \in Nat : m <= n => \E g \in [0..m -> X] : Unfolds(g, m, b, rule)}
<1>1. 0 \in S
  <2> DEFINE g == [k \in 0..0 |-> b]
  <2>1. g \in [0..0 -> X] /\ Unfolds(g, 0, b, rule) BY DEF Unfolds
  <2> QED BY <2>1
<1>2. ASSUME NEW m \in Nat, m \in S PROVE m + 1 \in S
  <2> SUFFICES ASSUME m + 1 <= n
               PROVE  \E h \in [0..(m + 1) -> X] : Unfolds(h, m + 1, b, rule)
    OBVIOUS
  <2>1. PICK g \in [0..m -> X] : Unfolds(g, m, b, rule) BY <1>2
  <2> DEFINE x == rule[<<m + 1, g[m]>>]
             h == [k \in 0..(m + 1) |-> IF k <= m THEN g[k] ELSE x]
  <2>2. g[m] \in X /\ <<m + 1, g[m]>> \in (1..n) \X X BY <2>1
  <2>3. x \in X BY <2>2
  <2> HIDE DEF x
  <2>4. h \in [0..(m + 1) -> X] BY <2>1, <2>3
  <2>5. ASSUME NEW k \in 0..(m + 1)
        PROVE  h[k] = IF k = 0 THEN b ELSE rule[<<k, h[k - 1]>>]
    <3>1. CASE k = 0
      <4>1. g[0] = b BY <2>1 DEF Unfolds
      <4> QED BY <4>1, <3>1
    <3>2. CASE k \in 1..m
      <4>1. k - 1 \in 0..m /\ k \in 0..m /\ k # 0 BY <3>2
      <4>2. g[k] = rule[<<k, g[k - 1]>>] BY <4>1, <2>1 DEF Unfolds
      <4>3. h[k] = g[k] /\ h[k - 1] = g[k - 1] BY <4>1
      <4> QED BY <4>1, <4>2, <4>3
    <3>3. CASE k = m + 1
      <4>1. h[k] = x /\ h[k - 1] = g[m] /\ k # 0 BY <3>3
      <4> QED BY <4>1, <3>3 DEF x
    <3> QED BY <3>1, <3>2, <3>3
  <2>6. Unfolds(h, m + 1, b, rule) BY <2>5 DEF Unfolds
  <2> QED BY <2>4, <2>6
<1>3. Nat \subseteq S
  <2> HIDE DEF S
  <2> QED BY <1>1, <1>2, StepInduction
<1> QED BY <1>3

-----------------------------------------------------------------------------
(* The rings                                                               *)

IsRing(ring, size, S) ==
  /\ ring \in [head : 0..(size - 1), q : Seq(S)]
  /\ Len(ring.q) <= size

LEMMA MinOfTwo ==
  ASSUME NEW a \in Nat, NEW b \in Nat
  PROVE  Min({a, b}) = IF a <= b THEN a ELSE b
<1> DEFINE m == CHOOSE x \in {a, b} : \A y \in {a, b} : x <= y
<1>1. \E x \in {a, b} : \A y \in {a, b} : x <= y OBVIOUS
<1>2. m \in {a, b} /\ \A y \in {a, b} : m <= y BY <1>1
<1>3. Min({a, b}) = m BY DEF Min
<1> HIDE DEF m
<1>4. m \in Nat /\ m <= a /\ m <= b /\ (m = a \/ m = b) BY <1>2
<1> QED BY <1>3, <1>4

\* Part of a sequence, from behind its first g elements.
LEMMA SuffixIs ==
  ASSUME NEW S, NEW s \in Seq(S), NEW g \in 0..Len(s)
  PROVE  /\ SubSeq(s, g + 1, Len(s)) \in Seq(S)
         /\ Len(SubSeq(s, g + 1, Len(s))) = Len(s) - g
         /\ \A k \in 1..(Len(s) - g) : SubSeq(s, g + 1, Len(s))[k] = s[g + k]
<1>1. Len(s) \in Nat /\ \A i \in 1..Len(s) : s[i] \in S BY LenProperties, ElementOfSeq
<1> DEFINE a == g + 1
           n == Len(s)
           t == SubSeq(s, a, n)
<1>2. a \in Int /\ n \in Int /\ \A i \in a..n : s[i] \in S BY <1>1
<1> HIDE DEF a, n
<1>3. /\ t \in Seq(S)
      /\ Len(t) = IF a <= n THEN n - a + 1 ELSE 0
      /\ \A i \in 1..(n - a + 1) : t[i] = s[a + i - 1]
  BY <1>2, SubSeqProperties
<1> HIDE DEF t
<1>4. a = g + 1 /\ n = Len(s) /\ n \in Nat /\ g \in 0..n BY <1>1 DEF a, n
<1>5. Len(t) = n - g BY <1>3, <1>4
<1>6. ASSUME NEW k \in 1..(n - g) PROVE t[k] = s[g + k]
  <2>1. k \in 1..(n - a + 1) /\ a + k - 1 = g + k BY <1>4
  <2> QED BY <2>1, <1>3
<1> QED BY <1>3, <1>4, <1>5, <1>6 DEF t, a, n

\* The first g elements.
LEMMA PrefixIs ==
  ASSUME NEW S, NEW s \in Seq(S), NEW g \in 0..Len(s)
  PROVE  /\ SubSeq(s, 1, g) \in Seq(S)
         /\ Len(SubSeq(s, 1, g)) = g
         /\ \A k \in 1..g : SubSeq(s, 1, g)[k] = s[k]
<1>1. Len(s) \in Nat /\ \A i \in 1..Len(s) : s[i] \in S BY LenProperties, ElementOfSeq
<1> DEFINE t == SubSeq(s, 1, g)
<1>2. 1 \in Int /\ g \in Int /\ \A i \in 1..g : s[i] \in S BY <1>1
<1>3. /\ t \in Seq(S)
      /\ Len(t) = IF 1 <= g THEN g - 1 + 1 ELSE 0
      /\ \A i \in 1..(g - 1 + 1) : t[i] = s[1 + i - 1]
  BY <1>2, SubSeqProperties
<1> HIDE DEF t
<1>4. Len(t) = g BY <1>1, <1>3
<1>5. ASSUME NEW k \in 1..g PROVE t[k] = s[k]
  <2>1. k \in 1..(g - 1 + 1) /\ 1 + k - 1 = k BY <1>1
  <2> QED BY <2>1, <1>3
<1> QED BY <1>3, <1>4, <1>5 DEF t

\* What put leaves: the elements behind the others, as many as there is room for.
LEMMA PutIs ==
  ASSUME NEW S, NEW size \in Nat, NEW ring, IsRing(ring, size, S), NEW els \in Seq(S)
  PROVE  \E g \in 0..Len(els) :
           /\ Put(ring, size, els) =
                [head |-> ring.head, q |-> ring.q \o SubSeq(els, 1, g)]
           /\ IsRing(Put(ring, size, els), size, S)
           /\ Len(ring.q) + Len(els) <= size => g = Len(els)
<1> DEFINE n == Len(ring.q)
           m == Len(els)
           g == Min({m, size - n})
<1>1. /\ ring \in [head : 0..(size - 1), q : Seq(S)] /\ n <= size
  BY DEF IsRing
<1>2. ring.q \in Seq(S) /\ ring.head \in 0..(size - 1) BY <1>1
<1>3. n \in Nat /\ m \in Nat BY <1>2, LenProperties
<1>4. Put(ring, size, els) = [ring EXCEPT !.q = @ \o SubSeq(els, 1, g)]
  BY DEF Put, Room
<1> HIDE DEF n, m
<1>5. size - n \in Nat BY <1>1, <1>3
<1>6. g = IF m <= size - n THEN m ELSE size - n BY <1>3, <1>5, MinOfTwo
<1> HIDE DEF g
<1>7. g \in 0..m /\ n + g <= size /\ (n + m <= size => g = m) BY <1>1, <1>3, <1>5, <1>6
<1> DEFINE p == SubSeq(els, 1, g)
<1>8. p \in Seq(S) /\ Len(p) = g BY <1>7, PrefixIs DEF m
<1> HIDE DEF p
<1>9. ring.q \o p \in Seq(S) /\ Len(ring.q \o p) = n + g BY <1>2, <1>8, ConcatProperties DEF n
<1> DEFINE q2 == ring.q \o p
<1>10. [ring EXCEPT !.q = q2] = [head |-> ring.head, q |-> q2]
  <2> HIDE DEF q2
  <2> QED BY <1>1
<1> HIDE DEF q2
<1>11. Put(ring, size, els) = [head |-> ring.head, q |-> q2] BY <1>4, <1>10 DEF p, q2
<1>12. IsRing([head |-> ring.head, q |-> q2], size, S)
  BY <1>2, <1>7, <1>9 DEF IsRing, q2
<1> QED BY <1>7, <1>11, <1>12 DEF m, n, p, q2

\* What get leaves.
LEMMA GetIs ==
  ASSUME NEW S, NEW size \in Nat, NEW ring, IsRing(ring, size, S), NEW n \in Nat
  PROVE  \E g \in 0..Len(ring.q) :
           /\ g = IF n <= Len(ring.q) THEN n ELSE Len(ring.q)
           /\ Get(ring, size, n) =
                [head |-> (ring.head + g) % size, q |-> SubSeq(ring.q, g + 1, Len(ring.q))]
           /\ IsRing(Get(ring, size, n), size, S)
<1> DEFINE m == Len(ring.q)
           g == Min({n, m})
<1>1. /\ ring \in [head : 0..(size - 1), q : Seq(S)] /\ m <= size
  BY DEF IsRing
<1>2. ring.q \in Seq(S) /\ ring.head \in 0..(size - 1) BY <1>1
<1>3. m \in Nat BY <1>2, LenProperties
<1>4. Get(ring, size, n) = [head |-> (ring.head + g) % size, q |-> SubSeq(ring.q, g + 1, m)]
  BY DEF Get
<1>5. g = IF n <= m THEN n ELSE m
  <2> HIDE DEF m
  <2> QED BY <1>3, MinOfTwo
<1> HIDE DEF g
<1>6. g \in 0..m BY <1>3, <1>5
<1> DEFINE s == SubSeq(ring.q, g + 1, m)
           h == (ring.head + g) % size
<1>7. s \in Seq(S) /\ Len(s) = m - g BY <1>2, <1>6, SuffixIs
<1>8. h \in 0..(size - 1)
  <2>1. size > 0 /\ ring.head + g \in Nat BY <1>2, <1>3, <1>6
  <2> DEFINE x == ring.head + g
  <2>2. x \in Nat BY <2>1
  <2> HIDE DEF x
  <2>3. x % size \in 0..(size - 1) BY <2>1, <2>2
  <2> QED BY <2>3 DEF x
<1>9. Len(s) <= size
  <2> HIDE DEF s, m
  <2> QED BY <1>1, <1>3, <1>6, <1>7
<1>10. IsRing([head |-> h, q |-> s], size, S)
  <2> HIDE DEF s, h
  <2> QED BY <1>7, <1>8, <1>9 DEF IsRing
<1> QED BY <1>4, <1>5, <1>6, <1>10

\* Places within twice the size of a ring.
LEMMA ModIs ==
  ASSUME NEW size \in Nat, NEW a \in Nat, a < 2 * size
  PROVE  a % size = IF a < size THEN a ELSE a - size
<1>1. CASE a < size BY <1>1
<1>2. CASE ~(a < size)
  <2>1. size <= a BY <1>2
  <2> QED BY <2>1
<1> QED BY <1>1, <1>2

-----------------------------------------------------------------------------
(* Sums of lengths                                                         *)

IsUpto(off, n, len) ==
  /\ len \in [1..n -> Nat]
  /\ off \in [0..n -> Nat]
  /\ off[0] = 0
  /\ \A i \in 1..n : off[i] = off[i - 1] + len[i]

LEMMA UptoExists ==
  ASSUME NEW n \in Nat, NEW len \in [1..n -> Nat]
  PROVE  \E off : IsUpto(off, n, len)
<1> DEFINE rule == [p \in (1..n) \X Nat |-> p[2] + len[p[1]]]
<1>1. ASSUME NEW p \in (1..n) \X Nat PROVE p[2] + len[p[1]] \in Nat
  <2>1. p[1] \in 1..n /\ p[2] \in Nat BY <1>1
  <2>2. len[p[1]] \in Nat BY <2>1
  <2> QED BY <2>1, <2>2
<1>2. rule \in [(1..n) \X Nat -> Nat] BY <1>1
<1>3. \A p \in (1..n) \X Nat : rule[p] = p[2] + len[p[1]] OBVIOUS
<1> HIDE DEF rule
<1>4. 0 \in Nat OBVIOUS
<1>5. PICK off \in [0..n -> Nat] : Unfolds(off, n, 0, rule) BY <1>2, <1>4, UnfoldsExists
<1>6. off[0] = 0 BY <1>5 DEF Unfolds
<1>7. ASSUME NEW i \in 1..n PROVE off[i] = off[i - 1] + len[i]
  <2>1. i \in 0..n /\ i - 1 \in 0..n /\ i # 0 OBVIOUS
  <2>2. off[i] = rule[<<i, off[i - 1]>>] BY <1>5, <2>1 DEF Unfolds
  <2>3. <<i, off[i - 1]>> \in (1..n) \X Nat BY <1>5, <2>1
  <2> QED BY <1>3, <2>2, <2>3
<1> QED BY <1>5, <1>6, <1>7 DEF IsUpto

LEMMA UptoUnique ==
  ASSUME NEW n \in Nat, NEW len, NEW off, NEW g, IsUpto(off, n, len), IsUpto(g, n, len)
  PROVE  off = g
<1> DEFINE S == {k \in Nat : k <= n => off[k] = g[k]}
<1>1. 0 \in S BY DEF IsUpto
<1>2. ASSUME NEW k \in Nat, k \in S PROVE k + 1 \in S
  <2> SUFFICES ASSUME k + 1 <= n PROVE off[k + 1] = g[k + 1] OBVIOUS
  <2>1. off[k] = g[k] BY <1>2
  <2>2. k + 1 \in 1..n /\ (k + 1) - 1 = k OBVIOUS
  <2>3. off[k + 1] = off[k] + len[k + 1] BY <2>2 DEF IsUpto
  <2>4. g[k + 1] = g[k] + len[k + 1] BY <2>2 DEF IsUpto
  <2> QED BY <2>1, <2>3, <2>4
<1>3. Nat \subseteq S
  <2> HIDE DEF S
  <2> QED BY <1>1, <1>2, StepInduction
<1>4. \A k \in 0..n : off[k] = g[k] BY <1>3
<1>5. off \in [0..n -> Nat] /\ g \in [0..n -> Nat] BY DEF IsUpto
<1> QED BY <1>4, <1>5

LEMMA UptoRises ==
  ASSUME NEW n \in Nat, NEW len, NEW off, IsUpto(off, n, len)
  PROVE  \A i, j \in 0..n : i <= j => off[i] <= off[j]
<1> DEFINE S == {k \in Nat : k <= n => \A i \in 0..k : off[i] <= off[k]}
<1>0. off \in [0..n -> Nat] BY DEF IsUpto
<1>1. 0 \in S BY <1>0
<1>2. ASSUME NEW k \in Nat, k \in S PROVE k + 1 \in S
  <2> SUFFICES ASSUME k + 1 <= n, NEW i \in 0..(k + 1) PROVE off[i] <= off[k + 1] OBVIOUS
  <2>1. k + 1 \in 1..n /\ (k + 1) - 1 = k /\ k \in 0..n /\ k + 1 \in 0..n /\ i \in 0..n OBVIOUS
  <2>2. off[k + 1] = off[k] + len[k + 1] BY <2>1 DEF IsUpto
  <2>3. off[k] \in Nat /\ len[k + 1] \in Nat /\ off[i] \in Nat /\ off[k + 1] \in Nat
    BY <1>0, <2>1 DEF IsUpto
  <2>4. CASE i = k + 1 BY <2>3, <2>4
  <2>5. CASE i \in 0..k
    <3>1. off[i] <= off[k] BY <1>2, <2>5
    <3> QED BY <2>2, <2>3, <3>1
  <2> QED BY <2>4, <2>5
<1>3. Nat \subseteq S
  <2> HIDE DEF S
  <2> QED BY <1>1, <1>2, StepInduction
<1> QED BY <1>3

\* Parts of different entries do not overlap.
LEMMA UptoApart ==
  ASSUME NEW n \in Nat, NEW len, NEW off, IsUpto(off, n, len),
         NEW i \in 1..n, NEW j \in 1..n, NEW k \in 1..len[i], NEW l \in 1..len[j],
         off[i - 1] + k = off[j - 1] + l
  PROVE  i = j /\ k = l
<1>1. off \in [0..n -> Nat] BY DEF IsUpto
<1>2. /\ i - 1 \in 0..n /\ j - 1 \in 0..n /\ i \in 0..n /\ j \in 0..n
      /\ len[i] \in Nat /\ len[j] \in Nat
  BY DEF IsUpto
<1>3. off[i] \in Nat /\ off[j] \in Nat /\ off[i - 1] \in Nat /\ off[j - 1] \in Nat BY <1>1, <1>2
<1>4. off[i] = off[i - 1] + len[i] /\ off[j] = off[j - 1] + len[j] BY DEF IsUpto
<1>5. \A x, y \in 0..n : x <= y => off[x] <= off[y] BY UptoRises
<1>9. k \in Nat /\ 1 <= k /\ k <= len[i] /\ l \in Nat /\ 1 <= l /\ l <= len[j] BY <1>2
<1>10. off[i - 1] + k <= off[i] /\ off[j - 1] + l <= off[j]
  <2> DEFINE a == off[i - 1]
             b == off[j - 1]
             c == len[i]
             d == len[j]
  <2>1. a \in Nat /\ b \in Nat /\ c \in Nat /\ d \in Nat BY <1>2, <1>3
  <2>2. off[i] = a + c /\ off[j] = b + d BY <1>4
  <2>3. k <= c /\ l <= d BY <1>9
  <2> HIDE DEF a, b, c, d
  <2>4. a + k <= a + c /\ b + l <= b + d BY <1>9, <2>1, <2>3
  <2> QED BY <2>2, <2>4 DEF a, b
<1>6. CASE i < j
  <2>1. i <= j - 1 BY <1>6
  <2>2. off[i] <= off[j - 1] BY <1>2, <1>5, <2>1
  <2>3. off[i - 1] + k < off[j - 1] + l BY <1>3, <1>9, <1>10, <2>2
  <2> QED BY <1>3, <1>9, <2>3
<1>7. CASE j < i
  <2>1. j <= i - 1 BY <1>7
  <2>2. off[j] <= off[i - 1] BY <1>2, <1>5, <2>1
  <2>3. off[j - 1] + l < off[i - 1] + k BY <1>3, <1>9, <1>10, <2>2
  <2> QED BY <1>3, <1>9, <2>3
<1>8. CASE i = j BY <1>3, <1>8, <1>9
<1> QED BY <1>6, <1>7, <1>8

\* A part lies within the whole.
LEMMA UptoWithin ==
  ASSUME NEW n \in Nat, NEW len, NEW off, IsUpto(off, n, len),
         NEW i \in 1..n, NEW k \in 1..len[i]
  PROVE  /\ off[i - 1] + k \in 1..off[n] /\ off[i - 1] \in Nat
         /\ off[i - 1] < off[n] /\ off[i - 1] + len[i] <= off[n]
<1>1. off \in [0..n -> Nat] BY DEF IsUpto
<1>2. i - 1 \in 0..n /\ i \in 0..n /\ n \in 0..n /\ len[i] \in Nat BY DEF IsUpto
<1>3. off[i] \in Nat /\ off[i - 1] \in Nat /\ off[n] \in Nat BY <1>1, <1>2
<1>4. off[i] = off[i - 1] + len[i] BY DEF IsUpto
<1>5. off[i] <= off[n]
  <2>1. \A x, y \in 0..n : x <= y => off[x] <= off[y] BY UptoRises
  <2> QED BY <1>2, <2>1
<1> QED BY <1>2, <1>3, <1>4, <1>5

LEMMA UptoZero ==
  ASSUME NEW n \in Nat, NEW len, NEW off, IsUpto(off, n, len),
         \A i \in 1..n : len[i] = 0
  PROVE  \A i \in 0..n : off[i] = 0
<1> DEFINE z == [i \in 0..n |-> 0]
<1>1. z \in [0..n -> Nat] /\ z[0] = 0 OBVIOUS
<1>2. ASSUME NEW i \in 1..n PROVE z[i] = z[i - 1] + len[i]
  <2>1. i \in 0..n /\ i - 1 \in 0..n OBVIOUS
  <2> QED BY <2>1
<1>0. len \in [1..n -> Nat] BY DEF IsUpto
<1>3. IsUpto(z, n, len) BY <1>0, <1>1, <1>2 DEF IsUpto
<1>4. off = z
  <2> HIDE DEF z
  <2> QED BY <1>3, UptoUnique
<1> QED BY <1>4

-----------------------------------------------------------------------------
(* What rings hold                                                         *)

Lens(cs) == [i \in 1..Len(cs) |-> Len(cs[i].data)]

HoldsBy(ring, size, cs, off) ==
  /\ IsUpto(off, Len(cs), Lens(cs))
  /\ Len(ring.q) = off[Len(cs)]
  /\ \A i \in 1..Len(cs) : cs[i].data # <<>> =>
       /\ cs[i].addr = (ring.head + off[i - 1]) % size
       /\ \A k \in 1..Len(cs[i].data) : ring.q[off[i - 1] + k] = cs[i].data[k]

\* A claim: an address and what should be there.
IsClaims(cs, A, S) == cs \in Seq([addr : A, data : Seq(S)])

LEMMA LensType ==
  ASSUME NEW A, NEW S, NEW cs, IsClaims(cs, A, S)
  PROVE  /\ Len(cs) \in Nat /\ DOMAIN cs = 1..Len(cs)
         /\ Lens(cs) \in [1..Len(cs) -> Nat]
         /\ \A i \in 1..Len(cs) : cs[i].data \in Seq(S) /\ Lens(cs)[i] = Len(cs[i].data)
<1>1. cs \in Seq([addr : A, data : Seq(S)]) BY DEF IsClaims
<1>2. Len(cs) \in Nat /\ DOMAIN cs = 1..Len(cs) BY <1>1, LenProperties
<1>3. ASSUME NEW i \in 1..Len(cs)
      PROVE  cs[i].data \in Seq(S) /\ Len(cs[i].data) \in Nat /\ Lens(cs)[i] = Len(cs[i].data)
  <2>1. cs[i] \in [addr : A, data : Seq(S)] BY <1>1, <1>3, ElementOfSeq
  <2>2. cs[i].data \in Seq(S) BY <2>1
  <2>3. Len(cs[i].data) \in Nat BY <2>2, LenProperties
  <2>4. Lens(cs)[i] = Len(cs[i].data) BY <1>3 DEF Lens
  <2> QED BY <2>2, <2>3, <2>4
<1>4. Lens(cs) \in [1..Len(cs) -> Nat]
  <2>1. \A i \in 1..Len(cs) : Len(cs[i].data) \in Nat BY <1>3
  <2> QED BY <2>1 DEF Lens
<1> QED BY <1>2, <1>3, <1>4

LEMMA HoldsIs ==
  ASSUME NEW A, NEW S, NEW cs, IsClaims(cs, A, S), NEW ring, NEW size
  PROVE  Holds(ring, size, cs) <=> \E off : HoldsBy(ring, size, cs, off)
<1> DEFINE n == Len(cs)
           IsF(g) == g = [i \in 0..n |-> IF i = 0 THEN 0 ELSE g[i - 1] + Len(cs[i].data)]
           upto == CHOOSE g : IsF(g)
<1>1. /\ n \in Nat /\ DOMAIN cs = 1..n /\ Lens(cs) \in [1..n -> Nat]
      /\ \A i \in 1..n : cs[i].data \in Seq(S) /\ Lens(cs)[i] = Len(cs[i].data)
  BY LensType
<1>2. PICK off : IsUpto(off, n, Lens(cs))
  <2> HIDE DEF n
  <2> QED BY <1>1, UptoExists
<1>3. off \in [0..n -> Nat] BY <1>2 DEF IsUpto
<1>4. ASSUME NEW i \in 0..n
      PROVE  off[i] = IF i = 0 THEN 0 ELSE off[i - 1] + Len(cs[i].data)
  <2>1. CASE i = 0 BY <1>2, <2>1 DEF IsUpto
  <2>2. CASE i # 0
    <3>1. i \in 1..n BY <2>2
    <3>2. off[i] = off[i - 1] + Lens(cs)[i] BY <1>2, <3>1 DEF IsUpto
    <3>3. Lens(cs)[i] = Len(cs[i].data) BY <1>1, <3>1
    <3> QED BY <2>2, <3>2, <3>3
  <2> QED BY <2>1, <2>2
<1>5. IsF(off)
  <2> HIDE DEF n
  <2> QED BY <1>3, <1>4
<1>6. IsF(upto) BY <1>5
<1> HIDE DEF upto
<1>7. ASSUME NEW g, IsF(g) PROVE g = off
  <2>1. g = [i \in 0..n |-> IF i = 0 THEN 0 ELSE g[i - 1] + Len(cs[i].data)] BY <1>7
  <2>2. DOMAIN g = 0..n BY <2>1
  <2>3. g[0] = 0 BY <2>1, <1>1
  <2>4. ASSUME NEW i \in 1..n PROVE g[i] = g[i - 1] + Lens(cs)[i]
    <3>1. i \in 0..n /\ i # 0 OBVIOUS
    <3>2. g[i] = g[i - 1] + Len(cs[i].data) BY <2>1, <3>1
    <3> QED BY <3>2, <1>1
  <2> DEFINE T == {k \in Nat : k <= n => g[k] = off[k]}
  <2>5. 0 \in T BY <2>3, <1>2 DEF IsUpto
  <2>6. ASSUME NEW k \in Nat, k \in T PROVE k + 1 \in T
    <3> SUFFICES ASSUME k + 1 <= n PROVE g[k + 1] = off[k + 1] OBVIOUS
    <3>0. k + 1 \in 1..n /\ (k + 1) - 1 = k BY <1>1
    <3>1. g[k] = off[k] BY <2>6, <1>1
    <3>2. g[k + 1] = g[k] + Lens(cs)[k + 1] BY <2>4, <3>0
    <3>3. off[k + 1] = off[k] + Lens(cs)[k + 1] BY <1>2, <3>0 DEF IsUpto
    <3> QED BY <3>1, <3>2, <3>3
  <2>7. Nat \subseteq T
    <3> HIDE DEF T
    <3> QED BY <2>5, <2>6, StepInduction
  <2>8. \A k \in 0..n : g[k] = off[k] BY <2>7, <1>1
  <2>9. g = [k \in 0..n |-> g[k]] /\ off = [k \in 0..n |-> off[k]] BY <2>1, <1>3
  <2> QED BY <2>8, <2>9
<1>8. upto = off BY <1>6, <1>7
<1>9. Holds(ring, size, cs) <=>
        /\ Len(ring.q) = upto[n]
        /\ \A i \in DOMAIN cs : cs[i].data # <<>> =>
             /\ cs[i].addr = (ring.head + upto[i - 1]) % size
             /\ \A k \in DOMAIN cs[i].data : ring.q[upto[i - 1] + k] = cs[i].data[k]
  BY DEF Holds, upto
<1>10. \A i \in 1..n : DOMAIN cs[i].data = 1..Len(cs[i].data) BY <1>1, LenProperties
<1>11. Holds(ring, size, cs) <=> HoldsBy(ring, size, cs, off)
  <2> HIDE DEF IsF
  <2> QED BY <1>1, <1>2, <1>8, <1>9, <1>10 DEF HoldsBy
<1>12. ASSUME NEW g, HoldsBy(ring, size, cs, g) PROVE g = off
  <2>1. IsUpto(g, n, Lens(cs)) BY <1>12 DEF HoldsBy
  <2> HIDE DEF n
  <2> QED BY <1>1, <1>2, <2>1, UptoUnique
<1> QED BY <1>11, <1>12

\* Two functions agree on 1..n, the second read from behind its d-th value.
Agrees(f, g, n, d) == \A i \in 1..n : f[i] = g[d + i]

LEMMA UptoPrefix ==
  ASSUME NEW n \in Nat, NEW m \in Nat, n <= m, NEW len, NEW len2,
         NEW off, NEW g, IsUpto(off, n, len), IsUpto(g, m, len2),
         Agrees(len, len2, n, 0), NEW j \in 0..n
  PROVE  g[j] = off[j]
<1>0. \A i \in 1..n : len2[i] = len[i]
  <2>1. \A i \in 1..n : 0 + i = i OBVIOUS
  <2> QED BY <2>1 DEF Agrees
<1> DEFINE h == [i \in 0..n |-> g[i]]
<1>1. g \in [0..m -> Nat] BY DEF IsUpto
<1>2. \A i \in 0..n : i \in 0..m OBVIOUS
<1>3. h \in [0..n -> Nat] BY <1>1, <1>2
<1>4. h[0] = 0 BY DEF IsUpto
<1>5. ASSUME NEW i \in 1..n PROVE h[i] = h[i - 1] + len[i]
  <2>1. i \in 0..n /\ i - 1 \in 0..n /\ i \in 1..m OBVIOUS
  <2>2. g[i] = g[i - 1] + len2[i] BY <2>1 DEF IsUpto
  <2>3. h[i] = g[i] /\ h[i - 1] = g[i - 1] BY <2>1
  <2> QED BY <1>0, <2>2, <2>3
<1>6. \A i \in 0..n : h[i] = g[i] OBVIOUS
<1> HIDE DEF h
<1>9. len \in [1..n -> Nat] BY DEF IsUpto
<1>7. IsUpto(h, n, len) BY <1>3, <1>4, <1>5, <1>9 DEF IsUpto
<1>8. h = off BY <1>7, UptoUnique
<1> QED BY <1>6, <1>8

LEMMA UptoSuffix ==
  ASSUME NEW n \in Nat, NEW d \in Nat, NEW m \in Nat, n = d + m, NEW len, NEW len2,
         NEW off, NEW g, IsUpto(off, n, len), IsUpto(g, m, len2),
         Agrees(len2, len, m, d), NEW j \in 0..m
  PROVE  g[j] = off[d + j] - off[d]
<1> DEFINE h == [i \in 0..m |-> off[d + i] - off[d]]
<1>1. off \in [0..n -> Nat] BY DEF IsUpto
<1>2. ASSUME NEW i \in 0..m PROVE off[d + i] - off[d] \in Nat
  <2>1. d \in 0..n /\ d + i \in 0..n /\ d <= d + i OBVIOUS
  <2>2. \A x, y \in 0..n : x <= y => off[x] <= off[y] BY UptoRises
  <2>3. off[d] <= off[d + i] BY <2>1, <2>2
  <2>4. off[d] \in Nat /\ off[d + i] \in Nat BY <1>1, <2>1
  <2> QED BY <2>3, <2>4
<1>3. h \in [0..m -> Nat] BY <1>2
<1>4. h[0] = 0
  <2>1. 0 \in 0..m /\ d + 0 = d /\ d \in 0..n OBVIOUS
  <2>2. h[0] = off[d] - off[d] BY <2>1
  <2>3. off[d] \in Nat BY <1>1, <2>1
  <2> QED BY <2>2, <2>3
<1>5. ASSUME NEW i \in 1..m PROVE h[i] = h[i - 1] + len2[i]
  <2>1. i \in 0..m /\ i - 1 \in 0..m /\ d + i \in 1..n /\ (d + i) - 1 = d + (i - 1)
    OBVIOUS
  <2>2. off[d + i] = off[d + (i - 1)] + len[d + i] BY <2>1 DEF IsUpto
  <2>3. h[i] = off[d + i] - off[d] /\ h[i - 1] = off[d + (i - 1)] - off[d] BY <2>1
  <2>4. len2[i] = len[d + i] BY <1>5 DEF Agrees
  <2>5. d + (i - 1) \in 0..n /\ d \in 0..n OBVIOUS
  <2>6. off[d + (i - 1)] \in Nat /\ off[d] \in Nat /\ len[d + i] \in Nat
    BY <1>1, <2>1, <2>5 DEF IsUpto
  <2> QED BY <2>2, <2>3, <2>4, <2>6
<1>6. \A i \in 0..m : h[i] = off[d + i] - off[d] OBVIOUS
<1> HIDE DEF h
<1>9. len2 \in [1..m -> Nat] /\ len \in [1..n -> Nat] BY DEF IsUpto
<1>7. IsUpto(h, m, len2) BY <1>3, <1>4, <1>5, <1>9 DEF IsUpto
<1>8. h = g BY <1>7, UptoUnique
<1> QED BY <1>6, <1>8

LEMMA HoldsNone ==
  ASSUME NEW A, NEW S, NEW cs, IsClaims(cs, A, S), NEW ring, NEW size,
         Len(cs) = 0, Len(ring.q) = 0
  PROVE  Holds(ring, size, cs)
<1>1. Lens(cs) \in [1..Len(cs) -> Nat] BY LensType
<1>2. PICK off : IsUpto(off, Len(cs), Lens(cs))
  <2>1. Len(cs) \in Nat OBVIOUS
  <2> QED BY <1>1, <2>1, UptoExists
<1>3. off[0] = 0 BY <1>2 DEF IsUpto
<1>4. HoldsBy(ring, size, cs, off) BY <1>2, <1>3 DEF HoldsBy
<1> QED BY <1>4, HoldsIs

\* One sequence is another with one more element behind it.
OneMore(t, s) ==
  /\ Len(t) = Len(s) + 1
  /\ \A i \in 1..Len(s) : t[i] = s[i]

\* A ring with elements put behind the others.
Added(new, ring, els) ==
  /\ new.head = ring.head
  /\ Len(new.q) = Len(ring.q) + Len(els)
  /\ \A i \in 1..Len(ring.q) : new.q[i] = ring.q[i]
  /\ \A k \in 1..Len(els) : new.q[Len(ring.q) + k] = els[k]

PlacedBehind(c, ring, size) ==
  c.data # <<>> => c.addr = (ring.head + Len(ring.q)) % size

\* Another claim behind the others, and its data behind theirs.
LEMMA HoldsPut ==
  ASSUME NEW A, NEW S, NEW cs, IsClaims(cs, A, S), NEW ds, IsClaims(ds, A, S),
         NEW ring, NEW new, NEW size, Holds(ring, size, cs),
         OneMore(ds, cs), Len(ring.q) \in Nat, Added(new, ring, ds[Len(cs) + 1].data),
         PlacedBehind(ds[Len(cs) + 1], ring, size)
  PROVE  Holds(new, size, ds)
<1> DEFINE n == Len(cs)
           m == n + 1
<1>a. Len(ds) = m /\ \A i \in 1..n : ds[i] = cs[i] BY DEF OneMore
<1>b. /\ new.head = ring.head
      /\ Len(new.q) = Len(ring.q) + Len(ds[m].data)
      /\ \A i \in 1..Len(ring.q) : new.q[i] = ring.q[i]
      /\ \A k \in 1..Len(ds[m].data) : new.q[Len(ring.q) + k] = ds[m].data[k]
  BY DEF Added
<1>c. ds[m].data # <<>> => ds[m].addr = (ring.head + Len(ring.q)) % size
  BY DEF PlacedBehind
<1>1. PICK off : HoldsBy(ring, size, cs, off) BY HoldsIs
<1>2. /\ n \in Nat /\ Lens(cs) \in [1..n -> Nat]
      /\ \A i \in 1..n : cs[i].data \in Seq(S) /\ Lens(cs)[i] = Len(cs[i].data)
  BY LensType
<1>3. /\ Lens(ds) \in [1..m -> Nat]
      /\ \A i \in 1..m : ds[i].data \in Seq(S) /\ Lens(ds)[i] = Len(ds[i].data)
  BY LensType, <1>a
<1>4. PICK g : IsUpto(g, m, Lens(ds))
  <2>1. m \in Nat BY <1>2
  <2> HIDE DEF m
  <2> QED BY <1>3, <2>1, UptoExists
<1>5. \A i \in 1..n : Lens(ds)[i] = Lens(cs)[i]
  <2>1. \A i \in 1..n : i \in 1..m BY <1>2
  <2> QED BY <1>2, <1>3, <1>a, <2>1
<1>6. \A i \in 0..n : g[i] = off[i]
  <2>1. m \in Nat /\ n <= m BY <1>2
  <2>2. IsUpto(off, n, Lens(cs)) BY <1>1 DEF HoldsBy
  <2>3. n \in Nat /\ Lens(cs) \in [1..n -> Nat] BY <1>2
  <2>4. Lens(ds) \in [1..m -> Nat] BY <1>3
  <2> DEFINE lc == Lens(cs)
             ld == Lens(ds)
  <2> HIDE DEF n, m, lc, ld
  <2>5. Agrees(lc, ld, n, 0)
    <3>1. \A i \in 1..n : 0 + i = i BY <2>3
    <3> QED BY <1>5, <3>1 DEF lc, ld, Agrees
  <2>6. IsUpto(off, n, lc) /\ IsUpto(g, m, ld) BY <1>4, <2>2 DEF lc, ld
  <2>7. lc \in [1..n -> Nat] /\ ld \in [1..m -> Nat] BY <2>3, <2>4 DEF lc, ld
  <2>8. ASSUME NEW j \in 0..n PROVE g[j] = off[j]
    BY <2>1, <2>3, <2>5, <2>6, <2>7, UptoPrefix
  <2> QED BY <2>8
<1>7. g[m] = off[n] + Len(ds[m].data) /\ off[n] = Len(ring.q)
  <2>1. m \in 1..m /\ m - 1 = n /\ n \in 0..n BY <1>2
  <2>2. g[m] = g[m - 1] + Lens(ds)[m] BY <1>4, <2>1 DEF IsUpto
  <2>3. g[m - 1] = off[n] BY <1>6, <2>1
  <2>4. Lens(ds)[m] = Len(ds[m].data) BY <1>3, <2>1
  <2>5. off[n] = Len(ring.q) BY <1>1 DEF HoldsBy
  <2> QED BY <2>2, <2>3, <2>4, <2>5
<1>8. Len(new.q) = g[m] BY <1>7, <1>b
<1>9. ASSUME NEW i \in 1..m, ds[i].data # <<>>
      PROVE  /\ ds[i].addr = (new.head + g[i - 1]) % size
             /\ \A k \in 1..Len(ds[i].data) : new.q[g[i - 1] + k] = ds[i].data[k]
  <2>1. CASE i \in 1..n
    <3>1. i - 1 \in 0..n BY <1>2, <2>1
    <3>2. ds[i] = cs[i] /\ g[i - 1] = off[i - 1] BY <1>6, <1>a, <2>1, <3>1
    <3>3. /\ cs[i].addr = (ring.head + off[i - 1]) % size
          /\ \A k \in 1..Len(cs[i].data) : ring.q[off[i - 1] + k] = cs[i].data[k]
      BY <1>1, <1>9, <2>1, <3>2 DEF HoldsBy
    <3>4. ASSUME NEW k \in 1..Len(cs[i].data)
          PROVE  new.q[off[i - 1] + k] = cs[i].data[k]
      <4>1. IsUpto(off, n, Lens(cs)) BY <1>1 DEF HoldsBy
      <4>2. k \in 1..Lens(cs)[i] BY <1>2, <2>1
      <4>3. off[i - 1] + k \in 1..off[n]
        <5> HIDE DEF n
        <5> QED BY <1>2, <2>1, <4>1, <4>2, UptoWithin
      <4>4. off[i - 1] + k \in 1..Len(ring.q) BY <1>7, <4>3
      <4> QED BY <1>b, <3>3, <4>4
    <3> QED BY <1>b, <3>2, <3>3, <3>4
  <2>2. CASE i = m
    <3>1. i - 1 = n /\ n \in 0..n BY <1>2, <2>2
    <3>2. g[i - 1] = Len(ring.q) BY <1>6, <1>7, <3>1
    <3> QED BY <1>9, <1>b, <1>c, <2>2, <3>2
  <2> QED BY <1>2, <2>1, <2>2
<1>10. Len(ds) = m BY <1>a
<1>11. HoldsBy(new, size, ds, g)
  <2> HIDE DEF m
  <2> QED BY <1>4, <1>8, <1>9, <1>10 DEF HoldsBy
<1> QED BY <1>11, HoldsIs

\* What the first claim says, and the ring when its data has been taken.
LEMMA HoldsFirst ==
  ASSUME NEW A, NEW S, NEW cs, IsClaims(cs, A, S), NEW ring, NEW size \in Nat,
         Holds(ring, size, cs), Len(cs) > 0, NEW R, IsRing(ring, size, R)
  PROVE  /\ Len(cs[1].data) \in Nat /\ Len(cs[1].data) <= Len(ring.q)
         /\ cs[1].data # <<>> => cs[1].addr = ring.head
         /\ \A k \in 1..Len(cs[1].data) : ring.q[k] = cs[1].data[k]
<1> DEFINE n == Len(cs)
<1>a. ring.head \in 0..(size - 1) /\ Len(ring.q) \in Nat
  <2>1. ring.head \in 0..(size - 1) /\ ring.q \in Seq(R) BY DEF IsRing
  <2> QED BY <2>1, LenProperties
<1>1. PICK off : HoldsBy(ring, size, cs, off) BY HoldsIs
<1>2. /\ n \in Nat /\ Lens(cs) \in [1..n -> Nat]
      /\ \A i \in 1..n : cs[i].data \in Seq(S) /\ Lens(cs)[i] = Len(cs[i].data)
  BY LensType
<1>3. IsUpto(off, n, Lens(cs)) BY <1>1 DEF HoldsBy
<1>4. 1 \in 1..n /\ 1 - 1 = 0 BY <1>2
<1>5. off[0] = 0 /\ Len(cs[1].data) \in Nat /\ Lens(cs)[1] = Len(cs[1].data)
  BY <1>2, <1>3, <1>4 DEF IsUpto
<1>6. off[1 - 1] + Lens(cs)[1] <= off[n] \/ Lens(cs)[1] = 0
  <2>1. CASE Lens(cs)[1] # 0
    <3>1. 1 \in 1..Lens(cs)[1] BY <1>5, <2>1
    <3> HIDE DEF n
    <3> QED BY <1>2, <1>3, <1>4, <3>1, UptoWithin
  <2> QED BY <2>1
<1>7. Len(ring.q) = off[n] BY <1>1 DEF HoldsBy
<1>8. Len(cs[1].data) <= Len(ring.q) BY <1>a, <1>4, <1>5, <1>6, <1>7
<1>9. ASSUME cs[1].data # <<>>
      PROVE  /\ cs[1].addr = ring.head
             /\ \A k \in 1..Len(cs[1].data) : ring.q[k] = cs[1].data[k]
  <2>1. /\ cs[1].addr = (ring.head + off[1 - 1]) % size
        /\ \A k \in 1..Len(cs[1].data) : ring.q[off[1 - 1] + k] = cs[1].data[k]
    BY <1>1, <1>4, <1>9 DEF HoldsBy
  <2>2. (ring.head + off[1 - 1]) % size = ring.head BY SMTT(30), <1>a, <1>4, <1>5
  <2>3. \A k \in 1..Len(cs[1].data) : off[1 - 1] + k = k BY <1>4, <1>5
  <2> QED BY <2>1, <2>2, <2>3
<1>10. CASE cs[1].data = <<>>
  <2>1. Len(cs[1].data) = 0 BY <1>10
  <2> QED BY <1>5, <1>8, <1>10, <2>1
<1> QED BY <1>5, <1>8, <1>9, <1>10

LEMMA HeadMoves ==
  ASSUME NEW size \in Nat, NEW h \in 0..(size - 1), NEW o \in 0..size, NEW w \in 0..o
  PROVE  (((h + w) % size) + (o - w)) % size = (h + o) % size
<1> DEFINE u == h + w
           v == h + o
           y == (u % size) + (o - w)
<1>1. u \in Nat /\ v \in Nat /\ u < 2 * size /\ v < 2 * size /\ u <= v OBVIOUS
<1>2. u + (o - w) = v OBVIOUS
<1>3. o - w \in Nat OBVIOUS
<1> HIDE DEF u, v
<1>4. u % size = IF u < size THEN u ELSE u - size BY <1>1, ModIs
<1>5. v % size = IF v < size THEN v ELSE v - size BY <1>1, ModIs
<1>6. CASE u < size
  <2>1. y = v BY <1>1, <1>2, <1>3, <1>4, <1>6
  <2> QED BY <2>1 DEF u, v
<1>7. CASE ~(u < size)
  <2>1. y = v - size BY <1>1, <1>2, <1>3, <1>4, <1>7
  <2>2. y \in Nat /\ y < size /\ ~(v < size)
    <3> HIDE DEF y
    <3> QED BY <1>1, <1>7, <2>1
  <2>3. y % size = y
    <3> HIDE DEF y
    <3> QED BY <2>2
  <2> QED BY <1>5, <2>1, <2>2, <2>3 DEF u, v
<1> QED BY <1>6, <1>7

\* A sequence without its first z elements.
Goes(t, s, z) == Len(s) = z + Len(t) /\ \A i \in 1..Len(t) : t[i] = s[z + i]

\* A ring without its first w elements.
Taken(new, ring, size, w) ==
  /\ new.head = (ring.head + w) % size
  /\ Len(new.q) = Len(ring.q) - w
  /\ \A k \in 1..(Len(ring.q) - w) : new.q[k] = ring.q[w + k]

\* The first z claims go, and their data.
LEMMA HoldsDrop ==
  ASSUME NEW A, NEW S, NEW cs, IsClaims(cs, A, S), NEW ds, IsClaims(ds, A, S),
         NEW ring, NEW new, NEW size \in Nat, NEW off, HoldsBy(ring, size, cs, off),
         NEW z \in Nat, Goes(ds, cs, z), NEW R, IsRing(ring, size, R),
         Taken(new, ring, size, off[z])
  PROVE  Holds(new, size, ds)
<1> DEFINE n == Len(cs)
           m == Len(ds)
           w == off[z]
           lc == Lens(cs)
           ld == Lens(ds)
<1>0. ring.head \in 0..(size - 1) /\ Len(ring.q) \in Nat /\ Len(ring.q) <= size
  <2>1. ring.head \in 0..(size - 1) /\ ring.q \in Seq(R) /\ Len(ring.q) <= size BY DEF IsRing
  <2> QED BY <2>1, LenProperties
<1>a. n \in Nat /\ m \in Nat /\ n = z + m
  <2>1. n \in Nat /\ m \in Nat BY LensType
  <2> QED BY <2>1 DEF Goes
<1>b. \A i \in 1..m : ds[i] = cs[z + i] BY DEF Goes
<1>c. /\ new.head = (ring.head + w) % size
      /\ Len(new.q) = Len(ring.q) - w
      /\ \A k \in 1..(Len(ring.q) - w) : new.q[k] = ring.q[w + k]
  BY DEF Taken
<1>2. lc \in [1..n -> Nat] /\ \A i \in 1..n : cs[i].data \in Seq(S) /\ lc[i] = Len(cs[i].data)
  BY LensType
<1>3. ld \in [1..m -> Nat] /\ \A i \in 1..m : ds[i].data \in Seq(S) /\ ld[i] = Len(ds[i].data)
  BY LensType
<1>d. /\ IsUpto(off, n, lc) /\ Len(ring.q) = off[n]
      /\ \A i \in 1..n : cs[i].data # <<>> =>
           /\ cs[i].addr = (ring.head + off[i - 1]) % size
           /\ \A k \in 1..Len(cs[i].data) : ring.q[off[i - 1] + k] = cs[i].data[k]
  BY DEF HoldsBy
<1> HIDE DEF n, m, lc, ld, w
<1>4. z \in 0..n /\ n \in 0..n /\ m \in 0..m BY <1>a
<1>5. PICK g : IsUpto(g, m, ld) BY <1>3, <1>a, UptoExists
<1>6. off \in [0..n -> Nat] /\ g \in [0..m -> Nat] BY <1>5, <1>d DEF IsUpto
<1>7. \A i \in 1..m : ld[i] = lc[z + i]
  <2> TAKE i \in 1..m
  <2>1. z + i \in 1..n BY <1>a
  <2>2. ds[i] = cs[z + i] BY <1>b
  <2> QED BY <1>2, <1>3, <2>1, <2>2
<1>8. ASSUME NEW j \in 0..m PROVE g[j] = off[z + j] - w
  <2>1. Agrees(ld, lc, m, z) BY <1>7 DEF Agrees
  <2>2. g[j] = off[z + j] - off[z] BY <1>a, <1>d, <1>5, <2>1, UptoSuffix
  <2> QED BY <2>2 DEF w
<1>9. w \in Nat /\ w <= Len(ring.q) /\ \A i \in z..n : w <= off[i]
  <2>1. w \in Nat BY <1>4, <1>6 DEF w
  <2>2. \A x, y \in 0..n : x <= y => off[x] <= off[y] BY <1>a, <1>d, UptoRises
  <2>3. \A i \in z..n : w <= off[i] BY <1>4, <2>2 DEF w
  <2>4. n \in z..n BY <1>a
  <2> QED BY <1>d, <2>1, <2>3, <2>4
<1>11. Len(new.q) = g[m]
  <2>1. g[m] = off[z + m] - w BY <1>4, <1>8
  <2> QED BY <1>a, <1>c, <1>d, <2>1
<1>12. ASSUME NEW i \in 1..m, ds[i].data # <<>>
       PROVE  /\ ds[i].addr = (new.head + g[i - 1]) % size
              /\ \A k \in 1..Len(ds[i].data) : new.q[g[i - 1] + k] = ds[i].data[k]
  <2> DEFINE j == z + i
             o == off[j - 1]
             x == g[i - 1]
             r == Len(ring.q)
             h == ring.head
  <2>1. j \in 1..n /\ i - 1 \in 0..m /\ j - 1 = z + (i - 1) /\ j - 1 \in z..n /\ j - 1 \in 0..n
    BY <1>a
  <2>2. ds[i] = cs[j] BY <1>b
  <2> HIDE DEF j
  <2>3. /\ cs[j].addr = (ring.head + o) % size
        /\ \A k \in 1..Len(cs[j].data) : ring.q[o + k] = cs[j].data[k]
    BY <1>d, <1>12, <2>1, <2>2
  <2>4. x = o - w BY <1>8, <2>1
  <2>5. o \in Nat /\ w <= o BY <1>6, <1>9, <2>1
  <2>6. Len(ds[i].data) \in Nat /\ lc[j] = Len(ds[i].data) BY <1>2, <1>3, <2>1, <2>2, LenProperties
  <2>7. Len(ds[i].data) > 0 BY <1>3, <1>12, <2>6, EmptySeq
  <2>8. ASSUME NEW k \in 1..Len(ds[i].data) PROVE o + k \in 1..r
    <3>1. k \in 1..lc[j] BY <2>6
    <3>2. off[j - 1] + k \in 1..off[n] BY <1>a, <1>d, <2>1, <3>1, UptoWithin
    <3> QED BY <1>d, <3>2
  <2> HIDE DEF o, x, r
  <2>9. o < r
    <3>1. 1 \in 1..Len(ds[i].data) BY <2>6, <2>7
    <3>2. o + 1 \in 1..r BY <2>8, <3>1
    <3> QED BY <1>0, <2>5, <3>2 DEF r
  <2>10. (new.head + x) % size = (ring.head + o) % size
    <3>1. h \in 0..(size - 1) /\ o \in 0..size /\ w \in 0..o BY <1>0, <1>9, <2>5, <2>9 DEF r
    <3> HIDE DEF h
    <3>2. (((h + w) % size) + (o - w)) % size = (h + o) % size BY <3>1, HeadMoves
    <3> QED BY <1>c, <2>4, <3>2 DEF h
  <2>11. ASSUME NEW k \in 1..Len(ds[i].data) PROVE new.q[x + k] = ds[i].data[k]
    <3>1. o + k \in 1..r /\ k \in Nat /\ k >= 1 /\ r \in Nat BY <1>0, <2>6, <2>8 DEF r
    <3>2. x + k \in 1..(r - w) /\ w + (x + k) = o + k BY <1>9, <2>4, <2>5, <3>1
    <3>3. new.q[x + k] = ring.q[w + (x + k)] BY <1>c, <3>2 DEF r
    <3>4. ring.q[o + k] = cs[j].data[k] BY <2>2, <2>3
    <3> QED BY <2>2, <3>2, <3>3, <3>4
  <2> QED BY <2>2, <2>3, <2>10, <2>11 DEF x
<1>13. HoldsBy(new, size, ds, g) BY <1>5, <1>11, <1>12 DEF HoldsBy, m, ld
<1> QED BY <1>13, HoldsIs

LEMMA HoldsGet ==
  ASSUME NEW A, NEW S, NEW cs, IsClaims(cs, A, S), NEW ds, IsClaims(ds, A, S),
         NEW ring, NEW new, NEW size \in Nat, Holds(ring, size, cs),
         Goes(ds, cs, 1), NEW R, IsRing(ring, size, R), Taken(new, ring, size, Len(cs[1].data))
  PROVE  Holds(new, size, ds)
<1>1. PICK off : HoldsBy(ring, size, cs, off) BY HoldsIs
<1>2. Len(cs) \in Nat /\ Len(ds) \in Nat /\ Len(cs) = 1 + Len(ds) BY LensType DEF Goes
<1>3. 1 \in 1..Len(cs) BY <1>2
<1>4. off[1] = off[1 - 1] + Lens(cs)[1] /\ off[0] = 0 BY <1>1, <1>3 DEF HoldsBy, IsUpto
<1>5. Lens(cs)[1] = Len(cs[1].data) /\ Lens(cs)[1] \in Nat BY <1>3, LensType
<1>6. off[1] = Len(cs[1].data) BY <1>4, <1>5
<1>7. Taken(new, ring, size, off[1]) BY <1>6
<1>8. 1 \in Nat OBVIOUS
<1> QED BY <1>1, <1>7, <1>8, HoldsDrop

\* Claims that claim nothing, in front of the others.
Behind(ds, cs, z) ==
  /\ Len(ds) = z + Len(cs)
  /\ \A i \in 1..z : ds[i].data = <<>>
  /\ \A i \in 1..Len(cs) : ds[z + i] = cs[i]

LEMMA HoldsZeros ==
  ASSUME NEW A, NEW S, NEW cs, IsClaims(cs, A, S), NEW ds, IsClaims(ds, A, S),
         NEW ring, NEW size, Holds(ring, size, cs), NEW z \in Nat,
         Behind(ds, cs, z)
  PROVE  Holds(ring, size, ds)
<1> DEFINE n == Len(cs)
           m == Len(ds)
           lc == Lens(cs)
           ld == Lens(ds)
<1>a. /\ m = z + n
      /\ \A i \in 1..z : ds[i].data = <<>>
      /\ \A i \in 1..n : ds[z + i] = cs[i]
  BY DEF Behind
<1>1. PICK off : HoldsBy(ring, size, cs, off) BY HoldsIs
<1>2. /\ n \in Nat /\ lc \in [1..n -> Nat]
      /\ \A i \in 1..n : cs[i].data \in Seq(S) /\ lc[i] = Len(cs[i].data)
  BY LensType
<1>3. /\ m \in Nat /\ ld \in [1..m -> Nat]
      /\ \A i \in 1..m : ds[i].data \in Seq(S) /\ ld[i] = Len(ds[i].data)
  BY LensType
<1>4. PICK g : IsUpto(g, m, ld)
  <2> HIDE DEF m, ld
  <2> QED BY <1>3, UptoExists
<1>5. m = z + n /\ z \in 0..m /\ m - z = n /\ z <= m BY <1>a, <1>2
<1>6. IsUpto(off, n, lc) /\ Len(ring.q) = off[n] BY <1>1 DEF HoldsBy
<1>7. \A i \in 1..n : lc[i] = ld[z + i]
  <2> TAKE i \in 1..n
  <2>1. z + i \in 1..m /\ ds[z + i] = cs[i] BY <1>a, <1>2, <1>5
  <2> QED BY <1>2, <1>3, <2>1
<1>8. \A i \in 0..n : off[i] = g[z + i] - g[z]
  <2>1. m \in Nat /\ n \in Nat /\ m = z + n BY <1>2, <1>3, <1>5
  <2>2. lc \in [1..n -> Nat] /\ ld \in [1..m -> Nat] BY <1>2, <1>3
  <2>3. Agrees(lc, ld, n, z) BY <1>7 DEF Agrees
  <2> HIDE DEF n, m, lc, ld
  <2>4. ASSUME NEW j \in 0..n PROVE off[j] = g[z + j] - g[z]
    BY <1>4, <1>6, <2>1, <2>2, <2>3, UptoSuffix
  <2> QED BY <2>4
<1>9. \A i \in 0..z : g[i] = 0
  <2> DEFINE lz == [i \in 1..z |-> 0]
             oz == [i \in 0..z |-> 0]
  <2>1. lz \in [1..z -> Nat] /\ oz \in [0..z -> Nat] OBVIOUS
  <2>2. ASSUME NEW i \in 1..z PROVE oz[i] = oz[i - 1] + lz[i]
    <3>1. i \in 0..z /\ i - 1 \in 0..z OBVIOUS
    <3> QED BY <3>1
  <2>3. oz[0] = 0 /\ \A i \in 0..z : oz[i] = 0 OBVIOUS
  <2>4. \A i \in 1..z : ld[i] = lz[i]
    <3> TAKE i \in 1..z
    <3>1. i \in 1..m /\ ds[i].data = <<>> BY <1>a, <1>5
    <3>2. ld[i] = Len(ds[i].data) BY <1>3, <3>1
    <3> QED BY <3>1, <3>2
  <2> HIDE DEF oz, lz
  <2>5. IsUpto(oz, z, lz) BY <2>1, <2>2, <2>3 DEF IsUpto
  <2>6. \A i \in 0..z : g[i] = oz[i]
    <3>1. m \in Nat /\ z <= m /\ ld \in [1..m -> Nat] BY <1>3, <1>5
    <3>2. lz \in [1..z -> Nat] BY <2>1
    <3>3. Agrees(lz, ld, z, 0)
      <4>1. \A i \in 1..z : 0 + i = i OBVIOUS
      <4> QED BY <2>4, <4>1 DEF Agrees
    <3> HIDE DEF m, ld
    <3>4. ASSUME NEW j \in 0..z PROVE g[j] = oz[j]
      BY <1>4, <2>5, <3>1, <3>2, <3>3, UptoPrefix
    <3> QED BY <3>4
  <2> QED BY <2>3, <2>6
<1>10. g \in [0..m -> Nat] BY <1>4 DEF IsUpto
<1>11. \A i \in 0..n : g[z + i] = off[i]
  <2> TAKE i \in 0..n
  <2>1. z + i \in 0..m /\ z \in 0..z /\ z \in 0..m BY <1>2, <1>5
  <2>2. g[z + i] \in Nat /\ g[z] = 0 BY <1>9, <1>10, <2>1
  <2>3. off[i] = g[z + i] - g[z] BY <1>8
  <2> QED BY <2>2, <2>3
<1>12. Len(ring.q) = g[m]
  <2>1. n \in 0..n BY <1>2
  <2> QED BY <1>5, <1>6, <1>11, <2>1
<1>13. ASSUME NEW i \in 1..m, ds[i].data # <<>>
       PROVE  /\ ds[i].addr = (ring.head + g[i - 1]) % size
              /\ \A k \in 1..Len(ds[i].data) : ring.q[g[i - 1] + k] = ds[i].data[k]
  <2>1. i > z BY <1>13, <1>a, <1>5
  <2> DEFINE j == i - z
  <2>2. j \in 1..n /\ z + j = i /\ j - 1 \in 0..n /\ z + (j - 1) = i - 1 BY <1>2, <1>5, <2>1
  <2>3. ds[i] = cs[j] /\ g[i - 1] = off[j - 1] BY <1>a, <1>11, <2>2
  <2> HIDE DEF j
  <2>4. /\ cs[j].addr = (ring.head + off[j - 1]) % size
        /\ \A k \in 1..Len(cs[j].data) : ring.q[off[j - 1] + k] = cs[j].data[k]
    BY <1>1, <1>13, <2>2, <2>3 DEF HoldsBy
  <2> QED BY <2>3, <2>4
<1>14. HoldsBy(ring, size, ds, g) BY <1>4, <1>12, <1>13 DEF HoldsBy
<1> QED BY <1>14, HoldsIs

\* Put and get in these terms.
LEMMA GetTakes ==
  ASSUME NEW S, NEW size \in Nat, NEW ring, IsRing(ring, size, S), NEW n \in 0..Len(ring.q)
  PROVE  /\ Taken(Get(ring, size, n), ring, size, n)
         /\ IsRing(Get(ring, size, n), size, S)
<1>1. ring.q \in Seq(S) BY DEF IsRing
<1>2. Len(ring.q) \in Nat BY <1>1, LenProperties
<1>3. n \in Nat BY <1>2
<1>4. PICK g \in 0..Len(ring.q) :
        /\ g = IF n <= Len(ring.q) THEN n ELSE Len(ring.q)
        /\ Get(ring, size, n) =
             [head |-> (ring.head + g) % size, q |-> SubSeq(ring.q, g + 1, Len(ring.q))]
        /\ IsRing(Get(ring, size, n), size, S)
  BY <1>3, GetIs
<1>5. g = n BY <1>2, <1>4
<1> DEFINE s == SubSeq(ring.q, n + 1, Len(ring.q))
<1>6. Get(ring, size, n) = [head |-> (ring.head + n) % size, q |-> s] BY <1>4, <1>5
<1>7. Len(s) = Len(ring.q) - n /\ \A k \in 1..(Len(ring.q) - n) : s[k] = ring.q[n + k]
  BY <1>1, SuffixIs
<1> HIDE DEF s
<1>8. Get(ring, size, n).head = (ring.head + n) % size /\ Get(ring, size, n).q = s BY <1>6
<1>9. Taken(Get(ring, size, n), ring, size, n) BY <1>7, <1>8 DEF Taken
<1> QED BY <1>4, <1>9

LEMMA PutAdds ==
  ASSUME NEW S, NEW size \in Nat, NEW ring, IsRing(ring, size, S), NEW els \in Seq(S)
  PROVE  /\ IsRing(Put(ring, size, els), size, S)
         /\ \E g \in 0..Len(els) :
              /\ Added(Put(ring, size, els), ring, SubSeq(els, 1, g))
              /\ Len(ring.q) + Len(els) <= size => g = Len(els)
<1>1. PICK g \in 0..Len(els) :
           /\ Put(ring, size, els) =
                [head |-> ring.head, q |-> ring.q \o SubSeq(els, 1, g)]
           /\ IsRing(Put(ring, size, els), size, S)
           /\ Len(ring.q) + Len(els) <= size => g = Len(els)
  BY PutIs
<1> DEFINE p == SubSeq(els, 1, g)
           t == ring.q \o p
<1>2. ring.q \in Seq(S) BY DEF IsRing
<1>3. p \in Seq(S) BY PrefixIs
<1>4. Len(ring.q) \in Nat /\ Len(p) \in Nat
  <2> HIDE DEF p
  <2> QED BY <1>2, <1>3, LenProperties
<1>5. /\ Len(t) = Len(ring.q) + Len(p)
      /\ \A i \in 1..Len(ring.q) + Len(p) :
           t[i] = IF i <= Len(ring.q) THEN ring.q[i] ELSE p[i - Len(ring.q)]
  <2> HIDE DEF p
  <2> QED BY <1>2, <1>3, ConcatProperties
<1>6. Put(ring, size, els).head = ring.head /\ Put(ring, size, els).q = t BY SMTT(30), <1>1
<1> HIDE DEF p, t
<1>7. ASSUME NEW i \in 1..Len(ring.q) PROVE t[i] = ring.q[i]
  <2>1. i \in 1..Len(ring.q) + Len(p) /\ i <= Len(ring.q) BY <1>4
  <2> QED BY <1>5, <2>1
<1>8. ASSUME NEW k \in 1..Len(p) PROVE t[Len(ring.q) + k] = p[k]
  <2>1. /\ Len(ring.q) + k \in 1..Len(ring.q) + Len(p) /\ ~(Len(ring.q) + k <= Len(ring.q))
        /\ (Len(ring.q) + k) - Len(ring.q) = k
    BY <1>4
  <2> QED BY <1>5, <2>1
<1>9. Added(Put(ring, size, els), ring, p) BY <1>5, <1>6, <1>7, <1>8 DEF Added
<1> QED BY <1>1, <1>9 DEF p

LEMMA PutFits ==
  ASSUME NEW S, NEW size \in Nat, NEW ring, IsRing(ring, size, S), NEW els \in Seq(S),
         Len(ring.q) + Len(els) <= size
  PROVE  Added(Put(ring, size, els), ring, els)
<1>1. PICK g \in 0..Len(els) :
        /\ Added(Put(ring, size, els), ring, SubSeq(els, 1, g))
        /\ Len(ring.q) + Len(els) <= size => g = Len(els)
  BY PutAdds
<1>2. g = Len(els) BY <1>1
<1> DEFINE p == SubSeq(els, 1, g)
<1>3. p \in Seq(S) /\ Len(p) = g /\ \A k \in 1..g : p[k] = els[k] BY PrefixIs
<1>4. p = els
  <2> HIDE DEF p
  <2> QED BY <1>2, <1>3, SeqEqual
<1> QED BY <1>1, <1>4

-----------------------------------------------------------------------------
(* The messages, oldest first                                              *)

\* The kind of message a behaviour has, all messages not posted or saved, and
\* what those of them claim that are not converted.
Kind == IF mode = "NORMAL" THEN "TRACKING" ELSE "IMAGE"
Line == cached[Kind] \o queue \o inflight

BoxClaims(L, d)   == [i \in 1..(Len(L) - d) |-> BoxClaim(L[d + i])]
ImageClaims(L, d) == [i \in 1..(Len(L) - d) |-> ImageClaim(L[d + i])]

Converting == pc \in {"convert", "aborted"}

ShortLines(lines) == \A i \in 1..Len(lines) : Len(lines[i].boxes) <= MaxBoxes

\* Messages of one kind, and none with boxes that has no address.
Alike == \A i \in 1..Len(Line) : /\ Line[i].type = Kind
                                 /\ Line[i].n > 0 => Line[i].addr # None

\* Where messages can be.
Shape ==
  /\ \A k \in Kinds : k # Kind => cached[k] = <<>>
  /\ Alike
  /\ Converting => which = Kind
  /\ ~Converting => todo = 1 /\ body = <<>>
  /\ pc = "reset" => mode = "NORMAL"
  /\ file # <<>> => pc = "reset" /\ cached[Kind] = <<>>
  /\ ShortLines(file)

USE DEF Kinds

LEMMA Sizes ==
  /\ BoxRing \in Nat \ {0} /\ ImageRing \in Nat \ {0} /\ QueueSize \in Nat \ {0}
  /\ Threshold \in Nat \ {0} /\ Limit \in Nat \ {0} /\ MaxFrames \in Nat \ {0}
  /\ MaxBoxes \in Nat \ {0} /\ MaxBoots \in Nat \ {0} /\ None \notin Nat
BY SizesAssumption

LEMMA Modes == Kind \in Kinds /\ \A k \in Kinds : k = "TRACKING" \/ k = "IMAGE"
BY DEF Kind

LEMMA BoxesOfIs ==
  ASSUME NEW f \in 0..MaxFrames, NEW n \in 0..MaxBoxes
  PROVE  /\ BoxesOf(f, n) \in Seq(Box) /\ Len(BoxesOf(f, n)) = n
         /\ \A k \in 1..n : BoxesOf(f, n)[k] = <<f, k>>
         /\ BoxesOf(f, n) = <<>> <=> n = 0
<1>1. n \in Nat /\ \A k \in 1..n : <<f, k>> \in Box BY Sizes DEF Box
<1> DEFINE s == [i \in 1..n |-> <<f, i>>]
<1>2. s \in Seq(Box) BY <1>1, IsASeq
<1>3. Len(s) = n BY <1>1, <1>2, LenProperties
<1>4. \A k \in 1..n : s[k] = <<f, k>> OBVIOUS
<1>5. s = <<>> <=> n = 0
  <2> HIDE DEF s
  <2> QED BY <1>2, <1>3, EmptySeq
<1> QED BY <1>2, <1>3, <1>4, <1>5 DEF BoxesOf

LEMMA MessageIs ==
  ASSUME NEW m \in Messages
  PROVE  /\ m.type \in Kinds /\ m.frame \in 1..MaxFrames /\ m.n \in 0..MaxBoxes
         /\ m.addr \in Address(BoxRing) /\ m.img \in Address(ImageRing)
BY DEF Messages

LEMMA LineIs ==
  ASSUME UploadTypeOK
  PROVE  /\ cached[Kind] \in Seq(Messages) /\ queue \in Seq(Messages) /\ inflight \in Seq(Messages)
         /\ Len(cached[Kind]) \in Nat /\ Len(queue) \in Nat /\ Len(inflight) \in Nat
         /\ Line \in Seq(Messages)
         /\ Len(Line) = Len(cached[Kind]) + Len(queue) + Len(inflight)
         /\ \A i \in 1..Len(cached[Kind]) : Line[i] = cached[Kind][i]
         /\ \A i \in 1..Len(queue) : Line[Len(cached[Kind]) + i] = queue[i]
         /\ \A i \in 1..Len(inflight) : Line[Len(cached[Kind]) + Len(queue) + i] = inflight[i]
<1> DEFINE c == cached[Kind]
<1>1. c \in Seq(Messages) /\ queue \in Seq(Messages) /\ inflight \in Seq(Messages)
  BY Modes DEF UploadTypeOK
<1> HIDE DEF c
<1>2. Len(c) \in Nat /\ Len(queue) \in Nat /\ Len(inflight) \in Nat BY <1>1, LenProperties
<1> DEFINE cq == c \o queue
<1>3. /\ cq \in Seq(Messages) /\ Len(cq) = Len(c) + Len(queue)
      /\ \A i \in 1..Len(c) + Len(queue) :
           cq[i] = IF i <= Len(c) THEN c[i] ELSE queue[i - Len(c)]
  BY <1>1, ConcatProperties
<1> HIDE DEF cq
<1> DEFINE cqi == cq \o inflight
<1>4. /\ cqi \in Seq(Messages) /\ Len(cqi) = Len(cq) + Len(inflight)
      /\ \A i \in 1..Len(cq) + Len(inflight) :
           cqi[i] = IF i <= Len(cq) THEN cq[i] ELSE inflight[i - Len(cq)]
  BY <1>1, <1>3, ConcatProperties
<1>5. Line = cqi BY DEF Line, cqi, cq, c
<1> HIDE DEF cqi
<1>6. ASSUME NEW i \in 1..Len(c) PROVE cqi[i] = c[i]
  <2>1. i \in 1..Len(c) + Len(queue) /\ i \in 1..Len(cq) + Len(inflight) /\ i <= Len(cq)
    BY <1>2, <1>3
  <2> QED BY <1>3, <1>4, <2>1
<1>7. ASSUME NEW i \in 1..Len(queue) PROVE cqi[Len(c) + i] = queue[i]
  <2>1. /\ Len(c) + i \in 1..Len(c) + Len(queue) /\ Len(c) + i \in 1..Len(cq) + Len(inflight)
        /\ Len(c) + i <= Len(cq) /\ ~(Len(c) + i <= Len(c)) /\ (Len(c) + i) - Len(c) = i
    BY <1>2, <1>3
  <2> QED BY <1>3, <1>4, <2>1
<1>8. ASSUME NEW i \in 1..Len(inflight) PROVE cqi[Len(c) + Len(queue) + i] = inflight[i]
  <2>1. /\ Len(c) + Len(queue) + i \in 1..Len(cq) + Len(inflight)
        /\ ~(Len(c) + Len(queue) + i <= Len(cq))
        /\ (Len(c) + Len(queue) + i) - Len(cq) = i
    BY <1>2, <1>3
  <2> QED BY <1>4, <2>1
<1> QED BY <1>1, <1>2, <1>3, <1>4, <1>5, <1>6, <1>7, <1>8 DEF c

\* Two sequences are the same from behind the d-th element of the second.
LEMMA SeqSame ==
  ASSUME NEW S, NEW T, NEW s \in Seq(S), NEW t \in Seq(T), Len(s) = Len(t),
         Agrees(s, t, Len(s), 0)
  PROVE  s = t
<1>1. \A i \in 1..Len(s) : 0 + i = i OBVIOUS
<1>2. \A i \in 1..Len(s) : s[i] = t[i] BY <1>1 DEF Agrees
<1> QED BY <1>2, SeqEqual

LEMMA ClaimsType ==
  ASSUME NEW L \in Seq(Messages), NEW d \in 0..Len(L)
  PROVE  /\ IsClaims(BoxClaims(L, d), Address(BoxRing), Box)
         /\ IsClaims(ImageClaims(L, d), Address(ImageRing), 1..MaxFrames)
         /\ Len(BoxClaims(L, d)) = Len(L) - d /\ Len(ImageClaims(L, d)) = Len(L) - d
         /\ \A i \in 1..(Len(L) - d) : /\ BoxClaims(L, d)[i] = BoxClaim(L[d + i])
                                       /\ ImageClaims(L, d)[i] = ImageClaim(L[d + i])
<1> DEFINE n == Len(L) - d
           AB == [addr : Address(BoxRing), data : Seq(Box)]
           AI == [addr : Address(ImageRing), data : Seq(1..MaxFrames)]
<1>1. n \in Nat /\ \A i \in 1..n : d + i \in 1..Len(L)
  <2>1. Len(L) \in Nat BY LenProperties
  <2> QED BY <2>1
<1>2. ASSUME NEW i \in 1..n PROVE BoxClaim(L[d + i]) \in AB /\ ImageClaim(L[d + i]) \in AI
  <2> DEFINE m == L[d + i]
  <2>1. m \in Messages BY <1>1, ElementOfSeq
  <2> HIDE DEF m
  <2>2. /\ m.frame \in 1..MaxFrames /\ m.n \in 0..MaxBoxes
        /\ m.addr \in Address(BoxRing) /\ m.img \in Address(ImageRing)
    BY <2>1, MessageIs
  <2>3. m.frame \in 0..MaxFrames BY <2>2, Sizes
  <2>4. BoxesOf(m.frame, m.n) \in Seq(Box) BY <2>2, <2>3, BoxesOfIs
  <2>5. <<>> \in Seq(1..MaxFrames) /\ <<m.frame>> \in Seq(1..MaxFrames) BY <2>2, EmptySeq
  <2>6. BoxClaim(m) \in AB BY <2>2, <2>4 DEF BoxClaim
  <2>7. ImageClaim(m) \in AI BY <2>2, <2>5 DEF ImageClaim
  <2> QED BY <2>6, <2>7 DEF m
<1>3. BoxClaims(L, d) \in Seq(AB)
  <2> HIDE DEF AB
  <2> QED BY <1>1, <1>2, IsASeq DEF BoxClaims
<1>4. ImageClaims(L, d) \in Seq(AI)
  <2> HIDE DEF AI
  <2> QED BY <1>1, <1>2, IsASeq DEF ImageClaims
<1>5. DOMAIN BoxClaims(L, d) = 1..n /\ DOMAIN ImageClaims(L, d) = 1..n
  BY DEF BoxClaims, ImageClaims
<1>6. Len(BoxClaims(L, d)) = n
  <2> HIDE DEF AB, n
  <2> QED BY <1>1, <1>3, <1>5, LenProperties
<1>7. Len(ImageClaims(L, d)) = n
  <2> HIDE DEF AI, n
  <2> QED BY <1>1, <1>4, <1>5, LenProperties
<1>8. \A i \in 1..n : /\ BoxClaims(L, d)[i] = BoxClaim(L[d + i])
                      /\ ImageClaims(L, d)[i] = ImageClaim(L[d + i])
  BY DEF BoxClaims, ImageClaims
<1>9. /\ IsClaims(BoxClaims(L, d), Address(BoxRing), Box)
      /\ IsClaims(ImageClaims(L, d), Address(ImageRing), 1..MaxFrames)
  BY <1>3, <1>4 DEF IsClaims
<1> QED BY <1>6, <1>7, <1>8, <1>9

LEMMA TodoIs ==
  ASSUME UploadTypeOK, Shape
  PROVE  /\ todo \in Nat /\ todo >= 1 /\ todo - 1 \in 0..Len(cached[Kind])
         /\ todo - 1 \in 0..Len(Line)
         /\ ~Converting => todo = 1
<1>1. which \in Kinds /\ todo \in 1..Len(cached[which]) + 1 /\ cached \in [Kinds -> Seq(Messages)]
  BY DEF UploadTypeOK
<1>2. Len(cached[which]) \in Nat BY <1>1, LenProperties
<1>3. todo \in Nat /\ todo >= 1 BY <1>1, <1>2
<1>4. /\ Len(cached[Kind]) \in Nat /\ Len(queue) \in Nat /\ Len(inflight) \in Nat
      /\ Len(Line) = Len(cached[Kind]) + Len(queue) + Len(inflight)
  BY LineIs
<1>5. CASE Converting
  <2>1. which = Kind BY <1>5 DEF Shape
  <2> QED BY <1>1, <1>2, <1>3, <1>4, <1>5, <2>1
<1>6. CASE ~Converting
  <2>1. todo = 1 BY <1>6 DEF Shape
  <2> QED BY <1>4, <2>1
<1> QED BY <1>3, <1>5, <1>6

LEMMA NothingBefore ==
  ASSUME NEW S, NEW s \in Seq(S)
  PROVE  <<>> \o s = s /\ s \o <<>> = s
BY EmptySeq, ConcatEmptySeq

LEMMA WaitingIs ==
  ASSUME UploadTypeOK, Shape
  PROVE  /\ Len(Waiting) = Len(Line) - (todo - 1)
         /\ \A i \in 1..Len(Waiting) : Waiting[i] = Line[(todo - 1) + i]
<1> DEFINE c == cached[Kind]
           d == todo - 1
           x == IF Converting THEN SubSeq(c, todo, Len(c)) ELSE c
           left(k) == IF pc \in {"convert", "aborted"} /\ which = k
                      THEN SubSeq(cached[k], todo, Len(cached[k]))
                      ELSE cached[k]
<1>1. c \in Seq(Messages) /\ queue \in Seq(Messages) /\ inflight \in Seq(Messages)
  BY LineIs
<1>2. Len(c) \in Nat /\ Len(queue) \in Nat /\ Len(inflight) \in Nat BY LineIs
<1>3. d \in 0..Len(c) /\ todo = d + 1 BY TodoIs
<1>4. /\ x \in Seq(Messages) /\ Len(x) = Len(c) - d
      /\ \A i \in 1..(Len(c) - d) : x[i] = c[d + i]
  <2>1. CASE Converting
    <3>1. x = SubSeq(c, d + 1, Len(c)) BY <1>3, <2>1
    <3> HIDE DEF c, d, x
    <3> QED BY <1>1, <1>3, <3>1, SuffixIs
  <2>2. CASE ~Converting
    <3>1. d = 0 /\ x = c BY <2>2, TodoIs
    <3> HIDE DEF c, d, x
    <3>2. \A i \in 1..Len(c) : d + i = i BY <3>1
    <3> QED BY <1>1, <1>2, <3>1, <3>2
  <2> QED BY <2>1, <2>2
<1>5. left(Kind) = x
  <2>1. Converting => which = Kind BY DEF Shape
  <2> QED BY <2>1 DEF Converting
<1>6. ASSUME NEW k \in Kinds, k # Kind PROVE left(k) = <<>>
  <2>1. cached[k] = <<>> BY <1>6 DEF Shape
  <2>2. Converting => which # k BY <1>6 DEF Shape
  <2> QED BY <2>1, <2>2 DEF Converting
<1>7. left("TRACKING") \o left("IMAGE") = x
  <2> HIDE DEF x
  <2>1. <<>> \o x = x /\ x \o <<>> = x BY <1>4, NothingBefore
  <2>2. CASE Kind = "TRACKING"
    <3>1. left("TRACKING") = x BY <1>5, <2>2
    <3>2. left("IMAGE") = <<>> BY <1>6, <2>2
    <3> HIDE DEF left
    <3> QED BY <2>1, <3>1, <3>2
  <2>3. CASE Kind = "IMAGE"
    <3>1. left("IMAGE") = x BY <1>5, <2>3
    <3>2. left("TRACKING") = <<>> BY <1>6, <2>3
    <3> HIDE DEF left
    <3> QED BY <2>1, <3>1, <3>2
  <2> QED BY <2>2, <2>3, Modes
<1>8. Waiting = x \o queue \o inflight BY <1>7 DEF Waiting
<1> DEFINE xq == x \o queue
           w == xq \o inflight
<1>9. /\ xq \in Seq(Messages) /\ Len(xq) = Len(x) + Len(queue)
      /\ \A i \in 1..Len(x) + Len(queue) :
           xq[i] = IF i <= Len(x) THEN x[i] ELSE queue[i - Len(x)]
  <2> HIDE DEF x
  <2> QED BY <1>1, <1>4, ConcatProperties
<1>10. /\ w \in Seq(Messages) /\ Len(w) = Len(xq) + Len(inflight)
       /\ \A i \in 1..Len(xq) + Len(inflight) :
            w[i] = IF i <= Len(xq) THEN xq[i] ELSE inflight[i - Len(xq)]
  <2> HIDE DEF xq, x, c, left
  <2>1. xq \in Seq(Messages) /\ inflight \in Seq(Messages) BY <1>1, <1>9
  <2> QED BY <2>1, ConcatProperties
<1>11. Waiting = w BY <1>8
<1>12. /\ Len(Line) = Len(c) + Len(queue) + Len(inflight)
       /\ \A i \in 1..Len(c) : Line[i] = c[i]
       /\ \A i \in 1..Len(queue) : Line[Len(c) + i] = queue[i]
       /\ \A i \in 1..Len(inflight) : Line[Len(c) + Len(queue) + i] = inflight[i]
  BY LineIs
<1> HIDE DEF w, xq, x, c, d, left
<1>13. Len(w) = Len(Line) - d BY <1>2, <1>3, <1>4, <1>9, <1>10, <1>12
<1>14. ASSUME NEW i \in 1..Len(w) PROVE w[i] = Line[d + i]
  <2>0. Len(x) \in Nat /\ Len(x) = Len(c) - d /\ Len(xq) = Len(x) + Len(queue) /\ d \in Nat
    BY <1>2, <1>3, <1>4, <1>9
  <2>1. i \in 1..Len(xq) + Len(inflight) BY <1>10
  <2>2. CASE i <= Len(x)
    <3>1. i \in 1..Len(c) - d /\ i \in 1..Len(x) + Len(queue) /\ i <= Len(xq)
      BY <1>2, <2>0, <2>1, <2>2
    <3>2. w[i] = c[d + i] BY <1>4, <1>9, <1>10, <2>1, <2>2, <3>1
    <3>3. d + i \in 1..Len(c) BY <1>2, <2>0, <3>1
    <3> QED BY <1>12, <3>2, <3>3
  <2>3. CASE i > Len(x) /\ i <= Len(xq)
    <3> DEFINE j == i - Len(x)
    <3>1. /\ i \in 1..Len(x) + Len(queue) /\ ~(i <= Len(x)) /\ j \in 1..Len(queue)
          /\ d + i = Len(c) + j
      BY <1>2, <2>0, <2>1, <2>3
    <3>2. w[i] = queue[j] BY <1>9, <1>10, <2>1, <2>3, <3>1
    <3> HIDE DEF j
    <3> QED BY <1>12, <3>1, <3>2
  <2>4. CASE i > Len(xq)
    <3> DEFINE j == i - Len(xq)
    <3>1. ~(i <= Len(xq)) /\ j \in 1..Len(inflight) /\ d + i = Len(c) + Len(queue) + j
      BY <1>2, <2>0, <2>1, <2>4
    <3>2. w[i] = inflight[j] BY <1>10, <2>1, <3>1
    <3> HIDE DEF j
    <3> QED BY <1>12, <3>1, <3>2
  <2> QED BY <2>0, <1>2, <2>2, <2>3, <2>4
<1> QED BY <1>11, <1>13, <1>14 DEF d

\* What DataInStep says, over Line.
InStep ==
  ~spoiled =>
    /\ Holds(boxes, BoxRing, BoxClaims(Line, todo - 1))
    /\ pc # "reset" => Holds(images, ImageRing, ImageClaims(Line, todo - 1))
    /\ pc # "aborted"
    /\ Len(body) = todo - 1
    /\ \A i \in 1..Len(body) :
         /\ body[i].frame = Line[i].frame
         /\ body[i].boxes = BoxesOf(Line[i].frame, Line[i].n)
         /\ body[i].img \in {Line[i].frame, None}

LEMMA InStepIs ==
  ASSUME UploadTypeOK, Shape, InStep
  PROVE  DataInStep
<1> DEFINE n == Len(Waiting)
           d == todo - 1
<1>1. /\ n = Len(Line) - d
      /\ \A i \in 1..n : Waiting[i] = Line[d + i]
  BY WaitingIs
<1>2. [i \in 1..n |-> BoxClaim(Waiting[i])] = BoxClaims(Line, d)
  <2> HIDE DEF n
  <2> QED BY <1>1 DEF BoxClaims
<1>3. [i \in 1..n |-> ImageClaim(Waiting[i])] = ImageClaims(Line, d)
  <2> HIDE DEF n
  <2> QED BY <1>1 DEF ImageClaims
<1>4. RingsInStep BY <1>2, <1>3 DEF RingsInStep, InStep
<1>5. ASSUME ~spoiled, NEW i \in 1..Len(body)
      PROVE  /\ body[i].frame = cached[which][i].frame
             /\ body[i].boxes = BoxesOf(body[i].frame, cached[which][i].n)
             /\ body[i].img \in {body[i].frame, None}
  <2>1. /\ body[i].frame = Line[i].frame
        /\ body[i].boxes = BoxesOf(Line[i].frame, Line[i].n)
        /\ body[i].img \in {Line[i].frame, None}
    BY <1>5 DEF InStep
  <2>2. Len(body) = todo - 1 BY <1>5 DEF InStep
  <2>3. /\ todo - 1 \in 0..Len(cached[Kind]) /\ (~Converting => todo = 1) /\ todo \in Nat
    BY TodoIs
  <2>4. Converting /\ i \in 1..Len(cached[Kind])
    <3>1. todo - 1 >= 1 BY <2>2, <2>3
    <3> QED BY <2>2, <2>3, <3>1, LineIs
  <2>5. which = Kind BY <2>4 DEF Shape
  <2>6. Line[i] = cached[Kind][i] BY <2>4, LineIs
  <2> QED BY <2>1, <2>5, <2>6
<1>6. OnlyLatePostsSpoil BY <1>5 DEF OnlyLatePostsSpoil, InStep
<1> QED BY <1>4, <1>6 DEF DataInStep

-----------------------------------------------------------------------------
(* Saving                                                                  *)

FileLine == [frame : 1..MaxFrames, boxes : Seq(Box)]
Savings == {a \in [ring : [head : 0..(BoxRing - 1), q : Seq(Box)], vec : Seq(Box),
                   short : BOOLEAN, lines : Seq(FileLine)] : Len(a.ring.q) <= BoxRing}

Counts(msgs) == [i \in 1..Len(msgs) |-> msgs[i].n]

\* What the lines written of the first k messages are: of those messages, and the
\* ring's first boxes, unless there were too few.
SavedTo(a, msgs, off, k) ==
  /\ Len(a.lines) = k
  /\ \A i \in 1..k : /\ a.lines[i].frame = msgs[i].frame
                     /\ Len(a.lines[i].boxes) = msgs[i].n
  /\ a.short <=> off[k] > Len(boxes.q)
  /\ ~a.short => /\ Taken(a.ring, boxes, BoxRing, off[k])
                 /\ \A i \in 1..k : \A l \in 1..msgs[i].n :
                      a.lines[i].boxes[l] = boxes.q[off[i - 1] + l]

LEMMA FilledIs ==
  ASSUME NEW vec \in Seq(Box), NEW ring, IsRing(ring, BoxRing, Box), NEW n \in 0..MaxBoxes
  PROVE  /\ Filled(vec, ring, n) \in Seq(Box) /\ Len(Filled(vec, ring, n)) = n
         /\ \A i \in 1..n : i <= Len(ring.q) => Filled(vec, ring, n)[i] = ring.q[i]
<1>1. n \in Nat /\ MaxBoxes \in Nat /\ MaxFrames \in Nat BY Sizes
<1>2. ring.q \in Seq(Box) BY DEF IsRing
<1>3. Len(ring.q) \in Nat /\ Len(vec) \in Nat BY <1>2, LenProperties
<1> DEFINE e(i) == IF i <= Len(ring.q) THEN ring.q[i]
                   ELSE IF i <= Len(vec) THEN vec[i] ELSE <<0, i>>
           s == [i \in 1..n |-> e(i)]
<1>4. ASSUME NEW i \in 1..n PROVE e(i) \in Box
  <2>1. i \in Nat /\ i >= 1 /\ i \in 1..MaxBoxes BY <1>1
  <2>2. CASE i <= Len(ring.q)
    <3>1. i \in 1..Len(ring.q) BY <1>3, <2>1, <2>2
    <3>2. ring.q[i] \in Box BY <1>2, <3>1, ElementOfSeq
    <3> QED BY <2>2, <3>2
  <2>3. CASE ~(i <= Len(ring.q)) /\ i <= Len(vec)
    <3>1. i \in 1..Len(vec) BY <1>3, <2>1, <2>3
    <3>2. vec[i] \in Box BY <3>1, ElementOfSeq
    <3> QED BY <2>3, <3>2
  <2>4. CASE ~(i <= Len(ring.q)) /\ ~(i <= Len(vec))
    <3>1. <<0, i>> \in Box BY <1>1, <2>1 DEF Box
    <3> QED BY <2>4, <3>1
  <2> QED BY <2>2, <2>3, <2>4
<1>5. \A i \in 1..n : s[i] = e(i) OBVIOUS
<1>6. \A i \in 1..n : i <= Len(ring.q) => e(i) = ring.q[i] OBVIOUS
<1>7. s = Filled(vec, ring, n) BY DEF Filled
<1> HIDE DEF e
<1>8. s \in Seq(Box) BY <1>1, <1>4, IsASeq
<1>9. DOMAIN s = 1..n OBVIOUS
<1> HIDE DEF s
<1>10. Len(s) = n BY <1>1, <1>8, <1>9, LenProperties
<1> QED BY <1>5, <1>6, <1>7, <1>8, <1>10

LEMMA SavingsAre ==
  ASSUME NEW a \in Savings
  PROVE  /\ IsRing(a.ring, BoxRing, Box) /\ a.vec \in Seq(Box) /\ a.lines \in Seq(FileLine)
         /\ a.ring.head \in 0..(BoxRing - 1) /\ a.ring.q \in Seq(Box) /\ Len(a.ring.q) \in Nat
         /\ Len(a.ring.q) <= BoxRing
<1>1. /\ a.ring \in [head : 0..(BoxRing - 1), q : Seq(Box)] /\ Len(a.ring.q) <= BoxRing
      /\ a.vec \in Seq(Box) /\ a.lines \in Seq(FileLine)
  BY DEF Savings
<1>2. a.ring.q \in Seq(Box) /\ a.ring.head \in 0..(BoxRing - 1) BY <1>1
<1> QED BY <1>1, <1>2, LenProperties DEF IsRing

\* The line a message adds.
LEMMA SaveLineIs ==
  ASSUME NEW a \in Savings, NEW m \in Messages
  PROVE  \E b \in Savings :
           /\ SaveLine(a, m) = b
           /\ \E line \in FileLine :
                /\ b.lines = Append(a.lines, line) /\ line.frame = m.frame
                /\ Len(line.boxes) = m.n
                /\ \A l \in 1..m.n : l <= Len(a.ring.q) => line.boxes[l] = a.ring.q[l]
           /\ m.n = 0 => b.ring = a.ring /\ b.short = a.short
           /\ m.n # 0 => /\ b.ring = Get(a.ring, BoxRing, m.n)
                         /\ b.short = (a.short \/ Len(a.ring.q) < m.n)
<1>1. m.n \in 0..MaxBoxes /\ m.frame \in 1..MaxFrames BY MessageIs
<1>2. /\ IsRing(a.ring, BoxRing, Box) /\ a.vec \in Seq(Box) /\ a.lines \in Seq(FileLine)
      /\ Len(a.ring.q) \in Nat
  BY SavingsAre
<1>3. a \in [ring : [head : 0..(BoxRing - 1), q : Seq(Box)], vec : Seq(Box),
             short : BOOLEAN, lines : Seq(FileLine)] /\ Len(a.ring.q) <= BoxRing
  BY DEF Savings
<1>4. CASE m.n = 0
  <2> DEFINE line == [frame |-> m.frame, boxes |-> <<>>]
             b == [a EXCEPT !.lines = Append(@, line)]
  <2>1. line \in FileLine BY <1>1, EmptySeq DEF FileLine
  <2>2. line.frame = m.frame /\ line.boxes = <<>> /\ Len(<<>>) = 0 BY EmptySeq
  <2>3. SaveLine(a, m) = b BY <1>4 DEF SaveLine
  <2> HIDE DEF line
  <2>4. Append(a.lines, line) \in Seq(FileLine) BY <1>2, <2>1, AppendProperties
  <2>5. /\ b \in [ring : [head : 0..(BoxRing - 1), q : Seq(Box)], vec : Seq(Box),
                  short : BOOLEAN, lines : Seq(FileLine)]
        /\ b.ring = a.ring /\ b.lines = Append(a.lines, line)
    BY <1>3, <2>4
  <2>6. b.short = a.short BY <1>3
  <2> HIDE DEF b
  <2>7. b \in Savings BY <1>3, <2>5 DEF Savings
  <2>8. \A l \in 1..m.n : l <= Len(a.ring.q) => line.boxes[l] = a.ring.q[l] BY <1>4
  <2> QED BY <1>4, <2>1, <2>2, <2>3, <2>5, <2>6, <2>7, <2>8
<1>5. CASE m.n # 0
  <2> DEFINE vec == Filled(a.vec, a.ring, m.n)
             line == [frame |-> m.frame, boxes |-> vec]
             ring == Get(a.ring, BoxRing, m.n)
             short == a.short \/ Len(a.ring.q) < m.n
             b == [ring |-> ring, vec |-> vec, short |-> short,
                   lines |-> Append(a.lines, line)]
  <2>1. SaveLine(a, m) = b BY <1>5 DEF SaveLine
  <2>2. /\ vec \in Seq(Box) /\ Len(vec) = m.n
        /\ \A l \in 1..m.n : l <= Len(a.ring.q) => vec[l] = a.ring.q[l]
    BY <1>1, <1>2, FilledIs
  <2>3. IsRing(ring, BoxRing, Box)
    <3>1. m.n \in Nat /\ BoxRing \in Nat BY <1>1, Sizes
    <3> QED BY <1>2, <3>1, GetIs
  <2> HIDE DEF vec, ring, short
  <2>4. line \in FileLine /\ line.frame = m.frame /\ line.boxes = vec
    BY <1>1, <2>2 DEF FileLine
  <2> HIDE DEF line
  <2>5. Append(a.lines, line) \in Seq(FileLine) BY <1>2, <2>4, AppendProperties
  <2>6. b.ring = ring /\ b.lines = Append(a.lines, line) /\ b.short = short OBVIOUS
  <2>7. short \in BOOLEAN BY DEF short
  <2>8. ring \in [head : 0..(BoxRing - 1), q : Seq(Box)] /\ Len(ring.q) <= BoxRing
    BY <2>3 DEF IsRing
  <2>9. b \in [ring : [head : 0..(BoxRing - 1), q : Seq(Box)], vec : Seq(Box),
               short : BOOLEAN, lines : Seq(FileLine)]
    BY <2>2, <2>5, <2>7, <2>8
  <2> HIDE DEF b
  <2>10. b \in Savings BY <2>6, <2>8, <2>9 DEF Savings
  <2>11. \E l \in FileLine : /\ b.lines = Append(a.lines, l) /\ l.frame = m.frame
                             /\ Len(l.boxes) = m.n
                             /\ \A k \in 1..m.n : k <= Len(a.ring.q) => l.boxes[k] = a.ring.q[k]
    BY <2>2, <2>4, <2>6
  <2>12. b.ring = Get(a.ring, BoxRing, m.n) BY <2>6 DEF ring
  <2>13. b.short = (a.short \/ Len(a.ring.q) < m.n) BY <2>6 DEF short
  <2> QED BY <1>5, <2>1, <2>10, <2>11, <2>12, <2>13
<1> QED BY <1>4, <1>5

LEMMA SavedBy ==
  ASSUME NEW msgs \in Seq(Messages), IsRing(boxes, BoxRing, Box)
  PROVE  \E f \in [0..Len(msgs) -> Savings] :
           /\ f[0] = Saving
           /\ \A k \in 1..Len(msgs) : f[k] = SaveLine(f[k - 1], msgs[k])
           /\ Saved(msgs) = f[Len(msgs)]
<1> DEFINE n == Len(msgs)
           IsF(g) == g = [k \in 0..n |-> IF k = 0 THEN Saving ELSE SaveLine(g[k - 1], msgs[k])]
           f == CHOOSE g : IsF(g)
           rule == [p \in (1..n) \X Savings |-> SaveLine(p[2], msgs[p[1]])]
<1>1. n \in Nat BY LenProperties
<1>2. Saving \in Savings
  <2>1. /\ boxes \in [head : 0..(BoxRing - 1), q : Seq(Box)] /\ Len(boxes.q) <= BoxRing
        /\ <<>> \in Seq(Box) /\ <<>> \in Seq(FileLine)
    BY EmptySeq DEF IsRing
  <2>2. FALSE \in BOOLEAN OBVIOUS
  <2> QED BY <2>1, <2>2 DEF Saving, Savings
<1>3. ASSUME NEW p \in (1..n) \X Savings PROVE SaveLine(p[2], msgs[p[1]]) \in Savings
  <2>1. p[1] \in 1..n /\ p[2] \in Savings BY <1>3
  <2>2. msgs[p[1]] \in Messages BY <2>1, ElementOfSeq
  <2> QED BY <2>1, <2>2, SaveLineIs
<1>4. rule \in [(1..n) \X Savings -> Savings] BY <1>3
<1>5. \A p \in (1..n) \X Savings : rule[p] = SaveLine(p[2], msgs[p[1]]) OBVIOUS
<1> HIDE DEF rule
<1>6. PICK g \in [0..n -> Savings] : Unfolds(g, n, Saving, rule)
  <2> HIDE DEF n
  <2> QED BY <1>1, <1>2, <1>4, UnfoldsExists
<1>7. ASSUME NEW k \in 0..n
      PROVE  g[k] = IF k = 0 THEN Saving ELSE SaveLine(g[k - 1], msgs[k])
  <2>1. CASE k = 0 BY <1>6, <2>1 DEF Unfolds
  <2>2. CASE k # 0
    <3>1. k \in 1..n /\ k - 1 \in 0..n BY <1>1, <2>2
    <3>2. g[k] = rule[<<k, g[k - 1]>>] BY <1>6, <2>2 DEF Unfolds
    <3>3. <<k, g[k - 1]>> \in (1..n) \X Savings BY <1>6, <3>1
    <3>4. rule[<<k, g[k - 1]>>] = SaveLine(g[k - 1], msgs[k]) BY <1>5, <3>3
    <3> QED BY <2>2, <3>2, <3>4
  <2> QED BY <2>1, <2>2
<1>8. IsF(g)
  <2> HIDE DEF n
  <2> QED BY <1>6, <1>7
<1>9. IsF(f) BY <1>8
<1>10. Saved(msgs) = f[n] BY DEF Saved
<1> HIDE DEF f
<1>11. f = [k \in 0..n |-> IF k = 0 THEN Saving ELSE SaveLine(f[k - 1], msgs[k])] BY <1>9
<1> HIDE DEF n, IsF
<1>12. f[0] = Saving BY <1>1, <1>11
<1>13. ASSUME NEW k \in 1..n PROVE f[k] = SaveLine(f[k - 1], msgs[k])
  <2>1. k \in 0..n /\ k # 0 BY <1>1
  <2> QED BY <1>11, <2>1
<1>14. \A k \in 0..n : f[k] \in Savings
  <2> DEFINE S == {k \in Nat : k <= n => f[k] \in Savings}
  <2>1. 0 \in S BY <1>2, <1>12
  <2>2. ASSUME NEW k \in Nat, k \in S PROVE k + 1 \in S
    <3> SUFFICES ASSUME k + 1 <= n PROVE f[k + 1] \in Savings OBVIOUS
    <3>1. f[k] \in Savings /\ k + 1 \in 1..n /\ (k + 1) - 1 = k BY <1>1, <2>2
    <3>2. f[k + 1] = SaveLine(f[k], msgs[k + 1]) BY <1>13, <3>1
    <3>3. msgs[k + 1] \in Messages BY <3>1, ElementOfSeq DEF n
    <3> QED BY <3>1, <3>2, <3>3, SaveLineIs
  <2>3. Nat \subseteq S
    <3> HIDE DEF S
    <3> QED BY <2>1, <2>2, StepInduction
  <2> QED BY <1>1, <2>3
<1>15. f \in [0..n -> Savings] BY <1>11, <1>14
<1> QED BY <1>10, <1>12, <1>13, <1>15 DEF n

LEMMA SavedToNone ==
  ASSUME NEW msgs \in Seq(Messages), IsRing(boxes, BoxRing, Box),
         NEW off, IsUpto(off, Len(msgs), Counts(msgs))
  PROVE  SavedTo(Saving, msgs, off, 0)
<1>1. off[0] = 0 BY DEF IsUpto
<1>2. boxes.head \in 0..(BoxRing - 1) /\ boxes.q \in Seq(Box) BY DEF IsRing
<1>3. Len(boxes.q) \in Nat /\ BoxRing \in Nat BY <1>2, Sizes, LenProperties
<1>4. Saving.ring = boxes /\ Saving.lines = <<>> /\ Saving.short = FALSE BY DEF Saving
<1>5. Len(Saving.lines) = 0 BY <1>4, EmptySeq
<1>6. ~(off[0] > Len(boxes.q)) BY <1>1, <1>3
<1>7. Taken(boxes, boxes, BoxRing, 0)
  <2>1. boxes.head = (boxes.head + 0) % BoxRing BY <1>2, <1>3
  <2>2. Len(boxes.q) = Len(boxes.q) - 0 BY <1>3
  <2>3. \A k \in 1..(Len(boxes.q) - 0) : 0 + k = k BY <1>3
  <2> QED BY <2>1, <2>2, <2>3 DEF Taken
<1>8. \A i \in 1..0 : FALSE OBVIOUS
<1> QED BY <1>1, <1>4, <1>5, <1>6, <1>7, <1>8 DEF SavedTo

LEMMA SavedToMore ==
  ASSUME NEW msgs \in Seq(Messages), IsRing(boxes, BoxRing, Box),
         NEW off, IsUpto(off, Len(msgs), Counts(msgs)),
         NEW k \in Nat, k + 1 <= Len(msgs), NEW a \in Savings, SavedTo(a, msgs, off, k)
  PROVE  SavedTo(SaveLine(a, msgs[k + 1]), msgs, off, k + 1)
<1> DEFINE n == Len(msgs)
           m == msgs[k + 1]
           N == Len(boxes.q)
           o == off[k]
           p == off[k + 1]
<1>1. n \in Nat /\ k + 1 \in 1..n /\ (k + 1) - 1 = k /\ k \in 0..n /\ k + 1 \in 0..n
  BY LenProperties
<1>2. m \in Messages BY <1>1, ElementOfSeq
<1>3. m.n \in 0..MaxBoxes /\ m.n \in Nat BY <1>2, MessageIs, Sizes
<1>4. o \in Nat /\ p \in Nat /\ p = o + m.n
  <2>1. off \in [0..n -> Nat] BY DEF IsUpto
  <2>2. off[k + 1] = off[(k + 1) - 1] + Counts(msgs)[k + 1] BY <1>1 DEF IsUpto
  <2>3. Counts(msgs)[k + 1] = m.n BY <1>1 DEF Counts
  <2> QED BY <1>1, <2>1, <2>2, <2>3
<1>5. boxes.head \in 0..(BoxRing - 1) /\ boxes.q \in Seq(Box) /\ N <= BoxRing BY DEF IsRing
<1>6. N \in Nat /\ BoxRing \in Nat BY <1>5, Sizes, LenProperties
<1>7. /\ Len(a.lines) = k
      /\ \A i \in 1..k : a.lines[i].frame = msgs[i].frame /\ Len(a.lines[i].boxes) = msgs[i].n
      /\ a.short <=> o > N
  BY DEF SavedTo
<1>8. ~a.short => /\ a.ring.head = (boxes.head + o) % BoxRing
                  /\ Len(a.ring.q) = N - o
                  /\ \A j \in 1..(N - o) : a.ring.q[j] = boxes.q[o + j]
                  /\ \A i \in 1..k : \A l \in 1..msgs[i].n :
                       a.lines[i].boxes[l] = boxes.q[off[i - 1] + l]
  BY DEF SavedTo, Taken
<1>9. /\ IsRing(a.ring, BoxRing, Box) /\ a.lines \in Seq(FileLine)
      /\ a.ring.q \in Seq(Box) /\ Len(a.ring.q) \in Nat
  BY SavingsAre
<1>10. PICK b \in Savings :
         /\ SaveLine(a, m) = b
         /\ \E line \in FileLine :
              /\ b.lines = Append(a.lines, line) /\ line.frame = m.frame
              /\ Len(line.boxes) = m.n
              /\ \A l \in 1..m.n : l <= Len(a.ring.q) => line.boxes[l] = a.ring.q[l]
         /\ m.n = 0 => b.ring = a.ring /\ b.short = a.short
         /\ m.n # 0 => /\ b.ring = Get(a.ring, BoxRing, m.n)
                       /\ b.short = (a.short \/ Len(a.ring.q) < m.n)
  BY <1>2, SaveLineIs
<1>11. PICK line \in FileLine :
         /\ b.lines = Append(a.lines, line) /\ line.frame = m.frame
         /\ Len(line.boxes) = m.n
         /\ \A l \in 1..m.n : l <= Len(a.ring.q) => line.boxes[l] = a.ring.q[l]
  BY <1>10
<1> HIDE DEF n, m, N, o, p
<1>12. /\ Len(b.lines) = k + 1
       /\ \A i \in 1..k : b.lines[i] = a.lines[i]
       /\ b.lines[k + 1] = line
  <2>1. /\ Len(b.lines) = Len(a.lines) + 1
        /\ \A i \in 1..Len(a.lines) : b.lines[i] = a.lines[i]
        /\ b.lines[Len(a.lines) + 1] = line
    BY <1>9, <1>11, AppendProperties
  <2> QED BY <1>7, <2>1
<1>13. ASSUME NEW i \in 1..(k + 1)
       PROVE  b.lines[i].frame = msgs[i].frame /\ Len(b.lines[i].boxes) = msgs[i].n
  <2>1. CASE i \in 1..k BY <1>7, <1>12, <2>1
  <2>2. CASE i = k + 1 BY <1>11, <1>12, <2>2 DEF m
  <2> QED BY <2>1, <2>2
<1>14. b.short <=> p > N
  <2>1. CASE m.n = 0
    <3>1. p = o BY <1>4, <2>1
    <3>2. b.short <=> a.short BY <1>10, <2>1
    <3> QED BY <1>7, <3>1, <3>2
  <2>2. CASE m.n # 0
    <3>1. b.short <=> (a.short \/ Len(a.ring.q) < m.n) BY <1>10, <2>2
    <3>2. CASE a.short
      <4>1. o > N BY <1>7, <3>2
      <4>2. p > N BY <1>3, <1>4, <1>6, <4>1
      <4> QED BY <3>1, <3>2, <4>2
    <3>3. CASE ~a.short
      <4>1. Len(a.ring.q) = N - o BY <1>8, <3>3
      <4>2. Len(a.ring.q) < m.n <=> p > N BY <1>3, <1>4, <1>6, <4>1
      <4> QED BY <3>1, <3>3, <4>2
    <3> QED BY <3>2, <3>3
  <2> QED BY <2>1, <2>2
<1>15. ASSUME ~b.short
       PROVE  /\ ~a.short /\ p <= N
              /\ b.ring.head = (boxes.head + p) % BoxRing
              /\ Len(b.ring.q) = N - p
              /\ \A j \in 1..(N - p) : b.ring.q[j] = boxes.q[p + j]
  <2>1. p <= N BY <1>4, <1>6, <1>14, <1>15
  <2>2. ~(o > N) BY <1>3, <1>4, <1>6, <2>1
  <2>3. ~a.short BY <1>7, <2>2
  <2>4. /\ a.ring.head = (boxes.head + o) % BoxRing
        /\ Len(a.ring.q) = N - o
        /\ \A j \in 1..(N - o) : a.ring.q[j] = boxes.q[o + j]
    BY <1>8, <2>3
  <2>5. CASE m.n = 0
    <3>1. p = o /\ b.ring = a.ring BY <1>4, <1>10, <2>5
    <3> QED BY <2>1, <2>3, <2>4, <3>1
  <2>6. CASE m.n # 0
    <3>1. b.ring = Get(a.ring, BoxRing, m.n) BY <1>10, <2>6
    <3>2. m.n \in 0..Len(a.ring.q) BY <1>3, <1>4, <1>6, <2>1, <2>4
    <3>3. Taken(b.ring, a.ring, BoxRing, m.n)
      <4> DEFINE r == a.ring
                 w == m.n
      <4>1. IsRing(r, BoxRing, Box) /\ w \in 0..Len(r.q) /\ BoxRing \in Nat
        BY <1>6, <1>9, <3>2
      <4>2. b.ring = Get(r, BoxRing, w) BY <3>1
      <4> HIDE DEF r, w
      <4>3. Taken(b.ring, r, BoxRing, w) BY <4>1, <4>2, GetTakes
      <4> QED BY <4>3 DEF r, w
    <3>5. /\ b.ring.head = (a.ring.head + m.n) % BoxRing
          /\ Len(b.ring.q) = Len(a.ring.q) - m.n
          /\ \A j \in 1..(Len(a.ring.q) - m.n) : b.ring.q[j] = a.ring.q[m.n + j]
      BY <3>3 DEF Taken
    <3>7. Len(b.ring.q) = N - p BY SMTT(30), <1>3, <1>4, <1>6, <2>4, <3>5
    <3>8. ASSUME NEW j \in 1..(N - p) PROVE b.ring.q[j] = boxes.q[p + j]
      <4> DEFINE w == m.n
                 r == Len(a.ring.q)
      <4>1. w \in Nat /\ N \in Nat /\ o \in Nat /\ p = o + w /\ r = N - o /\ p <= N
        BY <1>3, <1>4, <1>6, <2>1, <2>4
      <4>2. b.ring.q[j] = a.ring.q[w + j] \/ j \notin 1..(r - w) BY <3>5
      <4>3. a.ring.q[w + j] = boxes.q[o + (w + j)] \/ (w + j) \notin 1..(N - o) BY <2>4
      <4> HIDE DEF w, r
      <4>4. j \in 1..(r - w) /\ (w + j) \in 1..(N - o) /\ o + (w + j) = p + j BY <4>1
      <4> QED BY <4>2, <4>3, <4>4
    <3>9. (a.ring.head + m.n) % BoxRing = (boxes.head + p) % BoxRing
      <4> DEFINE h == boxes.head
                 w == m.n
                 size == BoxRing
      <4>1. /\ size \in Nat /\ h \in 0..(size - 1) /\ p \in 0..size /\ o \in 0..p
            /\ p - o = w
        BY <1>3, <1>4, <1>5, <1>6, <2>1
      <4>2. (((h + o) % size) + (p - o)) % size = (h + p) % size
        <5> HIDE DEF h, w, size
        <5> QED BY <4>1, HeadMoves
      <4> QED BY <2>4, <4>1, <4>2
    <3> QED BY <2>1, <2>3, <3>5, <3>7, <3>8, <3>9
  <2> QED BY <2>5, <2>6
<1>16. ASSUME ~b.short, NEW i \in 1..(k + 1), NEW l \in 1..msgs[i].n
       PROVE  b.lines[i].boxes[l] = boxes.q[off[i - 1] + l]
  <2>1. CASE i \in 1..k
    <3>1. ~a.short BY <1>15, <1>16
    <3>2. a.lines[i].boxes[l] = boxes.q[off[i - 1] + l] BY <1>8, <2>1, <3>1
    <3> QED BY <1>12, <2>1, <3>2
  <2>2. CASE i = k + 1
    <3>1. ~a.short /\ p <= N BY <1>15, <1>16
    <3>2. Len(a.ring.q) = N - o /\ \A j \in 1..(N - o) : a.ring.q[j] = boxes.q[o + j]
      BY <1>8, <3>1
    <3>3. l \in 1..m.n BY <2>2 DEF m
    <3>4. l <= Len(a.ring.q) /\ l \in 1..(N - o)
      BY <1>3, <1>4, <1>6, <3>1, <3>2, <3>3
    <3>5. line.boxes[l] = a.ring.q[l] BY <1>11, <3>3, <3>4
    <3>6. off[i - 1] = o BY <1>1, <2>2 DEF o
    <3> QED BY <1>12, <2>2, <3>2, <3>4, <3>5, <3>6
  <2> QED BY <2>1, <2>2
<1>17. ~b.short => Taken(b.ring, boxes, BoxRing, p) BY <1>15 DEF Taken, N
<1>18. SavedTo(b, msgs, off, k + 1)
  BY <1>12, <1>13, <1>14, <1>16, <1>17 DEF SavedTo, p, N
<1> QED BY <1>10, <1>18 DEF m

\* All messages saved.
LEMMA SavedIs ==
  ASSUME NEW msgs \in Seq(Messages), IsRing(boxes, BoxRing, Box),
         NEW off, IsUpto(off, Len(msgs), Counts(msgs))
  PROVE  Saved(msgs) \in Savings /\ SavedTo(Saved(msgs), msgs, off, Len(msgs))
<1> DEFINE n == Len(msgs)
<1>1. PICK f \in [0..n -> Savings] :
        /\ f[0] = Saving
        /\ \A k \in 1..n : f[k] = SaveLine(f[k - 1], msgs[k])
        /\ Saved(msgs) = f[n]
  BY SavedBy
<1>2. n \in Nat BY LenProperties
<1> DEFINE S == {k \in Nat : k <= n => SavedTo(f[k], msgs, off, k)}
<1>3. 0 \in S BY <1>1, SavedToNone
<1>4. ASSUME NEW k \in Nat, k \in S PROVE k + 1 \in S
  <2> SUFFICES ASSUME k + 1 <= n PROVE SavedTo(f[k + 1], msgs, off, k + 1) OBVIOUS
  <2>1. SavedTo(f[k], msgs, off, k) BY <1>2, <1>4
  <2>2. f[k + 1] = SaveLine(f[k], msgs[k + 1])
    <3>1. k + 1 \in 1..n /\ (k + 1) - 1 = k BY <1>2
    <3> QED BY <1>1, <3>1
  <2>3. f[k] \in Savings
    <3>1. k \in 0..n BY <1>2
    <3> QED BY <1>1, <3>1
  <2> QED BY <2>1, <2>2, <2>3, SavedToMore
<1>5. Nat \subseteq S
  <2> HIDE DEF S
  <2> QED BY <1>3, <1>4, StepInduction
<1>6. SavedTo(f[n], msgs, off, n) BY <1>2, <1>5
<1>7. f[n] \in Savings
  <2>1. n \in 0..n BY <1>2
  <2> QED BY <1>1, <2>1
<1> QED BY <1>1, <1>6, <1>7

-----------------------------------------------------------------------------
(* Reading back                                                            *)

Readings == {a \in [ring : [head : 0..(BoxRing - 1), q : Seq(Box)], msgs : Seq(Messages)] :
               Len(a.ring.q) <= BoxRing}

LineSizes(lines)  == [i \in 1..Len(lines) |-> Len(lines[i].boxes)]

\* What is read back from the first k lines, the boxes only where they all fit.
ReadTo(a, off, k) ==
  /\ Len(a.msgs) = k
  /\ \A i \in 1..k : /\ a.msgs[i].type = "TRACKING" /\ a.msgs[i].frame = file[i].frame
                     /\ a.msgs[i].n = Len(file[i].boxes) /\ a.msgs[i].img = None
                     /\ a.msgs[i].addr # None
  /\ a.ring.head = 0
  /\ off[Len(file)] <= BoxRing =>
       /\ Len(a.ring.q) = off[k]
       /\ \A i \in 1..k : a.msgs[i].addr = off[i - 1] % BoxRing
       /\ \A i \in 1..k : \A l \in 1..Len(file[i].boxes) :
            a.ring.q[off[i - 1] + l] = file[i].boxes[l]

LEMMA ReadingsAre ==
  ASSUME NEW a \in Readings
  PROVE  /\ IsRing(a.ring, BoxRing, Box) /\ a.msgs \in Seq(Messages)
         /\ a.ring.head \in 0..(BoxRing - 1) /\ a.ring.q \in Seq(Box) /\ Len(a.ring.q) \in Nat
         /\ Len(a.ring.q) <= BoxRing
<1>1. /\ a.ring \in [head : 0..(BoxRing - 1), q : Seq(Box)] /\ Len(a.ring.q) <= BoxRing
      /\ a.msgs \in Seq(Messages)
  BY DEF Readings
<1>2. a.ring.q \in Seq(Box) /\ a.ring.head \in 0..(BoxRing - 1) BY <1>1
<1> QED BY <1>1, <1>2, LenProperties DEF IsRing

LEMMA PlaceIs ==
  ASSUME NEW S, NEW size \in Nat, NEW ring, IsRing(ring, size, S)
  PROVE  Place(ring, size) = (ring.head + Len(ring.q)) % size /\ Place(ring, size) \in 0..(size - 1)
<1>1. ring.head \in 0..(size - 1) /\ ring.q \in Seq(S) BY DEF IsRing
<1>2. Len(ring.q) \in Nat BY <1>1, LenProperties
<1> DEFINE x == ring.head + Len(ring.q)
<1>3. x \in Nat /\ size > 0 BY <1>1, <1>2
<1>4. Place(ring, size) = x % size BY DEF Place
<1> HIDE DEF x
<1>5. x % size \in 0..(size - 1) BY <1>3
<1> QED BY <1>4, <1>5 DEF x

\* The message a line adds.
LEMMA ReadLineIs ==
  ASSUME NEW a \in Readings, NEW line \in FileLine, Len(line.boxes) <= MaxBoxes
  PROVE  /\ ReadLine(a, line) \in Readings
         /\ ReadLine(a, line).ring = Put(a.ring, BoxRing, line.boxes)
         /\ ReadLine(a, line).msgs =
              Append(a.msgs, Message("TRACKING", line.frame, Len(line.boxes),
                                     Place(a.ring, BoxRing), None))
         /\ Message("TRACKING", line.frame, Len(line.boxes), Place(a.ring, BoxRing), None)
              \in Messages
<1>1. /\ IsRing(a.ring, BoxRing, Box) /\ a.msgs \in Seq(Messages) BY ReadingsAre
<1>2. line.frame \in 1..MaxFrames /\ line.boxes \in Seq(Box) BY DEF FileLine
<1>3. Len(line.boxes) \in 0..MaxBoxes /\ BoxRing \in Nat
  <2>1. Len(line.boxes) \in Nat BY <1>2, LenProperties
  <2> QED BY <2>1, Sizes
<1>4. Place(a.ring, BoxRing) \in Address(BoxRing)
  <2>1. Place(a.ring, BoxRing) \in 0..(BoxRing - 1) BY <1>1, <1>3, PlaceIs
  <2> QED BY <2>1 DEF Address
<1> DEFINE m == Message("TRACKING", line.frame, Len(line.boxes), Place(a.ring, BoxRing), None)
           ring == Put(a.ring, BoxRing, line.boxes)
           b == [ring |-> ring, msgs |-> Append(a.msgs, m)]
<1>5. m \in Messages
  <2>1. None \in Address(ImageRing) BY DEF Address
  <2> QED BY <1>2, <1>3, <1>4, <2>1 DEF Message, Messages
<1>6. IsRing(ring, BoxRing, Box) BY <1>1, <1>2, <1>3, PutAdds
<1>7. ReadLine(a, line) = b BY DEF ReadLine
<1> HIDE DEF m, ring
<1>8. Append(a.msgs, m) \in Seq(Messages) BY <1>1, <1>5, AppendProperties
<1>9. ring \in [head : 0..(BoxRing - 1), q : Seq(Box)] /\ Len(ring.q) <= BoxRing
  BY <1>6 DEF IsRing
<1>10. b \in Readings BY <1>8, <1>9 DEF Readings
<1>11. b.ring = ring /\ b.msgs = Append(a.msgs, m) OBVIOUS
<1> QED BY <1>5, <1>7, <1>10, <1>11 DEF m, ring

LEMMA ReadBackBy ==
  ASSUME file \in Seq(FileLine), ShortLines(file)
  PROVE  \E f \in [0..Len(file) -> Readings] :
           /\ f[0] = [ring |-> Empty, msgs |-> <<>>]
           /\ \A k \in 1..Len(file) : f[k] = ReadLine(f[k - 1], file[k])
           /\ ReadBack = f[Len(file)]
<1> DEFINE n == Len(file)
           base == [ring |-> Empty, msgs |-> <<>>]
           IsF(g) == g = [k \in 0..n |-> IF k = 0 THEN [ring |-> Empty, msgs |-> <<>>]
                                         ELSE ReadLine(g[k - 1], file[k])]
           f == CHOOSE g : IsF(g)
           rule == [p \in (1..n) \X Readings |-> ReadLine(p[2], file[p[1]])]
<1>1. n \in Nat BY LenProperties
<1>2. base \in Readings
  <2>1. <<>> \in Seq(Box) /\ <<>> \in Seq(Messages) /\ Len(<<>>) = 0 BY EmptySeq
  <2>2. 0 \in 0..(BoxRing - 1) /\ 0 <= BoxRing BY Sizes
  <2>3. Empty \in [head : 0..(BoxRing - 1), q : Seq(Box)] /\ Empty.q = <<>>
    BY <2>1, <2>2 DEF Empty
  <2> QED BY <2>1, <2>2, <2>3 DEF Readings
<1>a. ASSUME NEW k \in 1..n PROVE file[k] \in FileLine /\ Len(file[k].boxes) <= MaxBoxes
  <2>1. file[k] \in FileLine BY ElementOfSeq
  <2> QED BY <2>1 DEF ShortLines
<1>3. ASSUME NEW p \in (1..n) \X Readings PROVE ReadLine(p[2], file[p[1]]) \in Readings
  <2>1. p[1] \in 1..n /\ p[2] \in Readings BY <1>3
  <2>2. file[p[1]] \in FileLine /\ Len(file[p[1]].boxes) <= MaxBoxes BY <1>a, <2>1
  <2> QED BY <2>1, <2>2, ReadLineIs
<1>4. rule \in [(1..n) \X Readings -> Readings] BY <1>3
<1>5. \A p \in (1..n) \X Readings : rule[p] = ReadLine(p[2], file[p[1]]) OBVIOUS
<1> HIDE DEF rule, base
<1>6. PICK g \in [0..n -> Readings] : Unfolds(g, n, base, rule)
  <2> HIDE DEF n
  <2> QED BY <1>1, <1>2, <1>4, UnfoldsExists
<1>7. ASSUME NEW k \in 0..n
      PROVE  g[k] = IF k = 0 THEN base ELSE ReadLine(g[k - 1], file[k])
  <2>1. CASE k = 0 BY <1>6, <2>1 DEF Unfolds
  <2>2. CASE k # 0
    <3>1. k \in 1..n /\ k - 1 \in 0..n BY <1>1, <2>2
    <3>2. g[k] = rule[<<k, g[k - 1]>>] BY <1>6, <2>2 DEF Unfolds
    <3>3. <<k, g[k - 1]>> \in (1..n) \X Readings BY <1>6, <3>1
    <3>4. rule[<<k, g[k - 1]>>] = ReadLine(g[k - 1], file[k]) BY <1>5, <3>3
    <3> QED BY <2>2, <3>2, <3>4
  <2> QED BY <2>1, <2>2
<1>8. IsF(g)
  <2> HIDE DEF n
  <2> QED BY <1>6, <1>7 DEF base
<1>9. IsF(f) BY <1>8
<1>10. ReadBack = f[n] BY DEF ReadBack
<1> HIDE DEF f
<1>11. f = [k \in 0..n |-> IF k = 0 THEN base ELSE ReadLine(f[k - 1], file[k])]
  BY <1>9 DEF base
<1> HIDE DEF n, IsF
<1>12. f[0] = base BY <1>1, <1>11
<1>13. ASSUME NEW k \in 1..n PROVE f[k] = ReadLine(f[k - 1], file[k])
  <2>1. k \in 0..n /\ k # 0 BY <1>1
  <2> QED BY <1>11, <2>1
<1>14. \A k \in 0..n : f[k] \in Readings
  <2> DEFINE S == {k \in Nat : k <= n => f[k] \in Readings}
  <2>1. 0 \in S BY <1>2, <1>12
  <2>2. ASSUME NEW k \in Nat, k \in S PROVE k + 1 \in S
    <3> SUFFICES ASSUME k + 1 <= n PROVE f[k + 1] \in Readings OBVIOUS
    <3>1. f[k] \in Readings /\ k + 1 \in 1..n /\ (k + 1) - 1 = k BY <1>1, <2>2
    <3>2. f[k + 1] = ReadLine(f[k], file[k + 1]) BY <1>13, <3>1
    <3>3. file[k + 1] \in FileLine /\ Len(file[k + 1].boxes) <= MaxBoxes BY <1>a, <3>1
    <3> QED BY <3>1, <3>2, <3>3, ReadLineIs
  <2>3. Nat \subseteq S
    <3> HIDE DEF S
    <3> QED BY <2>1, <2>2, StepInduction
  <2> QED BY <1>1, <2>3
<1>15. f \in [0..n -> Readings] BY <1>11, <1>14
<1> QED BY <1>10, <1>12, <1>13, <1>15 DEF n, base

LEMMA ReadToNone ==
  ASSUME file \in Seq(FileLine), NEW off, IsUpto(off, Len(file), LineSizes(file))
  PROVE  ReadTo([ring |-> Empty, msgs |-> <<>>], off, 0)
<1>1. off[0] = 0 BY DEF IsUpto
<1>2. Len(<<>>) = 0 BY EmptySeq
<1>3. \A i \in 1..0 : FALSE OBVIOUS
<1> QED BY <1>1, <1>2, <1>3 DEF ReadTo, Empty

LEMMA ReadToMore ==
  ASSUME file \in Seq(FileLine), ShortLines(file),
         NEW off, IsUpto(off, Len(file), LineSizes(file)),
         NEW k \in Nat, k + 1 <= Len(file), NEW a \in Readings, ReadTo(a, off, k)
  PROVE  ReadTo(ReadLine(a, file[k + 1]), off, k + 1)
<1> DEFINE n == Len(file)
           line == file[k + 1]
           w == Len(line.boxes)
           o == off[k]
           p == off[k + 1]
           m == Message("TRACKING", line.frame, w, Place(a.ring, BoxRing), None)
           b == ReadLine(a, line)
           fits == off[n] <= BoxRing
<1>1. n \in Nat /\ k + 1 \in 1..n /\ (k + 1) - 1 = k /\ k \in 0..n /\ k + 1 \in 0..n /\ n \in 0..n
  BY LenProperties
<1>2. line \in FileLine BY <1>1, ElementOfSeq
<1>3. line.boxes \in Seq(Box) /\ line.frame \in 1..MaxFrames BY <1>2 DEF FileLine
<1>4. w \in Nat /\ w <= MaxBoxes
  <2>1. w \in Nat BY <1>3, LenProperties
  <2> QED BY <1>1, <2>1 DEF ShortLines
<1>5. o \in Nat /\ p \in Nat /\ p = o + w /\ off[n] \in Nat /\ p <= off[n]
  <2>1. off \in [0..n -> Nat] BY DEF IsUpto
  <2>2. off[k + 1] = off[(k + 1) - 1] + LineSizes(file)[k + 1] BY <1>1 DEF IsUpto
  <2>3. LineSizes(file)[k + 1] = w BY <1>1 DEF LineSizes
  <2>4. \A i, j \in 0..n : i <= j => off[i] <= off[j] BY <1>1, UptoRises
  <2> QED BY <1>1, <2>1, <2>2, <2>3, <2>4
<1>6. /\ b \in Readings
      /\ b.ring = Put(a.ring, BoxRing, line.boxes)
      /\ b.msgs = Append(a.msgs, m)
      /\ m \in Messages
  BY <1>2, <1>4, ReadLineIs
<1>7. /\ IsRing(a.ring, BoxRing, Box) /\ a.msgs \in Seq(Messages)
      /\ Len(a.ring.q) \in Nat /\ a.ring.q \in Seq(Box)
  BY ReadingsAre
<1>8. /\ Len(a.msgs) = k /\ a.ring.head = 0
      /\ \A i \in 1..k : /\ a.msgs[i].type = "TRACKING" /\ a.msgs[i].frame = file[i].frame
                         /\ a.msgs[i].n = Len(file[i].boxes) /\ a.msgs[i].img = None
                         /\ a.msgs[i].addr # None
  BY DEF ReadTo
<1>9. fits => /\ Len(a.ring.q) = o
              /\ \A i \in 1..k : a.msgs[i].addr = off[i - 1] % BoxRing
              /\ \A i \in 1..k : \A l \in 1..Len(file[i].boxes) :
                   a.ring.q[off[i - 1] + l] = file[i].boxes[l]
  BY DEF ReadTo
<1>10. /\ m.type = "TRACKING" /\ m.frame = line.frame /\ m.n = w /\ m.img = None
       /\ m.addr = Place(a.ring, BoxRing)
  BY DEF Message
<1>11. BoxRing \in Nat BY Sizes
<1> HIDE DEF n, w, o, p, m, b
<1>b. m.addr # None BY <1>7, <1>10, <1>11, PlaceIs, Sizes
<1>12. /\ Len(b.msgs) = k + 1
       /\ \A i \in 1..k : b.msgs[i] = a.msgs[i]
       /\ b.msgs[k + 1] = m
  <2>1. /\ Len(b.msgs) = Len(a.msgs) + 1
        /\ \A i \in 1..Len(a.msgs) : b.msgs[i] = a.msgs[i]
        /\ b.msgs[Len(a.msgs) + 1] = m
    BY <1>6, <1>7, AppendProperties
  <2> QED BY <1>8, <2>1
<1>13. ASSUME NEW i \in 1..(k + 1)
       PROVE  /\ b.msgs[i].type = "TRACKING" /\ b.msgs[i].frame = file[i].frame
              /\ b.msgs[i].n = Len(file[i].boxes) /\ b.msgs[i].img = None
              /\ b.msgs[i].addr # None
  <2>1. CASE i \in 1..k BY <1>8, <1>12, <2>1
  <2>2. CASE i = k + 1 BY <1>10, <1>b, <1>12, <2>2 DEF w
  <2> QED BY <2>1, <2>2
<1>15. b.ring.head = 0
  <2>1. a.ring \in [head : 0..(BoxRing - 1), q : Seq(Box)] BY <1>7 DEF IsRing
  <2> DEFINE t == a.ring.q \o SubSeq(line.boxes, 1, Min({Len(line.boxes), Room(a.ring, BoxRing)}))
  <2>2. b.ring = [a.ring EXCEPT !.q = t] BY <1>6 DEF Put
  <2> HIDE DEF t
  <2>3. b.ring.head = a.ring.head BY <2>1, <2>2
  <2> QED BY <1>8, <2>3
<1>16. ASSUME fits
       PROVE  /\ Len(b.ring.q) = p
              /\ \A i \in 1..Len(a.ring.q) : b.ring.q[i] = a.ring.q[i]
              /\ \A l \in 1..w : b.ring.q[o + l] = line.boxes[l]
              /\ m.addr = o % BoxRing
  <2>1. Len(a.ring.q) = o BY <1>9, <1>16
  <2>2. Len(a.ring.q) + w <= BoxRing BY <1>5, <1>11, <1>16, <2>1
  <2>3. Added(b.ring, a.ring, line.boxes)
    <3>1. Len(a.ring.q) + Len(line.boxes) <= BoxRing BY <2>2 DEF w
    <3> HIDE DEF line, fits
    <3> QED BY <1>3, <1>6, <1>7, <1>11, <3>1, PutFits
  <2>4. /\ Len(b.ring.q) = Len(a.ring.q) + w
        /\ \A i \in 1..Len(a.ring.q) : b.ring.q[i] = a.ring.q[i]
        /\ \A l \in 1..w : b.ring.q[Len(a.ring.q) + l] = line.boxes[l]
    BY <2>3 DEF Added, w
  <2>5. m.addr = (a.ring.head + Len(a.ring.q)) % BoxRing BY <1>7, <1>10, <1>11, PlaceIs
  <2>6. a.ring.head + Len(a.ring.q) = o BY <1>5, <1>8, <2>1
  <2> QED BY <1>5, <2>1, <2>4, <2>5, <2>6
<1>17. ASSUME fits, NEW i \in 1..(k + 1)
       PROVE  b.msgs[i].addr = off[i - 1] % BoxRing
  <2>1. CASE i \in 1..k BY <1>9, <1>12, <1>17, <2>1
  <2>2. CASE i = k + 1
    <3>1. off[i - 1] = o BY <1>1, <2>2 DEF o
    <3> QED BY <1>12, <1>16, <1>17, <2>2, <3>1
  <2> QED BY <2>1, <2>2
<1>18. ASSUME fits, NEW i \in 1..(k + 1), NEW l \in 1..Len(file[i].boxes)
       PROVE  b.ring.q[off[i - 1] + l] = file[i].boxes[l]
  <2>1. CASE i \in 1..k
    <3>1. a.ring.q[off[i - 1] + l] = file[i].boxes[l] BY <1>9, <1>18, <2>1
    <3>2. off[i - 1] + l \in 1..Len(a.ring.q)
      <4>1. i \in 1..n /\ i - 1 \in 0..n /\ i \in 0..n /\ i <= k BY <1>1, <2>1
      <4>2. off \in [0..n -> Nat] BY DEF IsUpto, n
      <4>3. off[i] = off[i - 1] + LineSizes(file)[i] BY <4>1 DEF IsUpto, n
      <4>4. LineSizes(file)[i] = Len(file[i].boxes) BY <4>1 DEF LineSizes, n
      <4>5. off[i] <= o
        <5>1. \A x, y \in 0..n : x <= y => off[x] <= off[y] BY <1>1, UptoRises DEF n
        <5> QED BY <1>1, <4>1, <5>1 DEF o
      <4>6. Len(a.ring.q) = o BY <1>9, <1>18
      <4>7. Len(file[i].boxes) \in Nat
        <5>1. LineSizes(file) \in [1..n -> Nat] BY DEF IsUpto, n
        <5> QED BY <4>1, <4>4, <5>1
      <4>8. off[i - 1] \in Nat /\ off[i] \in Nat BY <4>1, <4>2
      <4> DEFINE x == off[i - 1]
                 y == off[i]
                 c == Len(file[i].boxes)
                 r == Len(a.ring.q)
      <4>9. /\ x \in Nat /\ y \in Nat /\ c \in Nat /\ y = x + c /\ y <= o /\ r = o
            /\ l \in 1..c
        BY <4>3, <4>4, <4>5, <4>6, <4>7, <4>8
      <4> HIDE DEF x, y, c, r
      <4>10. x + l \in 1..r BY <1>5, <4>9
      <4> QED BY <4>10 DEF x, r
    <3> QED BY <1>16, <1>18, <3>1, <3>2
  <2>2. CASE i = k + 1
    <3>1. off[i - 1] = o BY <1>1, <2>2 DEF o
    <3>2. l \in 1..w BY <2>2 DEF w
    <3> QED BY <1>16, <1>18, <2>2, <3>1, <3>2
  <2> QED BY <2>1, <2>2
<1>19. ReadTo(b, off, k + 1)
  <2>1. fits => Len(b.ring.q) = off[k + 1] BY <1>16 DEF p
  <2> HIDE DEF line
  <2> QED BY <1>12, <1>13, <1>15, <1>17, <1>18, <2>1 DEF ReadTo, n
<1> QED BY <1>19 DEF b

LEMMA ReadBackIs ==
  ASSUME file \in Seq(FileLine), ShortLines(file),
         NEW off, IsUpto(off, Len(file), LineSizes(file))
  PROVE  ReadBack \in Readings /\ ReadTo(ReadBack, off, Len(file))
<1> DEFINE n == Len(file)
<1>1. PICK f \in [0..n -> Readings] :
        /\ f[0] = [ring |-> Empty, msgs |-> <<>>]
        /\ \A k \in 1..n : f[k] = ReadLine(f[k - 1], file[k])
        /\ ReadBack = f[n]
  BY ReadBackBy
<1>2. n \in Nat BY LenProperties
<1> DEFINE S == {k \in Nat : k <= n => ReadTo(f[k], off, k)}
<1>3. 0 \in S BY <1>1, ReadToNone
<1>4. ASSUME NEW k \in Nat, k \in S PROVE k + 1 \in S
  <2> SUFFICES ASSUME k + 1 <= n PROVE ReadTo(f[k + 1], off, k + 1) OBVIOUS
  <2>1. ReadTo(f[k], off, k) BY <1>2, <1>4
  <2>2. f[k + 1] = ReadLine(f[k], file[k + 1])
    <3>1. k + 1 \in 1..n /\ (k + 1) - 1 = k BY <1>2
    <3> QED BY <1>1, <3>1
  <2>3. f[k] \in Readings
    <3>1. k \in 0..n BY <1>2
    <3> QED BY <1>1, <3>1
  <2> QED BY <2>1, <2>2, <2>3, ReadToMore
<1>5. Nat \subseteq S
  <2> HIDE DEF S
  <2> QED BY <1>3, <1>4, StepInduction
<1>6. ReadTo(f[n], off, n) BY <1>2, <1>5
<1>7. f[n] \in Readings
  <2>1. n \in 0..n BY <1>2
  <2> QED BY <1>1, <2>1
<1> QED BY <1>1, <1>6, <1>7

LEMMA LineSizesAre ==
  ASSUME NEW lines \in Seq(FileLine)
  PROVE  /\ Len(lines) \in Nat /\ LineSizes(lines) \in [1..Len(lines) -> Nat]
         /\ \E off : IsUpto(off, Len(lines), LineSizes(lines))
<1>1. Len(lines) \in Nat BY LenProperties
<1>2. ASSUME NEW i \in 1..Len(lines) PROVE Len(lines[i].boxes) \in Nat
  <2>1. lines[i] \in FileLine BY ElementOfSeq
  <2>2. lines[i].boxes \in Seq(Box) BY <2>1 DEF FileLine
  <2> QED BY <2>2, LenProperties
<1>3. LineSizes(lines) \in [1..Len(lines) -> Nat] BY <1>2 DEF LineSizes
<1> QED BY <1>1, <1>3, UptoExists

LEMMA NumbersAre ==
  ASSUME NEW msgs \in Seq(Messages)
  PROVE  /\ Len(msgs) \in Nat /\ Counts(msgs) \in [1..Len(msgs) -> Nat]
         /\ \E off : IsUpto(off, Len(msgs), Counts(msgs))
<1>1. Len(msgs) \in Nat BY LenProperties
<1>2. ASSUME NEW i \in 1..Len(msgs) PROVE msgs[i].n \in Nat
  <2>1. msgs[i] \in Messages BY ElementOfSeq
  <2> QED BY <2>1, MessageIs, Sizes
<1>3. Counts(msgs) \in [1..Len(msgs) -> Nat] BY <1>2 DEF Counts
<1> QED BY <1>1, <1>3, UptoExists

-----------------------------------------------------------------------------
(* Types and places, step by step                                          *)

LEMMA RingsAre ==
  ASSUME UploadTypeOK
  PROVE  /\ IsRing(boxes, BoxRing, Box) /\ IsRing(images, ImageRing, 1..MaxFrames)
         /\ boxes.q \in Seq(Box) /\ images.q \in Seq(1..MaxFrames)
         /\ Len(boxes.q) \in Nat /\ Len(images.q) \in Nat
         /\ boxes.head \in 0..(BoxRing - 1) /\ images.head \in 0..(ImageRing - 1)
         /\ BoxRing \in Nat /\ ImageRing \in Nat
<1>1. /\ boxes \in [head : 0..(BoxRing - 1), q : Seq(Box)] /\ Len(boxes.q) <= BoxRing
      /\ images \in [head : 0..(ImageRing - 1), q : Seq(1..MaxFrames)]
      /\ Len(images.q) <= ImageRing
  BY DEF UploadTypeOK
<1>2. /\ boxes.q \in Seq(Box) /\ images.q \in Seq(1..MaxFrames)
      /\ boxes.head \in 0..(BoxRing - 1) /\ images.head \in 0..(ImageRing - 1)
  BY <1>1
<1> QED BY <1>1, <1>2, Sizes, LenProperties DEF IsRing

LEMMA ShapeLine ==
  ASSUME Shape, NEW i \in 1..Len(Line)
  PROVE  Line[i].type = Kind /\ (Line[i].n > 0 => Line[i].addr # None)
<1>1. Alike BY DEF Shape
<1> QED BY <1>1 DEF Alike

LEMMA SendTypes ==
  ASSUME UploadTypeOK, Send
  PROVE  UploadTypeOK'
<1>1. queue \in Seq(Messages) /\ inflight \in Seq(Messages)
        /\ Len(queue) + Len(inflight) < QueueSize
  BY DEF UploadTypeOK
<1>2. Len(queue) \in Nat /\ Len(inflight) \in Nat BY <1>1, LenProperties
<1>3. queue \o inflight \in Seq(Messages) /\ Len(queue \o inflight) = Len(queue) + Len(inflight)
  BY <1>1, ConcatProperties
<1>4. queue' = queue \o inflight /\ inflight' = <<>> BY DEF Send
<1>5. Len(<<>>) = 0 /\ <<>> \in Seq(Messages) BY EmptySeq
<1>6. /\ queue' \in Seq(Messages) /\ inflight' \in Seq(Messages) /\ Len(inflight') <= 1
      /\ Len(queue') + Len(inflight') < QueueSize
  BY <1>1, <1>2, <1>3, <1>4, <1>5
<1> QED BY <1>6 DEF UploadTypeOK, Send, ringVars

\* A message put in flight.
LEMMA InFlight ==
  ASSUME NEW m \in Messages
  PROVE  <<m>> \in Seq(Messages) /\ Len(<<m>>) = 1 /\ <<m>>[1] = m
OBVIOUS

LEMMA AddTrackingTypes ==
  ASSUME UploadTypeOK, AddTracking
  PROVE  /\ UploadTypeOK'
         /\ \E m \in Messages : /\ inflight' = <<m>> /\ m.type = "TRACKING" /\ m.frame = frames + 1
                                /\ m.n > 0 => m.addr # None
<1> DEFINE f == frames + 1
<1>1. PICK n \in 0..MaxBoxes, jpg \in BOOLEAN :
        LET taken == jpg /\ Room(images, ImageRing) > 0
        IN  /\ Room(boxes, BoxRing) >= n
            /\ frames' = f
            /\ boxes' = Put(boxes, BoxRing, BoxesOf(f, n))
            /\ images' = IF taken THEN Put(images, ImageRing, <<f>>) ELSE images
            /\ inflight' = <<Message("TRACKING", f, n,
                  IF n > 0 THEN Place(boxes, BoxRing) ELSE None,
                  IF taken THEN Place(images, ImageRing) ELSE None)>>
  BY DEF AddTracking
<1>2. frames \in 0..MaxFrames /\ frames < MaxFrames /\ MaxFrames \in Nat
  BY Sizes DEF UploadTypeOK, AddTracking, MayAdd
<1>3. f \in 1..MaxFrames /\ f \in 0..MaxFrames BY <1>2
<1>4. BoxesOf(f, n) \in Seq(Box)
  <2> HIDE DEF f
  <2> QED BY <1>3, BoxesOfIs
<1>5. /\ IsRing(boxes, BoxRing, Box) /\ IsRing(images, ImageRing, 1..MaxFrames)
      /\ BoxRing \in Nat /\ ImageRing \in Nat
  BY RingsAre
<1> DEFINE taken == jpg /\ Room(images, ImageRing) > 0
           pb == Place(boxes, BoxRing)
           pi == Place(images, ImageRing)
           ab == IF n > 0 THEN pb ELSE None
           ai == IF taken THEN pi ELSE None
           m == Message("TRACKING", f, n, ab, ai)
<1>6. /\ boxes' = Put(boxes, BoxRing, BoxesOf(f, n))
      /\ images' = IF taken THEN Put(images, ImageRing, <<f>>) ELSE images
      /\ inflight' = <<m>> /\ frames' = f
  BY <1>1
<1>7. pb \in 0..(BoxRing - 1) /\ pi \in 0..(ImageRing - 1) BY <1>5, PlaceIs
<1> HIDE DEF taken, pb, pi, f
<1>8. ab \in Address(BoxRing) /\ ai \in Address(ImageRing) BY <1>7 DEF Address
<1>9. n > 0 => ab # None BY <1>7, <1>5, Sizes
<1> HIDE DEF ab, ai
<1>10. m \in Messages BY <1>3, <1>8 DEF Message, Messages
<1>11. m.type = "TRACKING" /\ m.frame = f /\ (m.n > 0 => m.addr # None)
  BY <1>9 DEF Message
<1> HIDE DEF m
<1>12. IsRing(boxes', BoxRing, Box)
  <2>1. IsRing(Put(boxes, BoxRing, BoxesOf(f, n)), BoxRing, Box) BY <1>4, <1>5, PutAdds
  <2> QED BY <1>6, <2>1
<1>13. IsRing(images', ImageRing, 1..MaxFrames)
  <2>1. <<f>> \in Seq(1..MaxFrames) BY <1>3
  <2>2. IsRing(Put(images, ImageRing, <<f>>), ImageRing, 1..MaxFrames) BY <1>5, <2>1, PutAdds
  <2> QED BY <1>5, <1>6, <2>2
<1>14. /\ inflight' \in Seq(Messages) /\ Len(inflight') = 1 BY <1>6, <1>10, InFlight
<1>15. /\ queue' = queue /\ queue \in Seq(Messages) /\ QueueSize - Len(queue) >= 2
  BY DEF AddTracking, MayAdd, UploadTypeOK
<1>16. Len(queue') + Len(inflight') < QueueSize
  <2>1. Len(queue) \in Nat /\ QueueSize \in Nat BY <1>15, Sizes, LenProperties
  <2> QED BY <1>14, <1>15, <2>1
<1>17. /\ boxes' \in [head : 0..(BoxRing - 1), q : Seq(Box)] /\ Len(boxes'.q) <= BoxRing
       /\ images' \in [head : 0..(ImageRing - 1), q : Seq(1..MaxFrames)]
       /\ Len(images'.q) <= ImageRing
  BY <1>12, <1>13 DEF IsRing
<1>18. frames' \in 0..MaxFrames /\ Len(inflight') <= 1 BY <1>3, <1>6, <1>14
<1>19. UploadTypeOK'
  BY <1>14, <1>15, <1>16, <1>17, <1>18 DEF UploadTypeOK, AddTracking
<1> QED BY <1>6, <1>10, <1>11, <1>19 DEF f

LEMMA AddImageTypes ==
  ASSUME UploadTypeOK, AddImage
  PROVE  /\ UploadTypeOK'
         /\ \E m \in Messages : /\ inflight' = <<m>> /\ m.type = "IMAGE" /\ m.frame = frames + 1
                                /\ m.n = 0
<1> DEFINE f == frames + 1
           pi == Place(images, ImageRing)
           m == Message("IMAGE", f, 0, None, pi)
<1>1. /\ frames' = f /\ images' = Put(images, ImageRing, <<f>>) /\ inflight' = <<m>>
  BY DEF AddImage
<1>2. frames \in 0..MaxFrames /\ frames < MaxFrames /\ MaxFrames \in Nat
  BY Sizes DEF UploadTypeOK, AddImage, MayAdd
<1>3. f \in 1..MaxFrames /\ f \in 0..MaxFrames BY <1>2
<1>4. IsRing(images, ImageRing, 1..MaxFrames) /\ ImageRing \in Nat BY RingsAre
<1>5. pi \in 0..(ImageRing - 1) BY <1>4, PlaceIs
<1> HIDE DEF f, pi
<1>6. m \in Messages
  <2>1. 0 \in 0..MaxBoxes BY Sizes
  <2> QED BY <1>3, <1>5, <2>1 DEF Message, Messages, Address
<1>7. m.type = "IMAGE" /\ m.frame = f /\ m.n = 0 BY DEF Message
<1> HIDE DEF m
<1>8. IsRing(images', ImageRing, 1..MaxFrames)
  <2>1. <<f>> \in Seq(1..MaxFrames) BY <1>3
  <2>2. IsRing(Put(images, ImageRing, <<f>>), ImageRing, 1..MaxFrames) BY <1>4, <2>1, PutAdds
  <2> QED BY <1>1, <2>2
<1>9. inflight' \in Seq(Messages) /\ Len(inflight') = 1 BY <1>1, <1>6, InFlight
<1>10. /\ queue' = queue /\ queue \in Seq(Messages) /\ QueueSize - Len(queue) >= 2
  BY DEF AddImage, MayAdd, UploadTypeOK
<1>11. Len(queue') + Len(inflight') < QueueSize
  <2>1. Len(queue) \in Nat /\ QueueSize \in Nat BY <1>10, Sizes, LenProperties
  <2> QED BY <1>9, <1>10, <2>1
<1>12. /\ images' \in [head : 0..(ImageRing - 1), q : Seq(1..MaxFrames)]
       /\ Len(images'.q) <= ImageRing
  BY <1>8 DEF IsRing
<1>13. frames' \in 0..MaxFrames /\ Len(inflight') <= 1 BY <1>1, <1>3, <1>9
<1>14. UploadTypeOK' BY <1>9, <1>10, <1>11, <1>12, <1>13 DEF UploadTypeOK, AddImage
<1> QED BY <1>1, <1>6, <1>7, <1>14 DEF f

\* The consumer takes a message: nothing else of the types moves.
LEMMA TakeTypes ==
  ASSUME UploadTypeOK, Shape, TakeMessage
  PROVE  /\ queue \in Seq(Messages) /\ queue # <<>> /\ Len(queue) \in Nat /\ Len(queue) >= 1
         /\ queue[1] \in Messages /\ queue' = Tail(queue)
         /\ queue' \in Seq(Messages) /\ Len(queue') = Len(queue) - 1
         /\ \A i \in 1..(Len(queue) - 1) : queue'[i] = queue[i + 1]
         /\ queue[1].type = Kind
         /\ cached' = [cached EXCEPT ![Kind] = Append(@, queue[1])]
         /\ cached' \in [Kinds -> Seq(Messages)]
<1>1. queue \in Seq(Messages) /\ queue # <<>> /\ cached \in [Kinds -> Seq(Messages)]
  BY DEF UploadTypeOK, TakeMessage
<1>2. Len(queue) \in Nat /\ Len(queue) >= 1
  <2>1. Len(queue) \in Nat BY <1>1, LenProperties
  <2>2. Len(queue) # 0 BY <1>1, EmptySeq
  <2> QED BY <2>1, <2>2
<1>3. Head(queue) = queue[1] /\ queue[1] \in Messages
  <2>1. 1 \in 1..Len(queue) BY <1>2
  <2>2. Head(queue) = queue[1] BY <1>1, HeadTailProperties
  <2> QED BY <1>1, <2>1, <2>2, ElementOfSeq
<1>4. /\ Tail(queue) \in Seq(Messages) /\ Len(Tail(queue)) = Len(queue) - 1
      /\ \A i \in 1..Len(Tail(queue)) : Tail(queue)[i] = queue[i + 1]
  BY <1>1, HeadTailProperties
<1>5. queue[1].type = Kind
  <2> DEFINE j == Len(cached[Kind]) + 1
  <2>1. Line[j] = queue[1] /\ j \in 1..Len(Line)
    <3>1. 1 \in 1..Len(queue) BY <1>2
    <3>2. /\ \A i \in 1..Len(queue) : Line[Len(cached[Kind]) + i] = queue[i]
          /\ Len(Line) = Len(cached[Kind]) + Len(queue) + Len(inflight)
          /\ Len(cached[Kind]) \in Nat /\ Len(inflight) \in Nat
      BY LineIs
    <3> QED BY <1>2, <3>1, <3>2
  <2> HIDE DEF j
  <2>2. Line[j].type = Kind BY <2>1, ShapeLine
  <2> QED BY <2>1, <2>2
<1>6. cached' = [cached EXCEPT ![Kind] = Append(@, queue[1])] /\ queue' = Tail(queue)
  BY <1>3, <1>5 DEF TakeMessage
<1>7. cached' \in [Kinds -> Seq(Messages)]
  <2>1. Kind \in Kinds BY Modes
  <2>2. Append(cached[Kind], queue[1]) \in Seq(Messages) BY <1>1, <1>3, <2>1, AppendProperties
  <2> QED BY <1>1, <1>6, <2>1, <2>2
<1> QED BY <1>1, <1>2, <1>3, <1>4, <1>5, <1>6, <1>7

LEMMA LenIsNat ==
  ASSUME NEW S, NEW s \in Seq(S)
  PROVE  1 \in 1..Len(s) + 1
<1>1. Len(s) \in Nat BY LenProperties
<1> QED BY <1>1

LEMMA ReceiveTypes ==
  ASSUME UploadTypeOK, Shape, Receive \/ ReceiveSecond
  PROVE  UploadTypeOK'
<1>1. TakeMessage BY DEF Receive, ReceiveSecond
<1>2. /\ queue' \in Seq(Messages) /\ Len(queue') = Len(queue) - 1 /\ Len(queue) \in Nat
      /\ cached' \in [Kinds -> Seq(Messages)]
  BY <1>1, TakeTypes
<1>3. todo = 1 /\ inflight' = inflight /\ which' = which /\ todo' = todo
  BY DEF Receive, ReceiveSecond, addVars, Shape, Converting
<1>4. inflight \in Seq(Messages) /\ Len(queue) + Len(inflight) < QueueSize /\ which \in Kinds
  BY DEF UploadTypeOK
<1>5. Len(inflight) \in Nat /\ QueueSize \in Nat BY <1>4, Sizes, LenProperties
<1>6. Len(queue') + Len(inflight') < QueueSize BY <1>2, <1>3, <1>4, <1>5
<1>7. todo' \in 1..Len(cached'[which']) + 1
  <2>1. cached'[which'] \in Seq(Messages) BY <1>2, <1>3, <1>4
  <2>2. 1 \in 1..Len(cached'[which']) + 1 BY <2>1, LenIsNat
  <2> QED BY <1>3, <2>2
<1> QED BY <1>2, <1>3, <1>6, <1>7 DEF UploadTypeOK, Receive, ReceiveSecond, addVars, ringVars

LEMMA TimeoutTypes ==
  ASSUME UploadTypeOK, ReceiveTimeout
  PROVE  UploadTypeOK'
BY DEF UploadTypeOK, ReceiveTimeout, addVars, ringVars

LEMMA AdvanceTypes ==
  ASSUME UploadTypeOK, Advance, NEW c \in [Kinds -> Seq(Messages)]
  PROVE  /\ which' \in Kinds /\ pc' \in {"check", "receive"}
         /\ 1 \in 1..Len(c[which']) + 1
<1>1. which' \in Kinds /\ pc' \in {"check", "receive"} BY DEF Advance
<1>2. c[which'] \in Seq(Messages) BY <1>1
<1> QED BY <1>1, <1>2, LenIsNat

LEMMA NothingDueTypes ==
  ASSUME UploadTypeOK, Shape, NothingDue
  PROVE  UploadTypeOK'
<1>1. Advance /\ todo = 1 /\ todo' = 1 /\ cached' = cached BY DEF NothingDue, Shape, Converting
<1>2. cached \in [Kinds -> Seq(Messages)] BY DEF UploadTypeOK
<1>3. which' \in Kinds /\ pc' \in {"check", "receive"} /\ 1 \in 1..Len(cached[which']) + 1
  BY <1>1, <1>2, AdvanceTypes
<1> QED BY <1>1, <1>3 DEF UploadTypeOK, NothingDue, addVars, ringVars

LEMMA ConnectTypes ==
  ASSUME UploadTypeOK, Connect
  PROVE  UploadTypeOK'
<1>1. cached[which] \in Seq(Messages) BY DEF UploadTypeOK
<1>2. 1 \in 1..Len(cached[which]) + 1 BY <1>1, LenIsNat
<1>3. <<>> \in Seq(Entries) BY EmptySeq
<1> QED BY <1>2, <1>3 DEF UploadTypeOK, Connect, addVars, ringVars

LEMMA SkipTypes ==
  ASSUME UploadTypeOK, DropFrame \/ Abort
  PROVE  UploadTypeOK'
<1>1. cached[which] \in Seq(Messages) /\ todo \in 1..Len(cached[which]) + 1
      /\ todo <= Len(cached[which])
  BY DEF UploadTypeOK, DropFrame, Abort
<1>2. Len(cached[which]) \in Nat BY <1>1, LenProperties
<1>3. todo + 1 \in 1..Len(cached[which]) + 1 BY <1>1, <1>2
<1>4. todo' \in {todo, todo + 1} BY DEF DropFrame, Abort
<1>5. todo' \in 1..Len(cached[which]) + 1 BY <1>1, <1>3, <1>4
<1> QED BY <1>5 DEF UploadTypeOK, DropFrame, Abort, addVars, ringVars

\* The message that is converted.
LEMMA CurrentIs ==
  ASSUME UploadTypeOK, Shape, pc = "convert", todo <= Len(cached[which])
  PROVE  /\ Current \in Messages /\ Current = Line[todo] /\ which = Kind
         /\ todo \in 1..Len(cached[Kind]) /\ todo \in 1..Len(Line)
         /\ Current.n > 0 => Current.addr \in 0..(BoxRing - 1)
<1>1. which = Kind BY DEF Shape, Converting
<1>2. todo \in Nat /\ todo >= 1 BY TodoIs
<1>3. /\ cached[Kind] \in Seq(Messages) /\ Len(cached[Kind]) \in Nat /\ Len(queue) \in Nat
      /\ Len(inflight) \in Nat
      /\ Len(Line) = Len(cached[Kind]) + Len(queue) + Len(inflight)
      /\ \A i \in 1..Len(cached[Kind]) : Line[i] = cached[Kind][i]
  BY LineIs
<1>4. todo \in 1..Len(cached[Kind]) /\ todo \in 1..Len(Line) BY <1>1, <1>2, <1>3
<1>5. Current = cached[Kind][todo] /\ Current = Line[todo] BY <1>1, <1>3, <1>4 DEF Current
<1>6. Current \in Messages BY <1>3, <1>4, <1>5, ElementOfSeq
<1>7. ASSUME Current.n > 0 PROVE Current.addr \in 0..(BoxRing - 1)
  <2>1. Current.addr # None BY <1>4, <1>5, <1>7, ShapeLine
  <2>2. Current.addr \in Address(BoxRing) BY <1>6, MessageIs
  <2> QED BY <2>1, <2>2 DEF Address
<1> QED BY <1>1, <1>4, <1>5, <1>6, <1>7

\* The ring as the message finds it is what is left of the ring.
LEMMA SyncedIs ==
  ASSUME UploadTypeOK, NEW m \in Messages, m.addr \in 0..(BoxRing - 1)
  PROVE  \E g \in 0..Len(boxes.q) :
           /\ IsRing(Synced(m), BoxRing, Box)
           /\ Len(Synced(m).q) = Len(boxes.q) - g
           /\ \A k \in 1..(Len(boxes.q) - g) : Synced(m).q[k] = boxes.q[g + k]
<1>1. IsRing(boxes, BoxRing, Box) /\ BoxRing \in Nat /\ boxes.head \in 0..(BoxRing - 1)
      /\ boxes.q \in Seq(Box) /\ Len(boxes.q) \in Nat
  BY RingsAre
<1>2. CASE AtHead(boxes, m.addr)
  <2>1. Synced(m) = boxes BY <1>2 DEF Synced
  <2>2. 0 \in 0..Len(boxes.q) /\ Len(boxes.q) = Len(boxes.q) - 0
        /\ \A k \in 1..(Len(boxes.q) - 0) : 0 + k = k
    BY <1>1
  <2> QED BY <1>1, <2>1, <2>2
<1>3. CASE ~AtHead(boxes, m.addr)
  <2> DEFINE n == Find(boxes, BoxRing, m.addr)
             N == Len(boxes.q)
  <2>1. n \in Nat
    <3> DEFINE x == m.addr + BoxRing - boxes.head
    <3>1. x \in Nat /\ BoxRing > 0 BY <1>1
    <3> HIDE DEF x
    <3>2. x % BoxRing \in Nat BY <1>1, <3>1
    <3> QED BY <3>2 DEF Find, x
  <2>2. Synced(m) = Get(boxes, BoxRing, n) BY <1>3 DEF Synced
  <2> HIDE DEF n
  <2>3. PICK g \in 0..Len(boxes.q) :
           /\ g = IF n <= Len(boxes.q) THEN n ELSE Len(boxes.q)
           /\ Get(boxes, BoxRing, n) =
                [head |-> (boxes.head + g) % BoxRing, q |-> SubSeq(boxes.q, g + 1, Len(boxes.q))]
           /\ IsRing(Get(boxes, BoxRing, n), BoxRing, Box)
    BY <1>1, <2>1, GetIs
  <2> DEFINE s == SubSeq(boxes.q, g + 1, Len(boxes.q))
  <2>4. Len(s) = Len(boxes.q) - g /\ \A k \in 1..(Len(boxes.q) - g) : s[k] = boxes.q[g + k]
    BY <1>1, SuffixIs
  <2>5. Synced(m).q = s BY <2>2, <2>3
  <2>6. IsRing(Synced(m), BoxRing, Box) BY <2>2, <2>3
  <2> HIDE DEF s
  <2> QED BY <2>4, <2>5, <2>6
<1> QED BY <1>2, <1>3

\* What the conversion of a frame takes and adds.
LEMMA ConvertIs ==
  ASSUME UploadTypeOK, Shape, ConvertFrame
  PROVE  \E m \in Messages, e \in Entries :
           /\ m = Line[todo] /\ which = Kind /\ todo \in 1..Len(cached[Kind])
           /\ body' = Append(body, e) /\ e.frame = m.frame
           /\ e.boxes = IF m.n > 0 THEN SubSeq(Synced(m).q, 1, m.n) ELSE <<>>
           /\ e.img = IF m.img # None THEN Head(images.q) ELSE None
           /\ boxes' = IF m.n > 0 THEN Get(Synced(m), BoxRing, m.n) ELSE boxes
           /\ images' = IF m.img # None THEN Get(images, ImageRing, 1) ELSE images
           /\ m.n > 0 => m.addr \in 0..(BoxRing - 1) /\ m.n \in 0..Len(Synced(m).q)
           /\ m.img # None => images.q # <<>>
           /\ IsRing(boxes', BoxRing, Box) /\ IsRing(images', ImageRing, 1..MaxFrames)
<1> DEFINE m == Current
           s == Synced(m)
           eb == IF m.n > 0 THEN SubSeq(s.q, 1, m.n) ELSE <<>>
           ei == IF m.img # None THEN Head(images.q) ELSE None
           e == [frame |-> m.frame, boxes |-> eb, img |-> ei]
<1>1. /\ pc = "convert" /\ todo <= Len(cached[which])
      /\ BoxesAsserted(m) /\ ImageAsserted(m)
      /\ boxes' = IF m.n > 0 THEN Get(s, BoxRing, m.n) ELSE boxes
      /\ images' = IF m.img # None THEN Get(images, ImageRing, 1) ELSE images
      /\ body' = Append(body, e)
  BY DEF ConvertFrame
<1>2. /\ m \in Messages /\ m = Line[todo] /\ which = Kind /\ todo \in 1..Len(cached[Kind])
      /\ m.n > 0 => m.addr \in 0..(BoxRing - 1)
  BY <1>1, CurrentIs
<1>3. m.frame \in 1..MaxFrames /\ m.n \in 0..MaxBoxes /\ m.n \in Nat BY <1>2, MessageIs, Sizes
<1>4. /\ IsRing(boxes, BoxRing, Box) /\ IsRing(images, ImageRing, 1..MaxFrames)
      /\ images.q \in Seq(1..MaxFrames) /\ BoxRing \in Nat /\ ImageRing \in Nat
  BY RingsAre
<1>5. m.n > 0 => /\ m.n <= Len(s.q) /\ IsRing(s, BoxRing, Box)
                 /\ s.q \in Seq(Box) /\ Len(s.q) \in Nat /\ m.n \in 0..Len(s.q)
  <2> SUFFICES ASSUME m.n > 0 PROVE /\ m.n <= Len(s.q) /\ IsRing(s, BoxRing, Box)
                 /\ s.q \in Seq(Box) /\ Len(s.q) \in Nat /\ m.n \in 0..Len(s.q)
    OBVIOUS
  <2>1. Len(s.q) >= m.n BY <1>1 DEF BoxesAsserted
  <2> HIDE DEF m
  <2>2. IsRing(s, BoxRing, Box) BY <1>2, SyncedIs
  <2>3. s.q \in Seq(Box) BY <2>2 DEF IsRing
  <2> HIDE DEF s
  <2>4. Len(s.q) \in Nat BY <2>3, LenProperties
  <2> QED BY <1>3, <2>1, <2>2, <2>3, <2>4
<1>6. m.img # None => images.q # <<>> BY <1>1 DEF ImageAsserted, AtHead
<1> HIDE DEF m, s
<1>7. eb \in Seq(Box)
  <2>1. m.n > 0 => SubSeq(s.q, 1, m.n) \in Seq(Box) BY <1>5, PrefixIs
  <2>2. <<>> \in Seq(Box) BY EmptySeq
  <2> QED BY <2>1, <2>2
<1>8. ei \in (1..MaxFrames) \cup {None}
  <2>1. m.img # None => Head(images.q) \in 1..MaxFrames BY <1>4, <1>6, HeadTailProperties
  <2> QED BY <2>1
<1> HIDE DEF eb, ei
<1>9. e \in Entries BY <1>3, <1>7, <1>8 DEF Entries
<1>10. e.frame = m.frame /\ e.boxes = eb /\ e.img = ei OBVIOUS
<1> HIDE DEF e
<1>11. IsRing(boxes', BoxRing, Box)
  <2>1. m.n > 0 => IsRing(Get(s, BoxRing, m.n), BoxRing, Box) BY <1>4, <1>5, GetTakes
  <2> QED BY <1>1, <1>4, <2>1
<1>12. IsRing(images', ImageRing, 1..MaxFrames)
  <2>1. 1 \in Nat OBVIOUS
  <2>2. IsRing(Get(images, ImageRing, 1), ImageRing, 1..MaxFrames) BY <1>4, <2>1, GetIs
  <2> QED BY <1>1, <1>4, <2>2
<1>13. s = Synced(m) BY DEF s
<1>14. /\ e.boxes = IF m.n > 0 THEN SubSeq(Synced(m).q, 1, m.n) ELSE <<>>
       /\ e.img = IF m.img # None THEN Head(images.q) ELSE None
  BY <1>10, <1>13 DEF eb, ei
<1>15. boxes' = IF m.n > 0 THEN Get(Synced(m), BoxRing, m.n) ELSE boxes BY <1>1, <1>13
<1>16. m.n > 0 => m.addr \in 0..(BoxRing - 1) /\ m.n \in 0..Len(Synced(m).q)
  BY <1>2, <1>5, <1>13
<1> QED BY <1>1, <1>2, <1>6, <1>9, <1>10, <1>11, <1>12, <1>14, <1>15, <1>16

LEMMA ConvertTypes ==
  ASSUME UploadTypeOK, Shape, ConvertFrame
  PROVE  UploadTypeOK'
<1>1. PICK m \in Messages, e \in Entries :
           /\ m = Line[todo] /\ which = Kind /\ todo \in 1..Len(cached[Kind])
           /\ body' = Append(body, e)
           /\ IsRing(boxes', BoxRing, Box) /\ IsRing(images', ImageRing, 1..MaxFrames)
  BY ConvertIs
<1>2. body \in Seq(Entries) /\ cached[Kind] \in Seq(Messages) BY LineIs DEF UploadTypeOK
<1>3. body' \in Seq(Entries) BY <1>1, <1>2, AppendProperties
<1>4. todo' = todo + 1 BY DEF ConvertFrame
<1>5. todo' \in 1..Len(cached[which]) + 1
  <2>1. Len(cached[Kind]) \in Nat BY <1>2, LenProperties
  <2> QED BY <1>1, <1>4, <2>1
<1>6. /\ boxes' \in [head : 0..(BoxRing - 1), q : Seq(Box)] /\ Len(boxes'.q) <= BoxRing
      /\ images' \in [head : 0..(ImageRing - 1), q : Seq(1..MaxFrames)]
      /\ Len(images'.q) <= ImageRing
  BY <1>1 DEF IsRing
<1>7. /\ mode' = mode /\ frames' = frames /\ inflight' = inflight /\ queue' = queue
      /\ cached' = cached /\ pc' = pc /\ which' = which /\ thres' = thres /\ file' = file
      /\ boots' = boots /\ posted' = posted /\ spoiled' = spoiled /\ copied' = copied
  BY DEF ConvertFrame, addVars
<1> QED BY <1>3, <1>5, <1>6, <1>7 DEF UploadTypeOK

LEMMA EmptyCache ==
  ASSUME NEW c \in [Kinds -> Seq(Messages)], NEW k \in Kinds
  PROVE  [c EXCEPT ![k] = <<>>] \in [Kinds -> Seq(Messages)]
<1>1. <<>> \in Seq(Messages) BY EmptySeq
<1> QED BY <1>1

LEMMA SucceedsTypes ==
  ASSUME UploadTypeOK, PostSucceeds
  PROVE  UploadTypeOK'
<1>1. /\ posted \in Seq(Entries) /\ body \in Seq(Entries) /\ which \in Kinds
      /\ cached \in [Kinds -> Seq(Messages)]
  BY DEF UploadTypeOK
<1>2. posted \o body \in Seq(Entries) BY <1>1, ConcatProperties
<1>3. cached' = [cached EXCEPT ![which] = <<>>] /\ Advance /\ todo' = 1 /\ body' = <<>>
      /\ posted' = posted \o body
  BY DEF PostSucceeds
<1>4. cached' \in [Kinds -> Seq(Messages)] BY <1>1, <1>3, EmptyCache
<1>5. which' \in Kinds /\ pc' \in {"check", "receive"} /\ 1 \in 1..Len(cached'[which']) + 1
  BY <1>3, <1>4, AdvanceTypes
<1>6. <<>> \in Seq(Entries) BY EmptySeq
<1> QED BY <1>2, <1>3, <1>4, <1>5, <1>6 DEF UploadTypeOK, PostSucceeds, addVars, ringVars

\* After a post that could not be made: on to the next cache, or the messages saved,
\* or not, and the reset.
GoOn == /\ Advance /\ file' = file /\ boxes' = boxes /\ cached' = cached /\ copied' = copied
Save ==
  /\ which = "TRACKING" /\ Len(cached[which]) > Limit /\ pc' = "reset" /\ which' = which
  /\ file' = Saved(cached[which]).lines /\ boxes' = Saved(cached[which]).ring
  /\ copied' = (copied \/ Saved(cached[which]).short)
  /\ cached' = [cached EXCEPT ![which] = <<>>]
GiveIn ==
  /\ which = "TRACKING" /\ Len(cached[which]) > Limit /\ pc' = "reset" /\ which' = which
  /\ file' = file /\ boxes' = boxes /\ cached' = cached /\ copied' = copied

LEMMA GaveUpIs ==
  ASSUME PostGaveUp
  PROVE  GoOn \/ Save \/ GiveIn
<1>1. CASE which = "TRACKING" /\ Len(cached[which]) > Limit
  BY <1>1 DEF PostGaveUp, Save, GiveIn
<1>2. CASE ~(which = "TRACKING" /\ Len(cached[which]) > Limit)
  BY <1>2 DEF PostGaveUp, GoOn
<1> QED BY <1>1, <1>2

LEMMA GaveUpTypes ==
  ASSUME UploadTypeOK, PostGaveUp
  PROVE  /\ boxes' \in [head : 0..(BoxRing - 1), q : Seq(Box)] /\ Len(boxes'.q) <= BoxRing
         /\ file' \in Seq(FileLine) /\ cached' \in [Kinds -> Seq(Messages)]
         /\ which' \in Kinds /\ pc' \in {"check", "receive", "reset"}
         /\ 1 \in 1..Len(cached'[which']) + 1
<1>1. /\ cached \in [Kinds -> Seq(Messages)] /\ which \in Kinds
      /\ file \in Seq(FileLine)
      /\ boxes \in [head : 0..(BoxRing - 1), q : Seq(Box)] /\ Len(boxes.q) <= BoxRing
  BY DEF UploadTypeOK, FileLine
<1>2. CASE GoOn
  <2>1. /\ Advance /\ file' = file /\ boxes' = boxes /\ cached' = cached BY <1>2 DEF GoOn
  <2>2. which' \in Kinds /\ pc' \in {"check", "receive"} /\ 1 \in 1..Len(cached[which']) + 1
    BY <1>1, <2>1, AdvanceTypes
  <2> QED BY <1>1, <2>1, <2>2
<1>3. CASE Save
  <2>1. /\ file' = Saved(cached[which]).lines /\ boxes' = Saved(cached[which]).ring
        /\ cached' = [cached EXCEPT ![which] = <<>>] /\ which' = which /\ pc' = "reset"
    BY <1>3 DEF Save
  <2> DEFINE msgs == cached[which]
             a == Saved(msgs)
  <2>2. msgs \in Seq(Messages) BY <1>1
  <2> HIDE DEF msgs
  <2>3. PICK off : IsUpto(off, Len(msgs), Counts(msgs)) BY <2>2, NumbersAre
  <2>4. a \in Savings BY <2>2, <2>3, RingsAre, SavedIs
  <2> HIDE DEF a
  <2>5. /\ IsRing(a.ring, BoxRing, Box) /\ a.lines \in Seq(FileLine) BY <2>4, SavingsAre
  <2>6. boxes' \in [head : 0..(BoxRing - 1), q : Seq(Box)] /\ Len(boxes'.q) <= BoxRing
    BY <2>1, <2>5 DEF IsRing, a, msgs
  <2>7. file' \in Seq(FileLine) BY <2>1, <2>5 DEF a, msgs
  <2>8. cached' \in [Kinds -> Seq(Messages)] BY <1>1, <2>1, EmptyCache
  <2>9. cached'[which'] \in Seq(Messages) BY <1>1, <2>1, <2>8
  <2> QED BY <1>1, <2>1, <2>6, <2>7, <2>8, <2>9, LenIsNat
<1>4. CASE GiveIn
  <2>1. /\ which' = which /\ pc' = "reset" /\ file' = file /\ boxes' = boxes /\ cached' = cached
    BY <1>4 DEF GiveIn
  <2>2. cached'[which'] \in Seq(Messages) BY <1>1, <2>1
  <2> QED BY <1>1, <2>1, <2>2, LenIsNat
<1> QED BY <1>2, <1>3, <1>4, GaveUpIs

LEMMA GaveUpCopied ==
  ASSUME UploadTypeOK, PostGaveUp
  PROVE  copied' \in BOOLEAN
<1>1. copied \in BOOLEAN BY DEF UploadTypeOK
<1>2. CASE GoOn BY <1>1, <1>2 DEF GoOn
<1>3. CASE Save
  <2>1. copied' = (copied \/ Saved(cached[which]).short) BY <1>3 DEF Save
  <2> QED BY <2>1
<1>4. CASE GiveIn BY <1>1, <1>4 DEF GiveIn
<1> QED BY <1>2, <1>3, <1>4, GaveUpIs

LEMMA FailsTypes ==
  ASSUME UploadTypeOK, Shape, ConnectFails \/ PostFails
  PROVE  UploadTypeOK'
<1>1. PostGaveUp BY DEF ConnectFails, PostFails
<1>2. /\ boxes' \in [head : 0..(BoxRing - 1), q : Seq(Box)] /\ Len(boxes'.q) <= BoxRing
      /\ file' \in Seq(FileLine) /\ cached' \in [Kinds -> Seq(Messages)]
      /\ which' \in Kinds /\ pc' \in {"check", "receive", "reset"}
      /\ 1 \in 1..Len(cached'[which']) + 1
  BY <1>1, GaveUpTypes
<1>3. copied' \in BOOLEAN BY <1>1, GaveUpCopied
<1>4. todo' = 1 /\ body' = <<>>
  <2>1. CASE PostFails BY <2>1 DEF PostFails
  <2>2. CASE ConnectFails
    <3>1. pc = "check" /\ todo' = todo /\ body' = body BY <2>2 DEF ConnectFails
    <3> QED BY <3>1 DEF Shape, Converting
  <2> QED BY <2>1, <2>2
<1>5. spoiled' \in BOOLEAN
  <2>1. CASE PostFails
    <3>1. spoiled' = (spoiled \/ \E m \in ToSet(cached[which]) : m.n > 0 \/ m.img # None)
      BY <2>1 DEF PostFails
    <3> QED BY <3>1
  <2>2. CASE ConnectFails BY <2>2 DEF ConnectFails, UploadTypeOK
  <2> QED BY <2>1, <2>2
<1>6. <<>> \in Seq(Entries) BY EmptySeq
<1>7. /\ mode' = mode /\ frames' = frames /\ inflight' = inflight /\ images' = images
      /\ queue' = queue /\ thres' = thres /\ boots' = boots /\ posted' = posted
  BY DEF ConnectFails, PostFails, addVars
<1>8. /\ mode \in {"NORMAL", "RECORD"} /\ frames \in 0..MaxFrames
      /\ images \in [head : 0..(ImageRing - 1), q : Seq(1..MaxFrames)]
      /\ Len(images.q) <= ImageRing
      /\ inflight \in Seq(Messages) /\ Len(inflight) <= 1
      /\ queue \in Seq(Messages) /\ Len(queue) + Len(inflight) < QueueSize
      /\ thres \in {1, Threshold} /\ posted \in Seq(Entries) /\ boots \in 1..MaxBoots
  BY DEF UploadTypeOK
<1>9. body' \in Seq(Entries) BY <1>4, <1>6
<1>10. todo' \in 1..Len(cached'[which']) + 1 BY <1>2, <1>4
<1>11. file' \in Seq([frame : 1..MaxFrames, boxes : Seq(Box)]) BY <1>2 DEF FileLine
<1>12. pc' \in {"receive", "second", "check", "convert", "reset", "aborted"} BY <1>2
<1>13. spoiled' \in BOOLEAN /\ copied' \in BOOLEAN BY <1>3, <1>5
<1> QED BY <1>2, <1>7, <1>8, <1>9, <1>10, <1>11, <1>12, <1>13 DEF UploadTypeOK

LEMMA BootTypes ==
  ASSUME UploadTypeOK, Shape, Boot
  PROVE  UploadTypeOK'
<1>1. file \in Seq(FileLine) /\ ShortLines(file) BY DEF UploadTypeOK, Shape, FileLine
<1>2. PICK off : IsUpto(off, Len(file), LineSizes(file)) BY <1>1, LineSizesAre
<1>3. ReadBack \in Readings BY <1>1, <1>2, ReadBackIs
<1> DEFINE a == ReadBack
<1>4. /\ boots < MaxBoots /\ boots' = boots + 1
      /\ boxes' = a.ring
      /\ cached' = [k \in Kinds |-> IF k = "TRACKING" THEN a.msgs ELSE <<>>]
      /\ file' = <<>>
      /\ images' = Empty /\ inflight' = <<>> /\ queue' = <<>>
      /\ pc' = "receive" /\ which' = "TRACKING" /\ thres' = Threshold
      /\ todo' = 1 /\ body' = <<>>
      /\ mode' = mode /\ frames' = frames /\ posted' = posted /\ copied' = copied
  BY DEF Boot
<1>5. spoiled' \in BOOLEAN
  <2>1. spoiled' = (spoiled /\ file # <<>>) BY DEF Boot
  <2> QED BY <2>1
<1> HIDE DEF a
<1>6. IsRing(a.ring, BoxRing, Box) /\ a.msgs \in Seq(Messages) BY <1>3, ReadingsAre DEF a
<1>7. /\ <<>> \in Seq(Messages) /\ <<>> \in Seq(Entries) /\ <<>> \in Seq(FileLine)
      /\ <<>> \in Seq(1..MaxFrames) /\ Len(<<>>) = 0
  BY EmptySeq
<1>8. boxes' \in [head : 0..(BoxRing - 1), q : Seq(Box)] /\ Len(boxes'.q) <= BoxRing
  BY <1>4, <1>6 DEF IsRing
<1>9. images' \in [head : 0..(ImageRing - 1), q : Seq(1..MaxFrames)] /\ Len(images'.q) <= ImageRing
  <2>1. 0 \in 0..(ImageRing - 1) /\ 0 <= ImageRing BY Sizes
  <2> QED BY <1>4, <1>7, <2>1 DEF Empty
<1>10. cached' \in [Kinds -> Seq(Messages)] BY <1>4, <1>6, <1>7
<1>11. 1 \in 1..Len(cached'[which']) + 1
  <2>1. cached'[which'] \in Seq(Messages) BY <1>4, <1>10
  <2> QED BY <2>1, LenIsNat
<1>12. Len(queue') + Len(inflight') < QueueSize BY <1>4, <1>7, Sizes
<1>13. boots' \in 1..MaxBoots
  <2>1. boots \in 1..MaxBoots /\ MaxBoots \in Nat BY Sizes DEF UploadTypeOK
  <2> QED BY <1>4, <2>1
<1>14. /\ mode \in {"NORMAL", "RECORD"} /\ frames \in 0..MaxFrames /\ posted \in Seq(Entries)
  BY DEF UploadTypeOK
<1>15. spoiled' \in BOOLEAN /\ copied' \in BOOLEAN BY <1>4, <1>5 DEF UploadTypeOK
<1>16. file' \in Seq([frame : 1..MaxFrames, boxes : Seq(Box)]) BY <1>4, <1>7 DEF FileLine
<1>17. /\ inflight' \in Seq(Messages) /\ Len(inflight') <= 1 /\ queue' \in Seq(Messages)
       /\ body' \in Seq(Entries) /\ posted' \in Seq(Entries) /\ thres' \in {1, Threshold}
       /\ which' \in Kinds /\ pc' \in {"receive", "second", "check", "convert", "reset", "aborted"}
       /\ mode' \in {"NORMAL", "RECORD"} /\ frames' \in 0..MaxFrames
       /\ todo' \in 1..Len(cached'[which']) + 1
  BY <1>4, <1>7, <1>11, <1>14
<1> QED BY <1>8, <1>9, <1>10, <1>12, <1>13, <1>15, <1>16, <1>17 DEF UploadTypeOK

LEMMA InitTypes ==
  ASSUME UploadInit
  PROVE  UploadTypeOK
<1>1. /\ <<>> \in Seq(Messages) /\ <<>> \in Seq(Entries) /\ <<>> \in Seq(FileLine)
      /\ <<>> \in Seq(1..MaxFrames) /\ <<>> \in Seq(Box) /\ Len(<<>>) = 0
  BY EmptySeq
<1>2. /\ Empty \in [head : 0..(BoxRing - 1), q : Seq(Box)] /\ Len(Empty.q) <= BoxRing
      /\ Empty \in [head : 0..(ImageRing - 1), q : Seq(1..MaxFrames)]
      /\ Len(Empty.q) <= ImageRing
  <2>1. /\ 0 \in 0..(ImageRing - 1) /\ 0 <= ImageRing
        /\ 0 \in 0..(BoxRing - 1) /\ 0 <= BoxRing
    BY Sizes
  <2> QED BY <1>1, <2>1 DEF Empty
<1>3. 0 \in 0..MaxFrames /\ 1 \in 1..MaxBoots /\ 0 < QueueSize BY Sizes
<1>4. cached \in [Kinds -> Seq(Messages)] /\ cached[which] = <<>> BY <1>1 DEF UploadInit
<1>5. todo \in 1..Len(cached[which]) + 1 BY <1>1, <1>4 DEF UploadInit
<1>6. spoiled \in BOOLEAN /\ copied \in BOOLEAN BY DEF UploadInit
<1>7. Len(queue) + Len(inflight) < QueueSize BY <1>1, <1>3 DEF UploadInit
<1>8. file \in Seq([frame : 1..MaxFrames, boxes : Seq(Box)]) BY <1>1 DEF UploadInit, FileLine
<1>9. /\ mode \in {"NORMAL", "RECORD"} /\ frames \in 0..MaxFrames
      /\ boxes = Empty /\ images = Empty /\ inflight \in Seq(Messages) /\ Len(inflight) <= 1
      /\ queue \in Seq(Messages) /\ pc = "receive" /\ which \in Kinds /\ thres \in {1, Threshold}
      /\ body \in Seq(Entries) /\ posted \in Seq(Entries) /\ boots \in 1..MaxBoots
  BY <1>1, <1>3 DEF UploadInit
<1> QED BY <1>2, <1>4, <1>5, <1>6, <1>7, <1>8, <1>9 DEF UploadTypeOK

-----------------------------------------------------------------------------
(* How the line of messages moves                                          *)

LineFacts ==
  /\ cached[Kind] \in Seq(Messages) /\ queue \in Seq(Messages) /\ inflight \in Seq(Messages)
  /\ Len(cached[Kind]) \in Nat /\ Len(queue) \in Nat /\ Len(inflight) \in Nat
  /\ Line \in Seq(Messages)
  /\ Len(Line) = Len(cached[Kind]) + Len(queue) + Len(inflight)
  /\ \A i \in 1..Len(cached[Kind]) : Line[i] = cached[Kind][i]
  /\ \A i \in 1..Len(queue) : Line[Len(cached[Kind]) + i] = queue[i]
  /\ \A i \in 1..Len(inflight) : Line[Len(cached[Kind]) + Len(queue) + i] = inflight[i]

LEMMA LineHas == UploadTypeOK => LineFacts
<1> SUFFICES ASSUME UploadTypeOK PROVE LineFacts OBVIOUS
<1>1. /\ cached[Kind] \in Seq(Messages) /\ queue \in Seq(Messages) /\ inflight \in Seq(Messages)
      /\ Len(cached[Kind]) \in Nat /\ Len(queue) \in Nat /\ Len(inflight) \in Nat
      /\ Line \in Seq(Messages)
      /\ Len(Line) = Len(cached[Kind]) + Len(queue) + Len(inflight)
      /\ \A i \in 1..Len(cached[Kind]) : Line[i] = cached[Kind][i]
      /\ \A i \in 1..Len(queue) : Line[Len(cached[Kind]) + i] = queue[i]
      /\ \A i \in 1..Len(inflight) : Line[Len(cached[Kind]) + Len(queue) + i] = inflight[i]
  BY LineIs
<1> QED BY <1>1 DEF LineFacts

LEMMA LinePrimed == UploadTypeOK' => LineFacts'
BY LineHas, PTL

\* Nothing of the line moves.
Still == cached' = cached /\ queue' = queue /\ inflight' = inflight /\ mode' = mode

LEMMA StillLine ==
  ASSUME Still
  PROVE  Line' = Line /\ Kind' = Kind
BY DEF Line, Kind, Still

LEMMA KindKept ==
  ASSUME mode' = mode
  PROVE  Kind' = Kind
BY DEF Kind

LEMMA Together ==
  ASSUME NEW S, NEW s \in Seq(S), NEW t \in Seq(S), NEW u \in Seq(S)
  PROVE  (s \o t) \o u = s \o (t \o u)
BY ConcatAssociative

LEMMA SendLine ==
  ASSUME UploadTypeOK, Send
  PROVE  Line' = Line /\ Kind' = Kind /\ cached' = cached
<1>1. queue' = queue \o inflight /\ inflight' = <<>> /\ cached' = cached /\ mode' = mode
  BY DEF Send
<1>2. cached[Kind] \in Seq(Messages) /\ queue \in Seq(Messages) /\ inflight \in Seq(Messages)
  BY LineIs
<1>3. Kind' = Kind BY <1>1, KindKept
<1>4. (cached[Kind] \o queue) \o inflight = cached[Kind] \o (queue \o inflight)
  <2> DEFINE c == cached[Kind]
  <2>1. c \in Seq(Messages) BY <1>2
  <2> HIDE DEF c
  <2>2. (c \o queue) \o inflight = c \o (queue \o inflight)
    BY <1>2, <2>1, Together
  <2> QED BY <2>2 DEF c
<1>5. queue \o inflight \in Seq(Messages) BY <1>2, ConcatProperties
<1>6. cached[Kind] \o (queue \o inflight) \in Seq(Messages) BY <1>2, <1>5, ConcatProperties
<1>7. (cached[Kind] \o (queue \o inflight)) \o <<>> = cached[Kind] \o (queue \o inflight)
  BY <1>6, ConcatEmptySeq
<1> QED BY <1>1, <1>3, <1>4, <1>7 DEF Line

LEMMA ReceiveLine ==
  ASSUME UploadTypeOK, UploadTypeOK', Shape, Receive \/ ReceiveSecond
  PROVE  Line' = Line /\ Kind' = Kind
<1>1. TakeMessage /\ inflight' = inflight /\ mode' = mode
  BY DEF Receive, ReceiveSecond, addVars
<1>2. Kind' = Kind BY <1>1, KindKept
<1>3. LineFacts /\ LineFacts' BY LineHas, LinePrimed
<1>4. /\ Len(queue) >= 1 /\ Len(queue') = Len(queue) - 1
      /\ \A i \in 1..(Len(queue) - 1) : queue'[i] = queue[i + 1]
      /\ cached' = [cached EXCEPT ![Kind] = Append(@, queue[1])]
      /\ queue[1] \in Messages
  BY <1>1, TakeTypes
<1> DEFINE c == cached[Kind]
           d == cached'[Kind]
           q == queue
           r == queue'
           f == inflight
           L == Line
           M == Line'
<1>5. d = Append(c, q[1])
  <2>1. Kind \in Kinds /\ cached \in [Kinds -> Seq(Messages)] BY Modes DEF UploadTypeOK
  <2> QED BY <1>4, <2>1
<1>6. /\ c \in Seq(Messages) /\ Len(c) \in Nat /\ Len(q) \in Nat /\ Len(f) \in Nat
      /\ L \in Seq(Messages) /\ Len(L) = Len(c) + Len(q) + Len(f)
      /\ \A i \in 1..Len(c) : L[i] = c[i]
      /\ \A i \in 1..Len(q) : L[Len(c) + i] = q[i]
      /\ \A i \in 1..Len(f) : L[Len(c) + Len(q) + i] = f[i]
  BY <1>3 DEF LineFacts
<1>7. /\ M \in Seq(Messages) /\ Len(M) = Len(d) + Len(r) + Len(f)
      /\ \A i \in 1..Len(d) : M[i] = d[i]
      /\ \A i \in 1..Len(r) : M[Len(d) + i] = r[i]
      /\ \A i \in 1..Len(f) : M[Len(d) + Len(r) + i] = f[i]
  BY <1>1, <1>2, <1>3 DEF LineFacts
<1>8. /\ Len(d) = Len(c) + 1 /\ d[Len(c) + 1] = q[1]
      /\ \A i \in 1..Len(c) : d[i] = c[i]
  <2> HIDE DEF c, d
  <2> QED BY <1>4, <1>5, <1>6, AppendProperties
<1> HIDE DEF c, d, r, L, M
<1>9. Len(L) = Len(M) BY <1>4, <1>6, <1>7, <1>8 DEF r
<1>10. ASSUME NEW i \in 1..Len(L) PROVE L[i] = M[i]
  <2>1. CASE i <= Len(c)
    <3>1. i \in 1..Len(c) /\ i \in 1..Len(d) BY <1>6, <1>8, <2>1
    <3> QED BY <1>6, <1>7, <1>8, <3>1
  <2>2. CASE i = Len(c) + 1
    <3>1. i \in 1..Len(d) /\ 1 \in 1..Len(q) BY <1>4, <1>6, <1>8, <2>2
    <3>2. M[i] = q[1] BY <1>7, <1>8, <2>2, <3>1
    <3> QED BY <1>6, <2>2, <3>1, <3>2
  <2>3. CASE i > Len(c) + 1 /\ i <= Len(c) + Len(q)
    <3> DEFINE j == i - (Len(c) + 1)
    <3>1. /\ j \in 1..Len(r) /\ j \in 1..(Len(q) - 1) /\ i = Len(d) + j
          /\ j + 1 \in 1..Len(q) /\ i = Len(c) + (j + 1)
      BY <1>4, <1>6, <1>8, <2>3 DEF r
    <3> HIDE DEF j
    <3>2. M[i] = r[j] BY <1>7, <3>1
    <3>3. r[j] = q[j + 1] BY <1>4, <3>1 DEF r
    <3>4. L[i] = q[j + 1] BY <1>6, <3>1
    <3> QED BY <3>2, <3>3, <3>4
  <2>4. CASE i > Len(c) + Len(q)
    <3> DEFINE j == i - (Len(c) + Len(q))
    <3>1. /\ j \in 1..Len(f) /\ i = Len(c) + Len(q) + j /\ i = Len(d) + Len(r) + j
      BY <1>4, <1>6, <1>8, <2>4 DEF r
    <3> HIDE DEF j
    <3> QED BY <1>6, <1>7, <3>1
  <2> QED BY <1>6, <2>1, <2>2, <2>3, <2>4
<1>11. L = M BY <1>6, <1>7, <1>9, <1>10, SeqEqual
<1> QED BY <1>2, <1>11 DEF L, M

\* A message is built.
Adds(m) == Line' = Append(Line, m) /\ OneMore(Line', Line) /\ Line'[Len(Line) + 1] = m

LEMMA AddLine ==
  ASSUME UploadTypeOK, AddTracking \/ AddImage, NEW m \in Messages, inflight' = <<m>>
  PROVE  Adds(m) /\ Kind' = Kind /\ cached' = cached
<1>1. inflight = <<>> /\ cached' = cached /\ queue' = queue /\ mode' = mode
  BY DEF AddTracking, AddImage, MayAdd
<1>2. Kind' = Kind BY <1>1, KindKept
<1>3. cached[Kind] \in Seq(Messages) /\ queue \in Seq(Messages) BY LineIs
<1> DEFINE cq == cached[Kind] \o queue
<1>4. cq \in Seq(Messages) BY <1>3, ConcatProperties
<1>5. Line = cq \o <<>> /\ Line' = cq \o <<m>> BY <1>1, <1>2 DEF Line
<1> HIDE DEF cq
<1>6. cq \o <<>> = cq BY <1>4, ConcatEmptySeq
<1>7. Append(cq, m) = cq \o <<m>> BY <1>4, AppendIsConcat
<1>8. Line' = Append(Line, m) /\ Line \in Seq(Messages) BY <1>4, <1>5, <1>6, <1>7
<1>9. OneMore(Line', Line) /\ Line'[Len(Line) + 1] = m
  BY <1>8, AppendProperties DEF OneMore
<1> QED BY <1>1, <1>2, <1>8, <1>9 DEF Adds

\* The messages of the cache leave.
LEMMA DropLine ==
  ASSUME UploadTypeOK, UploadTypeOK', cached' = [cached EXCEPT ![Kind] = <<>>],
         queue' = queue, inflight' = inflight, mode' = mode
  PROVE  Goes(Line', Line, Len(cached[Kind])) /\ Kind' = Kind /\ cached'[Kind] = <<>>
<1>2. Kind' = Kind BY KindKept
<1>3. LineFacts /\ LineFacts' BY LineHas, LinePrimed
<1>4. cached'[Kind] = <<>>
  <2>1. Kind \in Kinds /\ cached \in [Kinds -> Seq(Messages)] BY Modes DEF UploadTypeOK
  <2> QED BY <2>1
<1> DEFINE c == cached[Kind]
           q == queue
           f == inflight
           L == Line
           M == Line'
<1>6. /\ Len(c) \in Nat /\ Len(q) \in Nat /\ Len(f) \in Nat
      /\ Len(L) = Len(c) + Len(q) + Len(f)
      /\ \A i \in 1..Len(q) : L[Len(c) + i] = q[i]
      /\ \A i \in 1..Len(f) : L[Len(c) + Len(q) + i] = f[i]
  BY <1>3 DEF LineFacts
<1>7. /\ Len(M) = Len(<<>>) + Len(q) + Len(f)
      /\ \A i \in 1..Len(q) : M[Len(<<>>) + i] = q[i]
      /\ \A i \in 1..Len(f) : M[Len(<<>>) + Len(q) + i] = f[i]
  BY ZenonT(30), <1>2, <1>3, <1>4 DEF LineFacts
<1>8. /\ Len(M) = Len(q) + Len(f)
      /\ \A i \in 1..Len(q) : M[i] = q[i]
      /\ \A i \in 1..Len(f) : M[Len(q) + i] = f[i]
  <2>1. Len(<<>>) = 0 BY EmptySeq
  <2>2. \A i \in 1..Len(q) : 0 + i = i OBVIOUS
  <2>3. 0 + Len(q) = Len(q) BY <1>6
  <2> QED BY <1>6, <1>7, <2>1, <2>2, <2>3
<1> HIDE DEF c, L, M
<1>9. Len(L) = Len(c) + Len(M) BY <1>6, <1>8
<1>10. ASSUME NEW i \in 1..Len(M) PROVE M[i] = L[Len(c) + i]
  <2>1. CASE i <= Len(q)
    <3>1. i \in 1..Len(q) BY <1>6, <2>1
    <3> QED BY <1>6, <1>8, <3>1
  <2>2. CASE i > Len(q)
    <3> DEFINE j == i - Len(q)
    <3>1. j \in 1..Len(f) /\ i = Len(q) + j /\ Len(c) + i = Len(c) + Len(q) + j
      BY <1>6, <1>8, <2>2
    <3> HIDE DEF j
    <3> QED BY <1>6, <1>8, <3>1
  <2> QED BY <1>6, <1>8, <2>1, <2>2
<1>11. Goes(M, L, Len(c)) BY <1>9, <1>10 DEF Goes
<1> QED BY <1>2, <1>4, <1>11 DEF c, L, M

-----------------------------------------------------------------------------
(* The shape, step by step                                                 *)

LEMMA AlikeStays ==
  ASSUME Alike, Line' = Line, Kind' = Kind
  PROVE  Alike'
BY DEF Alike

LEMMA CacheStays ==
  ASSUME Shape, Kind' = Kind, cached' = cached
  PROVE  \A k \in Kinds : k # Kind' => cached'[k] = <<>>
BY DEF Shape

LEMMA AddShape ==
  ASSUME UploadTypeOK, Shape, AddTracking \/ AddImage
  PROVE  Shape' /\ \E m \in Messages : /\ inflight' = <<m>> /\ Adds(m) /\ Kind' = Kind
                                       /\ m.frame = frames + 1
<1>1. PICK m \in Messages : /\ inflight' = <<m>> /\ m.type = Kind /\ m.frame = frames + 1
                            /\ m.n > 0 => m.addr # None
  <2>1. CASE AddTracking
    <3>1. PICK m \in Messages : /\ inflight' = <<m>> /\ m.type = "TRACKING" /\ m.frame = frames + 1
                                /\ m.n > 0 => m.addr # None
      BY <2>1, AddTrackingTypes
    <3>2. Kind = "TRACKING" BY <2>1 DEF AddTracking, Kind
    <3> QED BY <3>1, <3>2
  <2>2. CASE AddImage
    <3>1. PICK m \in Messages : /\ inflight' = <<m>> /\ m.type = "IMAGE" /\ m.frame = frames + 1
                                /\ m.n = 0
      BY <2>2, AddImageTypes
    <3>2. Kind = "IMAGE" BY <2>2 DEF AddImage, Kind
    <3> QED BY <3>1, <3>2
  <2> QED BY <2>1, <2>2
<1>2. Adds(m) /\ Kind' = Kind /\ cached' = cached BY <1>1, AddLine
<1>3. Alike'
  <2>1. /\ Len(Line') = Len(Line) + 1 /\ Line'[Len(Line) + 1] = m
        /\ \A i \in 1..Len(Line) : Line'[i] = Line[i]
    BY <1>2 DEF Adds, OneMore
  <2>2. Len(Line) \in Nat BY LineHas, LenProperties DEF LineFacts
  <2>3. ASSUME NEW i \in 1..Len(Line')
        PROVE  Line'[i].type = Kind /\ (Line'[i].n > 0 => Line'[i].addr # None)
    <3>1. CASE i \in 1..Len(Line) BY <2>1, <3>1, ShapeLine
    <3>2. CASE i = Len(Line) + 1 BY <1>1, <2>1, <3>2
    <3> QED BY <2>1, <2>2, <3>1, <3>2
  <2> QED BY <1>2, <2>3 DEF Alike
<1>4. /\ pc' = pc /\ which' = which /\ todo' = todo /\ body' = body /\ file' = file /\ mode' = mode
  BY DEF AddTracking, AddImage
<1>5. \A k \in Kinds : k # Kind' => cached'[k] = <<>> BY <1>2, CacheStays
<1>6. Shape' BY <1>2, <1>3, <1>4, <1>5 DEF Shape, Converting
<1> QED BY <1>1, <1>2, <1>6

\* Steps that leave the line alone and the rest of the shape as it is.
LEMMA SendShape ==
  ASSUME UploadTypeOK, Shape, Send
  PROVE  Shape'
<1>1. Line' = Line /\ Kind' = Kind /\ cached' = cached BY SendLine
<1>2. Alike' BY <1>1, AlikeStays DEF Shape
<1>3. \A k \in Kinds : k # Kind' => cached'[k] = <<>> BY <1>1, CacheStays
<1>4. /\ pc' = pc /\ which' = which /\ todo' = todo /\ body' = body /\ file' = file /\ mode' = mode
  BY DEF Send
<1> QED BY <1>1, <1>2, <1>3, <1>4 DEF Shape, Converting

LEMMA ReceiveShape ==
  ASSUME UploadTypeOK, UploadTypeOK', Shape, Receive \/ ReceiveSecond
  PROVE  Shape'
<1>1. Line' = Line /\ Kind' = Kind BY ReceiveLine
<1>2. Alike' BY <1>1, AlikeStays DEF Shape
<1>3. TakeMessage /\ pc \in {"receive", "second"} /\ pc' \in {"second", "check"}
      /\ todo' = todo /\ body' = body /\ file' = file
  BY DEF Receive, ReceiveSecond
<1>4. \A k \in Kinds : k # Kind' => cached'[k] = <<>>
  <2>1. cached' = [cached EXCEPT ![Kind] = Append(@, queue[1])] BY <1>3, TakeTypes
  <2>2. \A k \in Kinds : k # Kind => cached[k] = <<>> BY DEF Shape
  <2>3. cached \in [Kinds -> Seq(Messages)] BY DEF UploadTypeOK
  <2> QED BY <1>1, <2>1, <2>2, <2>3
<1>5. ~Converting /\ ~Converting' /\ pc' # "reset" BY <1>3 DEF Converting
<1>6. file = <<>>
  <2>1. pc # "reset" BY <1>3
  <2> QED BY <2>1 DEF Shape
<1>7. todo = 1 /\ body = <<>> BY <1>5 DEF Shape
<1>8. ShortLines(file') BY <1>3 DEF Shape
<1> QED BY <1>2, <1>3, <1>4, <1>5, <1>6, <1>7, <1>8 DEF Shape

LEMMA Calm ==
  ASSUME Shape, Still, file' = file, pc # "reset",
         pc' # "reset", Converting' => which' = Kind, ~Converting' => todo' = 1 /\ body' = <<>>
  PROVE  Shape'
<1>1. Line' = Line /\ Kind' = Kind /\ cached' = cached BY StillLine DEF Still
<1>2. Alike' BY <1>1, AlikeStays DEF Shape
<1>3. \A k \in Kinds : k # Kind' => cached'[k] = <<>> BY <1>1, CacheStays
<1>4. file = <<>> /\ ShortLines(file') BY DEF Shape
<1> QED BY <1>1, <1>2, <1>3, <1>4 DEF Shape

\* A cache that is due is that of the kind the messages have.
LEMMA DueKind ==
  ASSUME UploadTypeOK, Shape, Due
  PROVE  which = Kind /\ cached[which] # <<>>
<1>1. cached[which] # <<>>
  <2>1. CASE which = "TRACKING"
    <3>1. Len(cached[which]) >= thres /\ thres \in {1, Threshold} BY <2>1 DEF Due, UploadTypeOK
    <3>2. thres \in Nat /\ thres >= 1 BY <3>1, Sizes
    <3>3. Len(<<>>) = 0 BY EmptySeq
    <3> QED BY <3>1, <3>2, <3>3
  <2>2. CASE which # "TRACKING" BY <2>2 DEF Due
  <2> QED BY <2>1, <2>2
<1>2. which \in Kinds BY DEF UploadTypeOK
<1> QED BY <1>1, <1>2 DEF Shape

LEMMA QuietShape ==
  ASSUME UploadTypeOK, Shape,
         ReceiveTimeout \/ NothingDue \/ Connect \/ DropFrame \/ ConvertFrame \/ Abort
  PROVE  Shape' /\ Still
<1>1. Still /\ file' = file
  BY DEF ReceiveTimeout, NothingDue, Connect, DropFrame, ConvertFrame, Abort, Still, addVars
<1>2. CASE ReceiveTimeout
  <2>1. /\ pc = "receive" /\ pc' = "check" /\ todo' = todo /\ body' = body
    BY <1>2 DEF ReceiveTimeout
  <2>2. ~Converting /\ ~Converting' BY <2>1 DEF Converting
  <2>3. todo = 1 /\ body = <<>> BY <2>2 DEF Shape
  <2> QED BY <1>1, <2>1, <2>2, <2>3, Calm
<1>3. CASE NothingDue
  <2>1. /\ pc = "check" /\ pc' \in {"check", "receive"} /\ todo' = todo /\ body' = body
    BY <1>3 DEF NothingDue, Advance
  <2>2. ~Converting /\ ~Converting' BY <2>1 DEF Converting
  <2>3. todo = 1 /\ body = <<>> BY <2>2 DEF Shape
  <2>4. pc # "reset" /\ pc' # "reset" BY <2>1
  <2> QED BY <1>1, <2>1, <2>2, <2>3, <2>4, Calm
<1>4. CASE Connect
  <2>1. /\ pc = "check" /\ pc' = "convert" /\ Due /\ which' = which BY <1>4 DEF Connect
  <2>2. Converting' BY <2>1 DEF Converting
  <2>3. which' = Kind BY <2>1, DueKind
  <2> QED BY <1>1, <2>1, <2>2, <2>3, Calm
<1>5. CASE DropFrame \/ ConvertFrame \/ Abort
  <2>1. /\ pc = "convert" /\ pc' \in {"convert", "aborted"} /\ which' = which
    BY <1>5 DEF DropFrame, ConvertFrame, Abort
  <2>2. Converting /\ Converting' BY <2>1 DEF Converting
  <2>3. which' = Kind BY <2>1, <2>2 DEF Shape
  <2>4. pc # "reset" /\ pc' # "reset" BY <2>1
  <2> QED BY <1>1, <2>1, <2>2, <2>3, <2>4, Calm
<1> QED BY <1>1, <1>2, <1>3, <1>4, <1>5

\* What is left when the messages of the cache have gone.
LEMMA DropAlike ==
  ASSUME UploadTypeOK, UploadTypeOK', Shape, Goes(Line', Line, Len(cached[Kind])), Kind' = Kind,
         cached' = [cached EXCEPT ![Kind] = <<>>]
  PROVE  Alike' /\ \A k \in Kinds : cached'[k] = <<>>
<1> DEFINE z == Len(cached[Kind])
<1>1. Len(Line) = z + Len(Line') /\ \A i \in 1..Len(Line') : Line'[i] = Line[z + i]
  BY DEF Goes
<1>2. z \in Nat /\ Len(Line') \in Nat
  <2>1. LineFacts /\ LineFacts' BY LineHas, LinePrimed
  <2>2. z \in Nat BY <2>1 DEF LineFacts
  <2>3. Line' \in Seq(Messages) BY <2>1 DEF LineFacts
  <2> QED BY <2>2, <2>3, LenProperties
<1> HIDE DEF z
<1>3. ASSUME NEW i \in 1..Len(Line')
      PROVE  Line'[i].type = Kind /\ (Line'[i].n > 0 => Line'[i].addr # None)
  <2>1. z + i \in 1..Len(Line) BY <1>1, <1>2
  <2> QED BY <1>1, <2>1, ShapeLine
<1>4. Alike' BY <1>3 DEF Alike
<1>5. ASSUME NEW k \in Kinds PROVE cached'[k] = <<>>
  <2>1. cached \in [Kinds -> Seq(Messages)] BY DEF UploadTypeOK
  <2>2. k # Kind => cached[k] = <<>> BY DEF Shape
  <2> QED BY <2>1, <2>2
<1> QED BY <1>4, <1>5

LEMMA SucceedsShape ==
  ASSUME UploadTypeOK, UploadTypeOK', Shape, PostSucceeds
  PROVE  Shape' /\ Goes(Line', Line, Len(cached[Kind])) /\ Kind' = Kind /\ which = Kind
<1>1. /\ pc = "convert" /\ pc' \in {"check", "receive"} /\ todo' = 1 /\ body' = <<>>
      /\ file' = file /\ mode' = mode /\ queue' = queue /\ inflight' = inflight
      /\ cached' = [cached EXCEPT ![which] = <<>>]
  BY DEF PostSucceeds, Converted, Advance, addVars
<1>2. which = Kind BY <1>1 DEF Shape, Converting
<1>3. Goes(Line', Line, Len(cached[Kind])) /\ Kind' = Kind BY <1>1, <1>2, DropLine
<1>4. Alike' /\ \A k \in Kinds : cached'[k] = <<>> BY <1>1, <1>2, <1>3, DropAlike
<1>5. ~Converting' /\ pc' # "reset" BY <1>1 DEF Converting
<1>6. file' = <<>> /\ ShortLines(file')
  <2>1. pc # "reset" BY <1>1
  <2> QED BY <1>1, <2>1 DEF Shape
<1>7. Shape' BY <1>1, <1>4, <1>5, <1>6 DEF Shape
<1> QED BY <1>2, <1>3, <1>7

\* What a save leaves: the lines of the cache's messages, with the ring's first boxes,
\* unless there are too few.
SavedFile(off) ==
  LET c == cached[Kind]
      n == Len(cached[Kind])
  IN  /\ IsUpto(off, n, Counts(c))
      /\ Len(file') = n
      /\ \A i \in 1..n : file'[i].frame = c[i].frame /\ Len(file'[i].boxes) = c[i].n
      /\ copied' = (copied \/ off[n] > Len(boxes.q))
      /\ off[n] <= Len(boxes.q) =>
           /\ Taken(boxes', boxes, BoxRing, off[n])
           /\ \A i \in 1..n : \A l \in 1..c[i].n : file'[i].boxes[l] = boxes.q[off[i - 1] + l]

LEMMA SaveIs ==
  ASSUME UploadTypeOK, Save, which = Kind
  PROVE  \E off : SavedFile(off)
<1> DEFINE c == cached[Kind]
           n == Len(c)
           a == Saved(c)
<1>1. c \in Seq(Messages) /\ n \in Nat BY LineIs
<1>2. file' = a.lines /\ boxes' = a.ring /\ copied' = (copied \/ a.short) BY DEF Save
<1> HIDE DEF c, n
<1>3. PICK off : IsUpto(off, n, Counts(c)) BY <1>1, NumbersAre DEF n
<1>4. SavedTo(a, c, off, n) BY <1>1, <1>3, RingsAre, SavedIs DEF n
<1> HIDE DEF a
<1>5. /\ Len(a.lines) = n
      /\ \A i \in 1..n : a.lines[i].frame = c[i].frame /\ Len(a.lines[i].boxes) = c[i].n
      /\ a.short <=> off[n] > Len(boxes.q)
  BY <1>4 DEF SavedTo
<1>6. ~a.short => /\ Taken(a.ring, boxes, BoxRing, off[n])
                  /\ \A i \in 1..n : \A l \in 1..c[i].n :
                       a.lines[i].boxes[l] = boxes.q[off[i - 1] + l]
  BY <1>4 DEF SavedTo
<1>7. off[n] \in Nat /\ Len(boxes.q) \in Nat
  <2>1. off \in [0..n -> Nat] /\ n \in 0..n BY <1>1, <1>3 DEF IsUpto
  <2> QED BY <2>1, RingsAre
<1>8. off[n] <= Len(boxes.q) => ~a.short BY <1>5, <1>7
<1>9. copied' = (copied \/ off[n] > Len(boxes.q))
  <2>1. a.short <=> off[n] > Len(boxes.q) BY <1>5
  <2>2. copied' <=> (copied \/ a.short) BY <1>2
  <2>3. copied' = (copied \/ a.short) BY <1>2
  <2>4. (copied \/ a.short) = (copied \/ off[n] > Len(boxes.q)) BY <2>1
  <2> QED BY <2>3, <2>4
<1> QED BY <1>2, <1>3, <1>5, <1>6, <1>8, <1>9 DEF SavedFile, c, n

LEMMA GivenUpAt ==
  ASSUME UploadTypeOK, Shape, ConnectFails \/ PostFails
  PROVE  /\ which = Kind /\ pc \in {"check", "convert"} /\ file = <<>> /\ Kind' = Kind
         /\ mode' = mode /\ queue' = queue /\ inflight' = inflight /\ images' = images
         /\ posted' = posted /\ frames' = frames /\ todo' = 1 /\ body' = <<>>
         /\ GoOn \/ Save \/ GiveIn
<1>1. PostGaveUp BY DEF ConnectFails, PostFails
<1>2. GoOn \/ Save \/ GiveIn BY <1>1, GaveUpIs
<1>3. /\ mode' = mode /\ queue' = queue /\ inflight' = inflight /\ images' = images
      /\ posted' = posted /\ frames' = frames
  BY DEF ConnectFails, PostFails, addVars
<1>4. Kind' = Kind BY <1>3, KindKept
<1>5. CASE ConnectFails
  <2>1. Due /\ pc = "check" /\ todo' = todo /\ body' = body BY <1>5 DEF ConnectFails
  <2>2. which = Kind BY <2>1, DueKind
  <2>3. todo = 1 /\ body = <<>> /\ file = <<>> BY <2>1 DEF Shape, Converting
  <2> QED BY <1>2, <1>3, <1>4, <2>1, <2>2, <2>3
<1>6. CASE PostFails
  <2>1. pc = "convert" /\ todo' = 1 /\ body' = <<>> BY <1>6 DEF PostFails, Converted
  <2>2. which = Kind /\ file = <<>> BY <2>1 DEF Shape, Converting
  <2> QED BY <1>2, <1>3, <1>4, <2>1, <2>2
<1> QED BY <1>5, <1>6

LEMMA FailsShape ==
  ASSUME UploadTypeOK, UploadTypeOK', Shape, ConnectFails \/ PostFails
  PROVE  /\ Shape'
         /\ \/ GoOn /\ Still
            \/ GiveIn /\ Still
            \/ Save /\ Goes(Line', Line, Len(cached[Kind]))
<1>1. /\ which = Kind /\ pc \in {"check", "convert"} /\ file = <<>> /\ Kind' = Kind
      /\ mode' = mode /\ queue' = queue /\ inflight' = inflight
      /\ todo' = 1 /\ body' = <<>>
      /\ GoOn \/ Save \/ GiveIn
  BY GivenUpAt
<1>2. CASE GoOn
  <2>1. pc' \in {"check", "receive"} /\ file' = file /\ Still
    BY <1>1, <1>2 DEF GoOn, Advance, Still
  <2>2. ~Converting' /\ pc # "reset" /\ pc' # "reset" BY <1>1, <2>1 DEF Converting
  <2>3. Shape' BY <1>1, <2>1, <2>2, Calm
  <2> QED BY <1>2, <2>1, <2>3
<1>3. CASE GiveIn
  <2>1. pc' = "reset" /\ file' = file /\ Still /\ which = "TRACKING"
    BY <1>1, <1>3 DEF GiveIn, Still
  <2>2. mode = "NORMAL"
    <3>1. Kind = "TRACKING" BY <1>1, <2>1
    <3> QED BY <3>1 DEF Kind
  <2>3. Line' = Line /\ cached' = cached BY <2>1, StillLine DEF Still
  <2>4. Alike' BY <1>1, <2>3, AlikeStays DEF Shape
  <2>5. \A k \in Kinds : k # Kind' => cached'[k] = <<>> BY <1>1, <2>3, CacheStays
  <2>6. ~Converting' BY <2>1 DEF Converting
  <2>7. file' = <<>> /\ ShortLines(file') BY <1>1, <2>1 DEF Shape
  <2>8. Shape' BY <1>1, <2>1, <2>2, <2>4, <2>5, <2>6, <2>7 DEF Shape
  <2> QED BY <1>3, <2>1, <2>8
<1>4. CASE Save
  <2>1. pc' = "reset" /\ which = "TRACKING" /\ cached' = [cached EXCEPT ![Kind] = <<>>]
    BY <1>1, <1>4 DEF Save
  <2>2. mode' = "NORMAL"
    <3>1. Kind = "TRACKING" BY <1>1, <2>1
    <3> QED BY <1>1, <3>1 DEF Kind
  <2>3. Goes(Line', Line, Len(cached[Kind])) BY <1>1, <2>1, DropLine
  <2>4. Alike' /\ \A k \in Kinds : cached'[k] = <<>> BY <1>1, <2>1, <2>3, DropAlike
  <2>5. ~Converting' BY <2>1 DEF Converting
  <2>6. PICK off : SavedFile(off) BY <1>1, <1>4, SaveIs
  <2>7. ShortLines(file')
    <3>1. \A i \in 1..Len(cached[Kind]) : Len(file'[i].boxes) = cached[Kind][i].n
      BY <2>6 DEF SavedFile
    <3>2. Len(file') = Len(cached[Kind]) BY <2>6 DEF SavedFile
    <3>3. cached[Kind] \in Seq(Messages) BY LineIs
    <3>4. ASSUME NEW i \in 1..Len(file') PROVE Len(file'[i].boxes) <= MaxBoxes
      <4>1. i \in 1..Len(cached[Kind]) BY <3>2
      <4>2. cached[Kind][i] \in Messages BY <3>3, <4>1, ElementOfSeq
      <4>3. cached[Kind][i].n \in 0..MaxBoxes BY <4>2, MessageIs
      <4>4. cached[Kind][i].n <= MaxBoxes BY <4>3
      <4> QED BY <3>1, <4>1, <4>4
    <3> QED BY <3>4 DEF ShortLines
  <2>8. cached'[Kind'] = <<>> BY <1>1, <2>4, Modes
  <2>9. Shape' BY <1>1, <2>1, <2>2, <2>4, <2>5, <2>7, <2>8 DEF Shape
  <2> QED BY <1>4, <2>3, <2>9
<1> QED BY <1>1, <1>2, <1>3, <1>4

\* A start: the line is what is read back.
LEMMA BootLine ==
  ASSUME UploadTypeOK, UploadTypeOK', Shape, Boot
  PROVE  /\ Kind' = Kind
         /\ Kind = "TRACKING" => Line' = ReadBack.msgs
         /\ Kind # "TRACKING" => Line' = <<>> /\ file = <<>>
<1>1. /\ cached' = [k \in Kinds |-> IF k = "TRACKING" THEN ReadBack.msgs ELSE <<>>]
      /\ inflight' = <<>> /\ queue' = <<>> /\ mode' = mode
  BY DEF Boot
<1>2. Kind' = Kind BY <1>1, KindKept
<1>3. LineFacts' BY LinePrimed
<1> DEFINE c == cached'[Kind]
<1>4. c \in Seq(Messages) BY <1>2, <1>3 DEF LineFacts
<1>5. Line' = (c \o <<>>) \o <<>> BY <1>1, <1>2 DEF Line
<1>6. c = IF Kind = "TRACKING" THEN ReadBack.msgs ELSE <<>> BY <1>1, Modes
<1> HIDE DEF c
<1>7. c \o <<>> = c BY <1>4, ConcatEmptySeq
<1>8. Line' = c BY <1>5, <1>7
<1>9. Kind # "TRACKING" => file = <<>>
  <2>1. Kind # "TRACKING" => mode # "NORMAL" BY DEF Kind
  <2> QED BY <2>1 DEF Shape
<1> QED BY <1>2, <1>6, <1>8, <1>9

LEMMA BootIs ==
  ASSUME UploadTypeOK, Shape
  PROVE  /\ file \in Seq(FileLine) /\ ShortLines(file) /\ Len(file) \in Nat
         /\ \E off : IsUpto(off, Len(file), LineSizes(file)) /\ ReadTo(ReadBack, off, Len(file))
         /\ ReadBack \in Readings
<1>1. file \in Seq(FileLine) /\ ShortLines(file) BY DEF UploadTypeOK, Shape, FileLine
<1>2. PICK off : IsUpto(off, Len(file), LineSizes(file)) BY <1>1, LineSizesAre
<1>3. ReadBack \in Readings /\ ReadTo(ReadBack, off, Len(file)) BY <1>1, <1>2, ReadBackIs
<1> QED BY <1>1, <1>2, <1>3, LenProperties

\* What the messages read back are, whether or not their boxes fit.
LEMMA BootMsgs ==
  ASSUME UploadTypeOK, Shape
  PROVE  /\ Len(ReadBack.msgs) = Len(file) /\ ReadBack.msgs \in Seq(Messages)
         /\ \A i \in 1..Len(file) :
              /\ ReadBack.msgs[i].type = "TRACKING"
              /\ ReadBack.msgs[i].frame = file[i].frame
              /\ ReadBack.msgs[i].n = Len(file[i].boxes)
              /\ ReadBack.msgs[i].img = None
              /\ ReadBack.msgs[i].addr # None
<1>1. PICK off : IsUpto(off, Len(file), LineSizes(file)) /\ ReadTo(ReadBack, off, Len(file))
  BY BootIs
<1>2. ReadTo(ReadBack, off, Len(file)) BY <1>1
<1>3. ReadBack.msgs \in Seq(Messages) BY BootIs, ReadingsAre
<1> QED BY <1>2, <1>3 DEF ReadTo

LEMMA BootShape ==
  ASSUME UploadTypeOK, UploadTypeOK', Shape, Boot
  PROVE  Shape'
<1>1. /\ Kind' = Kind
      /\ Kind = "TRACKING" => Line' = ReadBack.msgs
      /\ Kind # "TRACKING" => Line' = <<>> /\ file = <<>>
  BY BootLine
<1>2. /\ cached' = [k \in Kinds |-> IF k = "TRACKING" THEN ReadBack.msgs ELSE <<>>]
      /\ file' = <<>> /\ pc' = "receive" /\ todo' = 1 /\ body' = <<>>
  BY DEF Boot
<1>3. /\ Len(ReadBack.msgs) = Len(file)
      /\ \A i \in 1..Len(file) :
           /\ ReadBack.msgs[i].type = "TRACKING"
           /\ ReadBack.msgs[i].addr # None
  BY BootMsgs
<1>4. Len(<<>>) = 0 BY EmptySeq
<1>5. Alike'
  <2>1. CASE Kind = "TRACKING"
    <3>1. Line' = ReadBack.msgs BY <1>1, <2>1
    <3> QED BY <1>1, <1>3, <2>1, <3>1 DEF Alike
  <2>2. CASE Kind # "TRACKING"
    <3>1. Line' = <<>> BY <1>1, <2>2
    <3>2. \A i \in 1..0 : FALSE OBVIOUS
    <3> QED BY <1>4, <3>1, <3>2 DEF Alike
  <2> QED BY <2>1, <2>2
<1>6. \A k \in Kinds : k # Kind' => cached'[k] = <<>>
  <2>1. CASE Kind = "TRACKING" BY <1>1, <1>2, <2>1
  <2>2. CASE Kind # "TRACKING"
    <3>1. ReadBack.msgs \in Seq(Messages) /\ Len(ReadBack.msgs) = 0
      BY <1>1, <1>3, <1>4, <2>2, BootMsgs
    <3>2. ReadBack.msgs = <<>> BY <3>1, EmptySeq
    <3> QED BY <1>2, <3>2
  <2> QED BY <2>1, <2>2
<1>7. ~Converting' /\ pc' # "reset" BY <1>2 DEF Converting
<1>8. ShortLines(file')
  <2>1. \A i \in 1..0 : FALSE OBVIOUS
  <2> QED BY <1>2, <1>4, <2>1 DEF ShortLines
<1> QED BY <1>2, <1>5, <1>6, <1>7, <1>8 DEF Shape

LEMMA InitShape ==
  ASSUME UploadInit
  PROVE  Shape /\ Line = <<>>
<1>1. /\ cached = [k \in Kinds |-> <<>>] /\ queue = <<>> /\ inflight = <<>>
      /\ pc = "receive" /\ todo = 1 /\ body = <<>> /\ file = <<>>
  BY DEF UploadInit
<1>2. Len(<<>>) = 0 /\ <<>> \in Seq(Messages) BY EmptySeq
<1>3. cached[Kind] = <<>> BY <1>1, Modes
<1>4. <<>> \o <<>> = <<>> BY <1>2, ConcatEmptySeq
<1>5. Line = <<>> BY <1>1, <1>3, <1>4 DEF Line
<1>6. \A i \in 1..0 : FALSE OBVIOUS
<1>7. Alike /\ ShortLines(file) BY <1>1, <1>2, <1>5, <1>6 DEF Alike, ShortLines
<1> QED BY <1>1, <1>5, <1>7 DEF Shape, Converting

-----------------------------------------------------------------------------
(* Frames in order                                                         *)

Framed(s)    == \A i \in 1..Len(s) : s[i].frame \in Nat
Rising(s)    == \A i, j \in 1..Len(s) : i < j => s[i].frame < s[j].frame
Under(s, f)  == \A i \in 1..Len(s) : s[i].frame < f

\* The frames of one sequence before those of another from behind its d-th.
Before(s, t, d) == \A i \in 1..Len(s), j \in 1..Len(t) : d < j => s[i].frame < t[j].frame

\* The first frames of a sequence are all of another's.
Copies(t, s) == Len(t) <= Len(s) /\ \A i \in 1..Len(t) : t[i].frame = s[i].frame

LEMMA FramedIs ==
  ASSUME NEW s
  PROVE  /\ s \in Seq(Messages) => Framed(s) /\ Len(s) \in Nat
         /\ s \in Seq(Entries) => Framed(s) /\ Len(s) \in Nat
         /\ s \in Seq(FileLine) => Framed(s) /\ Len(s) \in Nat
<1>1. \A f \in 1..MaxFrames : f \in Nat BY Sizes
<1>2. ASSUME s \in Seq(Messages) PROVE Framed(s) /\ Len(s) \in Nat
  <2>1. \A i \in 1..Len(s) : s[i] \in Messages BY <1>2, ElementOfSeq
  <2>2. \A m \in Messages : m.frame \in Nat BY <1>1, MessageIs
  <2> QED BY <1>2, <2>1, <2>2, LenProperties DEF Framed
<1>3. ASSUME s \in Seq(Entries) PROVE Framed(s) /\ Len(s) \in Nat
  <2>1. \A i \in 1..Len(s) : s[i] \in Entries BY <1>3, ElementOfSeq
  <2>2. \A m \in Entries : m.frame \in Nat BY <1>1 DEF Entries
  <2> QED BY <1>3, <2>1, <2>2, LenProperties DEF Framed
<1>4. ASSUME s \in Seq(FileLine) PROVE Framed(s) /\ Len(s) \in Nat
  <2>1. \A i \in 1..Len(s) : s[i] \in FileLine BY <1>4, ElementOfSeq
  <2>2. \A m \in FileLine : m.frame \in Nat BY <1>1 DEF FileLine
  <2> QED BY <1>4, <2>1, <2>2, LenProperties DEF Framed
<1> QED BY <1>2, <1>3, <1>4

LEMMA OrderOfNone ==
  ASSUME NEW s, NEW d, NEW f
  PROVE  /\ Rising(<<>>) /\ Under(<<>>, f) /\ Before(<<>>, s, d) /\ Before(s, <<>>, d)
<1>1. Len(<<>>) = 0 BY EmptySeq
<1>2. \A i \in 1..0 : FALSE OBVIOUS
<1> QED BY <1>1, <1>2 DEF Rising, Under, Before

LEMMA RisingMore ==
  ASSUME NEW s, NEW t, OneMore(t, s), Len(s) \in Nat, Rising(s), Under(s, t[Len(s) + 1].frame)
  PROVE  Rising(t)
<1>1. Len(t) = Len(s) + 1 /\ \A i \in 1..Len(s) : t[i] = s[i] BY DEF OneMore
<1>2. ASSUME NEW i \in 1..Len(t), NEW j \in 1..Len(t), i < j PROVE t[i].frame < t[j].frame
  <2>1. i \in 1..Len(s) BY <1>1, <1>2
  <2>2. CASE j \in 1..Len(s) BY <1>1, <1>2, <2>1, <2>2 DEF Rising
  <2>3. CASE j = Len(s) + 1 BY <1>1, <2>1, <2>3 DEF Under
  <2> QED BY <1>1, <2>2, <2>3
<1> QED BY <1>2 DEF Rising

LEMMA UnderMore ==
  ASSUME NEW s, NEW t, OneMore(t, s), Len(s) \in Nat, NEW f, Under(s, f), t[Len(s) + 1].frame < f
  PROVE  Under(t, f)
<1>1. Len(t) = Len(s) + 1 /\ \A i \in 1..Len(s) : t[i] = s[i] BY DEF OneMore
<1>2. ASSUME NEW i \in 1..Len(t) PROVE t[i].frame < f
  <2>1. CASE i \in 1..Len(s) BY <1>1, <2>1 DEF Under
  <2>2. CASE i = Len(s) + 1 BY <1>1, <2>2
  <2> QED BY <1>1, <2>1, <2>2
<1> QED BY <1>2 DEF Under

LEMMA BeforeMore ==
  ASSUME NEW x, NEW s, NEW t, OneMore(t, s), Len(s) \in Nat, NEW d, Before(x, s, d),
         Under(x, t[Len(s) + 1].frame)
  PROVE  Before(x, t, d)
<1>1. Len(t) = Len(s) + 1 /\ \A i \in 1..Len(s) : t[i] = s[i] BY DEF OneMore
<1>2. ASSUME NEW i \in 1..Len(x), NEW j \in 1..Len(t), d < j PROVE x[i].frame < t[j].frame
  <2>2. CASE j \in 1..Len(s) BY <1>1, <1>2, <2>2 DEF Before
  <2>3. CASE j = Len(s) + 1 BY <1>1, <2>3 DEF Under
  <2> QED BY <1>1, <2>2, <2>3
<1> QED BY <1>2 DEF Before

LEMMA UnderRises ==
  ASSUME NEW s, Framed(s), NEW f \in Nat, NEW g \in Nat, f <= g, Under(s, f)
  PROVE  Under(s, g)
<1>1. ASSUME NEW i \in 1..Len(s) PROVE s[i].frame < g
  <2>1. s[i].frame \in Nat /\ s[i].frame < f BY DEF Framed, Under
  <2> QED BY <2>1
<1> QED BY <1>1 DEF Under

\* All before the d-th of a sequence that rises.
LEMMA BeforeLater ==
  ASSUME NEW x, NEW s, NEW d \in Nat, NEW e \in Nat, d <= e, Before(x, s, d)
  PROVE  Before(x, s, e)
<1>1. \A j \in 1..Len(s) : e < j => d < j OBVIOUS
<1> QED BY <1>1 DEF Before

LEMMA BeforeOne ==
  ASSUME NEW x, NEW s, NEW d, NEW j \in 1..Len(s), d < j, Before(x, s, d)
  PROVE  Under(x, s[j].frame)
BY DEF Before, Under

LEMMA OrderDrops ==
  ASSUME NEW s, NEW t, NEW z \in Nat, Len(s) \in Nat, Len(t) \in Nat, Goes(t, s, z)
  PROVE  /\ Rising(s) => Rising(t)
         /\ \A f : Under(s, f) => Under(t, f)
<1>1. Len(s) = z + Len(t) /\ \A i \in 1..Len(t) : t[i] = s[z + i] BY DEF Goes
<1>2. \A i \in 1..Len(t) : z + i \in 1..Len(s) BY <1>1
<1>3. \A i, j \in 1..Len(t) : i < j => z + i < z + j OBVIOUS
<1>4. Rising(s) => Rising(t) BY <1>1, <1>2, <1>3 DEF Rising
<1>5. \A f : Under(s, f) => Under(t, f) BY <1>1, <1>2 DEF Under
<1> QED BY <1>4, <1>5

LEMMA BeforeDrops ==
  ASSUME NEW s, NEW t, NEW z \in Nat, Len(s) \in Nat, Len(t) \in Nat, Goes(t, s, z),
         NEW x, NEW d \in Nat, d <= z, Before(x, s, d)
  PROVE  Before(x, t, 0)
<1>1. Len(s) = z + Len(t) /\ \A i \in 1..Len(t) : t[i] = s[z + i] BY DEF Goes
<1>2. \A i \in 1..Len(t) : z + i \in 1..Len(s) /\ d < z + i BY <1>1
<1> QED BY <1>1, <1>2 DEF Before

LEMMA OrderCopies ==
  ASSUME NEW s, NEW t, Len(s) \in Nat, Len(t) \in Nat, Copies(t, s)
  PROVE  /\ Rising(s) => Rising(t)
         /\ \A f : Under(s, f) => Under(t, f)
         /\ \A x, d : Before(x, s, d) => Before(x, t, d)
<1>1. \A i \in 1..Len(t) : i \in 1..Len(s) /\ t[i].frame = s[i].frame BY DEF Copies
<1> QED BY <1>1 DEF Rising, Under, Before

\* What rises, parted.
LEMMA PartsBefore ==
  ASSUME NEW s, NEW t, NEW u, NEW z \in Nat, Len(s) \in Nat, Len(t) \in Nat, Len(u) = z,
         Goes(t, s, z), Copies(u, s), Rising(s)
  PROVE  Before(u, t, 0)
<1>1. Len(s) = z + Len(t) /\ \A i \in 1..Len(t) : t[i] = s[z + i] BY DEF Goes
<1>2. \A i \in 1..z : u[i].frame = s[i].frame BY DEF Copies
<1>3. ASSUME NEW i \in 1..z, NEW j \in 1..Len(t) PROVE u[i].frame < t[j].frame
  <2>1. i \in 1..Len(s) /\ z + j \in 1..Len(s) /\ i < z + j BY <1>1
  <2> QED BY <1>1, <1>2, <2>1 DEF Rising
<1> QED BY <1>3 DEF Before

\* One sequence behind another.
Joined(w, s, t) ==
  /\ Len(w) = Len(s) + Len(t)
  /\ \A i \in 1..Len(w) : w[i] = IF i <= Len(s) THEN s[i] ELSE t[i - Len(s)]

LEMMA JoinedIs ==
  ASSUME NEW S, NEW s \in Seq(S), NEW t \in Seq(S)
  PROVE  Joined(s \o t, s, t) /\ s \o t \in Seq(S)
BY ConcatProperties DEF Joined

LEMMA OrderJoined ==
  ASSUME NEW s, NEW t, NEW w, Len(s) \in Nat, Len(t) \in Nat, Joined(w, s, t)
  PROVE  /\ Rising(s) /\ Rising(t) /\ Before(s, t, 0) => Rising(w)
         /\ \A f : Under(s, f) /\ Under(t, f) => Under(w, f)
         /\ \A x, d : Before(s, x, d) /\ Before(t, x, d) => Before(w, x, d)
<1>1. Len(w) = Len(s) + Len(t)
      /\ \A i \in 1..Len(w) : w[i] = IF i <= Len(s) THEN s[i] ELSE t[i - Len(s)]
  BY DEF Joined
<1>2. ASSUME NEW i \in 1..Len(w)
      PROVE  \/ i \in 1..Len(s) /\ w[i] = s[i]
             \/ i > Len(s) /\ i - Len(s) \in 1..Len(t) /\ w[i] = t[i - Len(s)]
  BY <1>1
<1>3. ASSUME Rising(s), Rising(t), Before(s, t, 0), NEW i \in 1..Len(w), NEW j \in 1..Len(w), i < j
      PROVE  w[i].frame < w[j].frame
  <2>1. CASE i \in 1..Len(s) /\ j \in 1..Len(s) BY <1>2, <1>3, <2>1 DEF Rising
  <2>2. CASE i \in 1..Len(s) /\ j > Len(s)
    <3>1. w[i] = s[i] /\ j - Len(s) \in 1..Len(t) /\ w[j] = t[j - Len(s)] /\ 0 < j - Len(s)
      BY <1>2, <2>2
    <3> QED BY <1>3, <2>2, <3>1 DEF Before
  <2>3. CASE i > Len(s)
    <3>1. j > Len(s) /\ i - Len(s) < j - Len(s) BY <1>3, <2>3
    <3>2. i - Len(s) \in 1..Len(t) /\ w[i] = t[i - Len(s)] BY <1>2, <2>3
    <3>3. j - Len(s) \in 1..Len(t) /\ w[j] = t[j - Len(s)] BY <1>2, <3>1
    <3> QED BY <1>3, <3>1, <3>2, <3>3 DEF Rising
  <2> QED BY <1>2, <2>1, <2>2, <2>3
<1>4. Rising(s) /\ Rising(t) /\ Before(s, t, 0) => Rising(w) BY <1>3 DEF Rising
<1>5. \A f : Under(s, f) /\ Under(t, f) => Under(w, f) BY <1>2 DEF Under
<1>6. \A x, d : Before(s, x, d) /\ Before(t, x, d) => Before(w, x, d) BY <1>2 DEF Before
<1> QED BY <1>4, <1>5, <1>6

\* Frames posted, converted, saved and waiting, in this order; and none newer than
\* the last one admitted.
Order ==
  /\ Rising(posted) /\ Rising(body) /\ Rising(file) /\ Rising(Line)
  /\ Before(posted, body, 0) /\ Before(posted, file, 0) /\ Before(posted, Line, 0)
  /\ Before(file, Line, 0) /\ Before(body, Line, todo - 1)
  /\ Under(posted, frames + 1) /\ Under(body, frames + 1)
  /\ Under(file, frames + 1) /\ Under(Line, frames + 1)

LEMMA OrderPosted ==
  ASSUME Order
  PROVE  PostedInOrder
BY DEF Order, Rising, PostedInOrder

LEMMA AllFramed ==
  ASSUME UploadTypeOK
  PROVE  /\ Framed(posted) /\ Framed(body) /\ Framed(file) /\ Framed(Line)
         /\ Len(posted) \in Nat /\ Len(body) \in Nat /\ Len(file) \in Nat /\ Len(Line) \in Nat
         /\ frames \in Nat /\ frames + 1 \in Nat
<1>1. /\ posted \in Seq(Entries) /\ body \in Seq(Entries) /\ file \in Seq(FileLine)
      /\ frames \in 0..MaxFrames
  BY DEF UploadTypeOK, FileLine
<1>2. Line \in Seq(Messages) BY LineIs
<1>3. frames \in Nat /\ frames + 1 \in Nat BY <1>1, Sizes
<1> QED BY <1>1, <1>2, <1>3, FramedIs

LEMMA InitOrder ==
  ASSUME UploadInit
  PROVE  Order
<1>1. posted = <<>> /\ body = <<>> /\ file = <<>> BY DEF UploadInit
<1>2. Line = <<>> BY InitShape
<1> QED BY <1>1, <1>2, OrderOfNone DEF Order

LEMMA AddOrder ==
  ASSUME UploadTypeOK, Shape, Order, AddTracking \/ AddImage
  PROVE  Order'
<1>1. PICK m \in Messages : Adds(m) /\ m.frame = frames + 1 BY AddShape
<1>2. /\ OneMore(Line', Line) /\ Line'[Len(Line) + 1].frame = frames + 1
  BY <1>1 DEF Adds
<1>3. /\ posted' = posted /\ body' = body /\ file' = file /\ todo' = todo /\ frames' = frames + 1
  BY DEF AddTracking, AddImage
<1>4. /\ Framed(posted) /\ Framed(body) /\ Framed(file) /\ Framed(Line) /\ Len(Line) \in Nat
      /\ frames \in Nat
  BY AllFramed
<1> DEFINE f == frames + 1
           g == f + 1
           M == Line'
           L == Line
           d == todo - 1
<1>5. f \in Nat /\ g \in Nat /\ f <= g /\ f < g BY <1>4
<1>6. /\ Rising(posted) /\ Rising(body) /\ Rising(file) /\ Rising(L)
      /\ Before(posted, body, 0) /\ Before(posted, file, 0) /\ Before(posted, L, 0)
      /\ Before(file, L, 0) /\ Before(body, L, d)
      /\ Under(posted, f) /\ Under(body, f) /\ Under(file, f) /\ Under(L, f)
  BY DEF Order
<1>7. OneMore(M, L) /\ M[Len(L) + 1].frame = f BY <1>2
<1> HIDE DEF f, M, L, d
<1>8. Len(L) \in Nat /\ Framed(L) BY <1>4 DEF L
<1>9. Rising(M) BY <1>6, <1>7, <1>8, RisingMore
<1>10. Before(posted, M, 0) BY <1>6, <1>7, <1>8, BeforeMore
<1>11. Before(file, M, 0) BY <1>6, <1>7, <1>8, BeforeMore
<1>12. Before(body, M, d) BY <1>6, <1>7, <1>8, BeforeMore
<1>13. Under(posted, g) BY <1>4, <1>5, <1>6, UnderRises
<1>14. Under(body, g) BY <1>4, <1>5, <1>6, UnderRises
<1>15. Under(file, g) BY <1>4, <1>5, <1>6, UnderRises
<1>16. Under(L, g) BY <1>5, <1>6, <1>8, UnderRises
<1>17. Under(M, g) BY <1>5, <1>7, <1>8, <1>16, UnderMore
<1> QED BY <1>3, <1>6, <1>9, <1>10, <1>11, <1>12, <1>13, <1>14, <1>15, <1>17
     DEF Order, f, M, d

\* Steps that leave posted, file and the line, and look further or start anew.
LEMMA QuietOrder ==
  ASSUME UploadTypeOK, Shape, Order, posted' = posted, file' = file, frames' = frames, Line' = Line,
         \/ body' = body /\ todo' \in {todo, todo + 1}
         \/ body' = <<>>
  PROVE  Order'
<1>1. CASE body' = body /\ todo' \in {todo, todo + 1}
  <2>1. todo \in Nat /\ todo >= 1 BY TodoIs
  <2> DEFINE d == todo - 1
             e == todo' - 1
  <2>2. d \in Nat /\ e \in Nat /\ d <= e
    <3> DEFINE t == todo'
    <3>1. t = todo \/ t = todo + 1 BY <1>1
    <3>2. e = t - 1 OBVIOUS
    <3> HIDE DEF t, e
    <3> QED BY <2>1, <3>1, <3>2
  <2>3. Before(body, Line, d) BY DEF Order
  <2> HIDE DEF d, e
  <2>4. Before(body, Line, e) BY <2>2, <2>3, BeforeLater
  <2> QED BY <1>1, <2>4 DEF Order, e
<1>2. CASE body' = <<>>
  <2> DEFINE e == todo' - 1
             f == frames + 1
  <2>1. Rising(<<>>) /\ Before(posted, <<>>, 0) /\ Before(<<>>, Line, e) /\ Under(<<>>, f)
    BY OrderOfNone
  <2> QED BY <1>2, <2>1 DEF Order
<1> QED BY <1>1, <1>2

LEMMA PlainOrder ==
  ASSUME UploadTypeOK, UploadTypeOK', Shape, Order,
         \/ Send \/ Receive \/ ReceiveSecond \/ ReceiveTimeout \/ NothingDue \/ Connect
         \/ DropFrame \/ Abort
  PROVE  Order'
<1>1. Line' = Line
  <2>1. CASE Send BY <2>1, SendLine
  <2>2. CASE Receive \/ ReceiveSecond BY <2>2, ReceiveLine
  <2>3. CASE ReceiveTimeout \/ NothingDue \/ Connect \/ DropFrame \/ Abort
    <3>1. Still BY <2>3, QuietShape
    <3> QED BY <3>1, StillLine
  <2> QED BY <2>1, <2>2, <2>3
<1>2. /\ posted' = posted /\ file' = file /\ frames' = frames
      /\ \/ body' = body /\ todo' \in {todo, todo + 1}
         \/ body' = <<>>
  BY DEF Send, Receive, ReceiveSecond, ReceiveTimeout, NothingDue, Connect, DropFrame, Abort,
         addVars
<1> QED BY <1>1, <1>2, QuietOrder

LEMMA ConvertOrder ==
  ASSUME UploadTypeOK, Shape, Order, ConvertFrame
  PROVE  Order'
<1>1. PICK m \in Messages, e \in Entries :
           /\ m = Line[todo] /\ todo \in 1..Len(cached[Kind])
           /\ body' = Append(body, e) /\ e.frame = m.frame
  BY ConvertIs
<1>2. /\ posted' = posted /\ file' = file /\ frames' = frames /\ todo' = todo + 1
  BY DEF ConvertFrame, addVars
<1>3. Line' = Line
  <2>1. Still BY QuietShape
  <2> QED BY <2>1, StillLine
<1> DEFINE L == Line
           B == body
           C == body'
           d == todo - 1
           f == frames + 1
<1>4. /\ Framed(L) /\ Len(L) \in Nat /\ Len(B) \in Nat /\ Framed(B) /\ Framed(posted)
  BY AllFramed
<1>5. todo \in Nat /\ todo \in 1..Len(L) /\ d \in Nat /\ d < todo /\ d <= todo /\ 0 < todo
  <2>1. /\ Len(cached[Kind]) \in Nat /\ Len(queue) \in Nat /\ Len(inflight) \in Nat
        /\ Len(L) = Len(cached[Kind]) + Len(queue) + Len(inflight)
    BY LineIs
  <2> HIDE DEF L
  <2> QED BY <1>1, <2>1
<1>6. body \in Seq(Entries) BY DEF UploadTypeOK
<1>7. OneMore(C, B) /\ C[Len(B) + 1].frame = L[todo].frame
  BY <1>1, <1>6, AppendProperties DEF OneMore
<1>8. /\ Rising(posted) /\ Rising(B) /\ Rising(L)
      /\ Before(posted, B, 0) /\ Before(posted, L, 0) /\ Before(B, L, d)
      /\ Under(B, f) /\ Under(L, f)
  BY DEF Order
<1> HIDE DEF L, B, C, d, f
<1>9. Rising(C)
  <2>1. Under(B, L[todo].frame) BY <1>5, <1>8, BeforeOne
  <2>2. Under(B, C[Len(B) + 1].frame) BY <1>7, <2>1
  <2> QED BY <1>4, <1>7, <1>8, <2>2, RisingMore
<1>10. Before(posted, C, 0)
  <2>1. Under(posted, L[todo].frame) BY <1>5, <1>8, BeforeOne
  <2>2. Under(posted, C[Len(B) + 1].frame) BY <1>7, <2>1
  <2> QED BY <1>4, <1>7, <1>8, <2>2, BeforeMore
<1>11. Under(C, f)
  <2>1. L[todo].frame < f BY <1>5, <1>8 DEF Under
  <2> QED BY <1>4, <1>7, <1>8, <2>1, UnderMore
<1>12. Before(C, L, todo)
  <2>1. ASSUME NEW i \in 1..Len(C), NEW j \in 1..Len(L), todo < j
        PROVE  C[i].frame < L[j].frame
    <3>1. CASE i \in 1..Len(B)
      <4>1. C[i] = B[i] BY <1>7, <3>1 DEF OneMore
      <4>2. d < j BY <1>5, <2>1
      <4> QED BY <1>8, <3>1, <4>1, <4>2 DEF Before
    <3>2. CASE i = Len(B) + 1 BY <1>5, <1>7, <1>8, <2>1, <3>2 DEF Rising
    <3> QED BY <1>4, <1>7, <3>1, <3>2 DEF OneMore
  <2> QED BY <2>1 DEF Before
<1>13. todo' - 1 = todo BY <1>2, <1>5
<1>14. Before(C, L, todo' - 1) BY <1>12, <1>13
<1>15. C = body' /\ L = Line BY DEF C, L
<1> HIDE DEF C
<1> QED BY <1>2, <1>3, <1>9, <1>10, <1>11, <1>14, <1>15 DEF Order, f

LEMMA SucceedsOrder ==
  ASSUME UploadTypeOK, UploadTypeOK', Shape, Order, PostSucceeds
  PROVE  Order'
<1>1. /\ posted' = posted \o body /\ body' = <<>> /\ todo' = 1 /\ file' = file /\ frames' = frames
      /\ pc = "convert" /\ todo > Len(cached[which])
  BY DEF PostSucceeds, Converted, addVars
<1>2. Goes(Line', Line, Len(cached[Kind])) /\ which = Kind BY SucceedsShape
<1> DEFINE z == Len(cached[Kind])
           d == todo - 1
           L == Line
           M == Line'
           w == posted \o body
           f == frames + 1
<1>3. z \in Nat /\ d \in Nat /\ d <= z
  <2>1. cached[Kind] \in Seq(Messages) /\ Len(cached[Kind]) \in Nat BY LineIs
  <2>2. todo \in Nat /\ todo >= 1 /\ todo - 1 \in 0..Len(cached[Kind]) BY TodoIs
  <2> QED BY <2>1, <2>2
<1>4. posted \in Seq(Entries) /\ body \in Seq(Entries) BY DEF UploadTypeOK
<1>5. Joined(w, posted, body) BY <1>4, JoinedIs
<1>6. Len(posted) \in Nat /\ Len(body) \in Nat /\ Len(L) \in Nat BY AllFramed
<1>7. Len(M) \in Nat
  <2>1. Line' \in Seq(Messages) BY LinePrimed DEF LineFacts
  <2> QED BY <2>1, LenProperties
<1>8. /\ Rising(posted) /\ Rising(body) /\ Rising(L)
      /\ Before(posted, body, 0) /\ Before(posted, L, 0) /\ Before(body, L, d)
      /\ Under(posted, f) /\ Under(body, f) /\ Under(L, f)
  BY DEF Order
<1>9. file = <<>> BY <1>1 DEF Shape
<1>10. Goes(M, L, z) BY <1>2
<1> HIDE DEF z, d, L, M, w, f
<1>11. Rising(w) BY <1>5, <1>6, <1>8, OrderJoined
<1>12. Under(w, f) BY <1>5, <1>6, <1>8, OrderJoined
<1>13. Before(posted, M, 0)
  <2>1. 0 \in Nat /\ 0 <= z BY <1>3
  <2> QED BY <1>3, <1>6, <1>7, <1>8, <1>10, <2>1, BeforeDrops
<1>14. Before(body, M, 0) BY <1>3, <1>6, <1>7, <1>8, <1>10, BeforeDrops
<1>15. Before(w, M, 0) BY <1>5, <1>6, <1>13, <1>14, OrderJoined
<1>16. Rising(M) /\ Under(M, f) BY <1>3, <1>6, <1>7, <1>8, <1>10, OrderDrops
<1> DEFINE e == todo' - 1
<1>17. Before(w, <<>>, 0) /\ Before(<<>>, M, 0) /\ Before(<<>>, M, e) /\ Rising(<<>>)
       /\ Under(<<>>, f)
  BY OrderOfNone
<1>18. posted' = w /\ M = Line' BY <1>1 DEF w, M
<1> QED BY <1>1, <1>9, <1>11, <1>12, <1>15, <1>16, <1>17, <1>18 DEF Order, f

LEMMA FailsOrder ==
  ASSUME UploadTypeOK, UploadTypeOK', Shape, Order, ConnectFails \/ PostFails
  PROVE  Order'
<1>1. /\ which = Kind /\ file = <<>> /\ Kind' = Kind
      /\ posted' = posted /\ frames' = frames /\ todo' = 1 /\ body' = <<>>
  BY GivenUpAt
<1>2. \/ GoOn /\ Still
      \/ GiveIn /\ Still
      \/ Save /\ Goes(Line', Line, Len(cached[Kind]))
  BY FailsShape
<1>3. CASE (GoOn \/ GiveIn) /\ Still
  <2>1. Line' = Line BY <1>3, StillLine
  <2>2. file' = file BY <1>3 DEF GoOn, GiveIn
  <2> QED BY <1>1, <2>1, <2>2, QuietOrder
<1>4. CASE Save /\ Goes(Line', Line, Len(cached[Kind]))
  <2>1. PICK off : SavedFile(off) BY <1>1, <1>4, SaveIs
  <2> DEFINE z == Len(cached[Kind])
             L == Line
             M == Line'
             F == file'
             f == frames + 1
             e == todo' - 1
  <2>2. /\ Len(F) = z /\ \A i \in 1..z : F[i].frame = cached[Kind][i].frame
    BY <2>1 DEF SavedFile
  <2>3. /\ z \in Nat /\ z <= Len(L) /\ Len(L) \in Nat
        /\ \A i \in 1..z : L[i] = cached[Kind][i]
    <3>1. /\ Len(cached[Kind]) \in Nat /\ Len(queue) \in Nat /\ Len(inflight) \in Nat
          /\ Len(Line) = Len(cached[Kind]) + Len(queue) + Len(inflight)
          /\ \A i \in 1..Len(cached[Kind]) : Line[i] = cached[Kind][i]
      BY LineIs
    <3> QED BY <3>1
  <2>4. Len(M) \in Nat
    <3>1. Line' \in Seq(Messages) BY LinePrimed DEF LineFacts
    <3> QED BY <3>1, LenProperties
  <2>5. /\ Rising(posted) /\ Rising(L) /\ Before(posted, L, 0) /\ Under(posted, f) /\ Under(L, f)
    BY DEF Order
  <2>6. Goes(M, L, z) BY <1>4
  <2>7. Copies(F, L) BY <2>2, <2>3 DEF Copies
  <2> HIDE DEF z, L, M, F, f, e
  <2>8. Rising(F) /\ Under(F, f) /\ Before(posted, F, 0)
    BY <2>2, <2>3, <2>5, <2>7, OrderCopies
  <2>9. Before(F, M, 0) BY <2>2, <2>3, <2>4, <2>5, <2>6, <2>7, PartsBefore
  <2>10. Rising(M) /\ Under(M, f) BY <2>3, <2>4, <2>5, <2>6, OrderDrops
  <2>11. Before(posted, M, 0)
    <3>1. 0 \in Nat /\ 0 <= z BY <2>3
    <3> QED BY <2>3, <2>4, <2>5, <2>6, <3>1, BeforeDrops
  <2>12. Before(posted, <<>>, 0) /\ Before(<<>>, M, e) /\ Rising(<<>>) /\ Under(<<>>, f)
    BY OrderOfNone
  <2>13. F = file' /\ M = Line' /\ e = todo' - 1 BY DEF F, M, e
  <2> QED BY <1>1, <2>5, <2>8, <2>9, <2>10, <2>11, <2>12, <2>13 DEF Order, f
<1> QED BY <1>2, <1>3, <1>4

LEMMA BootOrder ==
  ASSUME UploadTypeOK, UploadTypeOK', Shape, Order, Boot
  PROVE  Order'
<1>1. /\ posted' = posted /\ frames' = frames /\ todo' = 1 /\ body' = <<>> /\ file' = <<>>
  BY DEF Boot
<1> DEFINE M == Line'
           f == frames + 1
           e == todo' - 1
<1>2. /\ Rising(file) /\ Before(posted, file, 0) /\ Under(file, f)
      /\ Rising(posted) /\ Under(posted, f)
  BY DEF Order
<1>3. Rising(M) /\ Before(posted, M, 0) /\ Under(M, f)
  <2>1. CASE Kind = "TRACKING"
    <3>1. M = ReadBack.msgs BY <2>1, BootLine
    <3>2. /\ Len(ReadBack.msgs) = Len(file)
          /\ \A i \in 1..Len(file) : ReadBack.msgs[i].frame = file[i].frame
      BY BootMsgs
    <3>3. Len(file) \in Nat BY AllFramed
    <3>4. Copies(M, file) /\ Len(M) \in Nat BY <3>1, <3>2, <3>3 DEF Copies
    <3> HIDE DEF M, f
    <3> QED BY <1>2, <3>3, <3>4, OrderCopies
  <2>2. CASE Kind # "TRACKING"
    <3>1. M = <<>> BY <2>2, BootLine
    <3> HIDE DEF M, f
    <3> QED BY <3>1, OrderOfNone
  <2> QED BY <2>1, <2>2
<1>4. M = Line' /\ e = todo' - 1 OBVIOUS
<1> HIDE DEF M, e, f
<1>5. /\ Before(posted, <<>>, 0) /\ Before(<<>>, M, e) /\ Before(<<>>, M, 0)
      /\ Rising(<<>>) /\ Under(<<>>, f)
  BY OrderOfNone
<1> QED BY <1>1, <1>2, <1>3, <1>4, <1>5 DEF Order, f

-----------------------------------------------------------------------------
(* The rings in step with the line                                         *)

LEMMA ClaimIs ==
  ASSUME NEW m \in Messages
  PROVE  /\ BoxClaim(m).addr = m.addr /\ ImageClaim(m).addr = m.img
         /\ BoxClaim(m).data = BoxesOf(m.frame, m.n) /\ Len(BoxClaim(m).data) = m.n
         /\ \A k \in 1..m.n : BoxClaim(m).data[k] = <<m.frame, k>>
         /\ BoxClaim(m).data = <<>> <=> m.n = 0
         /\ m.img = None => ImageClaim(m).data = <<>> /\ Len(ImageClaim(m).data) = 0
         /\ m.img # None => ImageClaim(m).data = <<m.frame>> /\ Len(ImageClaim(m).data) = 1
<1>1. m.frame \in 0..MaxFrames /\ m.n \in 0..MaxBoxes
  <2>1. m.frame \in 1..MaxFrames /\ m.n \in 0..MaxBoxes BY MessageIs
  <2> QED BY <2>1, Sizes
<1>2. BoxClaim(m).addr = m.addr /\ ImageClaim(m).addr = m.img
      /\ BoxClaim(m).data = BoxesOf(m.frame, m.n)
  BY DEF BoxClaim, ImageClaim
<1>3. /\ Len(BoxesOf(m.frame, m.n)) = m.n
      /\ \A k \in 1..m.n : BoxesOf(m.frame, m.n)[k] = <<m.frame, k>>
      /\ BoxesOf(m.frame, m.n) = <<>> <=> m.n = 0
  BY <1>1, BoxesOfIs
<1>4. Len(<<>>) = 0 /\ Len(<<m.frame>>) = 1 BY EmptySeq
<1>5. m.img = None => ImageClaim(m).data = <<>> BY DEF ImageClaim
<1>6. m.img # None => ImageClaim(m).data = <<m.frame>> BY DEF ImageClaim
<1> QED BY <1>2, <1>3, <1>4, <1>5, <1>6

\* How the claims move with the line.
LEMMA ClaimsMore ==
  ASSUME NEW L \in Seq(Messages), NEW M \in Seq(Messages), OneMore(M, L), NEW d \in 0..Len(L)
  PROVE  /\ OneMore(BoxClaims(M, d), BoxClaims(L, d))
         /\ OneMore(ImageClaims(M, d), ImageClaims(L, d))
         /\ BoxClaims(M, d)[Len(BoxClaims(L, d)) + 1] = BoxClaim(M[Len(L) + 1])
         /\ ImageClaims(M, d)[Len(ImageClaims(L, d)) + 1] = ImageClaim(M[Len(L) + 1])
<1> DEFINE n == Len(L) - d
           bl == BoxClaims(L, d)
           bm == BoxClaims(M, d)
           il == ImageClaims(L, d)
           im == ImageClaims(M, d)
<1>1. Len(M) = Len(L) + 1 /\ \A i \in 1..Len(L) : M[i] = L[i] BY DEF OneMore
<1>2. Len(L) \in Nat BY LenProperties
<1>3. d \in 0..Len(M) /\ n \in Nat /\ Len(M) - d = n + 1 /\ d + (n + 1) = Len(L) + 1
  BY <1>1, <1>2
<1>4. /\ Len(bl) = n /\ Len(il) = n
      /\ \A i \in 1..n : bl[i] = BoxClaim(L[d + i]) /\ il[i] = ImageClaim(L[d + i])
  BY ClaimsType
<1>5. /\ Len(bm) = n + 1 /\ Len(im) = n + 1
      /\ \A i \in 1..(n + 1) : bm[i] = BoxClaim(M[d + i]) /\ im[i] = ImageClaim(M[d + i])
  <2>1. /\ Len(bm) = Len(M) - d /\ Len(im) = Len(M) - d
        /\ \A i \in 1..(Len(M) - d) : bm[i] = BoxClaim(M[d + i]) /\ im[i] = ImageClaim(M[d + i])
    BY <1>3, ClaimsType
  <2> QED BY <1>3, <2>1
<1>6. \A i \in 1..n : d + i \in 1..Len(L) /\ i \in 1..(n + 1) BY <1>2, <1>3
<1>7. n + 1 \in 1..(n + 1) BY <1>3
<1> HIDE DEF n, bl, bm, il, im
<1>8. ASSUME NEW i \in 1..n PROVE bm[i] = bl[i] /\ im[i] = il[i]
  <2>1. M[d + i] = L[d + i] BY <1>1, <1>6
  <2>2. bm[i] = BoxClaim(M[d + i]) /\ im[i] = ImageClaim(M[d + i]) BY <1>5, <1>6
  <2> QED BY <1>4, <2>1, <2>2
<1>9. bm[n + 1] = BoxClaim(M[Len(L) + 1]) /\ im[n + 1] = ImageClaim(M[Len(L) + 1])
  BY <1>3, <1>5, <1>7
<1> QED BY <1>4, <1>5, <1>8, <1>9 DEF OneMore, bl, bm, il, im

LEMMA ClaimsLess ==
  ASSUME NEW L \in Seq(Messages), NEW d \in Nat, NEW z \in Nat, d + z <= Len(L)
  PROVE  /\ Goes(BoxClaims(L, d + z), BoxClaims(L, d), z)
         /\ Goes(ImageClaims(L, d + z), ImageClaims(L, d), z)
<1> DEFINE e == d + z
           n == Len(L) - d
           m == Len(L) - e
           bl == BoxClaims(L, d)
           bm == BoxClaims(L, e)
           il == ImageClaims(L, d)
           im == ImageClaims(L, e)
<1>1. Len(L) \in Nat BY LenProperties
<1>2. d \in 0..Len(L) /\ e \in 0..Len(L) BY <1>1
<1>3. /\ n = z + m /\ m \in Nat
      /\ \A i \in 1..m : z + i \in 1..n /\ d + (z + i) = e + i
  BY <1>1
<1>4. /\ Len(bl) = n /\ Len(il) = n
      /\ \A i \in 1..n : bl[i] = BoxClaim(L[d + i]) /\ il[i] = ImageClaim(L[d + i])
  BY <1>2, ClaimsType
<1>5. /\ Len(bm) = m /\ Len(im) = m
      /\ \A i \in 1..m : bm[i] = BoxClaim(L[e + i]) /\ im[i] = ImageClaim(L[e + i])
  BY <1>2, ClaimsType
<1> HIDE DEF e, n, m, bl, bm, il, im
<1>6. ASSUME NEW i \in 1..m PROVE bm[i] = bl[z + i] /\ im[i] = il[z + i]
  <2>1. bl[z + i] = BoxClaim(L[d + (z + i)]) /\ il[z + i] = ImageClaim(L[d + (z + i)])
    BY <1>3, <1>4
  <2> QED BY <1>3, <1>5, <2>1
<1>7. Goes(bm, bl, z) /\ Goes(im, il, z) BY <1>3, <1>4, <1>5, <1>6 DEF Goes
<1> QED BY <1>7 DEF bl, bm, il, im, e

\* When messages leave, those behind them claim what they did.
LEMMA ClaimsDrop ==
  ASSUME NEW L \in Seq(Messages), NEW M \in Seq(Messages), NEW z \in Nat, Goes(M, L, z)
  PROVE  BoxClaims(M, 0) = BoxClaims(L, z) /\ ImageClaims(M, 0) = ImageClaims(L, z)
<1>1. Len(L) = z + Len(M) /\ \A i \in 1..Len(M) : M[i] = L[z + i] BY DEF Goes
<1>2. Len(M) \in Nat /\ Len(L) \in Nat BY LenProperties
<1>3. Len(M) - 0 = Len(L) - z /\ Len(M) - 0 = Len(M) BY <1>1, <1>2
<1>4. \A i \in 1..Len(M) : M[0 + i] = L[z + i]
  <2>1. \A i \in 1..Len(M) : 0 + i = i OBVIOUS
  <2> QED BY <1>1, <2>1
<1>5. [i \in 1..Len(M) |-> BoxClaim(M[0 + i])] = [i \in 1..Len(M) |-> BoxClaim(L[z + i])]
  BY <1>4
<1>6. [i \in 1..Len(M) |-> ImageClaim(M[0 + i])] = [i \in 1..Len(M) |-> ImageClaim(L[z + i])]
  BY <1>4
<1>7. BoxClaims(M, 0) = [i \in 1..Len(M) |-> BoxClaim(M[0 + i])]
      /\ ImageClaims(M, 0) = [i \in 1..Len(M) |-> ImageClaim(M[0 + i])]
  BY <1>3 DEF BoxClaims, ImageClaims
<1>8. BoxClaims(L, z) = [i \in 1..Len(M) |-> BoxClaim(L[z + i])]
      /\ ImageClaims(L, z) = [i \in 1..Len(M) |-> ImageClaim(L[z + i])]
  BY <1>3 DEF BoxClaims, ImageClaims
<1> QED BY <1>5, <1>6, <1>7, <1>8

LEMMA QuietInStep ==
  ASSUME InStep, Line' = Line, boxes' = boxes, images' = images, todo' = todo, body' = body,
         spoiled' = spoiled, ~spoiled /\ pc # "aborted" => pc' # "aborted",
         pc = "reset" => pc' = "reset"
  PROVE  InStep'
<1> SUFFICES ASSUME ~spoiled
             PROVE  /\ Holds(boxes, BoxRing, BoxClaims(Line, todo - 1))
                    /\ pc' # "reset" => Holds(images, ImageRing, ImageClaims(Line, todo - 1))
                    /\ pc' # "aborted"
                    /\ Len(body) = todo - 1
                    /\ \A i \in 1..Len(body) :
                         /\ body[i].frame = Line[i].frame
                         /\ body[i].boxes = BoxesOf(Line[i].frame, Line[i].n)
                         /\ body[i].img \in {Line[i].frame, None}
  BY DEF InStep
<1> QED BY DEF InStep

LEMMA PlainInStep ==
  ASSUME UploadTypeOK, UploadTypeOK', Shape, InStep,
         Send \/ Receive \/ ReceiveSecond \/ ReceiveTimeout \/ NothingDue \/ Connect
  PROVE  InStep'
<1>1. Line' = Line
  <2>1. CASE Send BY <2>1, SendLine
  <2>2. CASE Receive \/ ReceiveSecond BY <2>2, ReceiveLine
  <2>3. CASE ReceiveTimeout \/ NothingDue \/ Connect
    <3>1. Still BY <2>3, QuietShape
    <3> QED BY <3>1, StillLine
  <2> QED BY <2>1, <2>2, <2>3
<1>2. boxes' = boxes /\ images' = images /\ spoiled' = spoiled
  BY DEF Send, Receive, ReceiveSecond, ReceiveTimeout, NothingDue, Connect, addVars, ringVars
<1>3. todo' = todo /\ body' = body
  <2>1. CASE Connect
    <3>1. pc = "check" /\ todo' = 1 /\ body' = <<>> BY <2>1 DEF Connect
    <3>2. todo = 1 /\ body = <<>> BY <3>1 DEF Shape, Converting
    <3> QED BY <3>1, <3>2
  <2>2. CASE ~Connect
    BY <2>2 DEF Send, Receive, ReceiveSecond, ReceiveTimeout, NothingDue, addVars, ringVars
  <2> QED BY <2>1, <2>2
<1>4. /\ ~spoiled /\ pc # "aborted" => pc' # "aborted"
      /\ pc = "reset" => pc' = "reset"
  BY DEF Send, Receive, ReceiveSecond, ReceiveTimeout, NothingDue, Connect, Advance
<1> QED BY <1>1, <1>2, <1>3, <1>4, QuietInStep

LEMMA SameAdded ==
  ASSUME NEW ring, Len(ring.q) \in Nat, NEW els, Len(els) = 0
  PROVE  Added(ring, ring, els)
<1>1. Len(ring.q) = Len(ring.q) + Len(els) BY DEF Added
<1>2. \A k \in 1..Len(els) : ring.q[Len(ring.q) + k] = els[k]
  <2>1. \A k \in 1..0 : FALSE OBVIOUS
  <2> QED BY <2>1
<1> QED BY <1>1, <1>2 DEF Added

\* What a new message claims is put behind what the rings hold.
LEMMA AddedIs ==
  ASSUME UploadTypeOK, AddTracking \/ AddImage, NEW m \in Messages, inflight' = <<m>>
  PROVE  /\ Added(boxes', boxes, BoxClaim(m).data) /\ Added(images', images, ImageClaim(m).data)
         /\ PlacedBehind(BoxClaim(m), boxes, BoxRing)
         /\ PlacedBehind(ImageClaim(m), images, ImageRing)
<1>1. /\ IsRing(boxes, BoxRing, Box) /\ IsRing(images, ImageRing, 1..MaxFrames)
      /\ BoxRing \in Nat /\ ImageRing \in Nat
      /\ Len(boxes.q) \in Nat /\ Len(images.q) \in Nat
  BY RingsAre
<1>2. frames + 1 \in 1..MaxFrames /\ frames + 1 \in 0..MaxFrames
  <2>1. frames \in 0..MaxFrames
          /\ frames < MaxFrames BY DEF UploadTypeOK, AddTracking, AddImage, MayAdd
  <2> QED BY <2>1, Sizes
<1>3. /\ Place(boxes, BoxRing) = (boxes.head + Len(boxes.q)) % BoxRing
      /\ Place(images, ImageRing) = (images.head + Len(images.q)) % ImageRing
      /\ Place(boxes, BoxRing) # None /\ Place(images, ImageRing) # None
  <2>1. /\ Place(boxes, BoxRing) = (boxes.head + Len(boxes.q)) % BoxRing
        /\ Place(boxes, BoxRing) \in 0..(BoxRing - 1)
    BY <1>1, PlaceIs
  <2>2. /\ Place(images, ImageRing) = (images.head + Len(images.q)) % ImageRing
        /\ Place(images, ImageRing) \in 0..(ImageRing - 1)
    BY <1>1, PlaceIs
  <2>3. \A x \in Nat : x # None BY Sizes
  <2> QED BY <1>1, <2>1, <2>2, <2>3
<1> DEFINE pb == Place(boxes, BoxRing)
           pi == Place(images, ImageRing)
           f == frames + 1
<1>4. Room(images, ImageRing) = ImageRing - Len(images.q)
      /\ Room(boxes, BoxRing) = BoxRing - Len(boxes.q)
  BY DEF Room
<1>5. <<f>> \in Seq(1..MaxFrames) /\ Len(<<f>>) = 1 BY <1>2
<1>6. /\ BoxClaim(m).data = BoxesOf(m.frame, m.n) /\ Len(BoxClaim(m).data) = m.n
      /\ BoxClaim(m).data = <<>> <=> m.n = 0
      /\ BoxClaim(m).addr = m.addr /\ ImageClaim(m).addr = m.img
      /\ m.img = None => ImageClaim(m).data = <<>> /\ Len(ImageClaim(m).data) = 0
      /\ m.img # None => ImageClaim(m).data = <<m.frame>>
  BY ClaimIs
<1>7. ASSUME Room(images, ImageRing) > 0, images' = Put(images, ImageRing, <<f>>), m.img = pi,
             m.frame = f
      PROVE  /\ Added(images', images, ImageClaim(m).data)
             /\ PlacedBehind(ImageClaim(m), images, ImageRing)
  <2>1. Len(images.q) + Len(<<f>>) <= ImageRing BY <1>1, <1>4, <1>5, <1>7
  <2>2. ImageClaim(m).data = <<f>> BY <1>3, <1>6, <1>7
  <2> DEFINE els == <<f>>
  <2>3. els \in Seq(1..MaxFrames) /\ Len(images.q) + Len(els) <= ImageRing BY <1>5, <2>1
  <2>4. images' = Put(images, ImageRing, els) /\ ImageClaim(m).data = els BY <1>7, <2>2
  <2> HIDE DEF els, f
  <2>5. Added(images', images, els) BY <1>1, <2>3, <2>4, PutFits
  <2> QED BY <1>3, <1>6, <1>7, <2>4, <2>5 DEF PlacedBehind
<1>8. CASE AddTracking
  <2>1. PICK n \in 0..MaxBoxes, jpg \in BOOLEAN :
          LET taken == jpg /\ Room(images, ImageRing) > 0
          IN  /\ Room(boxes, BoxRing) >= n
              /\ frames' = f
              /\ boxes' = Put(boxes, BoxRing, BoxesOf(f, n))
              /\ images' = IF taken THEN Put(images, ImageRing, <<f>>) ELSE images
              /\ inflight' = <<Message("TRACKING", f, n, IF n > 0 THEN pb ELSE None,
                                       IF taken THEN pi ELSE None)>>
    BY <1>8 DEF AddTracking
  <2> DEFINE taken == jpg /\ Room(images, ImageRing) > 0
             ab == IF n > 0 THEN pb ELSE None
             ai == IF taken THEN pi ELSE None
             w == Message("TRACKING", f, n, ab, ai)
  <2>2. /\ Room(boxes, BoxRing) >= n
        /\ boxes' = Put(boxes, BoxRing, BoxesOf(f, n))
        /\ images' = IF taken THEN Put(images, ImageRing, <<f>>) ELSE images
        /\ <<m>> = <<w>>
    BY <2>1
  <2>3. taken => Room(images, ImageRing) > 0 OBVIOUS
  <2>4. m = w BY <2>2
  <2> HIDE DEF taken, f, pb, pi
  <2>5. m.frame = f /\ m.n = n /\ m.addr = ab /\ m.img = ai BY <2>4 DEF Message
  <2> HIDE DEF w
  <2>6. BoxesOf(f, n) \in Seq(Box) /\ Len(BoxesOf(f, n)) = n BY <1>2, BoxesOfIs DEF f
  <2>7. Added(boxes', boxes, BoxClaim(m).data)
    <3> DEFINE els == BoxesOf(f, n)
    <3>1. n \in Nat BY Sizes
    <3>2. els \in Seq(Box) /\ Len(boxes.q) + Len(els) <= BoxRing
      BY <1>1, <1>4, <2>2, <2>6, <3>1
    <3>3. boxes' = Put(boxes, BoxRing, els) /\ BoxClaim(m).data = els BY <1>6, <2>2, <2>5
    <3> HIDE DEF els
    <3> QED BY <1>1, <3>2, <3>3, PutFits
  <2>8. PlacedBehind(BoxClaim(m), boxes, BoxRing)
    <3>1. BoxClaim(m).data # <<>> => n > 0 /\ m.addr = pb
      <4>1. n \in Nat BY Sizes
      <4> QED BY <1>6, <2>5, <4>1
    <3> QED BY <1>3, <1>6, <3>1 DEF PlacedBehind, pb
  <2>9. CASE taken
    <3>1. images' = Put(images, ImageRing, <<f>>) /\ m.img = pi BY <2>2, <2>5, <2>9
    <3> QED BY <1>7, <2>3, <2>5, <2>7, <2>8, <2>9, <3>1
  <2>10. CASE ~taken
    <3>1. images' = images /\ m.img = None BY <2>2, <2>5, <2>10
    <3>2. ImageClaim(m).data = <<>> /\ Len(ImageClaim(m).data) = 0 BY <1>6, <3>1
    <3>3. Added(images, images, ImageClaim(m).data) BY <1>1, <3>2, SameAdded
    <3>4. PlacedBehind(ImageClaim(m), images, ImageRing) BY <3>2 DEF PlacedBehind
    <3> QED BY <2>7, <2>8, <3>1, <3>3, <3>4
  <2> QED BY <2>9, <2>10
<1>9. CASE AddImage
  <2> DEFINE w == Message("IMAGE", f, 0, None, pi)
  <2>1. /\ Room(images, ImageRing) > 0 /\ images' = Put(images, ImageRing, <<f>>)
        /\ boxes' = boxes /\ <<m>> = <<w>>
    BY <1>9 DEF AddImage
  <2>2. m = w BY <2>1
  <2> HIDE DEF f, pb, pi
  <2>3. m.frame = f /\ m.n = 0 /\ m.img = pi BY <2>2 DEF Message
  <2>4. /\ Added(images', images, ImageClaim(m).data)
        /\ PlacedBehind(ImageClaim(m), images, ImageRing)
    BY <1>7, <2>1, <2>3
  <2>5. BoxClaim(m).data = <<>> /\ Len(BoxClaim(m).data) = 0 BY <1>6, <2>3
  <2>6. Added(boxes', boxes, BoxClaim(m).data) BY <1>1, <2>1, <2>5, SameAdded
  <2>7. PlacedBehind(BoxClaim(m), boxes, BoxRing) BY <2>5 DEF PlacedBehind
  <2> QED BY <2>4, <2>6, <2>7
<1> QED BY <1>8, <1>9

LEMMA AddInStep ==
  ASSUME UploadTypeOK, UploadTypeOK', Shape, InStep, AddTracking \/ AddImage
  PROVE  InStep'
<1> SUFFICES ASSUME ~spoiled PROVE InStep'
  <2>1. spoiled' = spoiled BY DEF AddTracking, AddImage
  <2> QED BY <2>1 DEF InStep
<1>1. PICK m \in Messages : inflight' = <<m>> /\ Adds(m) BY AddShape
<1> DEFINE L == Line
           M == Line'
           d == todo - 1
           cb == BoxClaims(L, d)
           db == BoxClaims(M, d)
           ci == ImageClaims(L, d)
           di == ImageClaims(M, d)
<1>2. OneMore(M, L) /\ M[Len(L) + 1] = m BY <1>1 DEF Adds
<1>3. L \in Seq(Messages) /\ M \in Seq(Messages) BY LineHas, LinePrimed DEF LineFacts
<1>4. d \in 0..Len(L) BY TodoIs
<1>5. /\ Added(boxes', boxes, BoxClaim(m).data) /\ Added(images', images, ImageClaim(m).data)
      /\ PlacedBehind(BoxClaim(m), boxes, BoxRing)
      /\ PlacedBehind(ImageClaim(m), images, ImageRing)
  BY <1>1, AddedIs
<1>6. /\ Holds(boxes, BoxRing, cb)
      /\ pc # "reset" => Holds(images, ImageRing, ci)
      /\ pc # "aborted"
      /\ Len(body) = d
  BY DEF InStep
<1>7. \A i \in 1..Len(body) : /\ body[i].frame = L[i].frame
                              /\ body[i].boxes = BoxesOf(L[i].frame, L[i].n)
                              /\ body[i].img \in {L[i].frame, None}
  BY DEF InStep
<1>8. /\ Len(boxes.q) \in Nat /\ Len(images.q) \in Nat BY RingsAre
<1>9. /\ pc' = pc /\ todo' = todo /\ body' = body BY DEF AddTracking, AddImage
<1>10. M = Line' /\ L = Line OBVIOUS
<1> HIDE DEF L, M, d
<1>11. d \in 0..Len(M)
  <2>1. Len(L) \in Nat /\ Len(M) = Len(L) + 1 BY <1>2, <1>3, LenProperties DEF OneMore
  <2> QED BY <1>4, <2>1
<1>12. /\ IsClaims(cb, Address(BoxRing), Box) /\ IsClaims(ci, Address(ImageRing), 1..MaxFrames)
  BY <1>3, <1>4, ClaimsType
<1>13. /\ IsClaims(db, Address(BoxRing), Box) /\ IsClaims(di, Address(ImageRing), 1..MaxFrames)
  BY <1>3, <1>11, ClaimsType
<1>14. /\ OneMore(db, cb) /\ OneMore(di, ci)
       /\ db[Len(cb) + 1] = BoxClaim(m) /\ di[Len(ci) + 1] = ImageClaim(m)
  BY <1>2, <1>3, <1>4, ClaimsMore
<1> HIDE DEF cb, ci, db, di
<1>15. Holds(boxes', BoxRing, db)
  <2>1. /\ Added(boxes', boxes, db[Len(cb) + 1].data)
        /\ PlacedBehind(db[Len(cb) + 1], boxes, BoxRing)
    BY <1>5, <1>14
  <2> QED BY <1>6, <1>8, <1>12, <1>13, <1>14, <2>1, HoldsPut
<1>16. pc # "reset" => Holds(images', ImageRing, di)
  <2> SUFFICES ASSUME pc # "reset" PROVE Holds(images', ImageRing, di) OBVIOUS
  <2>1. /\ Added(images', images, di[Len(ci) + 1].data)
        /\ PlacedBehind(di[Len(ci) + 1], images, ImageRing)
    BY <1>5, <1>14
  <2> QED BY <1>6, <1>8, <1>12, <1>13, <1>14, <2>1, HoldsPut
<1>17. todo' - 1 = d BY <1>9 DEF d
<1>18. \A i \in 1..Len(body) : M[i] = L[i]
  <2>1. \A i \in 1..Len(body) : i \in 1..Len(L)
    <3>1. Len(L) \in Nat BY <1>3, LenProperties
    <3> QED BY <1>4, <1>6, <3>1
  <2> QED BY <1>2, <2>1 DEF OneMore
<1>19. \A i \in 1..Len(body') : /\ body'[i].frame = M[i].frame
                                /\ body'[i].boxes = BoxesOf(M[i].frame, M[i].n)
                                /\ body'[i].img \in {M[i].frame, None}
  BY <1>7, <1>9, <1>18
<1>20. Holds(boxes', BoxRing, BoxClaims(Line', todo' - 1))
  BY <1>10, <1>15, <1>17 DEF db
<1>21. pc' # "reset" => Holds(images', ImageRing, ImageClaims(Line', todo' - 1))
  BY <1>9, <1>10, <1>16, <1>17 DEF di
<1>22. pc' # "aborted" /\ Len(body') = todo' - 1 BY <1>6, <1>9, <1>17
<1>23. \A i \in 1..Len(body') : /\ body'[i].frame = Line'[i].frame
                                /\ body'[i].boxes = BoxesOf(Line'[i].frame, Line'[i].n)
                                /\ body'[i].img \in {Line'[i].frame, None}
  BY <1>10, <1>19
<1> QED BY <1>20, <1>21, <1>22, <1>23 DEF InStep

\* While the rings are in step, the message that is converted finds its data first in
\* them.
LEMMA CurrentInStep ==
  ASSUME UploadTypeOK, Shape, InStep, ~spoiled, pc = "convert", todo <= Len(cached[which])
  PROVE  /\ Current.n > 0 => /\ Current.addr = boxes.head /\ AtHead(boxes, Current.addr)
                             /\ Synced(Current) = boxes
         /\ Current.n <= Len(boxes.q)
         /\ \A k \in 1..Current.n : boxes.q[k] = <<Current.frame, k>>
         /\ Current.img # None => /\ AtHead(images, Current.img) /\ 1 <= Len(images.q)
                                  /\ images.q[1] = Current.frame
<1> DEFINE m == Current
           d == todo - 1
           cb == BoxClaims(Line, d)
           ci == ImageClaims(Line, d)
<1>1. m \in Messages /\ m = Line[todo] /\ todo \in 1..Len(Line) BY CurrentIs
<1>2. Holds(boxes, BoxRing, cb) /\ Holds(images, ImageRing, ci) BY DEF InStep
<1>3. Line \in Seq(Messages) /\ Len(Line) \in Nat /\ d \in 0..Len(Line) /\ d + 1 = todo
  <2>1. Line \in Seq(Messages) BY LineHas DEF LineFacts
  <2>2. Len(Line) \in Nat BY <2>1, LenProperties
  <2> QED BY <1>1, <2>1, <2>2, TodoIs
<1> HIDE DEF m, d
<1>4. /\ IsClaims(cb, Address(BoxRing), Box) /\ IsClaims(ci, Address(ImageRing), 1..MaxFrames)
      /\ Len(cb) = Len(Line) - d /\ Len(ci) = Len(Line) - d
      /\ \A i \in 1..(Len(Line) - d) : /\ cb[i] = BoxClaim(Line[d + i])
                                       /\ ci[i] = ImageClaim(Line[d + i])
  BY <1>3, ClaimsType
<1>5. 1 \in 1..(Len(Line) - d) /\ Len(Line) - d > 0 BY <1>1, <1>3
<1>6. cb[1] = BoxClaim(m) /\ ci[1] = ImageClaim(m) BY <1>1, <1>3, <1>4, <1>5
<1>7. /\ IsRing(boxes, BoxRing, Box) /\ IsRing(images, ImageRing, 1..MaxFrames)
      /\ BoxRing \in Nat /\ ImageRing \in Nat
      /\ boxes.q \in Seq(Box) /\ Len(boxes.q) \in Nat /\ Len(images.q) \in Nat
  BY RingsAre
<1>8. Len(cb) > 0 /\ Len(ci) > 0 BY <1>4, <1>5
<1> HIDE DEF cb, ci
<1>9. /\ Len(cb[1].data) <= Len(boxes.q)
      /\ cb[1].data # <<>> => cb[1].addr = boxes.head
      /\ \A k \in 1..Len(cb[1].data) : boxes.q[k] = cb[1].data[k]
  BY <1>2, <1>4, <1>7, <1>8, HoldsFirst
<1>10. /\ Len(ci[1].data) <= Len(images.q)
       /\ ci[1].data # <<>> => ci[1].addr = images.head
       /\ \A k \in 1..Len(ci[1].data) : images.q[k] = ci[1].data[k]
  BY <1>2, <1>4, <1>7, <1>8, HoldsFirst
<1>11. /\ BoxClaim(m).addr = m.addr /\ ImageClaim(m).addr = m.img
       /\ Len(BoxClaim(m).data) = m.n
       /\ \A k \in 1..m.n : BoxClaim(m).data[k] = <<m.frame, k>>
       /\ BoxClaim(m).data = <<>> <=> m.n = 0
       /\ m.img # None => ImageClaim(m).data = <<m.frame>> /\ Len(ImageClaim(m).data) = 1
  BY <1>1, ClaimIs
<1>12. m.n \in Nat
  <2>1. m.n \in 0..MaxBoxes BY <1>1, MessageIs
  <2> QED BY <2>1, Sizes
<1>13. m.n <= Len(boxes.q) /\ \A k \in 1..m.n : boxes.q[k] = <<m.frame, k>>
  BY <1>6, <1>9, <1>11
<1>14. ASSUME m.n > 0 PROVE m.addr = boxes.head /\ AtHead(boxes, m.addr) /\ Synced(m) = boxes
  <2>1. m.addr = boxes.head BY <1>6, <1>9, <1>11, <1>12, <1>14
  <2>2. boxes.q # <<>>
    <3>1. Len(boxes.q) > 0 BY <1>7, <1>12, <1>13, <1>14
    <3> QED BY <3>1, EmptySeq
  <2>3. AtHead(boxes, m.addr) BY <2>1, <2>2 DEF AtHead
  <2> QED BY <2>1, <2>3 DEF Synced
<1>15. ASSUME m.img # None
       PROVE  AtHead(images, m.img) /\ 1 <= Len(images.q) /\ images.q[1] = m.frame
  <2>1. ImageClaim(m).data = <<m.frame>> /\ Len(ImageClaim(m).data) = 1 BY <1>11, <1>15
  <2>2. ci[1].data = <<m.frame>> /\ Len(ci[1].data) = 1 /\ ci[1].addr = m.img BY <1>6, <1>11, <2>1
  <2>3. <<m.frame>> # <<>> /\ <<m.frame>>[1] = m.frame OBVIOUS
  <2>4. 1 <= Len(images.q) /\ images.head = m.img BY <1>10, <2>2, <2>3
  <2>5. images.q[1] = m.frame
    <3>1. 1 \in 1..Len(ci[1].data) BY <2>2
    <3> QED BY <1>10, <2>2, <2>3, <3>1
  <2>6. images.q # <<>> BY <2>4, EmptySeq
  <2> QED BY <2>4, <2>5, <2>6 DEF AtHead
<1> QED BY <1>13, <1>14, <1>15 DEF m

LEMMA NothingLost ==
  ASSUME UploadTypeOK, Shape, InStep, ~spoiled
  PROVE  ~DropFrame /\ ~Abort
<1>1. ASSUME pc = "convert", todo <= Len(cached[which])
      PROVE  ~Unfound(Current) /\ BoxesAsserted(Current) /\ ImageAsserted(Current)
  <2> DEFINE m == Current
  <2>1. /\ m.n > 0 => m.addr = boxes.head /\ AtHead(boxes, m.addr) /\ Synced(m) = boxes
        /\ m.n <= Len(boxes.q)
        /\ m.img # None => AtHead(images, m.img)
    BY <1>1, CurrentInStep
  <2>2. m \in Messages BY <1>1, CurrentIs
  <2>3. m.n \in Nat
    <3>1. m.n \in 0..MaxBoxes BY <2>2, MessageIs
    <3> QED BY <3>1, Sizes
  <2> HIDE DEF m
  <2>4. ~Unfound(m) BY <2>1 DEF Unfound
  <2>5. BoxesAsserted(m)
    <3>1. Len(boxes.q) \in Nat BY RingsAre
    <3> QED BY <2>1, <2>3, <3>1 DEF BoxesAsserted
  <2>6. ImageAsserted(m) BY <2>1 DEF ImageAsserted
  <2> QED BY <2>4, <2>5, <2>6 DEF m
<1> QED BY <1>1 DEF DropFrame, Abort

LEMMA HeadStays ==
  ASSUME NEW S, NEW size \in Nat, NEW ring, IsRing(ring, size, S)
  PROVE  Taken(ring, ring, size, 0)
<1>1. ring.head \in 0..(size - 1) /\ ring.q \in Seq(S) BY DEF IsRing
<1>2. Len(ring.q) \in Nat BY <1>1, LenProperties
<1> DEFINE h == ring.head
<1>3. h \in Nat /\ h < size /\ h + 0 = h BY <1>1
<1> HIDE DEF h
<1>4. h % size = h BY <1>3
<1>5. ring.head = (ring.head + 0) % size BY <1>3, <1>4 DEF h
<1>6. \A k \in 1..(Len(ring.q) - 0) : ring.q[k] = ring.q[0 + k] BY <1>2
<1> QED BY <1>2, <1>5, <1>6 DEF Taken

LEMMA ConvertInStep ==
  ASSUME UploadTypeOK, UploadTypeOK', Shape, InStep, ConvertFrame
  PROVE  InStep'
<1> SUFFICES ASSUME ~spoiled PROVE InStep'
  <2>1. spoiled' = spoiled BY DEF ConvertFrame
  <2> QED BY <2>1 DEF InStep
<1>1. PICK m \in Messages, e \in Entries :
           /\ m = Line[todo] /\ which = Kind /\ todo \in 1..Len(cached[Kind])
           /\ body' = Append(body, e) /\ e.frame = m.frame
           /\ e.boxes = IF m.n > 0 THEN SubSeq(Synced(m).q, 1, m.n) ELSE <<>>
           /\ e.img = IF m.img # None THEN Head(images.q) ELSE None
           /\ boxes' = IF m.n > 0 THEN Get(Synced(m), BoxRing, m.n) ELSE boxes
           /\ images' = IF m.img # None THEN Get(images, ImageRing, 1) ELSE images
           /\ m.n > 0 => m.addr \in 0..(BoxRing - 1) /\ m.n \in 0..Len(Synced(m).q)
           /\ m.img # None => images.q # <<>>
  BY ConvertIs
<1>2. /\ pc = "convert" /\ todo <= Len(cached[which]) /\ todo' = todo + 1 /\ pc' = pc
  BY DEF ConvertFrame
<1>3. /\ m = Current
      /\ m.n > 0 => Synced(m) = boxes
      /\ m.n <= Len(boxes.q)
      /\ \A k \in 1..m.n : boxes.q[k] = <<m.frame, k>>
      /\ m.img # None => 1 <= Len(images.q) /\ images.q[1] = m.frame
  <2>1. m = Current BY <1>1, <1>2, CurrentIs
  <2> QED BY <1>2, <2>1, CurrentInStep
<1>4. m.n \in Nat /\ m.n \in 0..MaxBoxes /\ m.frame \in 0..MaxFrames
  <2>1. m.n \in 0..MaxBoxes /\ m.frame \in 1..MaxFrames BY MessageIs
  <2> QED BY <2>1, Sizes
<1>5. /\ IsRing(boxes, BoxRing, Box) /\ IsRing(images, ImageRing, 1..MaxFrames)
      /\ BoxRing \in Nat /\ ImageRing \in Nat
      /\ boxes.q \in Seq(Box) /\ images.q \in Seq(1..MaxFrames)
      /\ Len(boxes.q) \in Nat /\ Len(images.q) \in Nat
  BY RingsAre
<1>6. Line' = Line
  <2>1. Still BY QuietShape
  <2> QED BY <2>1, StillLine
<1> DEFINE L == Line
           d == todo - 1
           cb == BoxClaims(L, d)
           db == BoxClaims(L, d + 1)
           ci == ImageClaims(L, d)
           di == ImageClaims(L, d + 1)
<1>7. L \in Seq(Messages) /\ Len(L) \in Nat
  <2>1. L \in Seq(Messages) BY LineHas DEF LineFacts
  <2> QED BY <2>1, LenProperties
<1>8. d \in Nat /\ 1 \in Nat /\ d + 1 <= Len(L) /\ d \in 0..Len(L) /\ d + 1 \in 0..Len(L)
      /\ todo = d + 1 /\ todo' - 1 = d + 1
  <2>1. todo \in 1..Len(L) BY <1>2, CurrentIs
  <2> HIDE DEF L
  <2> QED BY <1>2, <1>7, <2>1
<1>9. Holds(boxes, BoxRing, cb) /\ Holds(images, ImageRing, ci) BY <1>2 DEF InStep
<1>10. /\ Len(body) = d
       /\ \A i \in 1..Len(body) : /\ body[i].frame = L[i].frame
                                  /\ body[i].boxes = BoxesOf(L[i].frame, L[i].n)
                                  /\ body[i].img \in {L[i].frame, None}
  BY DEF InStep
<1>11. L[d + 1] = m BY <1>1, <1>8
<1> HIDE DEF L, d
<1>12. /\ IsClaims(cb, Address(BoxRing), Box) /\ IsClaims(ci, Address(ImageRing), 1..MaxFrames)
       /\ cb[1] = BoxClaim(m) /\ ci[1] = ImageClaim(m)
  <2>1. 1 \in 1..(Len(L) - d) BY <1>7, <1>8
  <2> QED BY <1>7, <1>8, <1>11, <2>1, ClaimsType
<1>13. /\ IsClaims(db, Address(BoxRing), Box) /\ IsClaims(di, Address(ImageRing), 1..MaxFrames)
  BY <1>7, <1>8, ClaimsType
<1>14. Goes(db, cb, 1) /\ Goes(di, ci, 1) BY <1>7, <1>8, ClaimsLess
<1> HIDE DEF cb, ci, db, di
<1>15. /\ Len(BoxClaim(m).data) = m.n
       /\ m.img = None => Len(ImageClaim(m).data) = 0
       /\ m.img # None => Len(ImageClaim(m).data) = 1
  BY ClaimIs
<1>16. Holds(boxes', BoxRing, db)
  <2>1. Taken(boxes', boxes, BoxRing, m.n)
    <3>1. CASE m.n > 0
      <4>1. boxes' = Get(boxes, BoxRing, m.n) BY <1>1, <1>3, <3>1
      <4>2. m.n \in 0..Len(boxes.q) BY <1>3, <1>4, <1>5
      <4> QED BY <1>5, <4>1, <4>2, GetTakes
    <3>2. CASE ~(m.n > 0)
      <4>1. m.n = 0 /\ boxes' = boxes BY <1>1, <1>4, <3>2
      <4>2. Taken(boxes, boxes, BoxRing, 0) BY <1>5, HeadStays
      <4> QED BY <4>1, <4>2
    <3> QED BY <3>1, <3>2
  <2>2. Taken(boxes', boxes, BoxRing, Len(cb[1].data)) BY <1>12, <1>15, <2>1
  <2> QED BY <1>5, <1>9, <1>12, <1>13, <1>14, <2>2, HoldsGet
<1>17. Holds(images', ImageRing, di)
  <2>1. Taken(images', images, ImageRing, Len(ImageClaim(m).data))
    <3>1. CASE m.img # None
      <4>1. images' = Get(images, ImageRing, 1) BY <1>1, <3>1
      <4>2. 1 \in 0..Len(images.q) BY <1>3, <1>5, <3>1
      <4>3. Taken(Get(images, ImageRing, 1), images, ImageRing, 1) BY <1>5, <4>2, GetTakes
      <4> QED BY <1>15, <3>1, <4>1, <4>3
    <3>2. CASE m.img = None
      <4>1. images' = images BY <1>1, <3>2
      <4>2. Taken(images, images, ImageRing, 0) BY <1>5, HeadStays
      <4> QED BY <1>15, <3>2, <4>1, <4>2
    <3> QED BY <3>1, <3>2
  <2>2. Taken(images', images, ImageRing, Len(ci[1].data)) BY <1>12, <2>1
  <2> QED BY <1>5, <1>9, <1>12, <1>13, <1>14, <2>2, HoldsGet
<1>18. e.boxes = BoxesOf(m.frame, m.n)
  <2>1. /\ BoxesOf(m.frame, m.n) \in Seq(Box) /\ Len(BoxesOf(m.frame, m.n)) = m.n
        /\ \A k \in 1..m.n : BoxesOf(m.frame, m.n)[k] = <<m.frame, k>>
        /\ BoxesOf(m.frame, m.n) = <<>> <=> m.n = 0
    BY <1>4, BoxesOfIs
  <2>2. CASE m.n > 0
    <3> DEFINE s == SubSeq(boxes.q, 1, m.n)
               t == BoxesOf(m.frame, m.n)
    <3>1. e.boxes = s BY <1>1, <1>3, <2>2
    <3>2. m.n \in 0..Len(boxes.q) BY <1>3, <1>4, <1>5
    <3>3. s \in Seq(Box) /\ Len(s) = m.n /\ \A k \in 1..m.n : s[k] = boxes.q[k]
      BY <1>5, <3>2, PrefixIs
    <3>a. t \in Seq(Box) /\ Len(t) = m.n /\ \A k \in 1..m.n : t[k] = <<m.frame, k>> BY <2>1
    <3> HIDE DEF s, t
    <3>4. ASSUME NEW k \in 1..m.n PROVE t[k] = boxes.q[k]
      <4>1. t[k] = <<m.frame, k>> BY <3>a
      <4>2. boxes.q[k] = <<m.frame, k>> BY <1>3
      <4> QED BY <4>1, <4>2
    <3>5. s = t BY <3>3, <3>a, <3>4, SeqEqual
    <3> QED BY <3>1, <3>5 DEF t
  <2>3. CASE ~(m.n > 0) BY <1>1, <1>4, <2>1, <2>3
  <2> QED BY <2>2, <2>3
<1>19. e.img \in {m.frame, None}
  <2>1. CASE m.img # None
    <3>1. images.q # <<>> /\ images.q[1] = m.frame BY <1>1, <1>3, <2>1
    <3>2. Head(images.q) = images.q[1] BY <1>5, <3>1, HeadTailProperties
    <3> QED BY <1>1, <2>1, <3>1, <3>2
  <2>2. CASE m.img = None BY <1>1, <2>2
  <2> QED BY <2>1, <2>2
<1>20. /\ Len(body') = d + 1 /\ body'[d + 1] = e
       /\ \A i \in 1..d : body'[i] = body[i]
  <2>1. body \in Seq(Entries) BY DEF UploadTypeOK
  <2>2. /\ Len(body') = Len(body) + 1 /\ body'[Len(body) + 1] = e
        /\ \A i \in 1..Len(body) : body'[i] = body[i]
    BY <1>1, <2>1, AppendProperties
  <2> QED BY <1>10, <2>2
<1>21. ASSUME NEW i \in 1..Len(body')
       PROVE  /\ body'[i].frame = L[i].frame
              /\ body'[i].boxes = BoxesOf(L[i].frame, L[i].n)
              /\ body'[i].img \in {L[i].frame, None}
  <2>1. CASE i \in 1..d BY <1>10, <1>20, <2>1
  <2>2. CASE i = d + 1 BY <1>1, <1>11, <1>18, <1>19, <1>20, <2>2
  <2> QED BY <1>8, <1>20, <2>1, <2>2
<1>22. Holds(boxes', BoxRing, BoxClaims(Line', todo' - 1)) BY <1>6, <1>8, <1>16 DEF L, db
<1>23. Holds(images', ImageRing, ImageClaims(Line', todo' - 1)) BY <1>6, <1>8, <1>17 DEF L, di
<1>24. pc' # "aborted" /\ Len(body') = todo' - 1 BY <1>2, <1>8, <1>20
<1>25. \A i \in 1..Len(body') : /\ body'[i].frame = Line'[i].frame
                                /\ body'[i].boxes = BoxesOf(Line'[i].frame, Line'[i].n)
                                /\ body'[i].img \in {Line'[i].frame, None}
  BY <1>6, <1>21 DEF L
<1> QED BY <1>22, <1>23, <1>24, <1>25 DEF InStep

\* All lines fit the ring; and say what their frames' boxes were.
Fits(lines) == \E off : IsUpto(off, Len(lines), LineSizes(lines)) /\ off[Len(lines)] <= BoxRing
Truthful(lines) ==
  \A i \in 1..Len(lines) :
    \A l \in 1..Len(lines[i].boxes) : lines[i].boxes[l] = <<lines[i].frame, l>>

Filed ==
  /\ ~spoiled => Truthful(file) /\ Fits(file)
  /\ ~copied => Fits(file)

LEMMA FitsNone == Fits(<<>>) /\ Truthful(<<>>)
<1>1. Len(<<>>) = 0 /\ <<>> \in Seq(FileLine) BY EmptySeq
<1>2. PICK off : IsUpto(off, Len(<<>>), LineSizes(<<>>)) BY <1>1, LineSizesAre
<1>3. off[0] = 0 BY <1>2 DEF IsUpto
<1>4. off[Len(<<>>)] <= BoxRing BY <1>1, <1>3, Sizes
<1>5. \A i \in 1..0 : FALSE OBVIOUS
<1>6. Truthful(<<>>) BY <1>1, <1>5 DEF Truthful
<1> QED BY <1>2, <1>4, <1>6 DEF Fits

LEMMA SucceedsInStep ==
  ASSUME UploadTypeOK, UploadTypeOK', Shape, InStep, PostSucceeds
  PROVE  InStep'
<1> SUFFICES ASSUME ~spoiled PROVE InStep'
  <2>1. spoiled' = spoiled BY DEF PostSucceeds
  <2> QED BY <2>1 DEF InStep
<1>1. /\ pc = "convert" /\ todo > Len(cached[which]) /\ body' = <<>> /\ todo' = 1
      /\ pc' \in {"check", "receive"} /\ boxes' = boxes /\ images' = images
  BY DEF PostSucceeds, Converted, Advance, ringVars
<1>2. Goes(Line', Line, Len(cached[Kind])) /\ which = Kind BY SucceedsShape
<1> DEFINE z == Len(cached[Kind])
<1>3. z \in Nat /\ todo - 1 = z
  <2>1. cached[Kind] \in Seq(Messages) /\ Len(cached[Kind]) \in Nat BY LineIs
  <2>2. todo \in Nat /\ todo >= 1 /\ todo - 1 \in 0..Len(cached[Kind]) BY TodoIs
  <2> QED BY <1>1, <1>2, <2>1, <2>2
<1>4. Holds(boxes, BoxRing, BoxClaims(Line, z)) /\ Holds(images, ImageRing, ImageClaims(Line, z))
  BY <1>1, <1>3 DEF InStep
<1>5. Line \in Seq(Messages) /\ Line' \in Seq(Messages) BY LineHas, LinePrimed DEF LineFacts
<1>6. Goes(Line', Line, z) BY <1>2
<1> HIDE DEF z
<1>7. BoxClaims(Line', 0) = BoxClaims(Line, z) /\ ImageClaims(Line', 0) = ImageClaims(Line, z)
  BY <1>3, <1>5, <1>6, ClaimsDrop
<1>8. todo' - 1 = 0 BY <1>1
<1>9. /\ Holds(boxes', BoxRing, BoxClaims(Line', todo' - 1))
      /\ Holds(images', ImageRing, ImageClaims(Line', todo' - 1))
  BY <1>1, <1>4, <1>7, <1>8
<1>10. Len(body') = todo' - 1 /\ \A i \in 1..Len(body') : FALSE
  <2>1. Len(<<>>) = 0 BY EmptySeq
  <2> QED BY <1>1, <1>8, <2>1
<1>11. pc' # "aborted" BY <1>1
<1> QED BY <1>9, <1>10, <1>11 DEF InStep

\* A post that fails and spoils nothing had nothing to take: the rings are in step with
\* the whole line.
LEMMA FailsHolds ==
  ASSUME UploadTypeOK, Shape, InStep, ConnectFails \/ PostFails, ~spoiled'
  PROVE  /\ ~spoiled
         /\ Holds(boxes, BoxRing, BoxClaims(Line, 0))
         /\ Holds(images, ImageRing, ImageClaims(Line, 0))
<1>1. CASE ConnectFails
  <2>1. spoiled' = spoiled /\ pc = "check" BY <1>1 DEF ConnectFails
  <2>2. todo = 1 BY <2>1 DEF Shape, Converting
  <2>3. todo - 1 = 0 BY <2>2
  <2>4. /\ Holds(boxes, BoxRing, BoxClaims(Line, todo - 1))
        /\ Holds(images, ImageRing, ImageClaims(Line, todo - 1))
    BY <2>1 DEF InStep
  <2> QED BY <2>1, <2>3, <2>4
<1>2. CASE PostFails
  <2>1. /\ spoiled' = (spoiled \/ \E m \in ToSet(cached[which]) : m.n > 0 \/ m.img # None)
        /\ pc = "convert" /\ todo > Len(cached[which])
    BY <1>2 DEF PostFails, Converted
  <2>2. ~spoiled /\ ~\E m \in ToSet(cached[which]) : m.n > 0 \/ m.img # None BY <2>1
  <2>3. which = Kind BY GivenUpAt
  <2> DEFINE c == cached[Kind]
             z == Len(c)
             L == Line
  <2>4. c \in Seq(Messages) /\ z \in Nat /\ z <= Len(L) /\ L \in Seq(Messages) /\ Len(L) \in Nat
        /\ \A i \in 1..z : L[i] = c[i]
    <3>1. /\ Len(c) \in Nat /\ Len(queue) \in Nat /\ Len(inflight) \in Nat
          /\ Len(L) = Len(c) + Len(queue) + Len(inflight)
          /\ \A i \in 1..Len(c) : L[i] = c[i]
          /\ c \in Seq(Messages) /\ L \in Seq(Messages)
      BY LineIs
    <3> HIDE DEF L, c
    <3> QED BY <3>1
  <2>5. todo - 1 = z
    <3>1. todo \in Nat /\ todo >= 1 /\ todo - 1 \in 0..Len(cached[Kind]) BY TodoIs
    <3> QED BY <2>1, <2>3, <2>4, <3>1
  <2>6. Holds(boxes, BoxRing, BoxClaims(L, z)) /\ Holds(images, ImageRing, ImageClaims(L, z))
    BY <2>1, <2>2, <2>5 DEF InStep
  <2>7. \A i \in 1..z : ~(c[i].n > 0) /\ c[i].img = None
    <3>1. ToSet(c) = {c[i] : i \in DOMAIN c} BY DEF ToSet
    <3>2. DOMAIN c = 1..z BY <2>4, LenProperties
    <3>3. \A i \in 1..z : c[i] \in ToSet(cached[which]) BY <2>3, <3>1, <3>2
    <3> HIDE DEF c, z
    <3> QED BY <2>2, <3>3
  <2> HIDE DEF L, c, z
  <2>8. ASSUME NEW i \in 1..z
        PROVE  BoxClaim(L[i]).data = <<>> /\ ImageClaim(L[i]).data = <<>>
    <3> DEFINE m == c[i]
    <3>1. m \in Messages BY <2>4, ElementOfSeq DEF z
    <3>2. ~(m.n > 0) /\ m.img = None BY <2>7
    <3>3. L[i] = m BY <2>4
    <3> HIDE DEF m
    <3>4. m.n = 0
      <4>1. m.n \in 0..MaxBoxes BY <3>1, MessageIs
      <4> QED BY <3>2, <4>1, Sizes
    <3>5. BoxClaim(m).data = <<>> /\ ImageClaim(m).data = <<>> BY <3>1, <3>2, <3>4, ClaimIs
    <3> QED BY <3>3, <3>5
  <2> DEFINE cb == BoxClaims(L, z)
             db == BoxClaims(L, 0)
             ci == ImageClaims(L, z)
             di == ImageClaims(L, 0)
  <2>9. z \in 0..Len(L) /\ 0 \in 0..Len(L) BY <2>4
  <2>10. /\ IsClaims(cb, Address(BoxRing), Box) /\ IsClaims(ci, Address(ImageRing), 1..MaxFrames)
         /\ Len(cb) = Len(L) - z /\ Len(ci) = Len(L) - z
         /\ \A i \in 1..(Len(L) - z) : cb[i] = BoxClaim(L[z + i]) /\ ci[i] = ImageClaim(L[z + i])
    BY <2>4, <2>9, ClaimsType
  <2>11. /\ IsClaims(db, Address(BoxRing), Box) /\ IsClaims(di, Address(ImageRing), 1..MaxFrames)
         /\ Len(db) = Len(L) /\ Len(di) = Len(L)
         /\ \A i \in 1..Len(L) : db[i] = BoxClaim(L[i]) /\ di[i] = ImageClaim(L[i])
    <3>1. /\ IsClaims(db, Address(BoxRing), Box) /\ IsClaims(di, Address(ImageRing), 1..MaxFrames)
          /\ Len(db) = Len(L) - 0 /\ Len(di) = Len(L) - 0
          /\ \A i \in 1..(Len(L) - 0) : db[i] = BoxClaim(L[0 + i]) /\ di[i] = ImageClaim(L[0 + i])
      BY <2>4, <2>9, ClaimsType
    <3>2. Len(L) - 0 = Len(L) /\ \A i \in 1..Len(L) : 0 + i = i BY <2>4
    <3> HIDE DEF db, di
    <3> QED BY <3>1, <3>2
  <2> HIDE DEF cb, db, ci, di
  <2>12. \A i \in 1..(Len(L) - z) : z + i \in 1..Len(L) BY <2>4
  <2>13. \A i \in 1..z : i \in 1..Len(L) BY <2>4
  <2>14. z + (Len(L) - z) = Len(L) BY <2>4
  <2>15. \A i \in 1..z : db[i].data = <<>> /\ di[i].data = <<>> BY <2>8, <2>11, <2>13
  <2>16. \A i \in 1..(Len(L) - z) : db[z + i] = cb[i] /\ di[z + i] = ci[i]
    BY <2>10, <2>11, <2>12
  <2>17. Behind(db, cb, z) /\ Behind(di, ci, z)
    BY <2>10, <2>11, <2>14, <2>15, <2>16 DEF Behind
  <2>18. Holds(boxes, BoxRing, cb) /\ Holds(images, ImageRing, ci) BY <2>6 DEF cb, ci
  <2>19. Holds(boxes, BoxRing, db) BY <2>4, <2>10, <2>11, <2>17, <2>18, HoldsZeros
  <2>20. Holds(images, ImageRing, di) BY <2>4, <2>10, <2>11, <2>17, <2>18, HoldsZeros
  <2> QED BY <2>2, <2>19, <2>20 DEF db, di, L
<1> QED BY <1>1, <1>2

\* A file written with enough boxes in the ring fits it when it is read back.
LEMMA SavedFits ==
  ASSUME UploadTypeOK, NEW off, SavedFile(off), off[Len(cached[Kind])] <= Len(boxes.q)
  PROVE  Fits(file')
<1> DEFINE c == cached[Kind]
           n == Len(c)
           lines == file'
<1>1. /\ IsUpto(off, n, Counts(c)) /\ Len(lines) = n
      /\ \A i \in 1..n : Len(lines[i].boxes) = c[i].n
  BY DEF SavedFile
<1>2. n \in Nat /\ n \in 0..n
  <2>1. n \in Nat BY LineIs
  <2> QED BY <2>1
<1>3. Len(boxes.q) \in Nat /\ BoxRing \in Nat /\ Len(boxes.q) <= BoxRing
  <2>1. IsRing(boxes, BoxRing, Box) /\ Len(boxes.q) \in Nat /\ BoxRing \in Nat BY RingsAre
  <2> QED BY <2>1 DEF IsRing
<1>a. off[n] <= Len(boxes.q) OBVIOUS
<1> HIDE DEF c, n, lines
<1>4. off[n] \in Nat BY <1>1, <1>2 DEF IsUpto
<1>5. off[n] <= BoxRing BY <1>3, <1>4, <1>a
<1>6. LineSizes(lines) = Counts(c)
  <2>1. LineSizes(lines) = [i \in 1..n |-> Len(lines[i].boxes)] BY <1>1 DEF LineSizes
  <2>2. Counts(c) = [i \in 1..n |-> c[i].n] BY DEF Counts, n
  <2> QED BY <1>1, <2>1, <2>2
<1>7. IsUpto(off, Len(lines), LineSizes(lines)) /\ off[Len(lines)] <= BoxRing BY <1>1, <1>5, <1>6
<1> QED BY <1>7 DEF Fits, lines

\* A save that copied nothing found all the boxes in the ring.
LEMMA SavedWhole ==
  ASSUME UploadTypeOK, NEW off, SavedFile(off), ~copied'
  PROVE  off[Len(cached[Kind])] <= Len(boxes.q)
<1> DEFINE c == cached[Kind]
           n == Len(c)
<1>1. n \in Nat /\ Len(boxes.q) \in Nat
  <2>1. n \in Nat BY LineIs
  <2> QED BY <2>1, RingsAre
<1>2. IsUpto(off, n, Counts(c)) /\ copied' = (copied \/ off[n] > Len(boxes.q)) BY DEF SavedFile
<1>3. ~(off[n] > Len(boxes.q)) BY <1>2
<1> HIDE DEF n, c
<1>4. off[n] \in Nat
  <2>1. off \in [0..n -> Nat] BY <1>2 DEF IsUpto
  <2> QED BY <1>1, <2>1
<1>5. off[n] <= Len(boxes.q) BY <1>1, <1>3, <1>4
<1> QED BY <1>5 DEF n, c

\* While the ring is in step, a save takes the boxes of the messages it saves.
LEMMA SaveTakes ==
  ASSUME UploadTypeOK, UploadTypeOK', Save, which = Kind, Goes(Line', Line, Len(cached[Kind])),
         Holds(boxes, BoxRing, BoxClaims(Line, 0))
  PROVE  Holds(boxes', BoxRing, BoxClaims(Line', 0)) /\ Truthful(file') /\ Fits(file')
<1> DEFINE c == cached[Kind]
           z == Len(c)
           L == Line
           M == Line'
           cb == BoxClaims(L, 0)
           db == BoxClaims(M, 0)
           N == Len(boxes.q)
<1>1. /\ c \in Seq(Messages) /\ z \in Nat /\ L \in Seq(Messages) /\ Len(L) \in Nat /\ z <= Len(L)
      /\ \A i \in 1..z : L[i] = c[i]
  <2>1. /\ Len(c) \in Nat /\ Len(queue) \in Nat /\ Len(inflight) \in Nat
        /\ Len(L) = Len(c) + Len(queue) + Len(inflight)
        /\ \A i \in 1..Len(c) : L[i] = c[i]
        /\ c \in Seq(Messages) /\ L \in Seq(Messages)
    BY LineIs
  <2> HIDE DEF L, c
  <2> QED BY <2>1
<1>2. M \in Seq(Messages)
  <2>1. LineFacts' BY LinePrimed
  <2> QED BY <2>1 DEF LineFacts
<1>3. PICK o : SavedFile(o) BY SaveIs
<1>4. IsUpto(o, z, Counts(c)) /\ Len(file') = z
      /\ \A i \in 1..z : file'[i].frame = c[i].frame /\ Len(file'[i].boxes) = c[i].n
  BY <1>3 DEF SavedFile
<1>5. o[z] <= N =>
        /\ Taken(boxes', boxes, BoxRing, o[z])
        /\ \A i \in 1..z : \A l \in 1..c[i].n : file'[i].boxes[l] = boxes.q[o[i - 1] + l]
  BY <1>3 DEF SavedFile
<1>6. /\ IsRing(boxes, BoxRing, Box) /\ BoxRing \in Nat /\ N \in Nat BY RingsAre
<1>7. Goes(M, L, z) /\ Holds(boxes, BoxRing, cb) OBVIOUS
<1> HIDE DEF c, z, L, M, N
<1>8. /\ IsClaims(cb, Address(BoxRing), Box) /\ Len(cb) = Len(L)
      /\ \A i \in 1..Len(L) : cb[i] = BoxClaim(L[i])
  <2>1. 0 \in 0..Len(L) BY <1>1
  <2>2. /\ IsClaims(cb, Address(BoxRing), Box) /\ Len(cb) = Len(L) - 0
        /\ \A i \in 1..(Len(L) - 0) : cb[i] = BoxClaim(L[0 + i])
    BY <1>1, <2>1, ClaimsType
  <2>3. Len(L) - 0 = Len(L) /\ \A i \in 1..Len(L) : 0 + i = i BY <1>1
  <2> HIDE DEF cb
  <2> QED BY <2>2, <2>3
<1>9. IsClaims(BoxClaims(L, z), Address(BoxRing), Box)
  <2>1. z \in 0..Len(L) BY <1>1
  <2> QED BY <1>1, <2>1, ClaimsType
<1>10. Goes(BoxClaims(L, z), cb, z)
  <2>1. 0 + z = z /\ 0 + z <= Len(L) /\ 0 \in Nat BY <1>1
  <2>2. Goes(BoxClaims(L, 0 + z), BoxClaims(L, 0), z) BY <1>1, <2>1, ClaimsLess
  <2> QED BY <2>1, <2>2
<1>11. db = BoxClaims(L, z) BY <1>1, <1>2, <1>7, ClaimsDrop
<1> HIDE DEF cb, db
<1>12. PICK off : HoldsBy(boxes, BoxRing, cb, off) BY <1>7, <1>8, HoldsIs
<1>13. /\ IsUpto(off, Len(cb), Lens(cb)) /\ N = off[Len(cb)]
       /\ \A i \in 1..Len(cb) : cb[i].data # <<>> =>
            \A k \in 1..Len(cb[i].data) : boxes.q[off[i - 1] + k] = cb[i].data[k]
  BY <1>12 DEF HoldsBy, N
<1>14. ASSUME NEW i \in 1..z
       PROVE  /\ i \in 1..Len(L) /\ cb[i] = BoxClaim(c[i]) /\ c[i] \in Messages
              /\ Len(cb[i].data) = c[i].n /\ c[i].n \in Nat
              /\ \A k \in 1..c[i].n : cb[i].data[k] = <<c[i].frame, k>>
              /\ cb[i].data = <<>> <=> c[i].n = 0
  <2>1. i \in 1..Len(L) BY <1>1
  <2>2. cb[i] = BoxClaim(c[i]) BY <1>1, <1>8, <2>1
  <2>3. c[i] \in Messages BY <1>1, ElementOfSeq DEF z
  <2>4. c[i].n \in Nat
    <3>1. c[i].n \in 0..MaxBoxes BY <2>3, MessageIs
    <3> QED BY <3>1, Sizes
  <2> QED BY <2>1, <2>2, <2>3, <2>4, ClaimIs
<1>15. Agrees(Counts(c), Lens(cb), z, 0)
  <2>1. ASSUME NEW i \in 1..z PROVE Counts(c)[i] = Lens(cb)[0 + i]
    <3>1. 0 + i = i /\ i \in 1..Len(cb) BY <1>8, <1>14
    <3>2. Counts(c)[i] = c[i].n BY DEF Counts, z
    <3>3. Lens(cb)[i] = Len(cb[i].data) BY <3>1 DEF Lens
    <3> QED BY <1>14, <3>1, <3>2, <3>3
  <2> QED BY <2>1 DEF Agrees
<1>16. Len(cb) \in Nat /\ z <= Len(cb) BY <1>1, <1>8
<1>17. ASSUME NEW j \in 0..z PROVE off[j] = o[j]
  BY <1>1, <1>4, <1>13, <1>15, <1>16, UptoPrefix
<1>18. o[z] <= N /\ off[z] = o[z]
  <2>1. \A i, j \in 0..Len(cb) : i <= j => off[i] <= off[j] BY <1>13, <1>16, UptoRises
  <2>2. z \in 0..z /\ z \in 0..Len(cb) /\ Len(cb) \in 0..Len(cb) BY <1>1, <1>16
  <2>3. off[z] <= off[Len(cb)] BY <1>16, <2>1, <2>2
  <2> QED BY <1>13, <1>17, <2>2, <2>3
<1>19. Taken(boxes', boxes, BoxRing, off[z]) BY <1>5, <1>18
<1>20. Holds(boxes', BoxRing, BoxClaims(L, z))
  BY <1>1, <1>6, <1>8, <1>9, <1>10, <1>12, <1>19, HoldsDrop
<1>21. ASSUME NEW i \in 1..Len(file'), NEW l \in 1..Len(file'[i].boxes)
       PROVE  file'[i].boxes[l] = <<file'[i].frame, l>>
  <2>1. i \in 1..z /\ l \in 1..c[i].n /\ file'[i].frame = c[i].frame BY <1>4
  <2>2. file'[i].boxes[l] = boxes.q[o[i - 1] + l] BY <1>5, <1>18, <2>1
  <2>3. i - 1 \in 0..z
    <3>1. z \in Nat BY <1>1
    <3>2. i \in 1..z BY <2>1
    <3> QED BY <3>1, <3>2
  <2>4. off[i - 1] = o[i - 1] BY <1>17, <2>3
  <2>5. c[i].n # 0 BY <1>14, <2>1
  <2>6. cb[i].data # <<>> /\ l \in 1..Len(cb[i].data) /\ i \in 1..Len(cb) BY <1>8, <1>14, <2>1, <2>5
  <2>7. boxes.q[off[i - 1] + l] = cb[i].data[l] BY <1>13, <2>6
  <2>8. cb[i].data[l] = <<c[i].frame, l>> BY <1>14, <2>1
  <2> QED BY <2>1, <2>2, <2>4, <2>7, <2>8
<1>22. Truthful(file') BY <1>21 DEF Truthful
<1>23. Fits(file')
  <2>1. o[Len(cached[Kind])] <= Len(boxes.q) BY <1>18 DEF N, z, c
  <2> QED BY <1>3, <2>1, SavedFits
<1> QED BY <1>11, <1>20, <1>22, <1>23 DEF db, M

LEMMA FailsInStep ==
  ASSUME UploadTypeOK, UploadTypeOK', Shape, InStep, ConnectFails \/ PostFails
  PROVE  InStep'
<1> SUFFICES ASSUME ~spoiled' PROVE InStep'
  BY DEF InStep
<1>1. /\ ~spoiled
      /\ Holds(boxes, BoxRing, BoxClaims(Line, 0))
      /\ Holds(images, ImageRing, ImageClaims(Line, 0))
  BY FailsHolds
<1>2. /\ which = Kind /\ images' = images /\ todo' = 1 /\ body' = <<>>
  BY GivenUpAt
<1>3. todo' - 1 = 0 /\ Len(body') = 0 /\ \A i \in 1..0 : FALSE
  <2>1. Len(<<>>) = 0 BY EmptySeq
  <2> QED BY <1>2, <2>1
<1>4. \/ GoOn /\ Still
      \/ GiveIn /\ Still
      \/ Save /\ Goes(Line', Line, Len(cached[Kind]))
  BY FailsShape
<1>5. /\ Holds(boxes', BoxRing, BoxClaims(Line', 0))
      /\ pc' # "reset" => Holds(images', ImageRing, ImageClaims(Line', 0))
      /\ pc' # "aborted"
  <2>1. CASE (GoOn \/ GiveIn) /\ Still
    <3>1. Line' = Line BY <2>1, StillLine
    <3>2. boxes' = boxes BY <2>1 DEF GoOn, GiveIn
    <3>3. pc' # "aborted" BY <2>1 DEF GoOn, GiveIn, Advance
    <3> QED BY <1>1, <1>2, <3>1, <3>2, <3>3
  <2>2. CASE Save /\ Goes(Line', Line, Len(cached[Kind]))
    <3>1. Holds(boxes', BoxRing, BoxClaims(Line', 0)) BY <1>1, <1>2, <2>2, SaveTakes
    <3>2. pc' = "reset" BY <2>2 DEF Save
    <3> QED BY <3>1, <3>2
  <2> QED BY <1>4, <2>1, <2>2
<1> QED BY <1>3, <1>5 DEF InStep

LEMMA FailsFiled ==
  ASSUME UploadTypeOK, UploadTypeOK', Shape, InStep, Filed, ConnectFails \/ PostFails
  PROVE  Filed'
<1>1. /\ which = Kind /\ file = <<>> BY GivenUpAt
<1>2. \/ GoOn /\ Still
      \/ GiveIn /\ Still
      \/ Save /\ Goes(Line', Line, Len(cached[Kind]))
  BY FailsShape
<1>3. CASE GoOn \/ GiveIn
  <2>1. file' = <<>> BY <1>1, <1>3 DEF GoOn, GiveIn
  <2> QED BY <2>1, FitsNone DEF Filed
<1>4. CASE Save /\ Goes(Line', Line, Len(cached[Kind]))
  <2>1. ASSUME ~spoiled' PROVE Truthful(file') /\ Fits(file')
    <3>1. Holds(boxes, BoxRing, BoxClaims(Line, 0)) BY <2>1, FailsHolds
    <3> QED BY <1>1, <1>4, <3>1, SaveTakes
  <2>2. ASSUME ~copied' PROVE Fits(file')
    <3>1. PICK off : SavedFile(off) BY <1>1, <1>4, SaveIs
    <3>2. off[Len(cached[Kind])] <= Len(boxes.q) BY <2>2, <3>1, SavedWhole
    <3> QED BY <3>1, <3>2, SavedFits
  <2> QED BY <2>1, <2>2 DEF Filed
<1> QED BY <1>2, <1>3, <1>4

\* A start: what was saved is read back into the ring.
LEMMA BootInStep ==
  ASSUME UploadTypeOK, UploadTypeOK', Shape, Filed, Boot
  PROVE  InStep' /\ Filed'
<1>1. /\ boxes' = ReadBack.ring /\ images' = Empty /\ file' = <<>> /\ pc' = "receive"
      /\ todo' = 1 /\ body' = <<>> /\ spoiled' = (spoiled /\ file # <<>>)
  BY DEF Boot
<1>2. Filed' BY <1>1, FitsNone DEF Filed
<1>3. todo' - 1 = 0 /\ Len(body') = 0 /\ \A i \in 1..0 : FALSE
  <2>1. Len(<<>>) = 0 BY EmptySeq
  <2> QED BY <1>1, <2>1
<1>4. /\ Kind' = Kind
      /\ Kind = "TRACKING" => Line' = ReadBack.msgs
      /\ Kind # "TRACKING" => Line' = <<>> /\ file = <<>>
  BY BootLine
<1>5. /\ Len(ReadBack.msgs) = Len(file) /\ ReadBack.msgs \in Seq(Messages)
      /\ \A i \in 1..Len(file) :
           /\ ReadBack.msgs[i].frame = file[i].frame
           /\ ReadBack.msgs[i].n = Len(file[i].boxes)
           /\ ReadBack.msgs[i].img = None
  BY BootMsgs
<1>6. Len(file) \in Nat BY BootIs
<1> DEFINE M == ReadBack.msgs
           n == Len(file)
<1>7. Line' = M
  <2>1. CASE Kind = "TRACKING" BY <1>4, <2>1
  <2>2. CASE Kind # "TRACKING"
    <3>1. Len(M) = 0
      <4>1. Len(<<>>) = 0 BY EmptySeq
      <4> QED BY <1>4, <1>5, <2>2, <4>1
    <3>2. M = <<>> BY <1>5, <3>1, EmptySeq
    <3> QED BY <1>4, <2>2, <3>2
  <2> QED BY <2>1, <2>2
<1> DEFINE cb == BoxClaims(M, 0)
           ci == ImageClaims(M, 0)
<1>8. Len(M) = n /\ M \in Seq(Messages) /\ n \in Nat BY <1>5, <1>6
<1> HIDE DEF M, n
<1>9. /\ IsClaims(cb, Address(BoxRing), Box) /\ IsClaims(ci, Address(ImageRing), 1..MaxFrames)
      /\ Len(cb) = n /\ Len(ci) = n
      /\ \A i \in 1..n : cb[i] = BoxClaim(M[i]) /\ ci[i] = ImageClaim(M[i])
  <2>1. 0 \in 0..Len(M) BY <1>8
  <2>2. /\ IsClaims(cb, Address(BoxRing), Box) /\ IsClaims(ci, Address(ImageRing), 1..MaxFrames)
        /\ Len(cb) = Len(M) - 0 /\ Len(ci) = Len(M) - 0
        /\ \A i \in 1..(Len(M) - 0) : cb[i] = BoxClaim(M[0 + i]) /\ ci[i] = ImageClaim(M[0 + i])
    BY <1>8, <2>1, ClaimsType
  <2>3. Len(M) - 0 = n /\ \A i \in 1..n : 0 + i = i BY <1>8
  <2> HIDE DEF cb, ci
  <2> QED BY <2>2, <2>3
<1> HIDE DEF cb, ci
<1>10. ASSUME NEW i \in 1..n
       PROVE  /\ M[i] \in Messages /\ M[i].n = Len(file[i].boxes) /\ M[i].frame = file[i].frame
              /\ Len(cb[i].data) = Len(file[i].boxes) /\ cb[i].addr = M[i].addr
              /\ \A k \in 1..Len(file[i].boxes) : cb[i].data[k] = <<file[i].frame, k>>
              /\ ci[i].data = <<>>
  <2>1. M[i] \in Messages BY <1>8, ElementOfSeq
  <2>2. M[i].n = Len(file[i].boxes) /\ M[i].frame = file[i].frame /\ M[i].img = None
    BY <1>5 DEF M, n
  <2>3. /\ BoxClaim(M[i]).addr = M[i].addr /\ Len(BoxClaim(M[i]).data) = M[i].n
        /\ \A k \in 1..M[i].n : BoxClaim(M[i]).data[k] = <<M[i].frame, k>>
        /\ M[i].img = None => ImageClaim(M[i]).data = <<>>
    BY <2>1, ClaimIs
  <2> QED BY <1>9, <2>1, <2>2, <2>3
<1>11. Holds(images', ImageRing, ci)
  <2>1. Len(Empty.q) = 0 BY EmptySeq DEF Empty
  <2>2. /\ IsClaims(<<>>, Address(ImageRing), 1..MaxFrames) /\ Len(<<>>) = 0
    BY EmptySeq DEF IsClaims
  <2>3. Holds(Empty, ImageRing, <<>>) BY <2>1, <2>2, HoldsNone
  <2>4. Behind(ci, <<>>, n)
    <3>1. \A i \in 1..0 : FALSE OBVIOUS
    <3>2. n + 0 = n BY <1>8
    <3> QED BY <1>9, <1>10, <2>2, <3>1, <3>2 DEF Behind
  <2>5. Holds(Empty, ImageRing, ci) BY <1>8, <1>9, <2>2, <2>3, <2>4, HoldsZeros
  <2> QED BY <1>1, <2>5
<1>12. ASSUME ~spoiled' PROVE Holds(boxes', BoxRing, cb)
  <2>1. Truthful(file) /\ Fits(file)
    <3>1. ~spoiled \/ file = <<>> BY <1>1, <1>12
    <3> QED BY <3>1, FitsNone DEF Filed
  <2>2. PICK off : IsUpto(off, n, LineSizes(file)) /\ ReadTo(ReadBack, off, n) BY BootIs DEF n
  <2>3. off[n] <= BoxRing
    <3>1. PICK g : IsUpto(g, n, LineSizes(file)) /\ g[n] <= BoxRing BY <2>1 DEF Fits, n
    <3>2. g = off BY <1>8, <2>2, <3>1, UptoUnique
    <3> QED BY <3>1, <3>2
  <2>4. /\ ReadBack.ring.head = 0 /\ Len(ReadBack.ring.q) = off[n]
        /\ \A i \in 1..n : M[i].addr = off[i - 1] % BoxRing
        /\ \A i \in 1..n : \A l \in 1..Len(file[i].boxes) :
             ReadBack.ring.q[off[i - 1] + l] = file[i].boxes[l]
    BY <2>2, <2>3 DEF ReadTo, M, n
  <2>5. Lens(cb) = LineSizes(file)
    <3>1. Lens(cb) = [i \in 1..n |-> Len(cb[i].data)] BY <1>9 DEF Lens
    <3>2. LineSizes(file) = [i \in 1..n |-> Len(file[i].boxes)] BY DEF LineSizes, n
    <3> QED BY <1>10, <3>1, <3>2
  <2>6. off \in [0..n -> Nat] BY <2>2 DEF IsUpto
  <2>7. ASSUME NEW i \in 1..n
        PROVE  /\ cb[i].addr = (ReadBack.ring.head + off[i - 1]) % BoxRing
               /\ \A k \in 1..Len(cb[i].data) : ReadBack.ring.q[off[i - 1] + k] = cb[i].data[k]
    <3>1. i - 1 \in 0..n BY <1>8
    <3>2. 0 + off[i - 1] = off[i - 1] BY <2>6, <3>1
    <3>3. cb[i].addr = (ReadBack.ring.head + off[i - 1]) % BoxRing BY <1>10, <2>4, <3>2
    <3>4. ASSUME NEW k \in 1..Len(cb[i].data)
          PROVE  ReadBack.ring.q[off[i - 1] + k] = cb[i].data[k]
      <4>1. k \in 1..Len(file[i].boxes) BY <1>10
      <4>2. file[i].boxes[k] = <<file[i].frame, k>> BY <2>1, <4>1 DEF Truthful, n
      <4> QED BY <1>10, <2>4, <4>1, <4>2
    <3> QED BY <3>3, <3>4
  <2>8. HoldsBy(boxes', BoxRing, cb, off)
    <3>1. IsUpto(off, Len(cb), Lens(cb)) BY <1>9, <2>2, <2>5
    <3>2. Len(boxes'.q) = off[Len(cb)] BY <1>1, <1>9, <2>4
    <3>3. \A i \in 1..Len(cb) : cb[i].data # <<>> =>
            /\ cb[i].addr = (boxes'.head + off[i - 1]) % BoxRing
            /\ \A k \in 1..Len(cb[i].data) : boxes'.q[off[i - 1] + k] = cb[i].data[k]
      BY <1>1, <1>9, <2>7
    <3> QED BY <3>1, <3>2, <3>3 DEF HoldsBy
  <2> QED BY <1>9, <2>8, HoldsIs
<1>13. ~spoiled' => Holds(boxes', BoxRing, BoxClaims(Line', todo' - 1))
  BY <1>3, <1>7, <1>12 DEF cb
<1>14. Holds(images', ImageRing, ImageClaims(Line', todo' - 1)) BY <1>3, <1>7, <1>11 DEF ci
<1>15. InStep' BY <1>1, <1>3, <1>13, <1>14 DEF InStep
<1> QED BY <1>2, <1>15

LEMMA InitInStep ==
  ASSUME UploadInit
  PROVE  InStep /\ Filed
<1>1. /\ boxes = Empty /\ images = Empty /\ pc = "receive" /\ todo = 1 /\ body = <<>>
      /\ file = <<>>
  BY DEF UploadInit
<1>2. Line = <<>> BY InitShape
<1>3. Filed BY <1>1, FitsNone DEF Filed
<1>4. <<>> \in Seq(Messages) /\ Len(<<>>) = 0 /\ 0 \in 0..0 BY EmptySeq
<1> DEFINE cb == BoxClaims(<<>>, 0)
           ci == ImageClaims(<<>>, 0)
<1>5. /\ IsClaims(cb, Address(BoxRing), Box) /\ IsClaims(ci, Address(ImageRing), 1..MaxFrames)
      /\ Len(cb) = 0 /\ Len(ci) = 0
  <2>1. /\ IsClaims(cb, Address(BoxRing), Box) /\ IsClaims(ci, Address(ImageRing), 1..MaxFrames)
        /\ Len(cb) = Len(<<>>) - 0 /\ Len(ci) = Len(<<>>) - 0
    <3>1. 0 \in 0..Len(<<>>) BY <1>4
    <3> QED BY <1>4, <3>1, ClaimsType
  <2> HIDE DEF cb, ci
  <2> QED BY <1>4, <2>1
<1> HIDE DEF cb, ci
<1>6. Len(Empty.q) = 0 BY <1>4 DEF Empty
<1>7. Holds(Empty, BoxRing, cb) /\ Holds(Empty, ImageRing, ci) BY <1>5, <1>6, HoldsNone
<1>8. todo - 1 = 0 /\ Len(body) = 0 /\ \A i \in 1..0 : FALSE BY <1>1, <1>4
<1>9. /\ Holds(boxes, BoxRing, BoxClaims(Line, todo - 1))
      /\ Holds(images, ImageRing, ImageClaims(Line, todo - 1))
  BY <1>1, <1>2, <1>7, <1>8 DEF cb, ci
<1>10. InStep BY <1>1, <1>8, <1>9 DEF InStep
<1> QED BY <1>3, <1>10

\* Steps that leave the card alone.
LEMMA QuietFiled ==
  ASSUME Filed, file' = file, spoiled' = spoiled, copied' = copied
  PROVE  Filed'
<1>1. Truthful(file') = Truthful(file) /\ Fits(file') = Fits(file) OBVIOUS
<1>2. ~spoiled => Truthful(file) /\ Fits(file) BY DEF Filed
<1>3. ~copied => Fits(file) BY DEF Filed
<1> QED BY <1>1, <1>2, <1>3 DEF Filed

-----------------------------------------------------------------------------
(* Each box once                                                           *)

Elements(q) == {q[k] : k \in 1..Len(q)}
Distinct(q) == \A k, l \in 1..Len(q) : q[k] = q[l] => k = l

\* The boxes of entries or lines; and that none is there twice.
BoxesIn(s) == UNION {Elements(s[i].boxes) : i \in 1..Len(s)}
Own(s) ==
  /\ \A i \in 1..Len(s) : Distinct(s[i].boxes)
  /\ \A i, j \in 1..Len(s) : i < j => Elements(s[i].boxes) \cap Elements(s[j].boxes) = {}

\* Part of a sequence, from behind its d-th element.
Piece(t, q, d) == d + Len(t) <= Len(q) /\ \A k \in 1..Len(t) : t[k] = q[d + k]

LEMMA PieceIs ==
  ASSUME NEW q, NEW t, NEW d \in Nat, Len(q) \in Nat, Len(t) \in Nat, Distinct(q), Piece(t, q, d)
  PROVE  Distinct(t) /\ Elements(t) \subseteq Elements(q)
<1>1. d + Len(t) <= Len(q) /\ \A k \in 1..Len(t) : t[k] = q[d + k] BY DEF Piece
<1>2. \A k \in 1..Len(t) : d + k \in 1..Len(q) BY <1>1
<1>3. ASSUME NEW k \in 1..Len(t), NEW l \in 1..Len(t), t[k] = t[l] PROVE k = l
  <2>1. d + k = d + l BY <1>1, <1>2, <1>3 DEF Distinct
  <2> QED BY <2>1
<1>4. Distinct(t) BY <1>3 DEF Distinct
<1>5. Elements(t) \subseteq Elements(q) BY <1>1, <1>2 DEF Elements
<1> QED BY <1>4, <1>5

LEMMA PiecesApart ==
  ASSUME NEW q, NEW t, NEW u, NEW d \in Nat, NEW e \in Nat, Len(q) \in Nat, Len(t) \in Nat,
         Len(u) \in Nat, Distinct(q), Piece(t, q, d), Piece(u, q, e), d + Len(t) <= e
  PROVE  Elements(t) \cap Elements(u) = {}
<1>1. d + Len(t) <= Len(q) /\ \A k \in 1..Len(t) : t[k] = q[d + k] BY DEF Piece
<1>2. e + Len(u) <= Len(q) /\ \A k \in 1..Len(u) : u[k] = q[e + k] BY DEF Piece
<1>3. ASSUME NEW k \in 1..Len(t), NEW l \in 1..Len(u), t[k] = u[l] PROVE FALSE
  <2>1. d + k \in 1..Len(q) /\ e + l \in 1..Len(q) BY <1>1, <1>2
  <2>2. q[d + k] = q[e + l] BY <1>1, <1>2, <1>3
  <2>3. d + k = e + l BY <2>1, <2>2 DEF Distinct
  <2> QED BY <2>3
<1> QED BY <1>3 DEF Elements

LEMMA BoxesInNone == BoxesIn(<<>>) = {} /\ Own(<<>>)
<1>1. Len(<<>>) = 0 BY EmptySeq
<1>2. \A i \in 1..0 : FALSE OBVIOUS
<1> QED BY <1>1, <1>2 DEF BoxesIn, Own

LEMMA BoxesInIs ==
  ASSUME NEW s, NEW x
  PROVE  x \in BoxesIn(s) <=> \E i \in 1..Len(s) : x \in Elements(s[i].boxes)
BY DEF BoxesIn

LEMMA BoxesInMore ==
  ASSUME NEW s, NEW t, OneMore(t, s), Len(s) \in Nat
  PROVE  /\ BoxesIn(t) = BoxesIn(s) \cup Elements(t[Len(s) + 1].boxes)
         /\ /\ Own(s) /\ Distinct(t[Len(s) + 1].boxes)
            /\ BoxesIn(s) \cap Elements(t[Len(s) + 1].boxes) = {}
            => Own(t)
<1> DEFINE n == Len(s)
<1>1. Len(t) = n + 1 /\ \A i \in 1..n : t[i] = s[i] BY DEF OneMore
<1>2. n \in Nat OBVIOUS
<1> HIDE DEF n
<1>3. \A i : i \in 1..Len(t) <=> i \in 1..n \/ i = n + 1 BY <1>1, <1>2
<1>4. ASSUME NEW x
      PROVE  x \in BoxesIn(t) <=> x \in BoxesIn(s) \/ x \in Elements(t[n + 1].boxes)
  <2>1. x \in BoxesIn(t) <=> \E i \in 1..Len(t) : x \in Elements(t[i].boxes) BY BoxesInIs
  <2>2. x \in BoxesIn(s) <=> \E i \in 1..n : x \in Elements(s[i].boxes) BY BoxesInIs DEF n
  <2> QED BY <1>1, <1>3, <2>1, <2>2
<1>5. ASSUME Own(s), Distinct(t[n + 1].boxes), BoxesIn(s) \cap Elements(t[n + 1].boxes) = {}
      PROVE  Own(t)
  <2>1. \A i \in 1..Len(t) : Distinct(t[i].boxes) BY <1>1, <1>3, <1>5 DEF Own, n
  <2>2. ASSUME NEW i \in 1..Len(t), NEW j \in 1..Len(t), i < j
        PROVE  Elements(t[i].boxes) \cap Elements(t[j].boxes) = {}
    <3>1. i \in 1..n BY <1>1, <1>2, <2>2
    <3>2. CASE j \in 1..n BY <1>1, <1>5, <2>2, <3>1, <3>2 DEF Own, n
    <3>3. CASE j = n + 1
      <4>1. Elements(t[i].boxes) \subseteq BoxesIn(s) BY <1>1, <3>1 DEF BoxesIn, n
      <4> QED BY <1>5, <3>3, <4>1
    <3> QED BY <1>3, <3>2, <3>3
  <2> QED BY <2>1, <2>2 DEF Own
<1> QED BY <1>4, <1>5 DEF n

LEMMA BoxesInJoined ==
  ASSUME NEW s, NEW t, NEW w, Len(s) \in Nat, Len(t) \in Nat, Joined(w, s, t)
  PROVE  /\ BoxesIn(w) \subseteq BoxesIn(s) \cup BoxesIn(t)
         /\ Own(s) /\ Own(t) /\ BoxesIn(s) \cap BoxesIn(t) = {} => Own(w)
<1>1. Len(w) = Len(s) + Len(t)
      /\ \A i \in 1..Len(w) : w[i] = IF i <= Len(s) THEN s[i] ELSE t[i - Len(s)]
  BY DEF Joined
<1>2. ASSUME NEW i \in 1..Len(w)
      PROVE  \/ i \in 1..Len(s) /\ w[i] = s[i]
             \/ i > Len(s) /\ i - Len(s) \in 1..Len(t) /\ w[i] = t[i - Len(s)]
  BY <1>1
<1>3. ASSUME NEW i \in 1..Len(w)
      PROVE  Elements(w[i].boxes) \subseteq BoxesIn(s) \cup BoxesIn(t)
  BY <1>2 DEF BoxesIn
<1>4. BoxesIn(w) \subseteq BoxesIn(s) \cup BoxesIn(t)
  <2>1. ASSUME NEW x \in BoxesIn(w) PROVE x \in BoxesIn(s) \cup BoxesIn(t)
    <3>1. PICK i \in 1..Len(w) : x \in Elements(w[i].boxes) BY BoxesInIs
    <3> QED BY <1>3, <3>1
  <2> QED BY <2>1
<1>5. ASSUME Own(s), Own(t), BoxesIn(s) \cap BoxesIn(t) = {} PROVE Own(w)
  <2>1. \A i \in 1..Len(w) : Distinct(w[i].boxes) BY <1>2, <1>5 DEF Own
  <2>2. ASSUME NEW i \in 1..Len(w), NEW j \in 1..Len(w), i < j
        PROVE  Elements(w[i].boxes) \cap Elements(w[j].boxes) = {}
    <3>1. CASE i \in 1..Len(s) /\ j \in 1..Len(s)
      <4>1. w[i] = s[i] /\ w[j] = s[j] BY <1>2, <3>1
      <4> QED BY <1>5, <2>2, <3>1, <4>1 DEF Own
    <3>2. CASE i \in 1..Len(s) /\ j > Len(s)
      <4>1. Elements(w[i].boxes) \subseteq BoxesIn(s)
        <5>1. w[i] = s[i] BY <1>2, <3>2
        <5> QED BY <3>2, <5>1 DEF BoxesIn
      <4>2. Elements(w[j].boxes) \subseteq BoxesIn(t)
        <5>1. j - Len(s) \in 1..Len(t) /\ w[j] = t[j - Len(s)] BY <1>2, <3>2
        <5> QED BY <5>1 DEF BoxesIn
      <4> QED BY <1>5, <4>1, <4>2
    <3>3. CASE i > Len(s)
      <4>1. j > Len(s) /\ i - Len(s) < j - Len(s) BY <2>2, <3>3
      <4>2. i - Len(s) \in 1..Len(t) /\ w[i] = t[i - Len(s)] BY <1>2, <3>3
      <4>3. j - Len(s) \in 1..Len(t) /\ w[j] = t[j - Len(s)] BY <1>2, <4>1
      <4> QED BY <1>5, <4>1, <4>2, <4>3 DEF Own
    <3> QED BY <1>2, <3>1, <3>2, <3>3
  <2> QED BY <2>1, <2>2 DEF Own
<1> QED BY <1>4, <1>5

\* Every place up to the sum lies in some part.
LEMMA UptoCovers ==
  ASSUME NEW n \in Nat, NEW len, NEW off, IsUpto(off, n, len)
  PROVE  \A p \in 1..off[n] : \E i \in 1..n : \E k \in 1..len[i] : p = off[i - 1] + k
<1> DEFINE In(p, m) == \E i \in 1..m : \E k \in 1..len[i] : p = off[i - 1] + k
           S == {m \in Nat : m <= n => \A p \in 1..off[m] : In(p, m)}
<1>0. off \in [0..n -> Nat] /\ len \in [1..n -> Nat] /\ off[0] = 0 BY DEF IsUpto
<1>1. 0 \in S
  <2>1. \A p \in 1..0 : FALSE OBVIOUS
  <2> QED BY <1>0, <2>1
<1>2. ASSUME NEW m \in Nat, m \in S PROVE m + 1 \in S
  <2> SUFFICES ASSUME m + 1 <= n, NEW p \in 1..off[m + 1] PROVE In(p, m + 1) OBVIOUS
  <2>1. m + 1 \in 1..n /\ (m + 1) - 1 = m /\ m \in 0..n /\ m + 1 \in 0..n OBVIOUS
  <2>2. off[m + 1] = off[m] + len[m + 1] BY <2>1 DEF IsUpto
  <2>3. off[m] \in Nat /\ len[m + 1] \in Nat /\ off[m + 1] \in Nat BY <1>0, <2>1
  <2>4. CASE p <= off[m]
    <3>1. p \in 1..off[m] BY <2>3, <2>4
    <3>2. In(p, m) BY <1>2, <3>1
    <3>3. \A i \in 1..m : i \in 1..(m + 1) OBVIOUS
    <3> QED BY <3>2, <3>3
  <2>5. CASE p > off[m]
    <3> DEFINE k == p - off[m]
    <3>1. k \in 1..len[m + 1] /\ p = off[m] + k BY <2>2, <2>3, <2>5
    <3> HIDE DEF k
    <3>2. m + 1 \in 1..(m + 1) /\ p = off[(m + 1) - 1] + k BY <2>1, <3>1
    <3> QED BY <3>1, <3>2
  <2> QED BY <2>3, <2>4, <2>5
<1>3. Nat \subseteq S
  <2> HIDE DEF S
  <2> QED BY <1>1, <1>2, StepInduction
<1> QED BY <1>3

\* No box older than the frames admitted, and every box at one place only.
Past(X, f) == \A x \in X : x[1] \in 0..f

OnceIn(P, B, F, R) ==
  /\ P \cap B = {} /\ P \cap F = {} /\ B \cap F = {}
  /\ P \cap R = {} /\ B \cap R = {} /\ F \cap R = {}

OwnAll(p, b, f, q) == Own(p) /\ Own(b) /\ Own(f) /\ Distinct(q)

Once ==
  ~copied =>
    /\ OwnAll(posted, body, file, boxes.q)
    /\ OnceIn(BoxesIn(posted), BoxesIn(body), BoxesIn(file), Elements(boxes.q))
    /\ Past(BoxesIn(posted) \cup BoxesIn(body) \cup BoxesIn(file) \cup Elements(boxes.q), frames)

LEMMA OnceIs ==
  ASSUME UploadTypeOK, Once
  PROVE  EachBoxOnce
<1> DEFINE ring == <<[boxes |-> boxes.q]>>
           at == [posted |-> posted, body |-> body, file |-> file, ring |-> ring]
<1> SUFFICES ASSUME ~copied,
                    NEW a \in DOMAIN at, NEW b \in DOMAIN at,
                    NEW i \in DOMAIN at[a], NEW j \in DOMAIN at[b],
                    NEW k \in DOMAIN at[a][i].boxes, NEW l \in DOMAIN at[b][j].boxes,
                    at[a][i].boxes[k] = at[b][j].boxes[l]
             PROVE  <<a, i, k>> = <<b, j, l>>
  BY DEF EachBoxOnce
<1>1. /\ OwnAll(posted, body, file, boxes.q)
      /\ OnceIn(BoxesIn(posted), BoxesIn(body), BoxesIn(file), Elements(boxes.q))
  BY DEF Once
<1>2. boxes.q \in Seq(Box) /\ Len(boxes.q) \in Nat BY RingsAre
<1>3. /\ Len(ring) = 1 /\ ring[1].boxes = boxes.q /\ DOMAIN ring = 1..1 OBVIOUS
<1>4. BoxesIn(ring) = Elements(boxes.q) /\ Own(ring)
  <2>1. \A x : x \in 1..1 <=> x = 1 OBVIOUS
  <2>2. \A x : x \in BoxesIn(ring) <=> \E n \in 1..Len(ring) : x \in Elements(ring[n].boxes)
    BY BoxesInIs
  <2> HIDE DEF ring
  <2>3. \A x : x \in BoxesIn(ring) <=> x \in Elements(boxes.q) BY <1>3, <2>1, <2>2
  <2>4. \A m, n \in 1..1 : ~(m < n) OBVIOUS
  <2>5. Distinct(boxes.q) BY <1>1 DEF OwnAll
  <2>6. Own(ring) BY <1>3, <2>1, <2>4, <2>5 DEF Own
  <2> QED BY <2>3, <2>6
<1> HIDE DEF ring
<1>5. /\ at["posted"] = posted /\ at["body"] = body /\ at["file"] = file /\ at["ring"] = ring
      /\ DOMAIN at = {"posted", "body", "file", "ring"}
  OBVIOUS
<1>6. ASSUME NEW c \in DOMAIN at
      PROVE  /\ Own(at[c]) /\ DOMAIN at[c] = 1..Len(at[c]) /\ Len(at[c]) \in Nat
             /\ \A n \in 1..Len(at[c]) : /\ DOMAIN at[c][n].boxes = 1..Len(at[c][n].boxes)
                                         /\ Len(at[c][n].boxes) \in Nat
  <2>1. ASSUME NEW s, s \in Seq(Entries) \/ s \in Seq(FileLine)
        PROVE  /\ DOMAIN s = 1..Len(s) /\ Len(s) \in Nat
               /\ \A n \in 1..Len(s) : /\ DOMAIN s[n].boxes = 1..Len(s[n].boxes)
                                       /\ Len(s[n].boxes) \in Nat
    <3>1. DOMAIN s = 1..Len(s) /\ Len(s) \in Nat BY <2>1, LenProperties
    <3>2. ASSUME NEW n \in 1..Len(s)
          PROVE  DOMAIN s[n].boxes = 1..Len(s[n].boxes) /\ Len(s[n].boxes) \in Nat
      <4>1. s[n] \in Entries \/ s[n] \in FileLine BY <2>1, ElementOfSeq
      <4>2. s[n].boxes \in Seq(Box) BY <4>1 DEF Entries, FileLine
      <4> QED BY <4>2, LenProperties
    <3> QED BY <3>1, <3>2
  <2>2. /\ posted \in Seq(Entries) /\ body \in Seq(Entries) /\ file \in Seq(FileLine)
    BY DEF UploadTypeOK, FileLine
  <2>3. Own(posted) /\ Own(body) /\ Own(file) BY <1>1 DEF OwnAll
  <2>4. CASE c = "posted" BY <1>5, <2>1, <2>2, <2>3, <2>4
  <2>5. CASE c = "body" BY <1>5, <2>1, <2>2, <2>3, <2>5
  <2>6. CASE c = "file" BY <1>5, <2>1, <2>2, <2>3, <2>6
  <2>7. CASE c = "ring"
    <3>1. DOMAIN boxes.q = 1..Len(boxes.q) BY <1>2, LenProperties
    <3>2. \A n \in 1..1 : n = 1 OBVIOUS
    <3>3. at[c] = ring BY <1>5, <2>7
    <3>4. ASSUME NEW n \in 1..Len(ring)
          PROVE  DOMAIN ring[n].boxes = 1..Len(ring[n].boxes) /\ Len(ring[n].boxes) \in Nat
      <4>1. n \in 1..1 BY <1>3
      <4>2. ring[n].boxes = boxes.q BY <1>3, <3>2, <4>1
      <4> QED BY <1>2, <3>1, <4>2
    <3>5. Own(ring) /\ DOMAIN ring = 1..Len(ring) /\ Len(ring) \in Nat BY <1>3, <1>4
    <3> HIDE DEF at
    <3> QED BY <3>3, <3>4, <3>5
  <2> QED BY <1>5, <2>4, <2>5, <2>6, <2>7
<1>7. ASSUME NEW c \in DOMAIN at, NEW d \in DOMAIN at, c # d
      PROVE  BoxesIn(at[c]) \cap BoxesIn(at[d]) = {}
  <2> DEFINE P == BoxesIn(posted)
             B == BoxesIn(body)
             F == BoxesIn(file)
             R == BoxesIn(ring)
  <2>1. /\ P \cap B = {} /\ P \cap F = {} /\ B \cap F = {}
        /\ P \cap R = {} /\ B \cap R = {} /\ F \cap R = {}
    BY <1>1, <1>4 DEF OnceIn
  <2>2. ASSUME NEW e \in DOMAIN at
        PROVE  /\ e = "posted" => BoxesIn(at[e]) = P
               /\ e = "body" => BoxesIn(at[e]) = B
               /\ e = "file" => BoxesIn(at[e]) = F
               /\ e = "ring" => BoxesIn(at[e]) = R
    BY <1>5
  <2>3. /\ c \in {"posted", "body", "file", "ring"} /\ d \in {"posted", "body", "file", "ring"}
    BY <1>5
  <2> DEFINE C == BoxesIn(at[c])
             D == BoxesIn(at[d])
  <2>4. /\ c = "posted" => C = P
        /\ c = "body" => C = B
        /\ c = "file" => C = F
        /\ c = "ring" => C = R
    BY <2>2
  <2>5. /\ d = "posted" => D = P
        /\ d = "body" => D = B
        /\ d = "file" => D = F
        /\ d = "ring" => D = R
    BY <2>2
  <2> HIDE DEF P, B, F, R, C, D, at
  <2>6. C \cap D = {} BY <1>7, <2>1, <2>3, <2>4, <2>5
  <2> QED BY <2>6 DEF C, D
<1> DEFINE s == at[a]
           t == at[b]
<1>8. /\ i \in 1..Len(s) /\ k \in 1..Len(s[i].boxes) /\ Own(s) /\ Len(s) \in Nat BY <1>6
<1>9. /\ j \in 1..Len(t) /\ l \in 1..Len(t[j].boxes) /\ Own(t) BY <1>6
<1>10. s[i].boxes[k] = t[j].boxes[l] OBVIOUS
<1>a. a # b => BoxesIn(s) \cap BoxesIn(t) = {} BY <1>7
<1>b. a = b => s = t OBVIOUS
<1> HIDE DEF at, s, t
<1> DEFINE x == s[i].boxes[k]
<1>11. x \in Elements(s[i].boxes) /\ x \in Elements(t[j].boxes)
  BY <1>8, <1>9, <1>10 DEF Elements
<1>12. x \in BoxesIn(s) /\ x \in BoxesIn(t) BY <1>8, <1>9, <1>11 DEF BoxesIn
<1>13. a = b
  <2> HIDE DEF x
  <2> QED BY <1>a, <1>12
<1>14. i = j
  <2>1. s = t BY <1>13, <1>b
  <2>2. i \in Nat /\ j \in Nat /\ j \in 1..Len(s) BY <1>8, <1>9, <2>1
  <2>3. ~(Elements(s[i].boxes) \cap Elements(s[j].boxes) = {}) BY <1>11, <2>1
  <2>4. ~(i < j) BY <1>8, <2>2, <2>3 DEF Own
  <2>5. ~(j < i) BY <1>8, <2>2, <2>3 DEF Own
  <2> QED BY <2>2, <2>4, <2>5
<1>15. k = l
  <2>1. s = t BY <1>13, <1>b
  <2>2. Distinct(s[i].boxes) BY <1>8 DEF Own
  <2>3. l \in 1..Len(s[i].boxes) /\ s[i].boxes[k] = s[i].boxes[l] BY <1>9, <1>10, <1>14, <2>1
  <2> QED BY <1>8, <2>2, <2>3 DEF Distinct
<1> QED BY <1>13, <1>14, <1>15

LEMMA QuietOnce ==
  ASSUME Once, posted' = posted, body' = body \/ body' = <<>>, file' = file, boxes' = boxes,
         frames' = frames, copied' = copied
  PROVE  Once'
<1> SUFFICES ASSUME ~copied PROVE Once' BY DEF Once
<1> DEFINE P == BoxesIn(posted)
           B == BoxesIn(body)
           C == BoxesIn(body')
           F == BoxesIn(file)
           R == Elements(boxes.q)
<1>1. /\ OwnAll(posted, body, file, boxes.q) /\ OnceIn(P, B, F, R)
      /\ Past(P \cup B \cup F \cup R, frames)
  BY DEF Once
<1>2. C \subseteq B /\ Own(body')
  <2>1. CASE body' = body BY <1>1, <2>1 DEF OwnAll
  <2>2. CASE body' = <<>> BY <2>2, BoxesInNone
  <2> QED BY <2>1, <2>2
<1>3. /\ BoxesIn(posted') = P /\ BoxesIn(file') = F /\ Elements(boxes'.q) = R OBVIOUS
<1>4. OwnAll(posted', body', file', boxes'.q) BY <1>1, <1>2 DEF OwnAll
<1>5. OnceIn(P, C, F, R) /\ Past(P \cup C \cup F \cup R, frames)
  <2> HIDE DEF P, B, C, F, R
  <2> QED BY <1>1, <1>2 DEF OnceIn, Past
<1>6. /\ OnceIn(BoxesIn(posted'), BoxesIn(body'), BoxesIn(file'), Elements(boxes'.q))
      /\ Past(BoxesIn(posted') \cup BoxesIn(body') \cup BoxesIn(file') \cup Elements(boxes'.q),
              frames')
  BY <1>3, <1>5
<1> QED BY <1>4, <1>6 DEF Once

LEMMA InitOnce ==
  ASSUME UploadInit
  PROVE  Once
<1>1. /\ posted = <<>> /\ body = <<>> /\ file = <<>> /\ boxes = Empty BY DEF UploadInit
<1>2. Elements(boxes.q) = {} /\ Distinct(boxes.q)
  <2>1. boxes.q = <<>> /\ Len(<<>>) = 0 BY <1>1, EmptySeq DEF Empty
  <2>2. \A i \in 1..0 : FALSE OBVIOUS
  <2> QED BY <2>1, <2>2 DEF Elements, Distinct
<1>3. OwnAll(posted, body, file, boxes.q) BY <1>1, <1>2, BoxesInNone DEF OwnAll
<1>4. BoxesIn(posted) = {} /\ BoxesIn(body) = {} /\ BoxesIn(file) = {} BY <1>1, BoxesInNone
<1> QED BY <1>2, <1>3, <1>4 DEF Once, OnceIn, Past

\* The boxes of a new frame are new.
LEMMA AddOnce ==
  ASSUME UploadTypeOK, Shape, Once, AddTracking \/ AddImage
  PROVE  Once'
<1>1. /\ posted' = posted /\ body' = body /\ file' = file /\ copied' = copied
      /\ frames' = frames + 1
  BY DEF AddTracking, AddImage
<1> SUFFICES ASSUME ~copied PROVE Once' BY <1>1 DEF Once
<1>2. PICK m \in Messages : inflight' = <<m>> /\ m.frame = frames + 1 BY AddShape
<1>3. Added(boxes', boxes, BoxClaim(m).data) BY <1>2, AddedIs
<1>4. /\ Len(BoxClaim(m).data) = m.n
      /\ \A k \in 1..m.n : BoxClaim(m).data[k] = <<m.frame, k>>
  BY ClaimIs
<1>5. m.n \in Nat /\ frames \in Nat /\ Len(boxes.q) \in Nat
  <2>1. m.n \in 0..MaxBoxes BY MessageIs
  <2>2. frames \in 0..MaxFrames BY DEF UploadTypeOK
  <2> QED BY <2>1, <2>2, Sizes, RingsAre
<1> DEFINE P == BoxesIn(posted)
           B == BoxesIn(body)
           F == BoxesIn(file)
           q == boxes.q
           r == boxes'.q
           R == Elements(q)
           S == Elements(r)
           n == Len(q)
           d == BoxClaim(m).data
           f == frames + 1
<1>6. /\ OwnAll(posted, body, file, q) /\ OnceIn(P, B, F, R)
      /\ Past(P \cup B \cup F \cup R, frames)
  BY DEF Once
<1>7. /\ Len(r) = n + m.n
      /\ \A i \in 1..n : r[i] = q[i]
      /\ \A k \in 1..m.n : r[n + k] = <<f, k>>
  <2>1. /\ Len(r) = n + Len(d) /\ \A i \in 1..n : r[i] = q[i]
        /\ \A k \in 1..Len(d) : r[n + k] = d[k]
    BY <1>3 DEF Added
  <2> HIDE DEF d, r, n, f
  <2> QED BY <1>2, <1>4, <2>1 DEF d, f
<1>8. n \in Nat BY <1>5
<1> HIDE DEF P, B, F, q, r, n, d
<1>9. ASSUME NEW i \in 1..Len(r)
      PROVE  \/ i \in 1..n /\ r[i] = q[i] /\ q[i] \in R /\ q[i] \in P \cup B \cup F \cup R
             \/ i \in n + 1 .. n + m.n /\ r[i] = <<f, i - n>>
  <2>1. CASE i <= n
    <3>1. i \in 1..n BY <1>5, <1>7, <1>8, <2>1
    <3>2. q[i] \in R BY <3>1 DEF Elements, n
    <3> QED BY <1>7, <3>1, <3>2
  <2>2. CASE i > n
    <3> DEFINE k == i - n
    <3>1. k \in 1..m.n /\ i = n + k /\ i \in n + 1 .. n + m.n BY <1>5, <1>7, <1>8, <2>2
    <3> HIDE DEF k
    <3>2. r[i] = <<f, k>> BY <1>7, <3>1
    <3> QED BY <3>1, <3>2 DEF k
  <2> QED BY <1>7, <1>8, <2>1, <2>2
<1>10. \A x \in P \cup B \cup F \cup R : x[1] \in 0..frames BY <1>6 DEF Past
<1>11. ASSUME NEW x \in S PROVE x \in R \/ x[1] = f
  <2>1. PICK i \in 1..Len(r) : x = r[i] BY DEF Elements
  <2>2. CASE i \in 1..n /\ r[i] = q[i] /\ q[i] \in R BY <2>1, <2>2
  <2>3. CASE r[i] = <<f, i - n>>
    <3>1. x = <<f, i - n>> BY <2>1, <2>3
    <3> QED BY <3>1
  <2> QED BY <1>9, <2>2, <2>3
<1>12. Distinct(r)
  <2>1. ASSUME NEW i \in 1..Len(r), NEW j \in 1..Len(r), r[i] = r[j] PROVE i = j
    <3>1. CASE i \in 1..n /\ r[i] = q[i] /\ j \in 1..n /\ r[j] = q[j]
      <4>1. Distinct(q) BY <1>6 DEF OwnAll
      <4> QED BY <2>1, <3>1, <4>1 DEF Distinct, n
    <3>2. CASE i \in n + 1 .. n + m.n /\ r[i] = <<f, i - n>> /\ j \in n + 1 .. n + m.n
               /\ r[j] = <<f, j - n>>
      <4>1. <<f, i - n>> = <<f, j - n>> BY <2>1, <3>2
      <4>2. i - n = j - n BY <4>1
      <4> QED BY <1>8, <3>2, <4>2
    <3>3. ASSUME NEW x \in P \cup B \cup F \cup R, NEW y, x = <<f, y>> PROVE FALSE
      <4>1. x[1] \in 0..frames BY <1>10
      <4>2. x[1] = f BY <3>3
      <4> QED BY <1>5, <4>1, <4>2
    <3> QED BY <1>9, <2>1, <3>1, <3>2, <3>3
  <2> QED BY <2>1 DEF Distinct
<1>13. OwnAll(posted', body', file', r) BY <1>1, <1>6, <1>12 DEF OwnAll
<1> HIDE DEF R, S
<1>14. f \in Nat /\ frames < f /\ f = frames + 1 BY <1>5
<1> HIDE DEF f
<1>15. \A x \in P \cup B \cup F : ~(x[1] = f) BY <1>5, <1>10, <1>14
<1>16. OnceIn(P, B, F, S)
  <2>1. P \cap R = {} /\ B \cap R = {} /\ F \cap R = {} /\ P \cap B = {} /\ P \cap F = {}
          /\ B \cap F = {}
    BY <1>6 DEF OnceIn
  <2> QED BY <1>11, <1>15, <2>1 DEF OnceIn
<1>17. Past(P \cup B \cup F \cup S, f)
  <2>1. ASSUME NEW x \in P \cup B \cup F \cup S PROVE x[1] \in 0..f
    <3> DEFINE y == x[1]
    <3>1. CASE x \in P \cup B \cup F \cup R
      <4>1. y \in 0..frames BY <1>10, <3>1
      <4> HIDE DEF y
      <4> QED BY <1>14, <1>5, <4>1 DEF y
    <3>2. CASE x[1] = f BY <1>14, <3>2
    <3> QED BY <1>11, <3>1, <3>2
  <2> QED BY <2>1 DEF Past
<1> QED BY <1>1, <1>13, <1>14, <1>16, <1>17 DEF Once, P, B, F, S, r

\* What a converted message takes and what it leaves are apart.
LEMMA ConvertPieces ==
  ASSUME UploadTypeOK, Shape, ConvertFrame
  PROVE  \E e \in Entries : \E g, h \in Nat :
           /\ body' = Append(body, e)
           /\ Piece(e.boxes, boxes.q, g) /\ Piece(boxes'.q, boxes.q, h) /\ g + Len(e.boxes) <= h
           /\ Len(boxes'.q) \in Nat /\ Len(e.boxes) \in Nat
<1>1. PICK m \in Messages, e \in Entries :
           /\ body' = Append(body, e)
           /\ e.boxes = IF m.n > 0 THEN SubSeq(Synced(m).q, 1, m.n) ELSE <<>>
           /\ boxes' = IF m.n > 0 THEN Get(Synced(m), BoxRing, m.n) ELSE boxes
           /\ m.n > 0 => m.addr \in 0..(BoxRing - 1) /\ m.n \in 0..Len(Synced(m).q)
  BY ConvertIs
<1>2. /\ boxes.q \in Seq(Box) /\ Len(boxes.q) \in Nat /\ BoxRing \in Nat
  BY RingsAre
<1> DEFINE q == boxes.q
           r == boxes'.q
           t == e.boxes
           n == m.n
<1>3. n \in Nat
  <2>1. n \in 0..MaxBoxes BY MessageIs
  <2> QED BY <2>1, Sizes
<1>4. CASE n > 0
  <2> DEFINE s == Synced(m)
  <2>1. PICK g \in 0..Len(q) :
             /\ IsRing(s, BoxRing, Box) /\ Len(s.q) = Len(q) - g
             /\ \A k \in 1..(Len(q) - g) : s.q[k] = q[g + k]
    <3>1. m.addr \in 0..(BoxRing - 1) BY <1>1, <1>4
    <3> QED BY <3>1, SyncedIs
  <2>2. n \in 0..Len(s.q) BY <1>1, <1>4
  <2>3. Taken(boxes', s, BoxRing, n)
    <3>1. boxes' = Get(s, BoxRing, n) BY <1>1, <1>4
    <3> HIDE DEF s, n
    <3> QED BY <1>2, <2>1, <2>2, <3>1, GetTakes
  <2>4. s.q \in Seq(Box) BY <2>1 DEF IsRing
  <2>5. t = SubSeq(s.q, 1, n) BY <1>1, <1>4
  <2>6. Len(t) = n /\ \A k \in 1..n : t[k] = s.q[k]
    <3> HIDE DEF s, t, n
    <3> QED BY <2>2, <2>4, <2>5, PrefixIs
  <2>7. Len(r) = Len(s.q) - n /\ \A k \in 1..(Len(s.q) - n) : r[k] = s.q[n + k]
    BY <2>3 DEF Taken
  <2> DEFINE N == Len(q)
             p == s.q
  <2>8. g \in Nat /\ N \in Nat /\ Len(p) = N - g BY <1>2, <2>1
  <2>9. \A k \in 1..(N - g) : p[k] = q[g + k] BY <2>1
  <2> HIDE DEF s, t, r, q, n, p, N
  <2>10. n <= N - g /\ n \in Nat BY <1>3, <2>2, <2>8 DEF p
  <2>11. Len(t) = n /\ \A k \in 1..n : t[k] = p[k] BY <2>6 DEF p
  <2>12. Len(r) = (N - g) - n /\ \A k \in 1..((N - g) - n) : r[k] = p[n + k] BY <2>7, <2>8 DEF p
  <2>13. Piece(t, q, g)
    <3>1. g + n <= N BY <2>8, <2>10
    <3>2. \A k \in 1..n : t[k] = q[g + k]
      <4>1. \A k \in 1..n : k \in 1..(N - g) BY <2>8, <2>10
      <4> QED BY <2>9, <2>11, <4>1
    <3> QED BY <2>11, <3>1, <3>2 DEF Piece, N
  <2>14. Piece(r, q, g + n)
    <3>1. (g + n) + ((N - g) - n) = N BY <2>8, <2>10
    <3>2. ASSUME NEW k \in 1..((N - g) - n) PROVE r[k] = q[(g + n) + k]
      <4>1. n + k \in 1..(N - g) /\ g + (n + k) = (g + n) + k BY <2>8, <2>10
      <4>2. r[k] = p[n + k] BY <2>12
      <4>3. p[n + k] = q[g + (n + k)] BY <2>9, <4>1
      <4> QED BY <4>1, <4>2, <4>3
    <3>3. N <= N BY <2>8
    <3> QED BY <2>12, <3>1, <3>2, <3>3 DEF Piece, N
  <2>15. g + n \in Nat /\ Len(r) \in Nat BY <2>8, <2>10, <2>12
  <2>16. g + Len(t) <= g + n BY <2>8, <2>10, <2>11
  <2>17. Len(t) \in Nat BY <2>10, <2>11
  <2>18. \E h \in Nat : Piece(r, q, h) /\ g + Len(t) <= h BY <2>14, <2>15, <2>16
  <2> QED BY <1>1, <2>8, <2>13, <2>15, <2>17, <2>18 DEF t, q, r
<1>5. CASE ~(n > 0)
  <2>1. t = <<>> /\ r = q BY <1>1, <1>5
  <2>2. Len(t) = 0 /\ Len(q) \in Nat BY <1>2, <2>1, EmptySeq
  <2> HIDE DEF t, r, q
  <2>3. Piece(t, q, 0) /\ Piece(r, q, 0) /\ 0 + Len(t) <= 0 /\ Len(r) \in Nat /\ Len(t) \in Nat
    BY <2>1, <2>2 DEF Piece
  <2> QED BY <1>1, <2>3 DEF t, q, r
<1> QED BY <1>4, <1>5

LEMMA ConvertOnce ==
  ASSUME UploadTypeOK, Shape, Once, ConvertFrame
  PROVE  Once'
<1>1. /\ posted' = posted /\ file' = file /\ copied' = copied /\ frames' = frames
  BY DEF ConvertFrame, addVars
<1> SUFFICES ASSUME ~copied PROVE Once' BY <1>1 DEF Once
<1>2. PICK e \in Entries : \E g, h \in Nat :
           /\ body' = Append(body, e)
           /\ Piece(e.boxes, boxes.q, g) /\ Piece(boxes'.q, boxes.q, h) /\ g + Len(e.boxes) <= h
           /\ Len(boxes'.q) \in Nat /\ Len(e.boxes) \in Nat
  BY ConvertPieces
<1>3. PICK g \in Nat, h \in Nat :
           /\ body' = Append(body, e)
           /\ Piece(e.boxes, boxes.q, g) /\ Piece(boxes'.q, boxes.q, h) /\ g + Len(e.boxes) <= h
           /\ Len(boxes'.q) \in Nat /\ Len(e.boxes) \in Nat
  BY <1>2
<1> DEFINE P == BoxesIn(posted)
           B == BoxesIn(body)
           F == BoxesIn(file)
           R == Elements(boxes.q)
           E == Elements(e.boxes)
           S == Elements(boxes'.q)
           C == BoxesIn(body')
<1>4. /\ OwnAll(posted, body, file, boxes.q) /\ OnceIn(P, B, F, R)
      /\ Past(P \cup B \cup F \cup R, frames)
  BY DEF Once
<1>5. Own(posted) /\ Own(body) /\ Own(file) /\ Distinct(boxes.q) BY <1>4 DEF OwnAll
<1>6. Len(boxes.q) \in Nat BY RingsAre
<1>7. Distinct(e.boxes) /\ E \subseteq R BY <1>3, <1>5, <1>6, PieceIs
<1>8. Distinct(boxes'.q) /\ S \subseteq R BY <1>3, <1>5, <1>6, PieceIs
<1>9. E \cap S = {} BY <1>3, <1>5, <1>6, PiecesApart
<1>10. body \in Seq(Entries) /\ Len(body) \in Nat
  <2>1. body \in Seq(Entries) BY DEF UploadTypeOK
  <2> QED BY <2>1, LenProperties
<1>11. OneMore(body', body) /\ body'[Len(body) + 1] = e
  BY <1>3, <1>10, AppendProperties DEF OneMore
<1>12. B \cap E = {}
  <2>1. B \cap R = {} BY <1>4 DEF OnceIn
  <2> HIDE DEF B, E, R
  <2> QED BY <1>7, <2>1
<1>13. C = B \cup E
  <2>1. BoxesIn(body') = BoxesIn(body) \cup Elements(body'[Len(body) + 1].boxes)
    BY <1>10, <1>11, BoxesInMore
  <2> QED BY <1>11, <2>1
<1>14. Own(body')
  <2>1. /\ Distinct(body'[Len(body) + 1].boxes)
        /\ BoxesIn(body) \cap Elements(body'[Len(body) + 1].boxes) = {}
    BY <1>7, <1>11, <1>12
  <2> QED BY <1>5, <1>10, <1>11, <2>1, BoxesInMore
<1>15. OwnAll(posted', body', file', boxes'.q) BY <1>1, <1>5, <1>8, <1>14 DEF OwnAll
<1>16. OnceIn(P, C, F, S) /\ Past(P \cup C \cup F \cup S, frames)
  <2> HIDE DEF P, B, C, F, R, E, S
  <2> QED BY <1>4, <1>7, <1>8, <1>9, <1>13 DEF OnceIn, Past
<1>17. /\ OnceIn(BoxesIn(posted'), BoxesIn(body'), BoxesIn(file'), Elements(boxes'.q))
       /\ Past(BoxesIn(posted') \cup BoxesIn(body') \cup BoxesIn(file') \cup Elements(boxes'.q),
               frames')
  BY <1>1, <1>16
<1> QED BY <1>15, <1>17 DEF Once

LEMMA SucceedsOnce ==
  ASSUME UploadTypeOK, Once, PostSucceeds
  PROVE  Once'
<1>1. /\ posted' = posted \o body /\ body' = <<>> /\ file' = file /\ boxes' = boxes
      /\ copied' = copied /\ frames' = frames
  BY DEF PostSucceeds, addVars, ringVars
<1> SUFFICES ASSUME ~copied PROVE Once' BY <1>1 DEF Once
<1> DEFINE P == BoxesIn(posted)
           B == BoxesIn(body)
           F == BoxesIn(file)
           R == Elements(boxes.q)
           Q == BoxesIn(posted')
           C == BoxesIn(body')
<1>2. /\ OwnAll(posted, body, file, boxes.q) /\ OnceIn(P, B, F, R)
      /\ Past(P \cup B \cup F \cup R, frames)
  BY DEF Once
<1>3. Own(posted) /\ Own(body) /\ Own(file) /\ Distinct(boxes.q) BY <1>2 DEF OwnAll
<1>4. posted \in Seq(Entries) /\ body \in Seq(Entries) BY DEF UploadTypeOK
<1>5. Len(posted) \in Nat /\ Len(body) \in Nat BY <1>4, LenProperties
<1>6. Joined(posted', posted, body) BY <1>1, <1>4, JoinedIs
<1>7. P \cap B = {} BY <1>2 DEF OnceIn
<1>8. Q \subseteq P \cup B /\ Own(posted') BY <1>3, <1>5, <1>6, <1>7, BoxesInJoined
<1>9. C = {} /\ Own(body') BY <1>1, BoxesInNone
<1>10. OwnAll(posted', body', file', boxes'.q) BY <1>1, <1>3, <1>8, <1>9 DEF OwnAll
<1>11. OnceIn(Q, C, F, R) /\ Past(Q \cup C \cup F \cup R, frames)
  <2> HIDE DEF P, B, C, F, R, Q
  <2> QED BY <1>2, <1>8, <1>9 DEF OnceIn, Past
<1>12. /\ OnceIn(BoxesIn(posted'), BoxesIn(body'), BoxesIn(file'), Elements(boxes'.q))
       /\ Past(BoxesIn(posted') \cup BoxesIn(body') \cup BoxesIn(file') \cup Elements(boxes'.q),
               frames')
  BY <1>1, <1>11
<1> QED BY <1>10, <1>12 DEF Once

\* The boxes that are saved leave the ring.
LEMMA FailsOnce ==
  ASSUME UploadTypeOK, Shape, Once, ConnectFails \/ PostFails
  PROVE  Once'
<1>1. /\ which = Kind /\ file = <<>> /\ posted' = posted /\ frames' = frames /\ body' = <<>>
      /\ GoOn \/ Save \/ GiveIn
  BY GivenUpAt
<1>2. CASE GoOn \/ GiveIn
  <2>1. file' = file /\ boxes' = boxes /\ copied' = copied BY <1>2 DEF GoOn, GiveIn
  <2> QED BY <1>1, <2>1, QuietOnce
<1>3. CASE Save
  <2> SUFFICES ASSUME ~copied' PROVE Once' BY DEF Once
  <2>1. PICK o : SavedFile(o) BY <1>1, <1>3, SaveIs
  <2>2. o[Len(cached[Kind])] <= Len(boxes.q) BY <2>1, SavedWhole
  <2> DEFINE c == cached[Kind]
             z == Len(c)
             q == boxes.q
             r == boxes'.q
             N == Len(q)
             f == file'
             P == BoxesIn(posted)
             B == BoxesIn(body)
             F == BoxesIn(file)
             R == Elements(q)
             G == BoxesIn(f)
             S == Elements(r)
             C == BoxesIn(body')
  <2>3. ~copied
    <3>1. copied' = (copied \/ o[z] > N) BY <2>1 DEF SavedFile
    <3> QED BY <3>1
  <2>4. /\ OwnAll(posted, body, file, q) /\ OnceIn(P, B, F, R)
        /\ Past(P \cup B \cup F \cup R, frames)
    BY <2>3 DEF Once
  <2>5. Own(posted) /\ Distinct(q) BY <2>4 DEF OwnAll
  <2>6. /\ IsUpto(o, z, Counts(c)) /\ Len(f) = z
        /\ \A i \in 1..z : Len(f[i].boxes) = c[i].n
        /\ Taken(boxes', boxes, BoxRing, o[z])
        /\ \A i \in 1..z : \A l \in 1..c[i].n : f[i].boxes[l] = q[o[i - 1] + l]
    BY <2>1, <2>2 DEF SavedFile
  <2>7. z \in Nat BY LineIs
  <2>8. N \in Nat BY RingsAre
  <2>9. Len(r) = N - o[z] /\ \A k \in 1..(N - o[z]) : r[k] = q[o[z] + k] BY <2>6 DEF Taken
  <2>10. o[z] <= N BY <2>2
  <2>11. \A i \in 1..z : Counts(c)[i] = c[i].n BY DEF Counts
  <2> HIDE DEF c, z, q, r, N, f
  <2>12. z \in 0..z /\ o \in [0..z -> Nat] BY <2>6, <2>7 DEF IsUpto
  <2>13. o[z] \in Nat BY <2>12
  <2>14. \A i, j \in 0..z : i <= j => o[i] <= o[j] BY <2>6, <2>7, UptoRises
  <2>15. ASSUME NEW i \in 1..z
         PROVE  /\ i - 1 \in 0..z /\ i \in 0..z /\ o[i - 1] \in Nat /\ o[i] \in Nat
                /\ Len(f[i].boxes) \in Nat /\ o[i] = o[i - 1] + Len(f[i].boxes)
                /\ o[i] <= o[z]
    <3>1. i - 1 \in 0..z /\ i \in 0..z /\ i <= z BY <2>7
    <3>2. o[i] = o[i - 1] + Counts(c)[i] /\ Counts(c)[i] \in Nat BY <2>6 DEF IsUpto
    <3>3. Len(f[i].boxes) = Counts(c)[i] BY <2>6, <2>11
    <3>4. o[i] <= o[z] BY <2>12, <2>14, <3>1
    <3> QED BY <2>12, <3>1, <3>2, <3>3, <3>4
  <2>16. ASSUME NEW i \in 1..z PROVE Piece(f[i].boxes, q, o[i - 1])
    <3> DEFINE t == f[i].boxes
               x == o[i - 1]
               y == o[i]
    <3>1. y = x + Len(t) /\ y <= o[z] /\ x \in Nat /\ y \in Nat BY <2>15
    <3>2. Len(t) = c[i].n /\ \A l \in 1..c[i].n : t[l] = q[x + l] BY <2>6
    <3> HIDE DEF t, x, y
    <3>3. x + Len(t) <= N BY <2>8, <2>10, <2>13, <3>1
    <3>4. Piece(t, q, x) BY <3>2, <3>3 DEF Piece, N
    <3> QED BY <3>4 DEF t, x
  <2>17. Len(r) \in Nat /\ Piece(r, q, o[z])
    <3>1. Len(r) \in Nat /\ o[z] + Len(r) <= N BY <2>8, <2>9, <2>10, <2>13
    <3>2. \A k \in 1..Len(r) : r[k] = q[o[z] + k] BY <2>9
    <3> QED BY <3>1, <3>2 DEF Piece, N
  <2>18. ASSUME NEW i \in 1..z
         PROVE  /\ Distinct(f[i].boxes) /\ Elements(f[i].boxes) \subseteq R
                /\ Elements(f[i].boxes) \cap S = {}
    <3>1. Distinct(f[i].boxes) /\ Elements(f[i].boxes) \subseteq R
      BY <2>5, <2>8, <2>15, <2>16, PieceIs DEF N
    <3>2. o[i - 1] + Len(f[i].boxes) <= o[z] BY <2>15
    <3>3. Elements(f[i].boxes) \cap S = {}
      BY <2>5, <2>8, <2>13, <2>15, <2>16, <2>17, <3>2, PiecesApart DEF N
    <3> QED BY <3>1, <3>3
  <2>19. ASSUME NEW i \in 1..z, NEW j \in 1..z, i < j
         PROVE  Elements(f[i].boxes) \cap Elements(f[j].boxes) = {}
    <3>1. i <= j - 1 BY <2>7, <2>19
    <3>2. o[i] <= o[j - 1] BY <2>14, <2>15, <3>1
    <3>3. o[i - 1] + Len(f[i].boxes) <= o[j - 1] BY <2>15, <3>2
    <3> QED BY <2>5, <2>8, <2>15, <2>16, <3>3, PiecesApart DEF N
  <2>20. Own(f) BY <2>6, <2>18, <2>19 DEF Own
  <2>21. G \subseteq R /\ G \cap S = {}
    <3>1. ASSUME NEW x \in G PROVE x \in R /\ x \notin S
      <4>1. PICK i \in 1..z : x \in Elements(f[i].boxes) BY <2>6, BoxesInIs
      <4> HIDE DEF R, S
      <4> QED BY <2>18, <4>1
    <3> QED BY <3>1
  <2>22. S \subseteq R /\ Distinct(r) BY <2>5, <2>8, <2>13, <2>17, PieceIs DEF N
  <2>23. C = {} /\ Own(body') BY <1>1, BoxesInNone
  <2>24. OwnAll(posted', body', f, r) BY <1>1, <2>5, <2>20, <2>22, <2>23 DEF OwnAll
  <2>25. OnceIn(P, C, G, S) /\ Past(P \cup C \cup G \cup S, frames)
    <3> HIDE DEF P, B, C, F, R, G, S
    <3> QED BY <2>4, <2>21, <2>22, <2>23 DEF OnceIn, Past
  <2>26. /\ OnceIn(BoxesIn(posted'), BoxesIn(body'), BoxesIn(f), Elements(r))
         /\ Past(BoxesIn(posted') \cup BoxesIn(body') \cup BoxesIn(f) \cup Elements(r), frames')
    BY <1>1, <2>25
  <2> QED BY <2>24, <2>26 DEF Once, f, r
<1> QED BY <1>1, <1>2, <1>3

\* The boxes that are read back leave the card.
LEMMA BootOnce ==
  ASSUME UploadTypeOK, Shape, Filed, Once, Boot
  PROVE  Once'
<1>1. /\ boxes' = ReadBack.ring /\ file' = <<>> /\ body' = <<>> /\ posted' = posted
      /\ frames' = frames /\ copied' = copied
  BY DEF Boot
<1> SUFFICES ASSUME ~copied PROVE Once' BY <1>1 DEF Once
<1> DEFINE n == Len(file)
           r == boxes'.q
           P == BoxesIn(posted)
           B == BoxesIn(body)
           F == BoxesIn(file)
           R == Elements(boxes.q)
           S == Elements(r)
           C == BoxesIn(body')
           G == BoxesIn(file')
<1>2. /\ OwnAll(posted, body, file, boxes.q) /\ OnceIn(P, B, F, R)
      /\ Past(P \cup B \cup F \cup R, frames)
  BY DEF Once
<1>3. Own(posted) /\ Own(file) BY <1>2 DEF OwnAll
<1>4. n \in Nat BY BootIs
<1>5. PICK off : IsUpto(off, n, LineSizes(file)) /\ ReadTo(ReadBack, off, n) BY BootIs
<1>6. off[n] <= BoxRing
  <2>1. Fits(file) BY DEF Filed
  <2>2. PICK g : IsUpto(g, n, LineSizes(file)) /\ g[n] <= BoxRing BY <2>1 DEF Fits
  <2> HIDE DEF n
  <2>3. g = off BY <1>4, <1>5, <2>2, UptoUnique
  <2> QED BY <2>2, <2>3
<1>7. Len(r) = off[n] /\ \A i \in 1..n : \A l \in 1..Len(file[i].boxes) :
                           r[off[i - 1] + l] = file[i].boxes[l]
  BY <1>1, <1>5, <1>6 DEF ReadTo
<1>8. \A i \in 1..n : LineSizes(file)[i] = Len(file[i].boxes) BY DEF LineSizes
<1> HIDE DEF n, r
<1>9. \A p \in 1..off[n] : \E i \in 1..n : \E k \in 1..LineSizes(file)[i] : p = off[i - 1] + k
  BY <1>4, <1>5, UptoCovers
<1>10. ASSUME NEW p \in 1..Len(r)
       PROVE  \E i \in 1..n : \E k \in 1..Len(file[i].boxes) :
                p = off[i - 1] + k /\ r[p] = file[i].boxes[k]
  <2>1. PICK i \in 1..n : \E k \in 1..LineSizes(file)[i] : p = off[i - 1] + k BY <1>7, <1>9
  <2>2. PICK k \in 1..Len(file[i].boxes) : p = off[i - 1] + k BY <1>8, <2>1
  <2> QED BY <1>7, <2>2
<1>11. S \subseteq F
  <2>1. ASSUME NEW x \in S PROVE x \in F
    <3>1. PICK p \in 1..Len(r) : x = r[p] BY DEF Elements
    <3>2. PICK i \in 1..n : \E k \in 1..Len(file[i].boxes) :
                 p = off[i - 1] + k /\ r[p] = file[i].boxes[k]
      BY <1>10
    <3>3. x \in Elements(file[i].boxes) BY <3>1, <3>2 DEF Elements
    <3> QED BY <3>3, BoxesInIs DEF n
  <2> QED BY <2>1
<1>12. Distinct(r)
  <2>1. ASSUME NEW p \in 1..Len(r), NEW s \in 1..Len(r), r[p] = r[s] PROVE p = s
    <3>1. PICK i \in 1..n : \E k \in 1..Len(file[i].boxes) :
                 p = off[i - 1] + k /\ r[p] = file[i].boxes[k]
      BY <1>10
    <3>2. PICK k \in 1..Len(file[i].boxes) : p = off[i - 1] + k /\ r[p] = file[i].boxes[k]
      BY <3>1
    <3>3. PICK j \in 1..n : \E l \in 1..Len(file[j].boxes) :
                 s = off[j - 1] + l /\ r[s] = file[j].boxes[l]
      BY <1>10
    <3>4. PICK l \in 1..Len(file[j].boxes) : s = off[j - 1] + l /\ r[s] = file[j].boxes[l]
      BY <3>3
    <3> DEFINE E == Elements(file[i].boxes)
               D == Elements(file[j].boxes)
               x == r[p]
    <3>5. x \in E /\ x \in D BY <2>1, <3>2, <3>4 DEF Elements
    <3>6. (i < j => E \cap D = {}) /\ (j < i => D \cap E = {}) BY <1>3 DEF Own, n
    <3>7. i = j
      <4> HIDE DEF E, D, x
      <4>1. ~(i < j) /\ ~(j < i) BY <3>5, <3>6
      <4> QED BY <1>4, <4>1
    <3>8. Distinct(file[i].boxes) BY <1>3 DEF Own, n
    <3>9. k = l
      <4>1. file[i].boxes[k] = file[i].boxes[l] /\ l \in 1..Len(file[i].boxes)
        BY <2>1, <3>2, <3>4, <3>7
      <4> QED BY <3>8, <4>1 DEF Distinct
    <3> QED BY <3>2, <3>4, <3>7, <3>9
  <2> QED BY <2>1 DEF Distinct
<1>13. C = {} /\ Own(body') /\ G = {} /\ Own(file') BY <1>1, BoxesInNone
<1>14. OwnAll(posted', body', file', r) BY <1>1, <1>3, <1>12, <1>13 DEF OwnAll
<1>15. OnceIn(P, C, G, S) /\ Past(P \cup C \cup G \cup S, frames)
  <2> HIDE DEF P, B, C, F, R, G, S
  <2> QED BY <1>2, <1>11, <1>13 DEF OnceIn, Past
<1>16. /\ OnceIn(BoxesIn(posted'), BoxesIn(body'), BoxesIn(file'), Elements(r))
       /\ Past(BoxesIn(posted') \cup BoxesIn(body') \cup BoxesIn(file') \cup Elements(r), frames')
  BY <1>1, <1>15
<1> QED BY <1>14, <1>16 DEF Once, r

-----------------------------------------------------------------------------
(* The invariant, and the theorems.                                        *)

UploadInv == UploadTypeOK /\ Shape /\ Order /\ InStep /\ Filed /\ Once

LEMMA UploadStarts ==
  ASSUME UploadInit
  PROVE  UploadInv
BY InitTypes, InitShape, InitOrder, InitInStep, InitOnce DEF UploadInv

\* A frame or a picture is added.
LEMMA AddInv ==
  ASSUME UploadInv, AddTracking \/ AddImage
  PROVE  UploadInv'
<1>1. UploadTypeOK /\ Shape /\ Order /\ InStep /\ Filed /\ Once BY DEF UploadInv
<1>2. UploadTypeOK' BY <1>1, AddTrackingTypes, AddImageTypes
<1>3. Shape' BY <1>1, AddShape
<1>4. Order' BY <1>1, AddOrder
<1>5. InStep' BY <1>1, <1>2, AddInStep
<1>6. Filed'
  <2>1. file' = file /\ spoiled' = spoiled /\ copied' = copied BY DEF AddTracking, AddImage
  <2> QED BY <1>1, <2>1, QuietFiled
<1>7. Once' BY <1>1, AddOnce
<1> QED BY <1>2, <1>3, <1>4, <1>5, <1>6, <1>7 DEF UploadInv

\* Messages move on; nothing is taken or put.
LEMMA PlainInv ==
  ASSUME UploadInv,
         Send \/ Receive \/ ReceiveSecond \/ ReceiveTimeout \/ NothingDue \/ Connect
  PROVE  UploadInv'
<1>1. UploadTypeOK /\ Shape /\ Order /\ InStep /\ Filed /\ Once BY DEF UploadInv
<1>2. UploadTypeOK' /\ Shape'
  <2>1. CASE Send BY <1>1, <2>1, SendTypes, SendShape
  <2>2. CASE Receive \/ ReceiveSecond
    <3>1. UploadTypeOK' BY <1>1, <2>2, ReceiveTypes
    <3> QED BY <1>1, <2>2, <3>1, ReceiveShape
  <2>3. CASE ReceiveTimeout BY <1>1, <2>3, TimeoutTypes, QuietShape
  <2>4. CASE NothingDue BY <1>1, <2>4, NothingDueTypes, QuietShape
  <2>5. CASE Connect BY <1>1, <2>5, ConnectTypes, QuietShape
  <2> QED BY <2>1, <2>2, <2>3, <2>4, <2>5
<1>3. Order' BY <1>1, <1>2, PlainOrder
<1>4. InStep' BY <1>1, <1>2, PlainInStep
<1>5. /\ file' = file /\ spoiled' = spoiled /\ copied' = copied /\ posted' = posted
      /\ boxes' = boxes /\ frames' = frames
      /\ (body' = body \/ body' = <<>>)
  BY DEF Send, Receive, ReceiveSecond, ReceiveTimeout, NothingDue, Connect, addVars, ringVars
<1>6. Filed' BY <1>1, <1>5, QuietFiled
<1>7. Once' BY <1>1, <1>5, QuietOnce
<1> QED BY <1>2, <1>3, <1>4, <1>6, <1>7 DEF UploadInv

\* A message is left out or an assertion fails, after a post that failed late.
LEMMA SkipInv ==
  ASSUME UploadInv, DropFrame \/ Abort
  PROVE  UploadInv'
<1>1. UploadTypeOK /\ Shape /\ Order /\ InStep /\ Filed /\ Once BY DEF UploadInv
<1>2. UploadTypeOK' BY <1>1, SkipTypes
<1>3. Shape' BY <1>1, QuietShape
<1>4. Order' BY <1>1, <1>2, PlainOrder
<1>5. /\ file' = file /\ spoiled' = spoiled /\ copied' = copied /\ posted' = posted
      /\ boxes' = boxes /\ frames' = frames /\ body' = body
  BY DEF DropFrame, Abort, addVars, ringVars
<1>6. InStep'
  <2>1. spoiled BY <1>1, NothingLost
  <2> QED BY <1>5, <2>1 DEF InStep
<1>7. Filed' BY <1>1, <1>5, QuietFiled
<1>8. Once' BY <1>1, <1>5, QuietOnce
<1> QED BY <1>2, <1>3, <1>4, <1>6, <1>7, <1>8 DEF UploadInv

LEMMA ConvertInv ==
  ASSUME UploadInv, ConvertFrame
  PROVE  UploadInv'
<1>1. UploadTypeOK /\ Shape /\ Order /\ InStep /\ Filed /\ Once BY DEF UploadInv
<1>2. UploadTypeOK' BY <1>1, ConvertTypes
<1>3. Shape' BY <1>1, QuietShape
<1>4. Order' BY <1>1, ConvertOrder
<1>5. InStep' BY <1>1, <1>2, ConvertInStep
<1>6. file' = file /\ spoiled' = spoiled /\ copied' = copied BY DEF ConvertFrame
<1>7. Filed' BY <1>1, <1>6, QuietFiled
<1>8. Once' BY <1>1, ConvertOnce
<1> QED BY <1>2, <1>3, <1>4, <1>5, <1>7, <1>8 DEF UploadInv

LEMMA SucceedsInv ==
  ASSUME UploadInv, PostSucceeds
  PROVE  UploadInv'
<1>1. UploadTypeOK /\ Shape /\ Order /\ InStep /\ Filed /\ Once BY DEF UploadInv
<1>2. UploadTypeOK' BY <1>1, SucceedsTypes
<1>3. Shape' BY <1>1, <1>2, SucceedsShape
<1>4. Order' BY <1>1, <1>2, SucceedsOrder
<1>5. InStep' BY <1>1, <1>2, SucceedsInStep
<1>6. file' = file /\ spoiled' = spoiled /\ copied' = copied BY DEF PostSucceeds
<1>7. Filed' BY <1>1, <1>6, QuietFiled
<1>8. Once' BY <1>1, SucceedsOnce
<1> QED BY <1>2, <1>3, <1>4, <1>5, <1>7, <1>8 DEF UploadInv

LEMMA FailsInv ==
  ASSUME UploadInv, ConnectFails \/ PostFails
  PROVE  UploadInv'
<1>1. UploadTypeOK /\ Shape /\ Order /\ InStep /\ Filed /\ Once BY DEF UploadInv
<1>2. UploadTypeOK' BY <1>1, FailsTypes
<1>3. Shape' BY <1>1, <1>2, FailsShape
<1>4. Order' BY <1>1, <1>2, FailsOrder
<1>5. InStep' BY <1>1, <1>2, FailsInStep
<1>6. Filed' BY <1>1, <1>2, FailsFiled
<1>7. Once' BY <1>1, FailsOnce
<1> QED BY <1>2, <1>3, <1>4, <1>5, <1>6, <1>7 DEF UploadInv

LEMMA BootInv ==
  ASSUME UploadInv, Boot
  PROVE  UploadInv'
<1>1. UploadTypeOK /\ Shape /\ Order /\ InStep /\ Filed /\ Once BY DEF UploadInv
<1>2. UploadTypeOK' BY <1>1, BootTypes
<1>3. Shape' BY <1>1, <1>2, BootShape
<1>4. Order' BY <1>1, <1>2, BootOrder
<1>5. InStep' /\ Filed' BY <1>1, <1>2, BootInStep
<1>6. Once' BY <1>1, BootOnce
<1> QED BY <1>2, <1>3, <1>4, <1>5, <1>6 DEF UploadInv

LEMMA UploadStill ==
  ASSUME UploadInv, UNCHANGED uploadVars
  PROVE  UploadInv'
<1>1. UploadTypeOK /\ Shape /\ Order /\ InStep /\ Filed /\ Once BY DEF UploadInv
<1>2. /\ mode' = mode /\ frames' = frames /\ boxes' = boxes /\ images' = images
      /\ inflight' = inflight /\ queue' = queue /\ cached' = cached /\ pc' = pc
      /\ which' = which /\ thres' = thres /\ todo' = todo /\ body' = body /\ file' = file
      /\ boots' = boots /\ posted' = posted /\ spoiled' = spoiled /\ copied' = copied
  BY DEF uploadVars
<1>3. UploadTypeOK' BY <1>1, <1>2 DEF UploadTypeOK
<1>4. Line' = Line /\ Kind' = Kind BY <1>2, StillLine DEF Still
<1>5. Shape'
  <2>1. Alike' = Alike BY <1>2, <1>4 DEF Alike
  <2>2. Converting' = Converting BY <1>2 DEF Converting
  <2> QED BY <1>1, <1>2, <1>4, <2>1, <2>2 DEF Shape
<1>6. Order' BY <1>1, <1>2, <1>4, QuietOrder
<1>7. InStep' BY <1>1, <1>2, <1>4, QuietInStep
<1>8. Filed' BY <1>1, <1>2, QuietFiled
<1>9. Once' BY <1>1, <1>2, QuietOnce
<1> QED BY <1>3, <1>5, <1>6, <1>7, <1>8, <1>9 DEF UploadInv

LEMMA UploadStep ==
  ASSUME UploadInv, [UploadNext]_uploadVars
  PROVE  UploadInv'
<1>1. CASE AddTracking \/ AddImage BY <1>1, AddInv
<1>2. CASE Send BY <1>2, PlainInv
<1>3. CASE Consume
  <2>1. CASE Receive \/ ReceiveSecond \/ ReceiveTimeout \/ NothingDue \/ Connect
    BY <2>1, PlainInv
  <2>2. CASE DropFrame \/ Abort BY <2>2, SkipInv
  <2>3. CASE ConvertFrame BY <2>3, ConvertInv
  <2>4. CASE PostSucceeds BY <2>4, SucceedsInv
  <2>5. CASE ConnectFails \/ PostFails BY <2>5, FailsInv
  <2> QED BY <1>3, <2>1, <2>2, <2>3, <2>4, <2>5 DEF Consume
<1>4. CASE Restart \/ PowerCut
  <2>1. Boot BY <1>4 DEF Restart, PowerCut
  <2> QED BY <2>1, BootInv
<1>5. CASE UNCHANGED uploadVars BY <1>5, UploadStill
<1> QED BY <1>1, <1>2, <1>3, <1>4, <1>5 DEF UploadNext

LEMMA UploadSpecInv == UploadSpec => []UploadInv
<1>1. UploadInit => UploadInv BY UploadStarts
<1>2. UploadInv /\ [UploadNext]_uploadVars => UploadInv' BY UploadStep
<1> QED BY <1>1, <1>2, PTL DEF UploadSpec

\* Neither a ring nor the queue ever holds more than it can, and every place of
\* the consumer lies in the messages it works on.
\* (Ringbuf_t::put, add_tracking_data and thread_consumer.)
THEOREM UploadTypes == UploadSpec => []UploadTypeOK
<1>1. UploadInv => UploadTypeOK BY DEF UploadInv
<1> QED BY <1>1, UploadSpecInv, PTL

\* As long as no post fails after its data has left the rings, rings and messages
\* stay in step, no assertion of the conversion fails, and every frame goes out
\* under its own boxes and its own picture.
\* (add_tracking_data, convert_tracking_info_to_json, save_ and
\* read_tracking_data_..._local_file.)
THEOREM UploadInStep == UploadSpec => []DataInStep
<1>1. UploadInv => DataInStep BY InStepIs DEF UploadInv
<1> QED BY <1>1, UploadSpecInv, PTL

\* The server gets frames in the order they were added and none twice, and a box
\* is at one place only, whatever fails and whenever the device restarts, unless
\* a save found too few boxes in the ring.
\* (post_tracking_msg, thread_consumer and the file that survives a restart.)
THEOREM UploadOnceInOrder == UploadSpec => []PostedOnceInOrder
<1>1. UploadInv => EachBoxOnce BY OnceIs DEF UploadInv
<1>2. UploadInv => PostedInOrder BY OrderPosted DEF UploadInv
<1>3. UploadInv => PostedOnceInOrder BY <1>1, <1>2 DEF PostedOnceInOrder
<1> QED BY <1>3, UploadSpecInv, PTL

HIDE DEF Kinds
-----------------------------------------------------------------------------
(* The output queue of the host SDK                                        *)

\* The message thread has received the header of the item it works on.
Receiving == receiver.pc \in {"payload", "evict", "repush"}

\* The last item that has left the message thread.
Latest == IF Receiving THEN arrived - 1 ELSE arrived

Numbered ==
  /\ receiver.pc = "header" => receiver.item.id = arrived + 1
  /\ Receiving => receiver.item.id = arrived

\* The items between the two threads are in order.
QueueOrdered ==
  /\ worker.item.id <= Latest
  /\ \A k \in DOMAIN outq : worker.item.id < outq[k].id /\ outq[k].id <= Latest
  /\ \A j, k \in DOMAIN outq : j < k => outq[j].id < outq[k].id

\* What was handled comes before all that.
HandledFirst ==
  \A h \in DOMAIN handled :
    /\ handled[h] <= Latest
    /\ worker.pc = "handle" => handled[h] < worker.item.id
    /\ worker.pc = "free" => handled[h] <= worker.item.id
    /\ \A k \in DOMAIN outq : handled[h] < outq[k].id

AllHeldLive == \A item \in Held : Allocations(item) \subseteq heap

IInv ==
  /\ TypeOK /\ Numbered /\ QueueOrdered /\ HandledFirst /\ HandledInOrder
  /\ AllHeldLive /\ LostOnlyWithRejected /\ RepushFits

USE CapAssumption, BoundAssumption
-----------------------------------------------------------------------------
(* The queue                                                               *)

LEMMA TailOfQueue ==
  ASSUME NEW S, NEW q \in Seq(S), q # <<>>
  PROVE  /\ Head(q) = q[1] /\ Head(q) \in S /\ Len(q) \in Nat /\ Len(q) >= 1
         /\ Tail(q) \in Seq(S) /\ Len(Tail(q)) = Len(q) - 1
         /\ DOMAIN q = 1..Len(q) /\ DOMAIN Tail(q) = 1..(Len(q) - 1)
         /\ \A k \in 1..(Len(q) - 1) : Tail(q)[k] = q[k + 1]
<1>1. /\ q[1] \in S /\ Len(q) \in Nat /\ Len(q) >= 1 /\ Head(q) = q[1]
      /\ Tail(q) \in Seq(S) /\ Len(Tail(q)) = Len(q) - 1
  BY HeadTailProperties
<1>2. DOMAIN q = 1..Len(q) /\ DOMAIN Tail(q) = 1..(Len(q) - 1)
  BY <1>1
<1>3. QED
  BY <1>1, <1>2, HeadTailProperties

LEMMA AppendToQueue ==
  ASSUME NEW S, NEW q \in Seq(S), NEW x \in S
  PROVE  /\ Append(q, x) \in Seq(S) /\ Len(q) \in Nat /\ Len(Append(q, x)) = Len(q) + 1
         /\ DOMAIN q = 1..Len(q) /\ DOMAIN Append(q, x) = 1..(Len(q) + 1)
         /\ \A k \in 1..Len(q) : Append(q, x)[k] = q[k]
         /\ Append(q, x)[Len(q) + 1] = x
BY AppendProperties

-----------------------------------------------------------------------------
LEMMA InitInv == Init => IInv
<1> SUFFICES ASSUME Init PROVE IInv
  OBVIOUS
<1> USE DEF Init
<1>1. nullItem \in BOOLEAN /\ barked \in BOOLEAN
  BY Zenon
<1>2. NoItem \notin Item /\ outq \in Seq(Item) /\ handled \in Seq(Items)
  BY DEF NoItem, Item, Items
<1>3. /\ receiver.item = NoItem /\ receiver.pc = "loop" /\ receiver.awaits = {}
      /\ worker.item = NoItem /\ worker.pc = "loop"
  BY Zenon
<1>4. TypeOK
  BY <1>1, <1>2, <1>3 DEF TypeOK
<1>5. Numbered /\ QueueOrdered /\ HandledFirst /\ HandledInOrder /\ RepushFits
  BY <1>3 DEF Numbered, QueueOrdered, HandledFirst, HandledInOrder, RepushFits, Receiving,
              Latest, NoItem
<1>6. Held = {NoItem}
  BY <1>3 DEF Held
<1>7. AllHeldLive /\ LostOnlyWithRejected
  BY <1>6 DEF AllHeldLive, LostOnlyWithRejected, Allocations, NoItem
<1>8. QED
  BY <1>4, <1>5, <1>7 DEF IInv

-----------------------------------------------------------------------------
(* What the types say of numbers and places                                *)

LEMMA Numbers ==
  ASSUME TypeOK
  PROVE  /\ arrived \in Nat /\ receiver.item.id \in Nat /\ worker.item.id \in Nat
         /\ Latest \in Int
         /\ \A k \in DOMAIN outq : outq[k] \in Item /\ outq[k].id \in Nat /\ outq[k].id >= 1
         /\ \A h \in DOMAIN handled : handled[h] \in Nat
<1>1. arrived \in Nat
  BY DEF TypeOK
<1>2. /\ receiver.item \in Item \union {NoItem} /\ worker.item \in Item \union {NoItem}
      /\ \A k \in DOMAIN outq : outq[k] \in Item
      /\ \A h \in DOMAIN handled : handled[h] \in Items
  BY DEF TypeOK
<1>3. /\ \A x \in Item : x.id \in Nat /\ x.id >= 1
      /\ NoItem.id = 0 /\ \A n \in Items : n \in Nat
  BY DEF Item, Items, NoItem
<1>4. receiver.item.id \in Nat /\ worker.item.id \in Nat
  BY <1>2, <1>3
<1>5. QED
  BY <1>1, <1>2, <1>3, <1>4 DEF Latest

\* An item and its place at each of the program counters.
LEMMA Places ==
  ASSUME TypeOK
  PROVE  /\ receiver.pc \in {"loop", "exited"} => receiver.item = NoItem
         /\ receiver.pc \notin {"loop", "exited"} => receiver.item \in Item
         /\ worker.pc \in {"loop", "exited"} => worker.item = NoItem
         /\ worker.pc \in {"handle", "free"} => worker.item \in Item
BY DEF TypeOK

LEMMA NoAllocations == Allocations(NoItem) = {}
BY DEF Allocations, NoItem

\* Different items have no allocation in common.
LEMMA AllocationsApart ==
  ASSUME NEW x, NEW y, x.id # y.id
  PROVE  Allocations(x) \cap Allocations(y) = {}
BY DEF Allocations

\* No item is in two places.
LEMMA PlacesApart ==
  ASSUME IInv
  PROVE  /\ \A k \in DOMAIN outq : /\ outq[k].id # worker.item.id
                                   /\ outq[k].id # receiver.item.id
         /\ \A j, k \in DOMAIN outq : j # k => outq[j].id # outq[k].id
         /\ receiver.item # NoItem => receiver.item.id # worker.item.id
<1>0. /\ receiver.item.id \in Nat /\ worker.item.id \in Nat /\ Latest \in Int
      /\ \A k \in DOMAIN outq : outq[k].id \in Nat
  BY Numbers DEF IInv
<1>1. receiver.item # NoItem => receiver.item.id > Latest
  BY Numbers, Places DEF IInv, TypeOK, Numbered, Receiving, Latest
<1>2. receiver.item = NoItem => receiver.item.id = 0
  BY DEF NoItem
<1>3. \A j, k \in DOMAIN outq : j # k => outq[j].id # outq[k].id
  <2>1. \A j, k \in DOMAIN outq : j < k => outq[j].id < outq[k].id
    BY DEF IInv, QueueOrdered
  <2>2. \A k \in DOMAIN outq : k \in Int
    <3>1. outq \in Seq(Item)
      BY DEF IInv, TypeOK
    <3>2. QED
      BY <3>1, LenProperties
  <2>3. QED
    BY <1>0, <2>1, <2>2
<1>4. ASSUME NEW k \in DOMAIN outq
      PROVE  worker.item.id < outq[k].id /\ outq[k].id <= Latest
  BY DEF IInv, QueueOrdered
<1>5. worker.item.id <= Latest
  BY DEF IInv, QueueOrdered
<1>6. \A k \in DOMAIN outq : /\ outq[k].id # worker.item.id
                            /\ outq[k].id # receiver.item.id
  BY <1>0, <1>1, <1>2, <1>4
<1>7. receiver.item # NoItem => receiver.item.id # worker.item.id
  BY <1>0, <1>1, <1>5
<1>8. QED
  BY <1>3, <1>6, <1>7

-----------------------------------------------------------------------------
(* What a step does to the items between the two threads                   *)

Stays ==
  /\ outq' = outq /\ worker'.item = worker.item /\ handled' = handled
  /\ worker'.pc = worker.pc \/ worker'.pc = "exited"
  /\ Latest' \in {Latest, Latest + 1}

Enqueues ==
  /\ UNCHANGED <<worker, handled>> /\ ~Full
  /\ receiver.item \in Item /\ outq' = Append(outq, receiver.item)
  /\ receiver.item.id = Latest + 1 /\ Latest' = Latest + 1

Drops ==
  /\ UNCHANGED <<worker, handled>>
  /\ outq # <<>> /\ outq' = Tail(outq) /\ Latest' = Latest

Takes ==
  /\ outq # <<>> /\ outq' = Tail(outq) /\ Latest' = Latest /\ handled' = handled
  /\ worker.item = NoItem /\ worker' = [pc |-> "handle", item |-> Head(outq)]

Handles ==
  /\ outq' = outq /\ Latest' = Latest
  /\ worker.pc = "handle" /\ worker'.pc = "free" /\ worker'.item = worker.item
  /\ worker.item \in Item
  /\ handled' \in {handled, Append(handled, worker.item.id)}

Frees ==
  /\ outq' = outq /\ Latest' = Latest /\ handled' = handled
  /\ worker'.pc = "loop" /\ worker'.item = NoItem

Deletes == outq' = <<>> /\ Latest' = Latest /\ UNCHANGED <<worker, handled>>

LEMMA Moves ==
  ASSUME IInv, [Next]_vars
  PROVE  Stays \/ Enqueues \/ Drops \/ Takes \/ Handles \/ Frees \/ Deletes
<1> USE DEF ReceiverAt, WorkerAt, workerVars, receiverVars, Receiving, Latest
<1>0. /\ arrived \in Nat /\ TypeOK /\ Numbered
      /\ receiver \in [pc : {"loop", "header", "payload", "evict", "repush", "exited"},
                       item : Item \union {NoItem}, awaits : SUBSET {"result", "image"}]
      /\ worker \in [pc : {"loop", "handle", "free", "exited"}, item : Item \union {NoItem}]
  BY Numbers DEF IInv, TypeOK
<1>1. EnterReceive => Stays
  BY <1>0 DEF EnterReceive, Stays
<1>2. ASSUME ReceiveHeader PROVE Stays
  <2>1. /\ receiver.pc = "header" /\ arrived' = arrived + 1
        /\ UNCHANGED <<outq, worker, handled>>
    BY <1>2 DEF ReceiveHeader
  <2>2. receiver'.pc \in {"loop", "payload"}
    <3>1. CASE GiveUp
      BY <3>1 DEF GiveUp
    <3>2. ASSUME NEW p, receiver' = [receiver EXCEPT !.awaits = p, !.pc = "payload"]
          PROVE  receiver'.pc = "payload"
      BY <1>0, <3>2
    <3>3. QED
      BY <1>2, <3>1, <3>2 DEF ReceiveHeader
  <2>3. Latest' \in {Latest, Latest + 1}
    BY <1>0, <2>1, <2>2
  <2>4. QED
    BY <2>1, <2>3 DEF Stays
<1>3. ReceivePayload => Stays
  BY <1>0 DEF ReceivePayload, Stays
<1>4. PushItem => Stays \/ Enqueues
  BY <1>0, Places DEF PushItem, EnqueueItem, Stays, Enqueues, Numbered
<1>5. EvictOldest => Stays \/ Drops
  BY <1>0 DEF EvictOldest, Stays, Drops
<1>6. RepushItem => Enqueues
  BY <1>0, Places DEF RepushItem, EnqueueItem, Enqueues, Numbered
<1>7. PollEmpty => Stays
  BY <1>0 DEF PollEmpty, Stays
<1>8. TakeItem => Takes
  BY <1>0, Places DEF TakeItem, Takes
<1>9. HandleItem => Handles
  BY <1>0, Places DEF HandleItem, Handles
<1>10. FreeItem => Frees
  BY <1>0 DEF FreeItem, Frees
<1>11. LeaveWorker => Stays
  BY <1>0 DEF LeaveWorker, Stays
<1>12. Uninit => Stays \/ Deletes
  BY <1>0 DEF Uninit, Stays, Deletes
<1>13. UNCHANGED vars => Stays
  BY <1>0 DEF vars, Stays
<1>14. QED
  BY <1>1, <1>2, <1>3, <1>4, <1>5, <1>6, <1>7, <1>8, <1>9, <1>10, <1>11, <1>12, <1>13
     DEF Next, DeviceStep, ReceiverStep, WorkerStep

LEMMA OrderStep ==
  ASSUME IInv, [Next]_vars
  PROVE  QueueOrdered'
<1>1. /\ worker.item.id \in Nat /\ Latest \in Int /\ outq \in Seq(Item) /\ NoItem.id = 0
      /\ \A k \in DOMAIN outq : outq[k].id \in Nat /\ outq[k].id >= 1
  BY Numbers DEF IInv, TypeOK, NoItem
<1>2. QueueOrdered
  BY DEF IInv
<1>3. ASSUME outq # <<>>
      PROVE  /\ Head(outq) = outq[1] /\ 1 \in DOMAIN outq
             /\ \A k \in DOMAIN Tail(outq) : /\ k \in Nat /\ k >= 1 /\ k + 1 \in DOMAIN outq
                                             /\ Tail(outq)[k] = outq[k + 1]
  BY <1>1, <1>3, TailOfQueue
<1>4. CASE Stays
  BY <1>1, <1>2, <1>4 DEF Stays, QueueOrdered
<1>5. CASE Enqueues
  <2>1. /\ outq' = Append(outq, receiver.item) /\ DOMAIN outq = 1..Len(outq) /\ Len(outq) \in Nat
        /\ DOMAIN outq' = 1..(Len(outq) + 1) /\ outq'[Len(outq) + 1] = receiver.item
        /\ \A k \in 1..Len(outq) : outq'[k] = outq[k]
    BY <1>1, <1>5, AppendToQueue DEF Enqueues
  <2>2. receiver.item.id = Latest + 1 /\ Latest' = Latest + 1 /\ worker' = worker
    BY <1>5 DEF Enqueues
  <2>3. QED
    BY <1>1, <1>2, <2>1, <2>2 DEF QueueOrdered
<1>6. CASE Drops
  BY <1>1, <1>2, <1>3, <1>6 DEF Drops, QueueOrdered
<1>7. CASE Takes
  BY <1>1, <1>2, <1>3, <1>7 DEF Takes, QueueOrdered
<1>8. CASE Handles
  BY <1>1, <1>2, <1>8 DEF Handles, QueueOrdered
<1>9. CASE Frees
  BY <1>1, <1>2, <1>9 DEF Frees, QueueOrdered
<1>10. CASE Deletes
  BY <1>1, <1>2, <1>10 DEF Deletes, QueueOrdered
<1>11. QED
  BY <1>4, <1>5, <1>6, <1>7, <1>8, <1>9, <1>10, Moves

LEMMA HandledStep ==
  ASSUME IInv, [Next]_vars
  PROVE  HandledFirst' /\ HandledInOrder'
<1>1. /\ worker.item.id \in Nat /\ Latest \in Int /\ outq \in Seq(Item) /\ handled \in Seq(Items)
      /\ \A k \in DOMAIN outq : outq[k].id \in Nat
      /\ \A h \in DOMAIN handled : handled[h] \in Nat
  BY Numbers DEF IInv, TypeOK
<1>2. QueueOrdered /\ HandledFirst /\ HandledInOrder
  BY DEF IInv
<1>3. ASSUME outq # <<>>
      PROVE  /\ Head(outq) = outq[1] /\ 1 \in DOMAIN outq
             /\ \A k \in DOMAIN Tail(outq) : k + 1 \in DOMAIN outq /\ Tail(outq)[k] = outq[k + 1]
  BY <1>1, <1>3, TailOfQueue
<1>4. CASE Stays
  BY <1>1, <1>2, <1>4 DEF Stays, HandledFirst, HandledInOrder
<1>5. CASE Enqueues
  <2>1. /\ outq' = Append(outq, receiver.item) /\ DOMAIN outq = 1..Len(outq) /\ Len(outq) \in Nat
        /\ DOMAIN outq' = 1..(Len(outq) + 1) /\ outq'[Len(outq) + 1] = receiver.item
        /\ \A k \in 1..Len(outq) : outq'[k] = outq[k]
    BY <1>1, <1>5, AppendToQueue DEF Enqueues
  <2>2. receiver.item.id = Latest + 1 /\ Latest' = Latest + 1 /\ worker' = worker
          /\ handled' = handled
    BY <1>5 DEF Enqueues
  <2>3. QED
    BY <1>1, <1>2, <2>1, <2>2 DEF HandledFirst, HandledInOrder
<1>6. CASE Drops
  BY <1>1, <1>2, <1>3, <1>6 DEF Drops, HandledFirst, HandledInOrder
<1>7. CASE Takes
  BY <1>1, <1>2, <1>3, <1>7 DEF Takes, HandledFirst, HandledInOrder
<1>8. CASE Handles
  <2>1. CASE handled' = handled
    BY <1>1, <1>2, <1>8, <2>1 DEF Handles, HandledFirst, HandledInOrder
  <2>2. CASE handled' = Append(handled, worker.item.id)
    <3>1. worker.item.id \in Items
      BY <1>8 DEF Handles, Item
    <3>2. /\ DOMAIN handled = 1..Len(handled) /\ Len(handled) \in Nat
          /\ DOMAIN handled' = 1..(Len(handled) + 1)
          /\ handled'[Len(handled) + 1] = worker.item.id
          /\ \A h \in 1..Len(handled) : handled'[h] = handled[h]
      BY <1>1, <2>2, <3>1, AppendToQueue
    <3>3. /\ outq' = outq /\ Latest' = Latest /\ worker.pc = "handle" /\ worker'.pc = "free"
          /\ worker'.item = worker.item
      BY <1>8 DEF Handles
    <3>4. /\ worker.item.id <= Latest /\ \A k \in DOMAIN outq : worker.item.id < outq[k].id
          /\ \A h \in 1..Len(handled) : handled[h] < worker.item.id /\ handled[h] \in Nat
      BY <1>1, <1>2, <3>2, <3>3 DEF HandledFirst, QueueOrdered
    <3>5. HandledFirst'
      BY <1>1, <1>2, <3>2, <3>3, <3>4 DEF HandledFirst
    <3>6. HandledInOrder'
      BY SMTT(30), <1>1, <1>2, <3>2, <3>4 DEF HandledInOrder
    <3>7. QED
      BY <3>5, <3>6
  <2>3. QED
    BY <1>8, <2>1, <2>2 DEF Handles
<1>9. CASE Frees
  BY <1>1, <1>2, <1>9 DEF Frees, HandledFirst, HandledInOrder
<1>10. CASE Deletes
  BY <1>1, <1>2, <1>10 DEF Deletes, HandledFirst, HandledInOrder
<1>11. QED
  BY <1>4, <1>5, <1>6, <1>7, <1>8, <1>9, <1>10, Moves

-----------------------------------------------------------------------------
(* What a step does to the heap and to the items that are held             *)

HeapStays ==
  /\ UNCHANGED <<heap, outq, rejected>>
  /\ owner = "down" => owner' = "down"
  /\ receiver'.item = receiver.item /\ worker'.item = worker.item

Begins ==
  /\ UNCHANGED <<outq, worker, rejected, owner>> /\ receiver.item = NoItem
  /\ receiver'.item = [id |-> arrived + 1, parts |-> {"message"}]
  /\ heap' = heap \union {<<arrived + 1, "message">>}

Extends(part) ==
  /\ receiver.item.id \in Items
  /\ UNCHANGED <<outq, worker, rejected, owner>>
  /\ receiver'.item = [id |-> receiver.item.id, parts |-> receiver.item.parts \union {part}]
  /\ heap' = heap \union {<<receiver.item.id, part>>}

GivesUp(new) ==
  /\ receiver.item.id \in Items
  /\ UNCHANGED <<outq, worker, owner>>
  /\ receiver'.item = NoItem /\ rejected' = rejected \union {receiver.item.id}
  /\ heap' = heap \union new /\ \A a \in new : a[1] = receiver.item.id

HandsOver ==
  /\ UNCHANGED <<heap, worker, rejected, owner>>
  /\ receiver.item \in Item /\ outq' = Append(outq, receiver.item) /\ receiver'.item = NoItem

Evicts ==
  /\ UNCHANGED <<worker, rejected, owner>> /\ receiver'.item = receiver.item
  /\ outq # <<>> /\ outq' = Tail(outq) /\ heap' = heap \ Allocations(Head(outq))

HeapTakes ==
  /\ UNCHANGED <<heap, rejected, owner>> /\ receiver'.item = receiver.item
  /\ outq # <<>> /\ outq' = Tail(outq)
  /\ worker.item = NoItem /\ worker'.item = Head(outq)

HeapFrees ==
  /\ UNCHANGED <<outq, rejected, owner>> /\ receiver'.item = receiver.item
  /\ worker.item \in Item /\ worker'.item = NoItem
  /\ heap' = heap \ Allocations(worker.item)

HeapDeletes ==
  /\ UNCHANGED <<heap, rejected>> /\ outq' = <<>> /\ owner' = "down"
  /\ receiver'.item = receiver.item /\ worker'.item = worker.item

LEMMA HeapMoves ==
  ASSUME IInv, [Next]_vars
  PROVE  \/ HeapStays \/ Begins \/ (\E part \in Parts : Extends(part))
         \/ (\E new \in SUBSET (Items \X Parts) : GivesUp(new))
         \/ HandsOver \/ Evicts \/ HeapTakes \/ HeapFrees \/ HeapDeletes
<1> USE DEF ReceiverAt, WorkerAt, workerVars, receiverVars
<1>0. /\ TypeOK
      /\ receiver \in [pc : {"loop", "header", "payload", "evict", "repush", "exited"},
                       item : Item \union {NoItem}, awaits : SUBSET {"result", "image"}]
      /\ worker \in [pc : {"loop", "handle", "free", "exited"}, item : Item \union {NoItem}]
  BY DEF IInv, TypeOK
<1>1. ASSUME EnterReceive PROVE Begins \/ HeapStays
  <2>1. /\ UNCHANGED <<outq, worker, rejected, owner>> /\ receiver.item = NoItem
        /\ \/ /\ receiver'.item = [id |-> arrived + 1, parts |-> {"message"}]
              /\ heap' = heap \union {<<arrived + 1, "message">>}
           \/ receiver' = [receiver EXCEPT !.pc = "exited"] /\ heap' = heap
    BY SMTT(30), <1>0, <1>1, Places DEF EnterReceive
  <2>2. CASE /\ receiver'.item = [id |-> arrived + 1, parts |-> {"message"}]
             /\ heap' = heap \union {<<arrived + 1, "message">>}
    BY <2>1, <2>2 DEF Begins
  <2>3. CASE receiver' = [receiver EXCEPT !.pc = "exited"] /\ heap' = heap
    <3>1. receiver'.item = receiver.item
      BY <1>0, <2>3
    <3>2. QED
      BY <2>1, <2>3, <3>1 DEF HeapStays
  <2>4. QED
    BY <2>1, <2>2, <2>3
<1>2. ASSUME ReceiveHeader
      PROVE  HeapStays \/ \E new \in SUBSET (Items \X Parts) : GivesUp(new)
  <2>1. UNCHANGED <<heap, outq, worker, owner>>
    BY <1>2 DEF ReceiveHeader, GiveUp
  <2>2. CASE GiveUp
    <3>1. GivesUp({})
      BY <1>0, <1>2, <2>1, <2>2, Places DEF ReceiveHeader, GiveUp, GivesUp, Item
    <3>2. QED
      BY <3>1
  <2>3. CASE /\ rejected' = rejected
             /\ \E p : receiver' = [receiver EXCEPT !.awaits = p, !.pc = "payload"]
    <3>1. PICK p : receiver' = [receiver EXCEPT !.awaits = p, !.pc = "payload"]
      BY <2>3
    <3>2. receiver'.item = receiver.item
      BY <1>0, <3>1
    <3>3. QED
      BY <2>1, <2>3, <3>2 DEF HeapStays
  <2>4. QED
    BY <1>2, <2>2, <2>3 DEF ReceiveHeader
<1>3. ASSUME ReceivePayload
      PROVE  \/ \E part \in Parts : Extends(part)
             \/ \E new \in SUBSET (Items \X Parts) : GivesUp(new)
  <2> DEFINE part == IF "result" \in receiver.awaits THEN "result" ELSE "image"
  <2>1. /\ part \in Parts /\ receiver.item \in Item /\ receiver.item.id \in Items
        /\ heap' = heap \union {<<receiver.item.id, part>>}
        /\ UNCHANGED <<outq, worker, owner>>
    BY <1>0, <1>3, Places DEF ReceivePayload, Parts, Item
  <2>2. CASE /\ receiver' = [receiver EXCEPT !.item.parts = @ \union {part},
                                             !.awaits = @ \ {part}]
             /\ rejected' = rejected
    <3>1. receiver'.item = [id |-> receiver.item.id, parts |-> receiver.item.parts \union {part}]
      BY <1>0, <2>1, <2>2 DEF Item
    <3>2. Extends(part)
      BY <2>1, <2>2, <3>1 DEF Extends
    <3>3. QED
      BY <2>1, <3>2
  <2>3. CASE /\ rejected' = rejected \union {receiver.item.id}
             /\ receiver' = [pc |-> "loop", item |-> NoItem, awaits |-> {}]
    <3>1. GivesUp({<<receiver.item.id, part>>})
      BY <2>1, <2>3 DEF GivesUp
    <3>2. {<<receiver.item.id, part>>} \in SUBSET (Items \X Parts)
      BY <2>1
    <3>3. QED
      BY <3>1, <3>2
  <2>4. QED
    BY <1>3, <2>2, <2>3 DEF ReceivePayload
<1>4. PushItem => HandsOver \/ HeapStays
  BY <1>0, Places DEF PushItem, EnqueueItem, HandsOver, HeapStays
<1>5. EvictOldest => Evicts \/ HeapStays
  BY <1>0 DEF EvictOldest, Evicts, HeapStays
<1>6. RepushItem => HandsOver
  BY <1>0, Places DEF RepushItem, EnqueueItem, HandsOver
<1>7. PollEmpty \/ HandleItem \/ LeaveWorker => HeapStays
  BY <1>0 DEF PollEmpty, HandleItem, LeaveWorker, HeapStays
<1>8. TakeItem => HeapTakes
  BY <1>0, Places DEF TakeItem, HeapTakes
<1>9. FreeItem => HeapFrees
  BY <1>0, Places DEF FreeItem, HeapFrees
<1>10. Uninit => HeapStays \/ HeapDeletes
  BY <1>0 DEF Uninit, HeapStays, HeapDeletes
<1>11. UNCHANGED vars => HeapStays
  BY <1>0 DEF vars, HeapStays
<1>12. QED
  BY <1>1, <1>2, <1>3, <1>4, <1>5, <1>6, <1>7, <1>8, <1>9, <1>10, <1>11
     DEF Next, DeviceStep, ReceiverStep, WorkerStep

\* An allocation that is lost was lost before, or given up, or forgotten by uninit.
Lost(a) ==
  ~ \/ \E item \in Held : a \in Allocations(item)
    \/ a[1] \in rejected
    \/ owner = "down"

LEMMA HeapStep ==
  ASSUME IInv, [Next]_vars
  PROVE  AllHeldLive' /\ LostOnlyWithRejected'
<1>0. /\ \A item \in Held : Allocations(item) \subseteq heap
      /\ \A a \in heap : ~Lost(a)
      /\ outq \in Seq(Item)
  BY DEF IInv, AllHeldLive, LostOnlyWithRejected, Lost, TypeOK
<1>1. SUFFICES /\ \A item \in Held' : Allocations(item) \subseteq heap'
               /\ \A a \in heap' : ~Lost(a)'
  <2>1. \A item : Allocations(item)' = Allocations(item)
    BY DEF Allocations
  <2>2. QED
    BY <2>1 DEF AllHeldLive, LostOnlyWithRejected, Lost
<1> DEFINE InQueue == {outq[k] : k \in DOMAIN outq}
<1>2. Held = {receiver.item, worker.item} \union InQueue
  BY DEF Held
<1>3. ASSUME outq # <<>>
      PROVE  /\ InQueue = {Head(outq)} \union {Tail(outq)[k] : k \in DOMAIN Tail(outq)}
             /\ \A k \in DOMAIN Tail(outq) : Tail(outq)[k].id # Head(outq).id
             /\ Head(outq).id # worker.item.id /\ Head(outq).id # receiver.item.id
  <2>1. /\ Head(outq) = outq[1] /\ Len(outq) \in Nat /\ Len(outq) >= 1
        /\ DOMAIN outq = 1..Len(outq) /\ DOMAIN Tail(outq) = 1..(Len(outq) - 1)
        /\ \A k \in 1..(Len(outq) - 1) : Tail(outq)[k] = outq[k + 1]
    BY <1>0, <1>3, TailOfQueue
  <2>2. 1 \in DOMAIN outq /\ \A k \in DOMAIN Tail(outq) : k + 1 \in DOMAIN outq /\ k + 1 # 1
    BY <2>1
  <2>3. \A k \in DOMAIN outq : k = 1 \/ (k - 1 \in DOMAIN Tail(outq) /\ k = (k - 1) + 1)
    BY <2>1
  <2>4. InQueue = {Head(outq)} \union {Tail(outq)[k] : k \in DOMAIN Tail(outq)}
    BY <2>1, <2>2, <2>3
  <2>5. QED
    BY <2>1, <2>2, <2>4, PlacesApart
<1>4. Held' = {receiver'.item, worker'.item} \union {outq'[k] : k \in DOMAIN outq'}
  BY DEF Held
<1> HIDE DEF InQueue
<1>5. CASE HeapStays
  <2>1. Held' = Held
    BY <1>2, <1>4, <1>5 DEF HeapStays, InQueue
  <2>2. QED
    BY <1>0, <1>5, <2>1 DEF HeapStays, Lost
<1>6. CASE Begins
  <2>1. Held' \subseteq Held \union {receiver'.item} /\ Held \subseteq Held' \union {NoItem}
        /\ receiver'.item \in Held'
    BY <1>2, <1>4, <1>6 DEF Begins, InQueue
  <2>2. Allocations(receiver'.item) = {<<arrived + 1, "message">>}
    BY <1>6 DEF Begins, Allocations
  <2>3. QED
    BY <1>0, <1>6, <2>1, <2>2, NoAllocations DEF Begins, Lost
<1>7. ASSUME NEW part \in Parts, Extends(part)
      PROVE  /\ \A item \in Held' : Allocations(item) \subseteq heap'
             /\ \A a \in heap' : ~Lost(a)'
  <2>1. /\ Held' \subseteq Held \union {receiver'.item}
        /\ Held \subseteq Held' \union {receiver.item}
        /\ receiver.item \in Held /\ receiver'.item \in Held'
    BY <1>2, <1>4, <1>7 DEF Extends, InQueue
  <2>2. Allocations(receiver'.item) = Allocations(receiver.item) \union {<<receiver.item.id, part>>}
    BY <1>7 DEF Extends, Allocations
  <2>3. QED
    BY <1>0, <1>7, <2>1, <2>2 DEF Extends, Lost
<1>8. ASSUME NEW new \in SUBSET (Items \X Parts), GivesUp(new)
      PROVE  /\ \A item \in Held' : Allocations(item) \subseteq heap'
             /\ \A a \in heap' : ~Lost(a)'
  <2>1. Held' \subseteq Held \union {NoItem} /\ Held \subseteq Held' \union {receiver.item}
    BY <1>2, <1>4, <1>8 DEF GivesUp, InQueue
  <2>2. \A a \in Allocations(receiver.item) : a[1] = receiver.item.id
    BY DEF Allocations
  <2>3. QED
    BY <1>0, <1>8, <2>1, <2>2, NoAllocations DEF GivesUp, Lost
<1>9. CASE HandsOver
  <2>1. {outq'[k] : k \in DOMAIN outq'} = InQueue \union {receiver.item}
    <3>1. /\ DOMAIN outq = 1..Len(outq) /\ Len(outq) \in Nat
          /\ DOMAIN outq' = 1..(Len(outq) + 1) /\ outq'[Len(outq) + 1] = receiver.item
          /\ \A k \in 1..Len(outq) : outq'[k] = outq[k]
      BY <1>0, <1>9, AppendToQueue DEF HandsOver
    <3>2. QED
      BY <3>1 DEF InQueue
  <2>2. Held' \subseteq Held \union {NoItem} /\ Held \subseteq Held'
    BY <1>2, <1>4, <1>9, <2>1 DEF HandsOver
  <2>3. QED
    BY <1>0, <1>9, <2>2, NoAllocations DEF HandsOver, Lost
<1>10. CASE Evicts
  <2>1. /\ Held' \subseteq Held /\ Held \subseteq Held' \union {Head(outq)}
        /\ \A item \in Held' : item.id # Head(outq).id
    BY <1>2, <1>3, <1>4, <1>10 DEF Evicts
  <2>2. \A item \in Held' : Allocations(item) \cap Allocations(Head(outq)) = {}
    BY <2>1, AllocationsApart
  <2>3. QED
    BY <1>0, <1>10, <2>1, <2>2 DEF Evicts, Lost
<1>11. CASE HeapTakes
  <2>1. Held' \subseteq Held /\ Held \subseteq Held' \union {NoItem}
    BY <1>2, <1>3, <1>4, <1>11 DEF HeapTakes
  <2>2. QED
    BY <1>0, <1>11, <2>1, NoAllocations DEF HeapTakes, Lost
<1>12. CASE HeapFrees
  <2>1. /\ Held' \subseteq Held \union {NoItem} /\ Held \subseteq Held' \union {worker.item}
        /\ {outq'[k] : k \in DOMAIN outq'} = InQueue
        /\ Held' = {receiver.item, NoItem} \union InQueue
    BY <1>2, <1>4, <1>12 DEF HeapFrees, InQueue
  <2>2. \A item \in Held' : item.id # worker.item.id \/ item = NoItem
    BY <2>1, PlacesApart DEF InQueue
  <2>3. \A item \in Held' : Allocations(item) \cap Allocations(worker.item) = {}
    BY <2>2, AllocationsApart, NoAllocations
  <2>4. QED
    BY <1>0, <1>12, <2>1, <2>3, NoAllocations DEF HeapFrees, Lost
<1>13. CASE HeapDeletes
  <2>1. Held' \subseteq Held
    BY <1>2, <1>4, <1>13 DEF HeapDeletes
  <2>2. QED
    BY <1>0, <1>13, <2>1 DEF HeapDeletes, Lost
<1>14. QED
  BY <1>5, <1>6, <1>7, <1>8, <1>9, <1>10, <1>11, <1>12, <1>13, HeapMoves

-----------------------------------------------------------------------------
(* The threads, their numbers and the rest of the types                    *)

Receivers == [pc : {"loop", "header", "payload", "evict", "repush", "exited"},
              item : Item \union {NoItem}, awaits : SUBSET {"result", "image"}]
Workers == [pc : {"loop", "handle", "free", "exited"}, item : Item \union {NoItem}]

Idle(t) == t.item = NoItem <=> t.pc \in {"loop", "exited"}

\* The message thread holds an item exactly between a header it waits for and the queue,
\* and its number is that of the header.
LEMMA ReceiverMoves ==
  ASSUME IInv, [Next]_vars
  PROVE  receiver' \in Receivers /\ Idle(receiver') /\ Numbered' /\ RepushFits'
<1> USE DEF ReceiverAt, WorkerAt, workerVars, receiverVars, Receiving
<1>0. /\ TypeOK /\ Numbered /\ RepushFits /\ receiver \in Receivers /\ Idle(receiver)
      /\ arrived \in 0..MaxHeaders /\ Len(outq) \in Nat /\ outq \in Seq(Item) /\ Len(outq) <= Cap
      /\ NoItem \notin Item
  BY DEF IInv, TypeOK, Receivers, Idle, NoItem, Item, Items
<1>1. ASSUME UNCHANGED <<receiver, arrived>>,
             outq' = outq \/ (outq # <<>> /\ outq' = Tail(outq)) \/ outq' = <<>>
      PROVE  receiver' \in Receivers /\ Idle(receiver') /\ Numbered' /\ RepushFits'
  <2>1. Len(outq') \in Nat /\ Len(outq') <= Len(outq)
    BY <1>0, <1>1, TailOfQueue
  <2>2. QED
    BY <1>0, <1>1, <2>1 DEF Numbered, RepushFits, Full
<1>2. CASE EnterReceive
  <2>1. [id |-> arrived + 1, parts |-> {"message"}] \in Item
    BY <1>0 DEF Item, Items, Parts
  <2>2. CASE receiver' = [pc |-> "header", awaits |-> {},
                          item |-> [id |-> arrived + 1, parts |-> {"message"}]]
    BY <1>0, <1>2, <2>1, <2>2 DEF EnterReceive, Numbered, RepushFits, Receivers, Idle
  <2>3. CASE receiver' = [receiver EXCEPT !.pc = "exited"]
    BY <1>0, <1>2, <2>3 DEF EnterReceive, Numbered, RepushFits, Receivers, Idle
  <2>4. QED
    BY <1>2, <2>2, <2>3 DEF EnterReceive
<1>3. CASE ReceiveHeader
  <2>1. CASE receiver' = [pc |-> "loop", item |-> NoItem, awaits |-> {}]
    BY <1>0, <2>1 DEF Numbered, RepushFits, Receivers, Idle
  <2>2. ASSUME NEW p \in SUBSET {"result", "image"},
               receiver' = [receiver EXCEPT !.awaits = p, !.pc = "payload"]
        PROVE  receiver' \in Receivers /\ Idle(receiver') /\ Numbered' /\ RepushFits'
    BY <1>0, <1>3, <2>2 DEF ReceiveHeader, Numbered, RepushFits, Receivers, Idle
  <2>3. QED
    BY <1>3, <2>1, <2>2 DEF ReceiveHeader, GiveUp
<1>4. CASE ReceivePayload
  <2> DEFINE part == IF "result" \in receiver.awaits THEN "result" ELSE "image"
  <2>1. CASE receiver' = [pc |-> "loop", item |-> NoItem, awaits |-> {}]
    BY <1>0, <2>1 DEF Numbered, RepushFits, Receivers, Idle
  <2>2. CASE receiver' = [receiver EXCEPT !.item.parts = @ \union {part}, !.awaits = @ \ {part}]
    <3>1. receiver.item \in Item /\ part \in Parts /\ receiver.pc = "payload"
      BY <1>0, <1>4 DEF ReceivePayload, Idle, Receivers, Parts
    <3>2. [id |-> receiver.item.id, parts |-> receiver.item.parts \union {part}] \in Item
      BY <3>1 DEF Item
    <3>3. receiver' = [pc |-> "payload", awaits |-> receiver.awaits \ {part},
                       item |-> [id |-> receiver.item.id,
                                 parts |-> receiver.item.parts \union {part}]]
      BY <1>0, <2>2, <3>1 DEF Receivers, Item
    <3>4. receiver.awaits \in SUBSET {"result", "image"} /\ arrived' = arrived
      BY <1>0, <1>4 DEF Receivers, ReceivePayload
    <3>5. QED
      BY <1>0, <3>1, <3>2, <3>3, <3>4 DEF Numbered, RepushFits, Receivers, Idle
  <2>3. QED
    BY <1>4, <2>1, <2>2 DEF ReceivePayload
<1>5. CASE PushItem
  BY <1>0, <1>5 DEF PushItem, EnqueueItem, Numbered, RepushFits, Receivers, Idle
<1>6. CASE EvictOldest
  <2>1. CASE outq = <<>>
    BY <1>0, <1>1, <1>6, <2>1 DEF EvictOldest
  <2>2. CASE outq # <<>>
    <3>1. Len(outq') = Len(outq) - 1
      BY <1>0, <1>6, <2>2, TailOfQueue DEF EvictOldest
    <3>2. ~Full'
      BY <1>0, <3>1 DEF Full
    <3>3. QED
      BY <1>0, <1>6, <2>2, <3>2 DEF EvictOldest, Numbered, RepushFits, Receivers, Idle
  <2>3. QED
    BY <2>1, <2>2
<1>7. CASE RepushItem
  BY <1>0, <1>7 DEF RepushItem, EnqueueItem, Numbered, RepushFits, Receivers, Idle
<1>8. CASE WorkerStep
  BY <1>1, <1>8 DEF WorkerStep, PollEmpty, TakeItem, HandleItem, FreeItem, LeaveWorker
<1>9. CASE Uninit
  BY <1>1, <1>9 DEF Uninit
<1>10. CASE UNCHANGED vars
  BY <1>1, <1>10 DEF vars
<1>11. QED
  BY <1>2, <1>3, <1>4, <1>5, <1>6, <1>7, <1>8, <1>9, <1>10
     DEF Next, DeviceStep, ReceiverStep

LEMMA WorkerMoves ==
  ASSUME IInv, [Next]_vars
  PROVE  worker' \in Workers /\ Idle(worker')
<1> USE DEF WorkerAt, workerVars
<1>0. /\ worker \in Workers /\ Idle(worker) /\ outq \in Seq(Item) /\ NoItem \notin Item
  BY DEF IInv, TypeOK, Workers, Idle, NoItem, Item, Items
<1>1. CASE UNCHANGED worker
  BY <1>0, <1>1
<1>2. CASE TakeItem
  <2>1. Head(outq) \in Item
    BY <1>0, <1>2, TailOfQueue DEF TakeItem
  <2>2. QED
    BY <1>0, <1>2, <2>1 DEF TakeItem, Workers, Idle
<1>3. CASE HandleItem
  BY <1>0, <1>3 DEF HandleItem, Workers, Idle
<1>4. CASE FreeItem
  BY <1>0, <1>4 DEF FreeItem, Workers, Idle
<1>5. CASE LeaveWorker
  BY <1>0, <1>5 DEF LeaveWorker, Workers, Idle
<1>6. ~(TakeItem \/ HandleItem \/ FreeItem \/ LeaveWorker) => UNCHANGED worker
  BY DEF Next, DeviceStep, ReceiverStep, WorkerStep, vars, EnterReceive, ReceiveHeader,
         ReceivePayload, PushItem, EvictOldest, RepushItem, PollEmpty, Uninit
<1>7. QED
  BY <1>1, <1>2, <1>3, <1>4, <1>5, <1>6

LEMMA QueueMoves ==
  ASSUME IInv, [Next]_vars
  PROVE  /\ outq' \in Seq(Item) /\ Len(outq') <= Cap /\ handled' \in Seq(Items)
         /\ heap' \in SUBSET (Items \X Parts)
<1>0. /\ outq \in Seq(Item) /\ Len(outq) \in Nat /\ Len(outq) <= Cap
      /\ handled \in Seq(Items) /\ heap \in SUBSET (Items \X Parts)
      /\ arrived \in 0..MaxHeaders /\ \A x \in Item : x.id \in Items
  BY DEF IInv, TypeOK, Item
<1> DEFINE Goal == outq' \in Seq(Item) /\ Len(outq') <= Cap
<1>1. outq' = outq \/ outq' = <<>> => Goal
  <2>1. <<>> \in Seq(Item) /\ Len(<<>>) = 0
    OBVIOUS
  <2>2. outq' = <<>> => Goal
    BY <2>1, CapAssumption
  <2>3. outq' = outq => Goal
    BY <1>0
  <2>4. QED
    BY <2>2, <2>3
<1>2. Drops \/ Takes => Goal
  <2>1. outq # <<>> => Tail(outq) \in Seq(Item) /\ Len(Tail(outq)) = Len(outq) - 1
    BY <1>0, TailOfQueue
  <2>2. Drops \/ Takes => outq # <<>> /\ outq' = Tail(outq)
    BY DEF Drops, Takes
  <2>3. QED
    BY <1>0, <2>1, <2>2
<1>3. Enqueues => Goal
  BY <1>0, AppendToQueue DEF Enqueues, Full
<1>4. outq' \in Seq(Item) /\ Len(outq') <= Cap
  BY <1>1, <1>2, <1>3, Moves DEF Stays, Handles, Frees, Deletes
<1>5. handled' \in Seq(Items)
  <2>1. CASE Handles
    <3>1. worker.item.id \in Items
      BY <1>0, <2>1 DEF Handles
    <3>2. Append(handled, worker.item.id) \in Seq(Items)
      BY <1>0, <3>1, AppendToQueue
    <3>3. QED
      BY <1>0, <2>1, <3>2 DEF Handles
  <2>2. QED
    BY <1>0, <2>1, Moves DEF Stays, Enqueues, Drops, Takes, Frees, Deletes
<1>6. heap' \in SUBSET (Items \X Parts)
  <2>1. CASE Begins
    <3>1. arrived + 1 \in Items /\ "message" \in Parts
      BY <1>0 DEF Items, Parts
    <3>2. QED
      BY <1>0, <2>1, <3>1 DEF Begins
  <2>2. ASSUME NEW part \in Parts, Extends(part) PROVE heap' \in SUBSET (Items \X Parts)
    <3>1. receiver.item.id \in Items
      BY <2>2 DEF Extends
    <3>2. QED
      BY <1>0, <2>2, <3>1 DEF Extends
  <2>3. ASSUME NEW new \in SUBSET (Items \X Parts), GivesUp(new)
        PROVE  heap' \in SUBSET (Items \X Parts)
    BY <1>0, <2>3 DEF GivesUp
  <2>4. QED
    BY <1>0, <2>1, <2>2, <2>3, HeapMoves
       DEF HeapStays, HandsOver, Evicts, HeapTakes, HeapFrees, HeapDeletes
<1>7. QED
  BY <1>4, <1>5, <1>6

LEMMA TypeStep ==
  ASSUME IInv, [Next]_vars
  PROVE  TypeOK'
<1> USE DEF workerVars, receiverVars
<1>0. TypeOK
  BY DEF IInv
<1>1. arrived' \in 0..MaxHeaders
  <2>1. CASE ReceiveHeader
    <3>1. arrived < MaxHeaders /\ arrived' = arrived + 1
      BY <2>1 DEF ReceiveHeader
    <3>2. arrived \in 0..MaxHeaders
      BY <1>0 DEF TypeOK
    <3>3. QED
      BY <3>1, <3>2
  <2>2. ~ReceiveHeader => arrived' = arrived
    BY DEF Next, DeviceStep, ReceiverStep, WorkerStep, vars, EnterReceive, ReceivePayload,
           PushItem, EvictOldest, RepushItem, PollEmpty, TakeItem, HandleItem, FreeItem,
           LeaveWorker, Uninit
  <2>3. QED
    BY <1>0, <2>1, <2>2 DEF TypeOK
<1>2. rejected' \in SUBSET Items
  BY <1>0, HeapMoves DEF TypeOK, HeapStays, Begins, Extends, GivesUp, HandsOver, Evicts,
                         HeapTakes, HeapFrees, HeapDeletes
<1>3. polls' \in 0..(WatchdogPolls - 1)
  <2>1. CASE PollEmpty
    BY <1>0, <2>1 DEF TypeOK, PollEmpty
  <2>2. CASE TakeItem
    BY <2>2 DEF TakeItem
  <2>3. ~PollEmpty /\ ~TakeItem => polls' = polls
    BY DEF Next, DeviceStep, ReceiverStep, WorkerStep, vars, EnterReceive, ReceiveHeader,
           ReceivePayload, PushItem, EvictOldest, RepushItem, HandleItem, FreeItem,
           LeaveWorker, Uninit
  <2>4. QED
    BY <1>0, <2>1, <2>2, <2>3 DEF TypeOK
<1>4. barked' \in BOOLEAN /\ nullItem' \in BOOLEAN
  <2>1. barked' \in BOOLEAN
    <3>1. PollEmpty \/ TakeItem => barked' \in BOOLEAN
      BY Zenon DEF PollEmpty, TakeItem
    <3>2. ~PollEmpty /\ ~TakeItem => barked' = barked
      BY DEF Next, DeviceStep, ReceiverStep, WorkerStep, vars, EnterReceive, ReceiveHeader,
             ReceivePayload, PushItem, EvictOldest, RepushItem, HandleItem, FreeItem,
             LeaveWorker, Uninit
    <3>3. QED
      BY <1>0, <3>1, <3>2 DEF TypeOK
  <2>2. nullItem' \in BOOLEAN
    <3>1. nullItem' = nullItem \/ nullItem' = TRUE
      BY DEF Next, DeviceStep, ReceiverStep, WorkerStep, vars, EnterReceive, ReceiveHeader,
             ReceivePayload, PushItem, EvictOldest, RepushItem, PollEmpty, TakeItem,
             HandleItem, FreeItem, LeaveWorker, Uninit
    <3>2. QED
      BY <1>0, <3>1, Zenon DEF TypeOK
  <2>3. QED
    BY <2>1, <2>2
<1>5. owner' \in {"up", "joinReceiver", "joinWorker", "down"}
  <2>1. owner' = owner \/ owner' \in {"up", "joinReceiver", "joinWorker", "down"}
    BY DEF Next, DeviceStep, ReceiverStep, WorkerStep, vars, EnterReceive, ReceiveHeader,
           ReceivePayload, PushItem, EvictOldest, RepushItem, PollEmpty, TakeItem,
           HandleItem, FreeItem, LeaveWorker, Uninit
  <2>2. QED
    BY <1>0, <2>1 DEF TypeOK
<1>6. QED
  BY <1>1, <1>2, <1>3, <1>4, <1>5, ReceiverMoves, WorkerMoves, QueueMoves
     DEF TypeOK, Receivers, Workers, Idle

LEMMA SpecInv == Spec => []IInv
<1>1. IInv /\ [Next]_vars => IInv'
  BY OrderStep, HandledStep, HeapStep, ReceiverMoves, TypeStep DEF IInv
<1>2. QED
  BY <1>1, InitInv, PTL DEF Spec

-----------------------------------------------------------------------------
\* The queue never exceeds its size, the watchdog's count its period, and each thread
\* holds an item exactly while it works on one.
\* (DlQueue::push; s_thread_func of both threads.)
THEOREM TypeCorrect == Spec => []TypeOK
<1>1. IInv => TypeOK
  BY DEF IInv
<1>2. QED
  BY <1>1, SpecInv, PTL

\* Whatever the two threads do at the same time, the pointers of an item are valid
\* wherever it is, nothing is freed twice, no memory is lost except with an item whose
\* reception failed or with the queue uninit deletes, and an eviction makes room.
\* (ConnectorMessageThread's pop, delete and second push; its assert; DlOutputThread.)
THEOREM OwnershipSafety == Spec => []ItemsOwned
<1>1. IInv => ItemsOwned
  <2>1. SUFFICES ASSUME IInv PROVE HeldItemsLive
    BY DEF ItemsOwned, IInv
  <2>2. receiver.item.id # 0 => receiver.item.id > Latest
    BY <2>1, Numbers, Places DEF IInv, TypeOK, Numbered, Receiving, Latest, NoItem
  <2>3. QED
    BY <2>1, <2>2, Numbers DEF IInv, HeldItemsLive, AllHeldLive, QueueOrdered
<1>2. QED
  BY <1>1, SpecInv, PTL

\* The application's handler gets the results in the order their headers arrived, each at
\* most once, whatever was evicted in between.
\* (DlOutputThread::s_thread_func taking from the end the message thread evicts at.)
THEOREM ResultOrder == Spec => []HandledInOrder
<1>1. IInv => HandledInOrder
  BY DEF IInv
<1>2. QED
  BY <1>1, SpecInv, PTL
=============================================================================
