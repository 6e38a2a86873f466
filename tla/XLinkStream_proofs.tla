-------------------------- MODULE XLinkStream_proofs --------------------------
(***************************************************************************)
(* Theorems about XLinkStream: the types of its state, that the credit is  *)
(* sound until a call crosses a close, and that a stream opened with a     *)
(* buffer implements the channel of XLinkChannel.                          *)
(*                                                                         *)
(* The credit of an end is compared with the bytes and packets in five     *)
(* queues, and each queue is counted by a recursive function, so the proof *)
(* begins with induction: a set of numbers that has 0 and with a number    *)
(* its successor has all of them.                                          *)
(***************************************************************************)
EXTENDS XLinkStream, SequenceTheorems, FiniteSetTheorems, WellFoundedInduction, TLAPS

EndOf(t) == Role[t].peer

Requests == {"write_req", "release_req", "close_req"}
CloseTypes == {"close_req", "close_resp", "close_nack"}

\* The call a message was made for.
OpOf == [type \in Types |->
           IF type \in {"write_req", "write_resp"} THEN "write"
           ELSE IF type \in {"release_req", "release_resp"} THEN "release"
           ELSE "close"]

\* A message on its way to end p: its thread waits for the answer.
Proper(p, m) ==
  /\ EndOf(m.of) = (IF m.type \in Requests THEN Other(p) ELSE p)
  /\ call[m.of].op = OpOf[m.type] /\ call[m.of].state = "pending"
  /\ m.type \in {"write_req", "release_req"} => m.size > 0

Elements(s) == {s[k] : k \in DOMAIN s}
MessagesTo(p) == Elements(link[p]) \union Elements(remote[p])

MessagesKept == \A p \in Peers : \A m \in MessagesTo(p) : Proper(p, m)

\* How many messages were made for thread t.
Count(t, messages) ==
  Channel!Total([k \in DOMAIN messages |-> IF messages[k].of = t THEN 1 ELSE 0])

Traced(t) ==
  (Count(t, link["app"]) + Count(t, remote["app"]))
    + (Count(t, link["device"]) + Count(t, remote["device"]))

OneMessageEach == \A t \in Threads : Traced(t) <= 1

\* A queue of the threads of one end whose call nobody has looked at.
LocalKept ==
  \A p \in Peers :
    /\ \A k \in DOMAIN local[p] : EndOf(local[p][k]) = p /\ call[local[p][k]].state = "queued"
    /\ \A j, k \in DOMAIN local[p] : local[p][j] = local[p][k] => j = k

CallKept(t) ==
  /\ call[t].op = "none" <=> call[t].state = "idle"
  /\ call[t].op = "write" => call[t].size \in Sizes
  /\ call[t].op = "read" => call[t].owes = 0
  /\ call[t].op = "release" /\ call[t].state # "pending" => call[t].owes = 1
  /\ call[t].op = "close" => closing[EndOf(t)] = "called"

CallsKept ==
  /\ \A t \in Threads : CallKept(t)
  /\ \A t, u \in Threads :
       call[t].op = "close" /\ call[u].op = "close" /\ EndOf(t) = EndOf(u) => t = u

\* The packets read and not released are those the threads have to release.
Owing(p) == {t \in ThreadsOf(p) : call[t].owes = 1}

\* A queue is measured twice, in bytes and in packets.
Measures == {"bytes", "packets"}
Unit(k, x) == IF k = "bytes" THEN x.size ELSE 1
Weight(k, s) == IF k = "bytes" THEN Channel!Bytes(s) ELSE Len(s)
Part(k, s, type) == Weight(k, OfType(s, type))
Stock(k, p) == Weight(k, store[p].unread) + Weight(k, store[p].blocked)

StoreKept ==
  \A p \in Peers :
    /\ \A x \in Elements(store[p].unread) \union Elements(store[p].blocked) : x.size > 0
    /\ desc[p].localFill = Stock("bytes", p)
    /\ Cardinality(Owing(p)) = Len(store[p].blocked)

\* Charged(p), queue by queue, and what end p was charged for it.
Due(k, p) ==
  (Part(k, link[Other(p)], "write_req") + Stock(k, Other(p)))
    + (Part(k, link[p], "release_req") + Part(k, remote[p], "release_req"))
Credit(k, p) == IF k = "bytes" THEN desc[p].remoteFill ELSE desc[p].remotePackets
Limit(k, p) == IF k = "bytes" THEN Buffer[p] ELSE MaxPackets

\* What was lost in a process that aborted stays charged.
CreditCovers ==
  \A p \in Peers, k \in Measures : Credit(k, p) >= Due(k, p) /\ Credit(k, p) <= Limit(k, p)

\* The two sizes of a descriptor, and that the stream is there as long as one is left.
SidesKept ==
  \A p \in Peers :
    /\ desc[p].writeSize = Buffer[p] \/ (desc[p].writeSize = 0 /\ closing[p] = "done")
    /\ desc[p].readSize = Buffer[Other(p)] \/ desc[p].readSize = 0
    /\ desc[p].writeSize # 0 \/ desc[p].readSize # 0 => desc[p].open

\* The rest holds until a call crosses a close.
Arrived(p) ==
  (Len(got[Other(p)]) + Len(store[Other(p)].unread)) + Part("packets", link[Other(p)], "write_req")
CreditExact ==
  \A p \in Peers : /\ \A k \in Measures : Credit(k, p) = Due(k, p)
                   /\ sent[p] = Arrived(p)

\* Once an end closes it writes no more, and is not asked for more than it wrote.
CloseLast ==
  /\ \A p \in Peers : closing[p] # "open" =>
       Calls(p, "write", InCall) = {} /\ Reads(Other(p)) <= sent[p]
  /\ \A t \in Threads :
       /\ call[t].op \in {"write", "close"} => Buffer[EndOf(t)] # 0
       /\ call[t].op = "read" => Buffer[Other(EndOf(t))] # 0

\* A close request is sent when all the end wrote has been released.
ClosedEmpty ==
  \A p \in Peers :
    closing[p] = "done" \/ desc[Other(p)].readSize # Buffer[p]
      => closing[p] # "open" /\ desc[p].remoteFill = 0

EmptyAt(m) == m.type \in CloseTypes => m.type # "close_nack" /\ desc[EndOf(m.of)].remoteFill = 0
CloseMessages == \A p \in Peers : \A m \in MessagesTo(p) : EmptyAt(m)

Uncrossed == CreditExact /\ CloseLast /\ ClosedEmpty /\ CloseMessages /\ NoAbort

Control == MessagesKept /\ OneMessageEach /\ LocalKept /\ CallsKept
Kept == TypeOK /\ Control /\ StoreKept /\ CreditCovers /\ SidesKept

IInv == Kept /\ (~crossed => Uncrossed)

-----------------------------------------------------------------------------
(* Induction, and what it says about the recursive functions               *)

LEMMA Induction ==
  ASSUME NEW S, 0 \in S, \A n \in Nat : n \in S => n + 1 \in S
  PROVE  Nat \subseteq S
<1> DEFINE T == Nat \ S
           R == {pair \in Nat \X Nat : pair[1] < pair[2]}
<1>1. IsWellFoundedOn(R, Nat)
  BY NatLessThanWellFounded DEF OpToRel
<1>2. SUFFICES ASSUME T # {} PROVE FALSE
  OBVIOUS
<1>3. PICK x \in T : \A y \in T : <<y, x>> \notin R
  <2> HIDE DEF T, R
  <2>1. T \subseteq Nat
    BY DEF T
  <2> QED BY <1>1, <1>2, <2>1, WFMin
<1>4. x # 0 /\ x - 1 \in Nat /\ x - 1 \notin S
  OBVIOUS
<1>5. <<x - 1, x>> \in R /\ x - 1 \in T
  BY <1>4
<1> QED BY <1>3, <1>5

\* The partial sums of w.
Sums(g, w) ==
  g = [k \in 0..Len(w) |-> IF k = 0 THEN 0 ELSE g[k - 1] + w[k]]

LEMMA SumsExist ==
  ASSUME NEW w \in Seq(Nat)
  PROVE  \E g : Sums(g, w) /\ Channel!Total(w) = g[Len(w)]
<1> DEFINE IsSum(g, n) == g = [k \in 0..n |-> IF k = 0 THEN 0 ELSE g[k - 1] + w[k]]
           S == {n \in Nat : \E g : IsSum(g, n)}
<1>1. 0 \in S
  <2>1. IsSum([k \in 0..0 |-> 0], 0)
    OBVIOUS
  <2> QED BY <2>1
<1>2. ASSUME NEW n \in Nat, n \in S PROVE n + 1 \in S
  <2>1. PICK g : IsSum(g, n)
    BY <1>2
  <2> DEFINE h == [k \in 0..n + 1 |-> IF k <= n THEN g[k] ELSE g[n] + w[n + 1]]
  <2>2. IsSum(h, n + 1)
    BY <2>1
  <2> HIDE DEF h, IsSum
  <2>3. \E f : IsSum(f, n + 1)
    BY <2>2
  <2> QED BY <2>3
<1>3. Nat \subseteq S
  <2> HIDE DEF S
  <2> QED BY <1>1, <1>2, Induction
<1>4. \E g : Sums(g, w)
  BY <1>3, Len(w) \in Nat DEF Sums
<1> QED BY <1>4 DEF Sums, Channel!Total

LEMMA SumsAt ==
  ASSUME NEW w \in Seq(Nat), NEW g, Sums(g, w)
  PROVE  /\ g[0] = 0
         /\ \A k \in 1..Len(w) : k - 1 \in 0..Len(w) /\ g[k] = g[k - 1] + w[k]
         /\ \A k \in 0..Len(w) : g[k] \in Nat
<1>1. /\ g[0] = 0
      /\ \A k \in 1..Len(w) : k - 1 \in 0..Len(w) /\ g[k] = g[k - 1] + w[k]
  BY SMTT(30) DEF Sums
<1> DEFINE S == {n \in Nat : n <= Len(w) => g[n] \in Nat}
<1>2. 0 \in S
  BY <1>1
<1>3. ASSUME NEW n \in Nat, n \in S PROVE n + 1 \in S
  <2>1. CASE n + 1 <= Len(w)
    <3>1. n + 1 \in 1..Len(w) /\ (n + 1) - 1 = n
      BY <2>1
    <3>2. g[n + 1] = g[n] + w[n + 1] /\ w[n + 1] \in Nat
      BY <1>1, <3>1
    <3> QED BY <1>3, <2>1, <3>2
  <2> QED BY <2>1
<1>4. Nat \subseteq S
  <2> HIDE DEF S
  <2> QED BY <1>2, <1>3, Induction
<1> QED BY <1>1, <1>4

LEMMA TotalType ==
  ASSUME NEW w \in Seq(Nat)
  PROVE  Channel!Total(w) \in Nat
<1>1. PICK g : Sums(g, w) /\ Channel!Total(w) = g[Len(w)]
  BY SumsExist
<1>2. Len(w) \in 0..Len(w)
  OBVIOUS
<1> QED BY <1>1, <1>2, SumsAt

LEMMA TotalEmpty == Channel!Total(<<>>) = 0
<1>1. <<>> \in Seq(Nat) /\ Len(<<>>) = 0
  OBVIOUS
<1>2. PICK g : Sums(g, <<>>) /\ Channel!Total(<<>>) = g[0]
  BY <1>1, SumsExist
<1> QED BY <1>1, <1>2, SumsAt

LEMMA TotalAppend ==
  ASSUME NEW w \in Seq(Nat), NEW x \in Nat
  PROVE  Channel!Total(Append(w, x)) = Channel!Total(w) + x
<1> DEFINE v == Append(w, x)
<1>1. v \in Seq(Nat) /\ Len(v) = Len(w) + 1 /\ v[Len(w) + 1] = x
      /\ \A k \in 1..Len(w) : v[k] = w[k]
  OBVIOUS
<1>2. PICK g : Sums(g, w) /\ Channel!Total(w) = g[Len(w)]
  BY SumsExist
<1> HIDE DEF v
<1>3. PICK h : Sums(h, v) /\ Channel!Total(v) = h[Len(v)]
  BY <1>1, SumsExist
<1>4. /\ g[0] = 0 /\ h[0] = 0
      /\ \A k \in 1..Len(w) : g[k] = g[k - 1] + w[k]
      /\ \A k \in 1..Len(v) : h[k] = h[k - 1] + v[k]
  BY <1>1, <1>2, <1>3, SumsAt
<1> DEFINE S == {n \in Nat : n <= Len(w) => g[n] = h[n]}
<1>5. 0 \in S
  BY <1>4
<1>6. ASSUME NEW n \in Nat, n \in S PROVE n + 1 \in S
  <2>1. CASE n + 1 <= Len(w)
    <3>1. n + 1 \in 1..Len(w) /\ n + 1 \in 1..Len(v) /\ (n + 1) - 1 = n
      BY <1>1, <2>1
    <3>2. g[n + 1] = g[n] + w[n + 1] /\ h[n + 1] = h[n] + v[n + 1] /\ v[n + 1] = w[n + 1]
      BY <1>1, <1>4, <3>1
    <3> QED BY <1>6, <2>1, <3>2
  <2> QED BY <2>1
<1>7. Nat \subseteq S
  <2> HIDE DEF S
  <2> QED BY <1>5, <1>6, Induction
<1>8. g[Len(w)] = h[Len(w)]
  BY <1>7, Len(w) \in Nat
<1>9. Len(v) \in 1..Len(v) /\ Len(v) - 1 = Len(w)
  BY <1>1
<1> QED BY <1>1, <1>2, <1>3, <1>4, <1>8, <1>9 DEF v

LEMMA TotalTail ==
  ASSUME NEW w \in Seq(Nat), w # <<>>
  PROVE  Channel!Total(w) = Head(w) + Channel!Total(Tail(w))
<1> DEFINE v == Tail(w)
<1>1. v \in Seq(Nat) /\ Len(v) = Len(w) - 1 /\ Len(w) >= 1 /\ Head(w) = w[1] /\ Head(w) \in Nat
      /\ \A k \in 1..Len(v) : v[k] = w[k + 1]
  OBVIOUS
<1>2. PICK g : Sums(g, w) /\ Channel!Total(w) = g[Len(w)]
  BY SumsExist
<1> HIDE DEF v
<1>3. PICK h : Sums(h, v) /\ Channel!Total(v) = h[Len(v)]
  BY <1>1, SumsExist
<1>4. /\ g[0] = 0 /\ h[0] = 0
      /\ \A k \in 1..Len(w) : g[k] = g[k - 1] + w[k]
      /\ \A k \in 1..Len(v) : h[k] = h[k - 1] + v[k]
      /\ \A k \in 0..Len(v) : h[k] \in Nat
  BY <1>1, <1>2, <1>3, SumsAt
<1> DEFINE S == {n \in Nat : n <= Len(v) => g[n + 1] = Head(w) + h[n]}
<1>5. 0 \in S
  <2>1. 1 \in 1..Len(w) /\ 1 - 1 = 0
    BY <1>1
  <2>2. g[1] = g[0] + w[1]
    BY <1>4, <2>1
  <2> QED BY <1>1, <1>4, <2>2
<1>6. ASSUME NEW n \in Nat, n \in S PROVE n + 1 \in S
  <2>1. CASE n + 1 <= Len(v)
    <3>1. /\ n + 2 \in 1..Len(w) /\ n + 1 \in 1..Len(v) /\ (n + 1) - 1 = n
          /\ (n + 2) - 1 = n + 1 /\ (n + 1) + 1 = n + 2 /\ n \in 0..Len(v)
      BY <1>1, <2>1
    <3>2. g[n + 2] = g[n + 1] + w[n + 2]
      <4>1. g[n + 2] = g[(n + 2) - 1] + w[n + 2]
        BY <1>4, <3>1
      <4> QED BY <3>1, <4>1
    <3>3. h[n + 1] = h[n] + v[n + 1]
      <4>1. h[n + 1] = h[(n + 1) - 1] + v[n + 1]
        BY <1>4, <3>1
      <4> QED BY <3>1, <4>1
    <3>4. v[n + 1] = w[n + 2]
      BY <1>1, <3>1
    <3>5. v[n + 1] \in Nat /\ h[n] \in Nat
      <4>1. v[n + 1] \in Nat
        BY <1>1, <3>1
      <4>2. h[n] \in Nat
        BY <1>4, <3>1
      <4> QED BY <4>1, <4>2
    <3>6. g[n + 1] = Head(w) + h[n]
      BY <1>6, <1>1, <2>1
    <3>7. g[n + 2] = Head(w) + h[n + 1]
      BY SMTT(30), <1>1, <3>2, <3>3, <3>4, <3>5, <3>6
    <3> QED BY <3>1, <3>7
  <2> QED BY <2>1
<1>7. Nat \subseteq S
  <2> HIDE DEF S
  <2> QED BY <1>5, <1>6, Induction
<1>8. g[Len(v) + 1] = Head(w) + h[Len(v)]
  BY <1>1, <1>7, Len(v) \in Nat
<1> QED BY <1>1, <1>2, <1>3, <1>8 DEF v

LEMMA TotalConcat ==
  ASSUME NEW v \in Seq(Nat), NEW w \in Seq(Nat)
  PROVE  Channel!Total(v \o w) = Channel!Total(v) + Channel!Total(w)
<1> DEFINE S == {n \in Nat : \A u \in Seq(Nat) :
                   Len(u) = n => Channel!Total(v \o u) = Channel!Total(v) + Channel!Total(u)}
<1>1. 0 \in S
  <2>1. ASSUME NEW u \in Seq(Nat), Len(u) = 0
        PROVE  Channel!Total(v \o u) = Channel!Total(v) + Channel!Total(u)
    <3>1. u = <<>> /\ v \o u = v
      BY <2>1
    <3> QED BY <3>1, TotalEmpty, TotalType
  <2> QED BY <2>1
<1>2. ASSUME NEW n \in Nat, n \in S PROVE n + 1 \in S
  <2>1. ASSUME NEW u \in Seq(Nat), Len(u) = n + 1
        PROVE  Channel!Total(v \o u) = Channel!Total(v) + Channel!Total(u)
    <3> DEFINE f == SubSeq(u, 1, n)
               x == u[n + 1]
    <3>1. f \in Seq(Nat) /\ Len(f) = n /\ x \in Nat /\ u = Append(f, x)
      BY <2>1
    <3>2. v \o u = Append(v \o f, x) /\ v \o f \in Seq(Nat)
      <4> HIDE DEF f, x
      <4> QED BY <3>1
    <3> HIDE DEF f, x
    <3>3. Channel!Total(v \o f) = Channel!Total(v) + Channel!Total(f)
      BY <1>2, <3>1
    <3>4. /\ Channel!Total(u) = Channel!Total(f) + x
          /\ Channel!Total(v \o u) = Channel!Total(v \o f) + x
          /\ Channel!Total(v) \in Nat /\ Channel!Total(f) \in Nat
      BY <3>1, <3>2, TotalAppend, TotalType
    <3> QED BY <3>1, <3>3, <3>4
  <2> QED BY <2>1
<1>3. Nat \subseteq S
  <2> HIDE DEF S
  <2> QED BY <1>1, <1>2, Induction
<1> QED BY <1>3, Len(w) \in Nat

\* The messages of a type among the first ones.
Chooses(g, s, type) ==
  g = [k \in 0..Len(s) |->
         IF k = 0 THEN <<>>
         ELSE IF s[k].type = type THEN Append(g[k - 1], s[k])
         ELSE g[k - 1]]

LEMMA ChoosesExist ==
  ASSUME NEW s \in Seq(Messages), NEW type
  PROVE  \E g : Chooses(g, s, type) /\ OfType(s, type) = g[Len(s)]
<1> DEFINE Is(g, n) == g = [k \in 0..n |->
                              IF k = 0 THEN <<>>
                              ELSE IF s[k].type = type THEN Append(g[k - 1], s[k])
                              ELSE g[k - 1]]
           S == {n \in Nat : \E g : Is(g, n)}
<1>1. 0 \in S
  <2>1. Is([k \in 0..0 |-> <<>>], 0)
    OBVIOUS
  <2> QED BY <2>1
<1>2. ASSUME NEW n \in Nat, n \in S PROVE n + 1 \in S
  <2>1. PICK g : Is(g, n)
    BY <1>2
  <2> DEFINE last == IF s[n + 1].type = type THEN Append(g[n], s[n + 1]) ELSE g[n]
             h == [k \in 0..n + 1 |-> IF k <= n THEN g[k] ELSE last]
  <2>2. /\ g[0] = <<>>
        /\ \A k \in 1..n : g[k] = IF s[k].type = type THEN Append(g[k - 1], s[k]) ELSE g[k - 1]
    <3>1. ASSUME NEW k \in 0..n
          PROVE  g[k] = IF k = 0 THEN <<>>
                        ELSE IF s[k].type = type THEN Append(g[k - 1], s[k]) ELSE g[k - 1]
      BY <2>1, Zenon
    <3> QED BY <3>1
  <2>3. ASSUME NEW k \in 0..n + 1
        PROVE  h[k] = IF k = 0 THEN <<>>
                      ELSE IF s[k].type = type THEN Append(h[k - 1], s[k]) ELSE h[k - 1]
    <3>1. CASE k = 0
      BY <2>2, <3>1
    <3>2. CASE k \in 1..n
      <4>1. h[k] = g[k] /\ h[k - 1] = g[k - 1]
        BY <3>2
      <4> QED BY <2>2, <3>2, <4>1
    <3>3. CASE k = n + 1
      <4>1. h[k] = last /\ h[k - 1] = g[n]
        BY <3>3
      <4> QED BY <3>3, <4>1
    <3> QED BY <3>1, <3>2, <3>3
  <2>4. h = [k \in 0..n + 1 |-> h[k]]
    OBVIOUS
  <2> HIDE DEF h
  <2>5. Is(h, n + 1)
    BY <2>3, <2>4, Zenon
  <2> HIDE DEF Is
  <2>6. \E f : Is(f, n + 1)
    BY <2>5
  <2> QED BY <2>6
<1>3. Nat \subseteq S
  <2> HIDE DEF S
  <2> QED BY <1>1, <1>2, Induction
<1>4. \E g : Chooses(g, s, type)
  BY <1>3, Len(s) \in Nat DEF Chooses
<1> QED BY <1>4 DEF Chooses, OfType

LEMMA ChoosesAt ==
  ASSUME NEW s \in Seq(Messages), NEW type, NEW g, Chooses(g, s, type)
  PROVE  /\ g[0] = <<>>
         /\ \A k \in 1..Len(s) :
              g[k] = IF s[k].type = type THEN Append(g[k - 1], s[k]) ELSE g[k - 1]
<1>1. ASSUME NEW k \in 0..Len(s)
      PROVE  g[k] = IF k = 0 THEN <<>>
                    ELSE IF s[k].type = type THEN Append(g[k - 1], s[k]) ELSE g[k - 1]
  BY Zenon DEF Chooses
<1>2. 0 \in 0..Len(s) /\ \A k \in 1..Len(s) : k \in 0..Len(s) /\ k # 0
  OBVIOUS
<1> QED BY <1>1, <1>2

LEMMA ChoosesIn ==
  ASSUME NEW s \in Seq(Messages), NEW type, NEW g, Chooses(g, s, type)
  PROVE  \A k \in 0..Len(s) : g[k] \in Seq({m \in Messages : m.type = type})
<1>1. /\ g[0] = <<>>
      /\ \A k \in 1..Len(s) :
           g[k] = IF s[k].type = type THEN Append(g[k - 1], s[k]) ELSE g[k - 1]
  BY ChoosesAt
<1> DEFINE M == {m \in Messages : m.type = type}
           S == {n \in Nat : n <= Len(s) => g[n] \in Seq(M)}
<1>2. 0 \in S
  <2> HIDE DEF M
  <2>1. g[0] \in Seq(M)
    BY <1>1
  <2> QED BY <2>1
<1>3. ASSUME NEW n \in Nat, n \in S PROVE n + 1 \in S
  <2>1. CASE n + 1 <= Len(s)
    <3>1. n + 1 \in 1..Len(s) /\ (n + 1) - 1 = n
      BY <2>1
    <3>2. g[n + 1] = IF s[n + 1].type = type THEN Append(g[(n + 1) - 1], s[n + 1]) ELSE g[(n + 1) - 1]
      BY <1>1, <3>1
    <3>3. s[n + 1] \in Messages /\ g[n] \in Seq(M)
      BY <1>3, <2>1, <3>1
    <3>4. s[n + 1].type = type => s[n + 1] \in M
      BY <3>3
    <3> HIDE DEF M
    <3>5. g[n + 1] \in Seq(M)
      BY <3>1, <3>2, <3>3, <3>4
    <3> QED BY <3>5
  <2> QED BY <2>1
<1>4. Nat \subseteq S
  <2> HIDE DEF S
  <2> QED BY <1>2, <1>3, Induction
<1> QED BY <1>4

LEMMA OfTypeIn ==
  ASSUME NEW s \in Seq(Messages), NEW type
  PROVE  OfType(s, type) \in Seq({m \in Messages : m.type = type})
<1>1. PICK g : Chooses(g, s, type) /\ OfType(s, type) = g[Len(s)]
  BY ChoosesExist
<1> QED BY <1>1, ChoosesIn, Len(s) \in 0..Len(s)

LEMMA OfTypeEmpty ==
  ASSUME NEW type
  PROVE  OfType(<<>>, type) = <<>>
<1>1. SUFFICES ASSUME NEW s, s = <<>> PROVE OfType(s, type) = <<>>
  OBVIOUS
<1>2. s \in Seq(Messages) /\ Len(s) = 0
  BY <1>1
<1>3. PICK g : Chooses(g, s, type) /\ OfType(s, type) = g[Len(s)]
  BY <1>2, ChoosesExist
<1>4. g[0] = <<>>
  <2>1. s \in Seq(Messages) /\ Chooses(g, s, type)
    BY <1>2, <1>3
  <2> QED BY <2>1, ChoosesAt
<1> QED BY <1>1, <1>2, <1>3, <1>4

LEMMA OfTypeAppend ==
  ASSUME NEW s \in Seq(Messages), NEW m \in Messages, NEW type
  PROVE  OfType(Append(s, m), type) =
           IF m.type = type THEN Append(OfType(s, type), m) ELSE OfType(s, type)
<1> DEFINE v == Append(s, m)
<1>1. v \in Seq(Messages) /\ Len(v) = Len(s) + 1 /\ v[Len(s) + 1] = m
      /\ \A k \in 1..Len(s) : v[k] = s[k]
  <2> HIDE DEF Messages
  <2> QED OBVIOUS
<1>2. PICK g : Chooses(g, s, type) /\ OfType(s, type) = g[Len(s)]
  BY ChoosesExist
<1> HIDE DEF v
<1>3. PICK h : Chooses(h, v, type) /\ OfType(v, type) = h[Len(v)]
  BY <1>1, ChoosesExist
<1>4. /\ g[0] = <<>> /\ h[0] = <<>>
      /\ \A k \in 1..Len(s) :
           g[k] = IF s[k].type = type THEN Append(g[k - 1], s[k]) ELSE g[k - 1]
      /\ \A k \in 1..Len(v) :
           h[k] = IF v[k].type = type THEN Append(h[k - 1], v[k]) ELSE h[k - 1]
  BY <1>1, <1>2, <1>3, ChoosesAt
<1> DEFINE S == {n \in Nat : n <= Len(s) => g[n] = h[n]}
<1>5. 0 \in S
  BY <1>4
<1>6. ASSUME NEW n \in Nat, n \in S PROVE n + 1 \in S
  <2>1. CASE n + 1 <= Len(s)
    <3>1. n + 1 \in 1..Len(s) /\ n + 1 \in 1..Len(v) /\ (n + 1) - 1 = n
      BY <1>1, <2>1
    <3>2. g[n + 1] = IF s[n + 1].type = type THEN Append(g[n], s[n + 1]) ELSE g[n]
      BY <1>4, <3>1
    <3>3. h[n + 1] = IF v[n + 1].type = type THEN Append(h[n], v[n + 1]) ELSE h[n]
      BY <1>4, <3>1
    <3>4. v[n + 1] = s[n + 1] /\ g[n] = h[n]
      BY <1>1, <1>6, <2>1, <3>1
    <3> QED BY <3>2, <3>3, <3>4
  <2> QED BY <2>1
<1>7. Nat \subseteq S
  <2> HIDE DEF S
  <2> QED BY <1>5, <1>6, Induction
<1>8. g[Len(s)] = h[Len(s)]
  BY <1>7, Len(s) \in Nat
<1>9. Len(v) \in 1..Len(v) /\ Len(v) - 1 = Len(s)
  BY <1>1
<1> QED BY <1>1, <1>2, <1>3, <1>4, <1>8, <1>9 DEF v

LEMMA OfTypeTail ==
  ASSUME NEW s \in Seq(Messages), s # <<>>, NEW type
  PROVE  OfType(s, type) = IF Head(s).type = type THEN <<Head(s)>> \o OfType(Tail(s), type)
                           ELSE OfType(Tail(s), type)
<1> DEFINE v == Tail(s)
           M == {m \in Messages : m.type = type}
           first == IF Head(s).type = type THEN <<Head(s)>> ELSE <<>>
<1>1. /\ v \in Seq(Messages) /\ Len(v) = Len(s) - 1 /\ Len(s) >= 1 /\ Head(s) = s[1]
      /\ Head(s) \in Messages
      /\ \A k \in 1..Len(v) : v[k] = s[k + 1]
  <2> HIDE DEF Messages
  <2> QED OBVIOUS
<1>2. PICK g : Chooses(g, s, type) /\ OfType(s, type) = g[Len(s)]
  BY ChoosesExist
<1> HIDE DEF v
<1>3. PICK h : Chooses(h, v, type) /\ OfType(v, type) = h[Len(v)]
  BY <1>1, ChoosesExist
<1>4. /\ g[0] = <<>> /\ h[0] = <<>>
      /\ \A k \in 1..Len(s) :
           g[k] = IF s[k].type = type THEN Append(g[k - 1], s[k]) ELSE g[k - 1]
      /\ \A k \in 1..Len(v) :
           h[k] = IF v[k].type = type THEN Append(h[k - 1], v[k]) ELSE h[k - 1]
      /\ \A k \in 0..Len(v) : h[k] \in Seq(M)
  <2>1. /\ g[0] = <<>>
        /\ \A k \in 1..Len(s) :
             g[k] = IF s[k].type = type THEN Append(g[k - 1], s[k]) ELSE g[k - 1]
    BY <1>2, ChoosesAt
  <2>2. /\ h[0] = <<>>
        /\ \A k \in 1..Len(v) :
             h[k] = IF v[k].type = type THEN Append(h[k - 1], v[k]) ELSE h[k - 1]
    BY <1>1, <1>3, ChoosesAt
  <2>3. \A k \in 0..Len(v) : h[k] \in Seq({m \in Messages : m.type = type})
    <3>1. v \in Seq(Messages) /\ Chooses(h, v, type)
      BY <1>1, <1>3
    <3> QED BY <3>1, ChoosesIn
  <2> QED BY <2>1, <2>2, <2>3
<1>0. first \in Seq(M)
  <2>1. Head(s).type = type => Head(s) \in M
    BY <1>1
  <2> HIDE DEF M
  <2> QED BY <2>1
<1> HIDE DEF first
<1> DEFINE S == {n \in Nat : n <= Len(v) => g[n + 1] = first \o h[n]}
<1>5. 0 \in S
  <2>1. 1 \in 1..Len(s) /\ 1 - 1 = 0
    BY <1>1
  <2>2. g[1] = IF s[1].type = type THEN Append(g[0], s[1]) ELSE g[0]
    BY <1>4, <2>1
  <2>3. g[1] = first \o <<>>
    BY <1>1, <1>4, <2>2 DEF first
  <2>4. g[0 + 1] = first \o h[0]
    BY <1>4, <2>3
  <2> QED BY <2>4
<1>6. ASSUME NEW n \in Nat, n \in S PROVE n + 1 \in S
  <2>1. CASE n + 1 <= Len(v)
    <3>1. /\ n + 2 \in 1..Len(s) /\ n + 1 \in 1..Len(v) /\ (n + 1) - 1 = n
          /\ (n + 2) - 1 = n + 1 /\ (n + 1) + 1 = n + 2 /\ n \in 0..Len(v) /\ n <= Len(v)
      BY <1>1, <2>1
    <3>2. g[n + 2] = IF s[n + 2].type = type THEN Append(g[n + 1], s[n + 2]) ELSE g[n + 1]
      <4>1. g[n + 2] = IF s[n + 2].type = type THEN Append(g[(n + 2) - 1], s[n + 2])
                       ELSE g[(n + 2) - 1]
        BY <1>4, <3>1
      <4> QED BY <3>1, <4>1
    <3>3. h[n + 1] = IF v[n + 1].type = type THEN Append(h[n], v[n + 1]) ELSE h[n]
      <4>1. h[n + 1] = IF v[n + 1].type = type THEN Append(h[(n + 1) - 1], v[n + 1])
                       ELSE h[(n + 1) - 1]
        BY <1>4, <3>1
      <4> QED BY <3>1, <4>1
    <3>4. v[n + 1] = s[n + 2]
      BY <1>1, <3>1
    <3>5. h[n] \in Seq(M) /\ g[n + 1] = first \o h[n]
      BY <1>4, <1>6, <3>1
    <3>6. v[n + 1] \in Messages
      BY <1>1, <3>1
    <3>7. v[n + 1].type = type => v[n + 1] \in M
      BY <3>6
    <3> HIDE DEF M
    <3>8. v[n + 1].type = type => first \o Append(h[n], v[n + 1]) = Append(first \o h[n], v[n + 1])
      BY SMTT(30), <1>0, <3>5, <3>7
    <3>9. g[n + 2] = first \o h[n + 1]
      BY <3>2, <3>3, <3>4, <3>5, <3>8
    <3> QED BY <3>1, <3>9
  <2> QED BY <2>1
<1>7. Nat \subseteq S
  <2> HIDE DEF S
  <2> QED BY <1>5, <1>6, Induction
<1>8. g[Len(v) + 1] = first \o h[Len(v)]
  <2>1. Len(v) \in Nat /\ Len(v) <= Len(v)
    BY <1>1
  <2>2. Len(v) \in S
    BY <1>7, <2>1
  <2> QED BY <2>1, <2>2
<1>9. h[Len(v)] \in Seq(M)
  BY <1>1, <1>4, Len(v) \in 0..Len(v)
<1>10. <<>> \o h[Len(v)] = h[Len(v)]
  <2> HIDE DEF M
  <2> QED BY <1>9
<1>11. Len(v) + 1 = Len(s)
  BY <1>1
<1>12. OfType(s, type) = first \o OfType(v, type) /\ <<>> \o OfType(v, type) = OfType(v, type)
  BY <1>2, <1>3, <1>8, <1>10, <1>11
<1> QED BY <1>12 DEF v, first

LEMMA TotalHas ==
  ASSUME NEW w \in Seq(Nat), NEW k \in DOMAIN w
  PROVE  Channel!Total(w) >= w[k]
<1>1. PICK g : Sums(g, w) /\ Channel!Total(w) = g[Len(w)]
  BY SumsExist
<1>2. /\ \A n \in 1..Len(w) : g[n] = g[n - 1] + w[n]
      /\ \A n \in 0..Len(w) : g[n] \in Nat
  BY <1>1, SumsAt
<1>3. k \in 1..Len(w) /\ w[k] \in Nat
  OBVIOUS
<1> DEFINE S == {n \in Nat : k + n <= Len(w) => g[k + n] >= w[k]}
<1>4. 0 \in S
  <2>1. g[k] = g[k - 1] + w[k] /\ k - 1 \in 0..Len(w) /\ k \in 0..Len(w)
    BY <1>2, <1>3
  <2>2. g[k] >= w[k] /\ k + 0 = k
    BY <1>2, <1>3, <2>1
  <2> QED BY <2>2
<1>5. ASSUME NEW n \in Nat, n \in S PROVE n + 1 \in S
  <2>1. CASE k + (n + 1) <= Len(w)
    <3>1. /\ k + (n + 1) \in 1..Len(w) /\ (k + (n + 1)) - 1 = k + n /\ k + n <= Len(w)
          /\ k + n \in 0..Len(w)
      BY <1>3, <2>1
    <3> DEFINE j == k + (n + 1)
    <3>2. g[j] = g[j - 1] + w[j]
      BY <1>2, <3>1
    <3>3. w[j] \in Nat /\ j - 1 = k + n
      BY <3>1
    <3>4. g[k + n] >= w[k] /\ g[k + n] \in Nat
      BY <1>2, <1>5, <3>1
    <3> HIDE DEF j
    <3>5. g[j] >= w[k]
      BY <1>3, <3>2, <3>3, <3>4
    <3>6. g[k + (n + 1)] >= w[k]
      BY <3>5 DEF j
    <3> QED BY <3>6
  <2> QED BY <2>1
<1>6. Nat \subseteq S
  <2> HIDE DEF S
  <2> QED BY <1>4, <1>5, Induction
<1>7. Len(w) - k \in S /\ k + (Len(w) - k) = Len(w)
  BY <1>3, <1>6
<1> QED BY <1>1, <1>7

-----------------------------------------------------------------------------
(* Bytes and packets of a queue                                            *)

LEMMA ElementsOf ==
  ASSUME NEW S, NEW s \in Seq(S)
  PROVE  /\ Elements(s) \subseteq S
         /\ s # <<>> => /\ Head(s) \in Elements(s) /\ Tail(s) \in Seq(S)
                        /\ Elements(Tail(s)) \subseteq Elements(s)
         /\ \A x \in S : Elements(Append(s, x)) = Elements(s) \union {x}
<1>1. Elements(s) \subseteq S
  BY DEF Elements
<1>2. ASSUME s # <<>>
      PROVE  /\ Head(s) \in Elements(s) /\ Tail(s) \in Seq(S)
             /\ Elements(Tail(s)) \subseteq Elements(s)
  <2>1. Head(s) = s[1] /\ 1 \in DOMAIN s /\ Tail(s) \in Seq(S)
    BY <1>2
  <2>2. \A k \in DOMAIN Tail(s) : k + 1 \in DOMAIN s /\ Tail(s)[k] = s[k + 1]
    BY <1>2
  <2> QED BY <2>1, <2>2 DEF Elements
<1>3. ASSUME NEW x \in S
      PROVE  Elements(Append(s, x)) = Elements(s) \union {x}
  <2> DEFINE r == Append(s, x)
             n == Len(s) + 1
  <2>1. /\ n \in DOMAIN r /\ r[n] = x
        /\ \A k \in DOMAIN s : k \in DOMAIN r /\ r[k] = s[k]
        /\ \A k \in DOMAIN r : k = n \/ k \in DOMAIN s
    OBVIOUS
  <2> HIDE DEF r, n
  <2>2. Elements(r) = Elements(s) \union {x}
    BY <2>1 DEF Elements
  <2> QED BY <2>2 DEF r
<1> QED BY <1>1, <1>2, <1>3

\* A sequence of things that have a size.
LEMMA BytesOfQueue ==
  ASSUME NEW S, \A x \in S : x.size \in Nat, NEW s \in Seq(S)
  PROVE  /\ Channel!Bytes(s) \in Nat
         /\ \A x \in S : Channel!Bytes(Append(s, x)) = Channel!Bytes(s) + x.size
         /\ s # <<>> => Channel!Bytes(s) = Head(s).size + Channel!Bytes(Tail(s))
<1> DEFINE w == [k \in DOMAIN s |-> s[k].size]
<1>1. w \in Seq(Nat) /\ Len(w) = Len(s) /\ DOMAIN w = DOMAIN s
        /\ Channel!Bytes(s) = Channel!Total(w)
  BY DEF Channel!Bytes
<1>2. Channel!Bytes(s) \in Nat
  BY <1>1, TotalType
<1>3. ASSUME NEW x \in S
      PROVE  Channel!Bytes(Append(s, x)) = Channel!Bytes(s) + x.size
  <2>1. [k \in DOMAIN Append(s, x) |-> Append(s, x)[k].size] = Append(w, x.size)
    OBVIOUS
  <2>2. Channel!Bytes(Append(s, x)) = Channel!Total(Append(w, x.size))
    BY <2>1 DEF Channel!Bytes
  <2> HIDE DEF w
  <2> QED BY <1>1, <2>2, TotalAppend
<1>4. ASSUME s # <<>>
      PROVE  Channel!Bytes(s) = Head(s).size + Channel!Bytes(Tail(s))
  <2>1. [k \in DOMAIN Tail(s) |-> Tail(s)[k].size] = Tail(w) /\ w # <<>> /\ Head(w) = Head(s).size
    BY <1>4
  <2>2. Channel!Bytes(Tail(s)) = Channel!Total(Tail(w))
    BY <2>1 DEF Channel!Bytes
  <2> HIDE DEF w
  <2> QED BY <1>1, <2>1, <2>2, TotalTail
<1> QED BY <1>2, <1>3, <1>4

LEMMA BytesEmpty == Channel!Bytes(<<>>) = 0
<1>1. [k \in DOMAIN <<>> |-> <<>>[k].size] = <<>>
  OBVIOUS
<1> QED BY <1>1, TotalEmpty DEF Channel!Bytes

LEMMA BytesConcat ==
  ASSUME NEW S, \A x \in S : x.size \in Nat, NEW s \in Seq(S), NEW r \in Seq(S)
  PROVE  Channel!Bytes(s \o r) = Channel!Bytes(s) + Channel!Bytes(r)
<1> DEFINE v == [k \in DOMAIN s |-> s[k].size]
           w == [k \in DOMAIN r |-> r[k].size]
<1>1. v \in Seq(Nat) /\ w \in Seq(Nat)
  OBVIOUS
<1>2. [k \in DOMAIN (s \o r) |-> (s \o r)[k].size] = v \o w
  <2> DEFINE q == [k \in DOMAIN (s \o r) |-> (s \o r)[k].size]
  <2>1. q \in Seq(Nat) /\ Len(q) = Len(s) + Len(r)
    OBVIOUS
  <2>2. Len(v \o w) = Len(s) + Len(r) /\ v \o w \in Seq(Nat)
    <3>1. Len(v) = Len(s) /\ Len(w) = Len(r)
      OBVIOUS
    <3> HIDE DEF v, w
    <3>2. Len(v \o w) = Len(v) + Len(w) /\ v \o w \in Seq(Nat)
      BY <1>1
    <3> QED BY <3>1, <3>2
  <2>3. ASSUME NEW k \in 1..(Len(s) + Len(r)) PROVE q[k] = (v \o w)[k]
    <3>1. CASE k <= Len(s)
      BY <3>1
    <3>2. CASE k > Len(s)
      <4>1. (s \o r)[k] = r[k - Len(s)] /\ k - Len(s) \in DOMAIN r
        BY <3>2
      <4>2. (v \o w)[k] = w[k - Len(s)]
        BY <3>2
      <4> QED BY <4>1, <4>2
    <3> QED BY <3>1, <3>2
  <2> HIDE DEF q, v, w
  <2>4. q = v \o w
    BY <2>1, <2>2, <2>3, SeqEqual
  <2> QED BY <2>4 DEF q
<1>3. /\ Channel!Bytes(s) = Channel!Total(v) /\ Channel!Bytes(r) = Channel!Total(w)
      /\ Channel!Bytes(s \o r) = Channel!Total(v \o w)
  BY <1>2 DEF Channel!Bytes
<1> HIDE DEF v, w
<1> QED BY <1>1, <1>3, TotalConcat

LEMMA MessageFields ==
  /\ \A m \in Messages : m.size \in Nat /\ m.id \in Nat /\ m.type \in Types /\ m.of \in Threads
  /\ \A m \in Packets : m.size \in Nat /\ m.id \in Nat
BY DEF Messages, Packets

LEMMA OfTypeSeq ==
  ASSUME NEW s \in Seq(Messages), NEW type
  PROVE  /\ OfType(s, type) \in Seq(Messages)
         /\ \A k \in DOMAIN OfType(s, type) : OfType(s, type)[k].type = type
<1> DEFINE M == {m \in Messages : m.type = type}
<1>1. OfType(s, type) \in Seq(M)
  BY OfTypeIn
<1>2. M \subseteq Messages /\ \A m \in M : m.type = type
  OBVIOUS
<1> HIDE DEF M
<1> QED BY <1>1, <1>2

LEMMA WeightOf ==
  ASSUME NEW S, \A x \in S : x.size \in Nat, NEW s \in Seq(S), NEW k \in Measures
  PROVE  /\ Weight(k, s) \in Nat
         /\ \A x \in S : Unit(k, x) \in Nat /\ Weight(k, Append(s, x)) = Weight(k, s) + Unit(k, x)
         /\ s # <<>> => Weight(k, s) = Unit(k, Head(s)) + Weight(k, Tail(s))
<1>1. CASE k = "bytes"
  BY <1>1, BytesOfQueue DEF Weight, Unit
<1>2. CASE k # "bytes"
  <2>1. Len(s) \in Nat /\ \A x \in S : Len(Append(s, x)) = Len(s) + 1
    OBVIOUS
  <2>2. s # <<>> => Len(s) = 1 + Len(Tail(s))
    OBVIOUS
  <2> QED BY <1>2, <2>1, <2>2 DEF Weight, Unit
<1> QED BY <1>1, <1>2

\* What a message adds to the part of a queue that has a type.
Adds(k, m, type) == IF m.type = type THEN Unit(k, m) ELSE 0

LEMMA AddsType ==
  ASSUME NEW m \in Messages, NEW type, NEW k \in Measures
  PROVE  Adds(k, m, type) \in Nat
BY MessageFields DEF Adds, Unit

LEMMA PartOf ==
  ASSUME NEW s \in Seq(Messages), NEW type, NEW k \in Measures
  PROVE  /\ Part(k, s, type) \in Nat
         /\ \A m \in Messages : Part(k, Append(s, m), type) = Part(k, s, type) + Adds(k, m, type)
         /\ s # <<>> => /\ Part(k, s, type) = Adds(k, Head(s), type) + Part(k, Tail(s), type)
                        /\ Tail(s) \in Seq(Messages) /\ Head(s) \in Messages
<1> DEFINE r == OfType(s, type)
<1>1. r \in Seq(Messages)
  BY OfTypeSeq
<1>2. Weight(k, r) \in Nat
  BY <1>1, WeightOf, MessageFields
<1>3. ASSUME NEW m \in Messages
      PROVE  Part(k, Append(s, m), type) = Part(k, s, type) + Adds(k, m, type)
  <2>1. OfType(Append(s, m), type) = IF m.type = type THEN Append(r, m) ELSE r
    BY OfTypeAppend
  <2>2. Weight(k, Append(r, m)) = Weight(k, r) + Unit(k, m)
    BY <1>1, WeightOf, MessageFields
  <2> HIDE DEF r
  <2>3. Part(k, Append(s, m), type) = Weight(k, r) + Adds(k, m, type)
    BY <1>2, <2>1, <2>2 DEF Part, Adds
  <2> QED BY <2>3 DEF Part, r
<1>4. ASSUME s # <<>>
      PROVE  /\ Part(k, s, type) = Adds(k, Head(s), type) + Part(k, Tail(s), type)
             /\ Tail(s) \in Seq(Messages) /\ Head(s) \in Messages
  <2> DEFINE h == Head(s)
             u == OfType(Tail(s), type)
             v == <<h>> \o u
  <2>1. Tail(s) \in Seq(Messages) /\ h \in Messages
    BY <1>4
  <2>2. u \in Seq(Messages) /\ Weight(k, u) \in Nat
    BY <2>1, OfTypeSeq, WeightOf, MessageFields
  <2>3. v \in Seq(Messages) /\ v # <<>> /\ Head(v) = h /\ Tail(v) = u
    <3> HIDE DEF h, u
    <3> QED BY <2>1, <2>2
  <2>4. OfType(s, type) = IF h.type = type THEN v ELSE u
    BY <1>4, OfTypeTail
  <2>5. Part(k, Tail(s), type) = Weight(k, u)
    BY DEF Part
  <2> HIDE DEF h, u, v
  <2>6. Weight(k, v) = Unit(k, h) + Weight(k, u)
    BY <2>3, WeightOf, MessageFields
  <2>7. Part(k, s, type) = Adds(k, h, type) + Weight(k, u)
    BY <2>2, <2>4, <2>6 DEF Part, Adds
  <2> QED BY <2>1, <2>5, <2>7 DEF h
<1> QED BY <1>2, <1>3, <1>4 DEF Part

LEMMA CountAppend ==
  ASSUME NEW s \in Seq(Messages), NEW m \in Messages, NEW t \in Threads
  PROVE  /\ Count(t, Append(s, m)) = Count(t, s) + (IF m.of = t THEN 1 ELSE 0)
         /\ Count(t, s) \in Nat
<1> DEFINE w == [k \in DOMAIN s |-> IF s[k].of = t THEN 1 ELSE 0]
           x == IF m.of = t THEN 1 ELSE 0
<1>1. w \in Seq(Nat) /\ x \in Nat
  OBVIOUS
<1>2. [k \in DOMAIN Append(s, m) |-> IF Append(s, m)[k].of = t THEN 1 ELSE 0] = Append(w, x)
  OBVIOUS
<1>3. Count(t, s) = Channel!Total(w) /\ Count(t, Append(s, m)) = Channel!Total(Append(w, x))
  BY <1>2 DEF Count
<1> HIDE DEF w
<1> QED BY <1>1, <1>3, TotalAppend, TotalType

LEMMA CountTail ==
  ASSUME NEW s \in Seq(Messages), s # <<>>, NEW t \in Threads
  PROVE  /\ Count(t, s) = (IF Head(s).of = t THEN 1 ELSE 0) + Count(t, Tail(s))
         /\ Count(t, s) \in Nat /\ Count(t, Tail(s)) \in Nat
<1> DEFINE w == [k \in DOMAIN s |-> IF s[k].of = t THEN 1 ELSE 0]
<1>1. /\ w \in Seq(Nat) /\ w # <<>> /\ Head(w) = (IF Head(s).of = t THEN 1 ELSE 0)
      /\ Tail(w) \in Seq(Nat)
  OBVIOUS
<1>2. [k \in DOMAIN Tail(s) |-> IF Tail(s)[k].of = t THEN 1 ELSE 0] = Tail(w)
  OBVIOUS
<1>3. Count(t, s) = Channel!Total(w) /\ Count(t, Tail(s)) = Channel!Total(Tail(w))
  BY <1>2 DEF Count
<1> HIDE DEF w
<1> QED BY <1>1, <1>3, TotalTail, TotalType

LEMMA CountHas ==
  ASSUME NEW s \in Seq(Messages), NEW t \in Threads
  PROVE  /\ Count(t, s) \in Nat
         /\ \A k \in DOMAIN s : s[k].of = t => Count(t, s) >= 1
         /\ (\A k \in DOMAIN s : s[k].of # t) => Count(t, s) = 0
<1> DEFINE w == [k \in DOMAIN s |-> IF s[k].of = t THEN 1 ELSE 0]
<1>1. w \in Seq(Nat) /\ DOMAIN w = DOMAIN s /\ Count(t, s) = Channel!Total(w)
  BY DEF Count
<1>2. ASSUME NEW k \in DOMAIN s, s[k].of = t PROVE w[k] = 1
  BY <1>2
<1>3. ASSUME \A k \in DOMAIN s : s[k].of # t PROVE Channel!Total(w) = 0
  <2> DEFINE S == {n \in Nat : \A u \in Seq(Nat) :
                     Len(u) = n /\ (\A k \in DOMAIN u : u[k] = 0) => Channel!Total(u) = 0}
  <2>1. 0 \in S
    <3>1. ASSUME NEW u \in Seq(Nat), Len(u) = 0 PROVE Channel!Total(u) = 0
      <4>1. u = <<>>
        BY <3>1
      <4> QED BY <4>1, TotalEmpty
    <3> QED BY <3>1
  <2>2. ASSUME NEW n \in Nat, n \in S PROVE n + 1 \in S
    <3>1. ASSUME NEW u \in Seq(Nat), Len(u) = n + 1, \A k \in DOMAIN u : u[k] = 0
          PROVE  Channel!Total(u) = 0
      <4>1. /\ u # <<>> /\ Head(u) = 0 /\ Tail(u) \in Seq(Nat) /\ Len(Tail(u)) = n
            /\ \A k \in DOMAIN Tail(u) : Tail(u)[k] = 0
        BY <3>1
      <4>2. Channel!Total(Tail(u)) = 0
        BY <2>2, <4>1
      <4> QED BY <4>1, <4>2, TotalTail
    <3> QED BY <3>1
  <2>3. Nat \subseteq S
    <3> HIDE DEF S
    <3> QED BY <2>1, <2>2, Induction
  <2>4. \A k \in DOMAIN w : w[k] = 0
    BY <1>3
  <2> HIDE DEF w
  <2>5. Len(w) \in S
    BY <1>1, <2>3
  <2> QED BY <1>1, <2>4, <2>5
<1> HIDE DEF w
<1>4. \A k \in DOMAIN w : Channel!Total(w) >= w[k]
  BY <1>1, TotalHas
<1> QED BY <1>1, <1>2, <1>3, <1>4, TotalType

-----------------------------------------------------------------------------
(* The two ends, and the types                                             *)

USE SizeAssumption, BufferAssumption, ThreadAssumption, RoleAssumption

LEMMA Ends ==
  /\ Other("app") = "device" /\ Other("device") = "app"
  /\ \A p \in Peers : Other(p) \in Peers /\ Other(p) # p /\ Other(Other(p)) = p
  /\ \A p, q \in Peers : q = p \/ q = Other(p)
<1>1. Other("app") = "device"
  <2>1. \E q \in Peers : q # "app"
    BY DEF Peers
  <2>2. Other("app") \in Peers /\ Other("app") # "app"
    BY <2>1 DEF Other
  <2> QED BY <2>2 DEF Peers
<1>2. Other("device") = "app"
  <2>1. \E q \in Peers : q # "device"
    BY DEF Peers
  <2>2. Other("device") \in Peers /\ Other("device") # "device"
    BY <2>1 DEF Other
  <2> QED BY <2>2 DEF Peers
<1> QED BY <1>1, <1>2 DEF Peers

LEMMA Threading ==
  /\ \A t \in Threads : EndOf(t) \in Peers
  /\ \A p \in Peers : \A t : t \in ThreadsOf(p) <=> t \in Threads /\ EndOf(t) = p
BY DEF EndOf, ThreadsOf

\* Rounding up to lines does not make a size smaller.
LEMMA Aligned ==
  ASSUME NEW n \in Nat
  PROVE  AlignUp(n) \in Nat /\ AlignUp(n) >= n
<1> DEFINE a == n + Line - 1
           d == a \div Line
           r == a % Line
<1>1. Line \in Nat /\ Line > 0 /\ a \in Nat
  OBVIOUS
<1> HIDE DEF a
<1>2. d \in Nat /\ r \in Nat /\ r < Line /\ a = Line * d + r
  BY <1>1
<1>3. Line * d = d * Line /\ d * Line \in Nat
  BY <1>1, <1>2
<1> HIDE DEF d, r
<1>4. d * Line = a - r
  BY <1>1, <1>2, <1>3
<1>5. a - r >= n
  BY <1>1, <1>2 DEF a
<1>6. AlignUp(n) = d * Line
  BY DEF AlignUp, a, d
<1> QED BY <1>3, <1>4, <1>5, <1>6

DescType ==
  desc \in [Peers -> [open : BOOLEAN, writeSize : Nat, readSize : Nat, remoteFill : Nat,
                      remotePackets : Nat, localFill : Nat, closeInitiated : BOOLEAN]]
CallType ==
  call \in [Threads -> [op : {"none", "write", "read", "release", "close"}, size : Nat,
                        state : {"idle"} \union InCall, owes : 0..1]]
StoreType == store \in [Peers -> [unread : Seq(Packets), blocked : Seq(Packets)]]
QueueType ==
  local \in [Peers -> Seq(Threads)] /\ remote \in [Peers -> Seq(Messages)]
    /\ link \in [Peers -> Seq(Messages)]
RestType ==
  /\ sent \in [Peers -> Nat] /\ got \in [Peers -> Seq(Nat)]
  /\ closing \in [Peers -> {"open", "called", "done"}]
  /\ aborted \subseteq Peers /\ crossed \in BOOLEAN

LEMMA TypeParts == TypeOK <=> DescType /\ CallType /\ StoreType /\ QueueType /\ RestType
BY DEF TypeOK, DescType, CallType, StoreType, QueueType, RestType

LEMMA TypePartsNext ==
  TypeOK' <=> DescType' /\ CallType' /\ StoreType' /\ QueueType' /\ RestType'
BY DEF TypeOK, DescType, CallType, StoreType, QueueType, RestType

\* What the dispatcher serves next: a thread of this end in a call.
LEMMA NextCallIn ==
  ASSUME TypeOK, LocalKept, NEW p \in Peers, NEW t \in NextCall(p)
  PROVE  /\ t \in Threads /\ EndOf(t) = p
         /\ call[t].state \in {"queued", "ready"}
         /\ call[t].state = "queued" => local[p] # <<>> /\ t = Head(local[p])
<1>1. local[p] \in Seq(Threads)
  BY DEF TypeOK
<1>2. CASE {u \in ThreadsOf(p) : call[u].state = "ready"} # {}
  BY <1>2, Threading DEF NextCall
<1>3. CASE {u \in ThreadsOf(p) : call[u].state = "ready"} = {}
  <2>1. local[p] # <<>> /\ t = Head(local[p])
    BY <1>3 DEF NextCall
  <2>2. 1 \in DOMAIN local[p] /\ t = local[p][1] /\ t \in Threads
    BY <1>1, <2>1
  <2> QED BY <2>1, <2>2 DEF LocalKept
<1> QED BY <1>2, <1>3

\* A message taken from remote[p].
LEMMA HeadProper ==
  ASSUME TypeOK, MessagesKept, NEW p \in Peers, remote[p] # <<>>
  PROVE  /\ Head(remote[p]) \in Messages /\ Head(remote[p]).of \in Threads
         /\ Head(remote[p]).size \in Nat /\ Head(remote[p]).type \in Types
         /\ Proper(p, Head(remote[p]))
<1>1. remote[p] \in Seq(Messages)
  BY DEF TypeOK
<1>2. 1 \in DOMAIN remote[p] /\ Head(remote[p]) = remote[p][1] /\ remote[p][1] \in Messages
  BY <1>1
<1>3. Head(remote[p]) \in MessagesTo(p)
  BY <1>2 DEF MessagesTo, Elements
<1> QED BY <1>2, <1>3, MessageFields DEF MessagesKept

LEMMA HeadOnLink ==
  ASSUME TypeOK, MessagesKept, NEW p \in Peers, link[p] # <<>>
  PROVE  /\ Head(link[p]) \in Messages /\ Head(link[p]).of \in Threads
         /\ Head(link[p]).size \in Nat /\ Head(link[p]).type \in Types
         /\ Proper(p, Head(link[p]))
<1>1. link[p] \in Seq(Messages)
  BY DEF TypeOK
<1>2. 1 \in DOMAIN link[p] /\ Head(link[p]) = link[p][1] /\ link[p][1] \in Messages
  BY <1>1
<1>3. Head(link[p]) \in MessagesTo(p)
  BY <1>2 DEF MessagesTo, Elements
<1> QED BY <1>2, <1>3, MessageFields DEF MessagesKept

\* Unblocking changes the state of blocked calls and nothing else.
Unblocks(p, ops) ==
  \A t \in Threads :
    \/ call'[t] = call[t]
    \/ /\ EndOf(t) = p /\ call[t].op \in ops /\ call[t].state = "blocked"
       /\ call'[t] = [call[t] EXCEPT !.state = "ready"]

LEMMA UnblockEffect ==
  ASSUME TypeOK, NEW p \in Peers, NEW ops, UnblockOne(p, ops)
  PROVE  CallType' /\ Unblocks(p, ops)
<1> DEFINE some == {op \in ops : Calls(p, op, {"blocked"}) # {}}
<1>1. PICK f \in [some -> Threads] :
        /\ \A op \in some : f[op] \in Calls(p, op, {"blocked"})
        /\ call' = [t \in Threads |-> IF \E op \in some : f[op] = t
                                      THEN [call[t] EXCEPT !.state = "ready"] ELSE call[t]]
  BY DEF UnblockOne
<1> HIDE DEF some
<1>2. CallType
  BY TypeParts
<1>3. ASSUME NEW t \in Threads
      PROVE  \/ call'[t] = call[t]
             \/ /\ EndOf(t) = p /\ call[t].op \in ops /\ call[t].state = "blocked"
                /\ call'[t] = [call[t] EXCEPT !.state = "ready"]
  <2>1. CASE \E op \in some : f[op] = t
    <3>1. PICK op \in some : f[op] = t
      BY <2>1
    <3>2. op \in ops /\ t \in Calls(p, op, {"blocked"})
      BY <1>1, <3>1 DEF some
    <3>3. EndOf(t) = p /\ call[t].op = op /\ call[t].state = "blocked"
      BY <3>2, Threading DEF Calls
    <3> QED BY <1>1, <2>1, <3>2, <3>3
  <2>2. CASE ~ \E op \in some : f[op] = t
    BY <1>1, <2>2
  <2> QED BY <2>1, <2>2
<1>4. Unblocks(p, ops)
  BY <1>3 DEF Unblocks
<1>5. CallType'
  <2>1. call' = [t \in Threads |-> call'[t]]
    BY <1>1
  <2>2. ASSUME NEW t \in Threads
        PROVE  call'[t] \in [op : {"none", "write", "read", "release", "close"}, size : Nat,
                             state : {"idle"} \union InCall, owes : 0..1]
    <3> DEFINE R == [op : {"none", "write", "read", "release", "close"}, size : Nat,
                     state : {"idle"} \union InCall, owes : 0..1]
    <3>1. call[t] \in R
      BY <1>2 DEF CallType
    <3>2. [call[t] EXCEPT !.state = "ready"] \in R
      BY <3>1 DEF InCall
    <3> QED BY <1>3, <3>1, <3>2
  <2> QED BY <2>1, <2>2 DEF CallType
<1> QED BY <1>4, <1>5

LEMMA StoreSizes ==
  ASSUME StoreType, NEW p \in Peers, NEW k \in Measures
  PROVE  /\ store[p].unread \in Seq(Packets) /\ store[p].blocked \in Seq(Packets)
         /\ Weight(k, store[p].unread) \in Nat /\ Weight(k, store[p].blocked) \in Nat
         /\ Stock(k, p) \in Nat
<1>1. store[p].unread \in Seq(Packets) /\ store[p].blocked \in Seq(Packets)
  BY DEF StoreType
<1>2. Weight(k, store[p].unread) \in Nat /\ Weight(k, store[p].blocked) \in Nat
  BY <1>1, WeightOf, MessageFields
<1> QED BY <1>1, <1>2 DEF Stock

LEMMA DueTerms ==
  ASSUME QueueType, StoreType, NEW p \in Peers, NEW k \in Measures
  PROVE  /\ Part(k, link[Other(p)], "write_req") \in Nat /\ Stock(k, Other(p)) \in Nat
         /\ Part(k, link[p], "release_req") \in Nat /\ Part(k, remote[p], "release_req") \in Nat
         /\ Due(k, p) \in Nat
         /\ Due(k, p) >= Part(k, link[Other(p)], "write_req")
         /\ Due(k, p) >= Stock(k, Other(p))
         /\ Due(k, p) >= Part(k, link[p], "release_req")
         /\ Due(k, p) >= Part(k, remote[p], "release_req")
<1> DEFINE a == Part(k, link[Other(p)], "write_req")
           b == Stock(k, Other(p))
           c == Part(k, link[p], "release_req")
           d == Part(k, remote[p], "release_req")
<1>1. Other(p) \in Peers
  BY Ends
<1>2. a \in Nat /\ b \in Nat /\ c \in Nat /\ d \in Nat /\ Due(k, p) = (a + b) + (c + d)
  BY <1>1, PartOf, StoreSizes DEF QueueType, Due
<1> HIDE DEF a, b, c, d
<1>3. /\ Due(k, p) \in Nat /\ Due(k, p) >= a /\ Due(k, p) >= b /\ Due(k, p) >= c
      /\ Due(k, p) >= d
  BY <1>2
<1> QED BY <1>2, <1>3 DEF a, b, c, d

\* What is released was charged, and what is stored was filled in.
LEMMA Covered ==
  ASSUME TypeOK, CreditCovers, StoreKept, NEW p \in Peers
  PROVE  /\ remote[p] # <<>> /\ Head(remote[p]).type = "release_req" =>
              \A k \in Measures : Credit(k, p) - Unit(k, Head(remote[p])) \in Nat
         /\ store[p].blocked # <<>> =>
              /\ Head(store[p].blocked) \in Packets
              /\ Head(store[p].blocked).size > 0
              /\ desc[p].localFill - Head(store[p].blocked).size \in Nat
<1>1. QueueType /\ StoreType /\ desc[p].localFill \in Nat
      /\ desc[p].remoteFill \in Nat /\ desc[p].remotePackets \in Nat
  BY TypeParts DEF TypeOK
<1>2. ASSUME remote[p] # <<>>, Head(remote[p]).type = "release_req", NEW k \in Measures
      PROVE  Credit(k, p) - Unit(k, Head(remote[p])) \in Nat
  <2> DEFINE h == Head(remote[p])
             x == Unit(k, h)
             r == Part(k, Tail(remote[p]), "release_req")
  <2>1. remote[p] \in Seq(Messages)
    BY <1>1 DEF QueueType
  <2>2. /\ Part(k, remote[p], "release_req") = Adds(k, h, "release_req") + r
        /\ Tail(remote[p]) \in Seq(Messages) /\ h \in Messages
    BY <1>2, <2>1, PartOf
  <2>3. x \in Nat /\ Adds(k, h, "release_req") = x
    BY <1>2, <2>2, MessageFields DEF Adds, Unit
  <2>4. r \in Nat
    BY <2>2, PartOf
  <2>5. Due(k, p) >= x + r /\ Due(k, p) \in Nat
    BY <1>1, <2>2, <2>3, DueTerms
  <2>6. Credit(k, p) >= Due(k, p) /\ Credit(k, p) \in Nat
    BY <1>1 DEF CreditCovers, Credit
  <2> HIDE DEF x, r, h
  <2>7. Credit(k, p) - x \in Nat
    BY <2>3, <2>4, <2>5, <2>6
  <2> QED BY <2>7 DEF x, h
<1>3. ASSUME store[p].blocked # <<>>
      PROVE  /\ Head(store[p].blocked) \in Packets
             /\ Head(store[p].blocked).size > 0
             /\ desc[p].localFill - Head(store[p].blocked).size \in Nat
  <2> DEFINE h == Head(store[p].blocked)
             b == "bytes"
             r == Weight(b, Tail(store[p].blocked))
             u == Weight(b, store[p].unread)
  <2>1. b \in Measures /\ Unit(b, h) = h.size
    BY DEF Measures, Unit
  <2>2. /\ store[p].blocked \in Seq(Packets) /\ Tail(store[p].blocked) \in Seq(Packets)
        /\ h \in Packets /\ h \in Elements(store[p].blocked)
    BY <1>1, <1>3, <2>1, StoreSizes, ElementsOf
  <2>3. h.size \in Nat /\ r \in Nat /\ Weight(b, store[p].blocked) = h.size + r
    BY <1>3, <2>1, <2>2, WeightOf, MessageFields
  <2>4. u \in Nat /\ desc[p].localFill = u + Weight(b, store[p].blocked) /\ h.size > 0
    BY <1>1, <2>1, <2>2, StoreSizes DEF StoreKept, Stock
  <2> HIDE DEF h, b, r, u
  <2>5. desc[p].localFill - h.size \in Nat
    BY <2>3, <2>4
  <2> QED BY <2>2, <2>4, <2>5 DEF h
<1> QED BY <1>2, <1>3

-----------------------------------------------------------------------------
(* Every step keeps the types                                              *)

LEMMA TypesByApplication ==
  ASSUME TypeOK, NEW t \in Threads, Application(t)
  PROVE  TypeOK'
<1> DEFINE p == EndOf(t)
<1>1. p \in Peers
  BY Threading
<1>2. ASSUME NEW op \in {"write", "read", "release", "close"}, NEW size \in Nat, Enter(t, op, size)
      PROVE  CallType' /\ QueueType' /\ DescType' /\ StoreType'
                /\ UNCHANGED <<sent, got, aborted>>
  <2>1. CallType /\ QueueType /\ DescType /\ StoreType
    BY TypeParts
  <2>2. /\ call' = [call EXCEPT ![t].op = op, ![t].size = size, ![t].state = "queued"]
        /\ local' = [local EXCEPT ![p] = Append(@, t)]
        /\ UNCHANGED <<desc, store, remote, link, sent, got, aborted>>
    BY <1>2 DEF Enter, EndOf
  <2>3. CallType'
    <3> DEFINE R == [op : {"none", "write", "read", "release", "close"}, size : Nat,
                     state : {"idle"} \union InCall, owes : 0..1]
    <3>1. call \in [Threads -> R]
      BY <2>1 DEF CallType
    <3>2. "queued" \in {"idle"} \union InCall
      BY DEF InCall
    <3>3. [op |-> op, size |-> size, state |-> "queued", owes |-> call[t].owes] \in R
      BY <3>1, <3>2
    <3>4. call'[t] = [op |-> op, size |-> size, state |-> "queued", owes |-> call[t].owes]
      BY ZenonT(30), <2>2, <3>1
    <3>5. (\A u \in Threads : u # t => call'[u] = call[u]) /\ call' = [u \in Threads |-> call'[u]]
      BY <2>2, <3>1
    <3> HIDE DEF R
    <3>6. call' \in [Threads -> R]
      BY <3>1, <3>3, <3>4, <3>5
    <3> QED BY <3>6 DEF CallType, R
  <2>4. QueueType'
    BY <1>1, <2>1, <2>2 DEF QueueType
  <2> QED BY <2>1, <2>2, <2>3, <2>4 DEF DescType, StoreType
<1>3. RestType
  BY TypeParts
<1>4. CASE CallWrite(t)
  <2>1. PICK s \in Sizes : Enter(t, "write", s)
    BY <1>4 DEF CallWrite
  <2>2. closing' = closing /\ crossed' \in BOOLEAN
    BY <1>4 DEF CallWrite
  <2> QED BY <1>2, <1>3, <2>1, <2>2, TypePartsNext DEF RestType
<1>5. CASE CallRead(t)
  <2>1. Enter(t, "read", 0) /\ closing' = closing /\ crossed' \in BOOLEAN
    BY <1>5 DEF CallRead
  <2> QED BY <1>2, <1>3, <2>1, TypePartsNext DEF RestType
<1>6. CASE CallRelease(t)
  <2>1. Enter(t, "release", 0) /\ closing' = closing /\ crossed' = crossed
    BY <1>6 DEF CallRelease
  <2> QED BY <1>2, <1>3, <2>1, TypePartsNext DEF RestType
<1>7. CASE CallClose(t)
  <2>1. Enter(t, "close", 0) /\ closing' = [closing EXCEPT ![p] = "called"] /\ crossed' \in BOOLEAN
    BY <1>7 DEF CallClose, EndOf
  <2>2. closing' \in [Peers -> {"open", "called", "done"}]
    BY <1>3, <2>1 DEF RestType
  <2> QED BY <1>2, <1>3, <2>1, <2>2, TypePartsNext DEF RestType
<1> QED BY <1>4, <1>5, <1>6, <1>7 DEF Application

\* The call of one thread changes.
Others(t) == \A u \in Threads : u # t => call'[u] = call[u]
Becomes(t, op, state, owes) ==
  /\ Others(t) /\ CallType'
  /\ call'[t].op = op /\ call'[t].state = state /\ call'[t].owes = owes
  /\ call'[t].size = (IF op = "none" THEN 0 ELSE call[t].size)

LEMMA ServedEffect ==
  ASSUME CallType, NEW t \in Threads, NEW owes \in 0..1, Served(t, owes)
  PROVE  Becomes(t, "none", "idle", owes)
<1> DEFINE R == [op : {"none", "write", "read", "release", "close"}, size : Nat,
                 state : {"idle"} \union InCall, owes : 0..1]
           r == [op |-> "none", size |-> 0, state |-> "idle", owes |-> owes]
<1>1. call \in [Threads -> R] /\ call' = [call EXCEPT ![t] = r]
  BY DEF CallType, Served
<1>2. r \in R
  OBVIOUS
<1> HIDE DEF R
<1>3. call' \in [Threads -> R] /\ call'[t] = r /\ Others(t)
  BY <1>1, <1>2 DEF Others
<1> QED BY <1>3 DEF Becomes, CallType, R

LEMMA StateEffect ==
  ASSUME CallType, NEW t \in Threads, NEW s \in InCall, call[t].op # "none",
         call' = [call EXCEPT ![t].state = s]
  PROVE  Becomes(t, call[t].op, s, call[t].owes)
<1> DEFINE R == [op : {"none", "write", "read", "release", "close"}, size : Nat,
                 state : {"idle"} \union InCall, owes : 0..1]
           r == [op |-> call[t].op, size |-> call[t].size, state |-> s, owes |-> call[t].owes]
<1>1. call \in [Threads -> R]
  BY DEF CallType
<1>2. r \in R /\ call[t] \in R
  BY <1>1
<1>3. call'[t] = r
  BY <1>1, <1>2
<1>4. Others(t) /\ call' = [u \in Threads |-> call'[u]]
  BY <1>1 DEF Others
<1> HIDE DEF R
<1>5. call' \in [Threads -> R]
  BY <1>1, <1>2, <1>3, <1>4 DEF Others
<1> QED BY <1>3, <1>4, <1>5 DEF Becomes, CallType, R

LEMMA StateTo ==
  ASSUME CallType, NEW t \in Threads, NEW op \in {"write", "read", "release", "close"},
         NEW s \in InCall, call[t].op = op, call' = [call EXCEPT ![t].state = s]
  PROVE  Becomes(t, op, s, call[t].owes)
<1>1. call[t].op # "none"
  OBVIOUS
<1> QED BY <1>1, StateEffect

LEMMA ReleaseEffect ==
  ASSUME CallType, NEW t \in Threads, call[t].op = "release", call[t].owes = 1,
         call' = [call EXCEPT ![t].state = "pending", ![t].owes = @ - 1]
  PROVE  Becomes(t, "release", "pending", 0)
<1> DEFINE R == [op : {"none", "write", "read", "release", "close"}, size : Nat,
                 state : {"idle"} \union InCall, owes : 0..1]
           r == [op |-> "release", size |-> call[t].size, state |-> "pending", owes |-> 0]
<1>1. call \in [Threads -> R]
  BY DEF CallType
<1>2. r \in R /\ call[t] \in R
  BY <1>1 DEF InCall
<1>3. call'[t] = r
  BY <1>1, <1>2
<1>4. Others(t) /\ call' = [u \in Threads |-> call'[u]]
  BY <1>1 DEF Others
<1> HIDE DEF R
<1>5. call' \in [Threads -> R]
  BY <1>1, <1>2, <1>3, <1>4 DEF Others
<1> QED BY <1>3, <1>4, <1>5 DEF Becomes, CallType, R

\* A message is sent to the other end of p.
Sends(p, m) ==
  /\ m \in Messages /\ link' \in [Peers -> Seq(Messages)]
  /\ link'[Other(p)] = Append(link[Other(p)], m) /\ link'[p] = link[p]

LEMMA PostEffect ==
  ASSUME QueueType, NEW p \in Peers, NEW m \in Messages, Post(p, m)
  PROVE  Sends(p, m)
<1>1. Other(p) \in Peers /\ Other(p) # p
  BY Ends
<1> QED BY <1>1 DEF Post, Sends, QueueType

LEMMA NewMessage ==
  ASSUME NEW type \in Types, NEW of \in Threads, NEW size \in Nat, NEW id \in Nat
  PROVE  [type |-> type, of |-> of, size |-> size, id |-> id] \in Messages
BY DEF Messages

LEMMA AnswerMessage ==
  ASSUME NEW m \in Messages, NEW type \in Types
  PROVE  /\ [m EXCEPT !.type = type] \in Messages
         /\ [m EXCEPT !.type = type].type = type /\ [m EXCEPT !.type = type].of = m.of
         /\ [m EXCEPT !.type = type].size = m.size
BY DEF Messages

-----------------------------------------------------------------------------
(* What ServeCall does, case by case, to a stream that is there            *)

ServesCall(p, t) ==
  /\ p \in Peers /\ t \in NextCall(p) /\ t \in Threads /\ EndOf(t) = p
  /\ call[t].state \in {"queued", "ready"} /\ p \notin aborted
  /\ call[t].state = "queued" => local[p] # <<>> /\ t = Head(local[p])
  /\ Taken(p, t) /\ UNCHANGED <<remote, crossed>>

CallAborts(p) ==
  ~desc[p].open /\ aborted' = aborted \union {p}
    /\ UNCHANGED <<desc, store, link, call, sent, got, closing>>

\* A write that is refused, a read or write that has to wait.
CallPasses(p, t) ==
  /\ \/ call[t].op = "write" /\ desc[p].writeSize = 0 /\ Becomes(t, "none", "idle", call[t].owes)
     \/ call[t].op \in {"read", "write"} /\ Becomes(t, call[t].op, "blocked", call[t].owes)
  /\ UNCHANGED <<desc, store, link, sent, got, closing, aborted>>

WriteSent(p, t) ==
  /\ call[t].op = "write" /\ desc[p].writeSize # 0 /\ Fits(p, call[t].size)
  /\ Becomes(t, "write", "pending", call[t].owes)
  /\ desc' = [desc EXCEPT ![p].remoteFill = @ + call[t].size, ![p].remotePackets = @ + 1]
  /\ sent' = [sent EXCEPT ![p] = @ + 1]
  /\ Sends(p, [type |-> "write_req", of |-> t, size |-> call[t].size, id |-> sent[p] + 1])
  /\ UNCHANGED <<store, got, closing, aborted>>

ReadGiven(p, t) ==
  /\ call[t].op = "read" /\ store[p].unread # <<>>
  /\ store' = [store EXCEPT ![p].unread = Tail(@),
                            ![p].blocked = Append(@, Head(store[p].unread))]
  /\ got' = [got EXCEPT ![p] = Append(@, Head(store[p].unread).id)]
  /\ Becomes(t, "none", "idle", 1)
  /\ UNCHANGED <<desc, link, sent, closing, aborted>>

ReleaseSent(p, t) ==
  /\ call[t].op = "release" /\ store[p].blocked # <<>>
  /\ store' = [store EXCEPT ![p].blocked = Tail(@)]
  /\ desc' = [desc EXCEPT ![p].localFill = @ - Head(store[p].blocked).size]
  /\ Sends(p, [type |-> "release_req", of |-> t, size |-> Head(store[p].blocked).size,
               id |-> Head(store[p].blocked).id])
  /\ Becomes(t, "release", "pending", 0)
  /\ UNCHANGED <<sent, got, closing, aborted>>

CloseBlocked(p, t) ==
  /\ call[t].op = "close" /\ Becomes(t, "close", "blocked", call[t].owes)
  /\ desc' = [desc EXCEPT ![p].closeInitiated = TRUE]
  /\ UNCHANGED <<store, link, sent, got, closing, aborted>>

CloseSent(p, t) ==
  /\ call[t].op = "close" /\ desc[p].remoteFill = 0
  /\ Becomes(t, "close", "pending", call[t].owes)
  /\ Sends(p, [type |-> "close_req", of |-> t, size |-> 0, id |-> 0])
  /\ UNCHANGED <<desc, store, sent, got, closing, aborted>>

LEMMA ServeCallCases ==
  ASSUME TypeOK, LocalKept, CallsKept, StoreKept, CreditCovers, NEW p \in Peers, ServeCall(p)
  PROVE  \E t \in Threads :
           /\ ServesCall(p, t)
           /\ \/ CallAborts(p) \/ CallPasses(p, t) \/ WriteSent(p, t) \/ ReadGiven(p, t)
              \/ ReleaseSent(p, t) \/ CloseBlocked(p, t) \/ CloseSent(p, t)
<1>1. PICK t \in NextCall(p) :
        /\ Taken(p, t)
        /\ IF desc[p].open
           THEN /\ \/ call[t].op = "write" /\ ServeWrite(p, t)
                   \/ call[t].op = "read" /\ ServeRead(p, t)
                   \/ call[t].op = "release" /\ ServeRelease(p, t)
                   \/ call[t].op = "close" /\ ServeClose(p, t)
                /\ UNCHANGED aborted
           ELSE /\ aborted' = aborted \union {p}
                /\ UNCHANGED <<desc, store, link, call, sent, got, closing>>
  BY DEF ServeCall
<1>2. ServesCall(p, t) /\ t \in Threads
  BY <1>1, NextCallIn DEF ServesCall, ServeCall
<1>3. /\ CallType /\ QueueType /\ call[t].size \in Nat /\ call[t].owes \in 0..1
      /\ sent[p] \in Nat /\ {"blocked", "pending"} \subseteq InCall
      /\ {"write_req", "release_req", "close_req"} \subseteq Types
  BY <1>2, TypeParts DEF TypeOK, InCall, Types
<1>4. CASE ~desc[p].open
  BY <1>1, <1>2, <1>4 DEF CallAborts
<1>5. CASE call[t].op = "write" /\ ServeWrite(p, t) /\ UNCHANGED aborted
  <2>1. CASE desc[p].writeSize = 0 /\ Served(t, call[t].owes) /\ UNCHANGED <<desc, link, sent>>
    <3>1. Becomes(t, "none", "idle", call[t].owes)
      BY <1>2, <1>3, <2>1, ServedEffect
    <3> QED BY <1>2, <1>5, <2>1, <3>1 DEF CallPasses, ServeWrite
  <2>2. CASE Blocked(t) /\ UNCHANGED <<desc, link, sent>>
    <3>1. Becomes(t, "write", "blocked", call[t].owes)
      BY <1>2, <1>3, <1>5, <2>2, StateTo DEF Blocked
    <3> QED BY <1>2, <1>5, <2>2, <3>1 DEF CallPasses, ServeWrite
  <2>3. CASE /\ desc[p].writeSize # 0 /\ Fits(p, call[t].size)
             /\ Pending(t)
             /\ desc' = [desc EXCEPT ![p].remoteFill = @ + call[t].size,
                                     ![p].remotePackets = @ + 1]
             /\ sent' = [sent EXCEPT ![p] = @ + 1]
             /\ Post(p, [type |-> "write_req", of |-> t, size |-> call[t].size,
                         id |-> sent[p] + 1])
    <3>1. Becomes(t, "write", "pending", call[t].owes)
      BY <1>2, <1>3, <1>5, <2>3, StateTo DEF Pending
    <3>2. Sends(p, [type |-> "write_req", of |-> t, size |-> call[t].size, id |-> sent[p] + 1])
      BY <1>2, <1>3, <2>3, PostEffect, NewMessage
    <3> QED BY <1>2, <1>5, <2>3, <3>1, <3>2 DEF WriteSent, ServeWrite
  <2> QED BY <1>5, <2>1, <2>2, <2>3 DEF ServeWrite
<1>6. CASE call[t].op = "read" /\ ServeRead(p, t) /\ UNCHANGED aborted
  <2>1. CASE /\ store[p].unread # <<>>
             /\ store' = [store EXCEPT ![p].unread = Tail(@),
                                       ![p].blocked = Append(@, Head(store[p].unread))]
             /\ got' = [got EXCEPT ![p] = Append(@, Head(store[p].unread).id)]
             /\ Served(t, call[t].owes + 1)
    <3>1. call[t].owes = 0
      BY <1>2, <1>6 DEF CallsKept, CallKept
    <3>2. Becomes(t, "none", "idle", 1)
      BY <1>2, <1>3, <2>1, <3>1, ServedEffect
    <3> QED BY <1>2, <1>6, <2>1, <3>2 DEF ReadGiven, ServeRead
  <2>2. CASE Blocked(t) /\ UNCHANGED <<store, got>>
    <3>1. Becomes(t, "read", "blocked", call[t].owes)
      BY <1>2, <1>3, <1>6, <2>2, StateTo DEF Blocked
    <3> QED BY <1>2, <1>6, <2>2, <3>1 DEF CallPasses, ServeRead
  <2> QED BY <1>6, <2>1, <2>2 DEF ServeRead
<1>7. CASE call[t].op = "release" /\ ServeRelease(p, t) /\ UNCHANGED aborted
  <2>1. /\ store[p].blocked # <<>>
        /\ store' = [store EXCEPT ![p].blocked = Tail(@)]
        /\ desc' = [desc EXCEPT ![p].localFill = @ - Head(store[p].blocked).size]
        /\ Post(p, [type |-> "release_req", of |-> t, size |-> Head(store[p].blocked).size,
                    id |-> Head(store[p].blocked).id])
        /\ call' = [call EXCEPT ![t].state = "pending", ![t].owes = @ - 1]
    BY <1>7 DEF ServeRelease
  <2>2. Head(store[p].blocked) \in Packets
    BY <2>1, Covered
  <2>3. Sends(p, [type |-> "release_req", of |-> t, size |-> Head(store[p].blocked).size,
                  id |-> Head(store[p].blocked).id])
    BY <1>2, <1>3, <2>1, <2>2, PostEffect, NewMessage, MessageFields
  <2>4. call[t].owes = 1
    BY <1>2, <1>7 DEF CallsKept, CallKept, ServesCall
  <2>5. Becomes(t, "release", "pending", 0)
    BY <1>2, <1>3, <1>7, <2>1, <2>4, ReleaseEffect
  <2> QED BY <1>2, <1>7, <2>1, <2>3, <2>5 DEF ReleaseSent, ServeRelease
<1>8. CASE call[t].op = "close" /\ ServeClose(p, t) /\ UNCHANGED aborted
  <2>1. CASE /\ desc' = [desc EXCEPT ![p].closeInitiated = TRUE]
             /\ Blocked(t)
             /\ UNCHANGED link
    <3>1. Becomes(t, "close", "blocked", call[t].owes)
      BY <1>2, <1>3, <1>8, <2>1, StateTo DEF Blocked
    <3> QED BY <1>2, <1>8, <2>1, <3>1 DEF CloseBlocked, ServeClose
  <2>2. CASE /\ desc[p].remoteFill = 0
             /\ Pending(t)
             /\ Post(p, [type |-> "close_req", of |-> t, size |-> 0, id |-> 0])
             /\ UNCHANGED desc
    <3>1. Becomes(t, "close", "pending", call[t].owes)
      BY <1>2, <1>3, <1>8, <2>2, StateTo DEF Pending
    <3>2. Sends(p, [type |-> "close_req", of |-> t, size |-> 0, id |-> 0])
      BY <1>2, <1>3, <2>2, PostEffect, NewMessage
    <3> QED BY <1>2, <1>8, <2>2, <3>1, <3>2 DEF CloseSent, ServeClose
  <2> QED BY <1>8, <2>1, <2>2 DEF ServeClose
<1> QED BY <1>1, <1>4, <1>5, <1>6, <1>7, <1>8

-----------------------------------------------------------------------------
(* What ServeMessage and Receive do, case by case                          *)

TakesMessage(p, m) ==
  /\ p \in Peers /\ p \notin aborted /\ remote[p] # <<>> /\ m = Head(remote[p])
  /\ m \in Messages /\ m.of \in Threads /\ m.size \in Nat /\ Proper(p, m)
  /\ remote' = [remote EXCEPT ![p] = Tail(@)]
  /\ UNCHANGED <<store, local, sent, got, crossed>>

MessageAborts(p, m) ==
  /\ m.type = "release_req" /\ ~desc[p].open
  /\ aborted' = aborted \union {p}
  /\ UNCHANGED <<desc, link, call, closing>>

\* A request is answered with a message of the given type.
Replies(p, m, type) ==
  /\ Sends(p, [m EXCEPT !.type = type])
  /\ [m EXCEPT !.type = type] \in Messages /\ [m EXCEPT !.type = type].type = type
  /\ [m EXCEPT !.type = type].of = m.of /\ [m EXCEPT !.type = type].size = m.size
  /\ UNCHANGED <<closing, aborted>>

WriteTaken(p, m) ==
  /\ m.type = "write_req" /\ Replies(p, m, "write_resp")
  /\ CallType' /\ Unblocks(p, {"read"})
  /\ UNCHANGED desc

ReleaseTaken(p, m) ==
  /\ m.type = "release_req" /\ desc[p].open /\ Replies(p, m, "release_resp")
  /\ desc' = [desc EXCEPT ![p].remoteFill = @ - m.size, ![p].remotePackets = @ - 1]
  /\ CallType' /\ Unblocks(p, {"write", "close"})

CloseRefused(p, m) ==
  /\ m.type = "close_req" /\ desc[p].localFill # 0 /\ Replies(p, m, "close_nack")
  /\ desc' = [desc EXCEPT ![p].closeInitiated = TRUE]
  /\ UNCHANGED call

CloseAccepted(p, m) ==
  /\ m.type = "close_req" /\ desc[p].localFill = 0 /\ Replies(p, m, "close_resp")
  /\ desc' = [desc EXCEPT ![p].readSize = 0,
                          ![p].closeInitiated = @ /\ desc[p].readSize = 0,
                          ![p].open = desc[p].writeSize # 0]
  /\ UNCHANGED call

CloseOfNothing(p, m) ==
  /\ m.type = "close_req" /\ ~desc[p].open /\ Replies(p, m, "close_resp")
  /\ UNCHANGED <<desc, call>>

Answered(p, m) ==
  /\ m.type \in {"write_resp", "release_resp"}
  /\ Becomes(m.of, "none", "idle", call[m.of].owes)
  /\ UNCHANGED <<desc, link, closing, aborted>>

CloseAnswered(p, m) ==
  /\ m.type \in {"close_resp", "close_nack"}
  /\ Becomes(m.of, "none", "idle", call[m.of].owes)
  /\ closing' = [closing EXCEPT ![p] = "done"]
  /\ desc' = IF desc[p].open
             THEN [desc EXCEPT ![p].writeSize = 0, ![p].open = desc[p].readSize # 0]
             ELSE desc
  /\ UNCHANGED <<link, aborted>>

MessageCase(p, m) ==
  \/ MessageAborts(p, m) \/ WriteTaken(p, m) \/ ReleaseTaken(p, m) \/ CloseRefused(p, m)
  \/ CloseAccepted(p, m) \/ CloseOfNothing(p, m) \/ Answered(p, m) \/ CloseAnswered(p, m)

LEMMA RepliesEffect ==
  ASSUME QueueType, NEW p \in Peers, NEW m \in Messages, NEW type \in Types,
         Answer(p, m, type), UNCHANGED <<closing, aborted>>
  PROVE  Replies(p, m, type)
<1>1. [m EXCEPT !.type = type] \in Messages
  BY AnswerMessage
<1>2. Sends(p, [m EXCEPT !.type = type])
  BY <1>1, PostEffect DEF Answer
<1> QED BY <1>1, <1>2, AnswerMessage DEF Replies

LEMMA ServeMessageCases ==
  ASSUME TypeOK, MessagesKept, NEW p \in Peers, ServeMessage(p)
  PROVE  \E m \in Messages : TakesMessage(p, m) /\ MessageCase(p, m)
<1> DEFINE m == Head(remote[p])
<1>1. m \in Messages /\ TakesMessage(p, m)
  BY HeadProper DEF ServeMessage, TakesMessage
<1>2. /\ QueueType /\ CallType /\ m.of \in Threads /\ call[m.of].owes \in 0..1
      /\ {"write_resp", "release_resp", "close_nack", "close_resp"} \subseteq Types
  BY <1>1, TypeParts DEF TypeOK, TakesMessage, Types
<1>3. \/ /\ \/ TakeWrite(p, m) \/ TakeRelease(p, m) \/ TakeClose(p, m)
            \/ TakeResponse(p, m) \/ TakeCloseResponse(p, m)
         /\ UNCHANGED aborted
      \/ /\ m.type = "release_req" /\ ~desc[p].open
         /\ aborted' = aborted \union {p}
         /\ UNCHANGED <<desc, link, call, closing>>
  BY DEF ServeMessage
<1> HIDE DEF m
<1>4. CASE TakeWrite(p, m) /\ UNCHANGED aborted
  <2>1. Answer(p, m, "write_resp") /\ UNCHANGED <<desc, closing>> /\ m.type = "write_req"
    BY <1>4 DEF TakeWrite
  <2>2. Replies(p, m, "write_resp")
    BY <1>1, <1>2, <1>4, <2>1, RepliesEffect
  <2>3. CallType' /\ Unblocks(p, {"read"})
    BY <1>4, UnblockEffect DEF TakeWrite
  <2> QED BY <1>1, <2>1, <2>2, <2>3 DEF MessageCase, WriteTaken
<1>5. CASE TakeRelease(p, m) /\ UNCHANGED aborted
  <2>1. /\ Answer(p, m, "release_resp") /\ UNCHANGED closing /\ m.type = "release_req"
        /\ desc[p].open
        /\ desc' = [desc EXCEPT ![p].remoteFill = @ - m.size, ![p].remotePackets = @ - 1]
    BY <1>5 DEF TakeRelease
  <2>2. Replies(p, m, "release_resp")
    BY <1>1, <1>2, <1>5, <2>1, RepliesEffect
  <2>3. PICK ops \in {{"write", "close"}, {"write"}} : UnblockOne(p, ops)
    BY <1>5 DEF TakeRelease
  <2>4. CallType' /\ Unblocks(p, ops)
    BY <2>3, UnblockEffect
  <2>5. Unblocks(p, {"write", "close"})
    BY <2>4 DEF Unblocks
  <2> QED BY <1>1, <2>1, <2>2, <2>4, <2>5 DEF MessageCase, ReleaseTaken
<1>6. CASE TakeClose(p, m) /\ UNCHANGED aborted
  <2>1. m.type = "close_req" /\ UNCHANGED <<call, closing, aborted>>
    BY <1>6 DEF TakeClose
  <2>2. CASE /\ desc[p].open /\ desc[p].localFill # 0
             /\ desc' = [desc EXCEPT ![p].closeInitiated = TRUE]
             /\ Answer(p, m, "close_nack")
    <3>1. Replies(p, m, "close_nack")
      BY <1>1, <1>2, <2>1, <2>2, RepliesEffect
    <3> QED BY <1>1, <2>1, <2>2, <3>1 DEF MessageCase, CloseRefused
  <2>3. CASE /\ desc[p].open /\ desc[p].localFill = 0
             /\ desc' = [desc EXCEPT ![p].readSize = 0,
                                     ![p].closeInitiated = @ /\ desc[p].readSize = 0,
                                     ![p].open = desc[p].writeSize # 0]
             /\ Answer(p, m, "close_resp")
    <3>1. Replies(p, m, "close_resp")
      BY <1>1, <1>2, <2>1, <2>3, RepliesEffect
    <3> QED BY <1>1, <2>1, <2>3, <3>1 DEF MessageCase, CloseAccepted
  <2>4. CASE ~desc[p].open /\ Answer(p, m, "close_resp") /\ UNCHANGED desc
    <3>1. Replies(p, m, "close_resp")
      BY <1>1, <1>2, <2>1, <2>4, RepliesEffect
    <3> QED BY <1>1, <2>1, <2>4, <3>1 DEF MessageCase, CloseOfNothing
  <2> QED BY <1>6, <2>2, <2>3, <2>4 DEF TakeClose
<1>7. CASE TakeResponse(p, m) /\ UNCHANGED aborted
  <2>1. Becomes(m.of, "none", "idle", call[m.of].owes)
    BY <1>2, <1>7, ServedEffect DEF TakeResponse
  <2> QED BY <1>1, <1>7, <2>1 DEF MessageCase, TakeResponse, Answered
<1>8. CASE TakeCloseResponse(p, m) /\ UNCHANGED aborted
  <2>1. Becomes(m.of, "none", "idle", call[m.of].owes)
    BY <1>2, <1>8, ServedEffect DEF TakeCloseResponse
  <2> QED BY <1>1, <1>8, <2>1 DEF MessageCase, TakeCloseResponse, CloseAnswered
<1>9. CASE /\ m.type = "release_req" /\ ~desc[p].open
           /\ aborted' = aborted \union {p}
           /\ UNCHANGED <<desc, link, call, closing>>
  BY <1>1, <1>9 DEF MessageCase, MessageAborts
<1> QED BY <1>3, <1>4, <1>5, <1>6, <1>7, <1>8, <1>9

Receives(p, m) ==
  /\ p \in Peers /\ p \notin aborted /\ link[p] # <<>> /\ m = Head(link[p])
  /\ m \in Messages /\ m.of \in Threads /\ m.size \in Nat /\ Proper(p, m)
  /\ link' = [link EXCEPT ![p] = Tail(@)]
  /\ UNCHANGED <<local, call, sent, got, closing, crossed>>

HasRoom(p) == Len(store[p].unread) + Len(store[p].blocked) < MaxPackets

ArrivalAborts(p, m) ==
  /\ m.type = "write_req" /\ (~desc[p].open \/ ~HasRoom(p))
  /\ aborted' = aborted \union {p}
  /\ UNCHANGED <<desc, store, remote>>

Stored(p, m) ==
  /\ m.type = "write_req" /\ desc[p].open /\ HasRoom(p)
  /\ desc' = [desc EXCEPT ![p].localFill = @ + m.size]
  /\ store' = [store EXCEPT ![p].unread = Append(@, PacketOf(m))]
  /\ remote' = [remote EXCEPT ![p] = Append(@, m)]
  /\ UNCHANGED aborted

Queued(p, m) ==
  /\ m.type # "write_req"
  /\ remote' = [remote EXCEPT ![p] = Append(@, m)]
  /\ UNCHANGED <<desc, store, aborted>>

LEMMA ReceiveCases ==
  ASSUME TypeOK, MessagesKept, NEW p \in Peers, Receive(p)
  PROVE  \E m \in Messages :
           Receives(p, m) /\ (ArrivalAborts(p, m) \/ Stored(p, m) \/ Queued(p, m))
<1>1. Receives(p, Head(link[p])) /\ Head(link[p]) \in Messages
  BY HeadOnLink DEF Receive, Receives
<1>2. ArrivalAborts(p, Head(link[p])) \/ Stored(p, Head(link[p])) \/ Queued(p, Head(link[p]))
  BY DEF Receive, ArrivalAborts, Stored, Queued, HasRoom, PacketOf
<1> QED BY <1>1, <1>2

-----------------------------------------------------------------------------
(* Dispatcher and reader keep the types                                    *)

\* The descriptor of one end changes.
DescBecomes(p, open, writeSize, readSize, remoteFill, remotePackets, localFill, initiated) ==
  /\ DescType' /\ \A q \in Peers : q # p => desc'[q] = desc[q]
  /\ desc'[p].open = open /\ desc'[p].writeSize = writeSize /\ desc'[p].readSize = readSize
  /\ desc'[p].remoteFill = remoteFill /\ desc'[p].remotePackets = remotePackets
  /\ desc'[p].localFill = localFill /\ desc'[p].closeInitiated = initiated

LEMMA DescEffect ==
  ASSUME DescType, NEW p \in Peers, desc' = [q \in Peers |-> desc'[q]],
         \A q \in Peers : q # p => desc'[q] = desc[q],
         desc'[p] \in [open : BOOLEAN, writeSize : Nat, readSize : Nat, remoteFill : Nat,
                       remotePackets : Nat, localFill : Nat, closeInitiated : BOOLEAN]
  PROVE  DescType'
<1> DEFINE R == [open : BOOLEAN, writeSize : Nat, readSize : Nat, remoteFill : Nat,
                 remotePackets : Nat, localFill : Nat, closeInitiated : BOOLEAN]
<1>1. desc'[p] \in R /\ desc \in [Peers -> R]
  BY DEF DescType
<1> HIDE DEF R
<1>2. desc' \in [Peers -> R]
  BY <1>1
<1> QED BY <1>2 DEF DescType, R

LEMMA DescCredit ==
  ASSUME DescType, NEW p \in Peers, NEW x \in Nat, NEW y \in Nat,
         desc' = [desc EXCEPT ![p].remoteFill = x,
                               ![p].remotePackets = y]
  PROVE  DescBecomes(p, desc[p].open, desc[p].writeSize, desc[p].readSize, x, y,
                     desc[p].localFill, desc[p].closeInitiated)
<1>1. /\ desc' = [q \in Peers |-> desc'[q]] /\ \A q \in Peers : q # p => desc'[q] = desc[q]
      /\ desc[p] \in [open : BOOLEAN, writeSize : Nat, readSize : Nat, remoteFill : Nat,
                      remotePackets : Nat, localFill : Nat, closeInitiated : BOOLEAN]
  BY DEF DescType
<1>2. desc'[p] = [open |-> desc[p].open, writeSize |-> desc[p].writeSize, readSize |->
                        desc[p].readSize, remoteFill |-> x,
                        remotePackets |-> y, localFill |->
                        desc[p].localFill, closeInitiated |->
                        desc[p].closeInitiated]
  BY ZenonT(30) DEF DescType
<1>3. /\ desc[p].open \in BOOLEAN /\ desc[p].writeSize \in Nat /\ desc[p].readSize \in Nat
      /\ desc[p].remoteFill \in Nat /\ desc[p].remotePackets \in Nat
      /\ desc[p].localFill \in Nat /\ desc[p].closeInitiated \in BOOLEAN
  BY <1>1
<1>4. DescType'
  BY <1>1, <1>2, <1>3, DescEffect
<1> QED BY <1>1, <1>2, <1>4 DEF DescBecomes

LEMMA DescFilled ==
  ASSUME DescType, NEW p \in Peers, NEW x \in Nat,
         desc' = [desc EXCEPT ![p].localFill = x]
  PROVE  DescBecomes(p, desc[p].open, desc[p].writeSize, desc[p].readSize, desc[p].remoteFill,
                     desc[p].remotePackets, x, desc[p].closeInitiated)
<1>1. /\ desc' = [q \in Peers |-> desc'[q]] /\ \A q \in Peers : q # p => desc'[q] = desc[q]
      /\ desc[p] \in [open : BOOLEAN, writeSize : Nat, readSize : Nat, remoteFill : Nat,
                      remotePackets : Nat, localFill : Nat, closeInitiated : BOOLEAN]
  BY DEF DescType
<1>2. desc'[p] = [open |-> desc[p].open, writeSize |-> desc[p].writeSize, readSize |->
                        desc[p].readSize, remoteFill |->
                        desc[p].remoteFill, remotePackets |->
                        desc[p].remotePackets, localFill |-> x,
                        closeInitiated |-> desc[p].closeInitiated]
  BY DEF DescType
<1>3. /\ desc[p].open \in BOOLEAN /\ desc[p].writeSize \in Nat /\ desc[p].readSize \in Nat
      /\ desc[p].remoteFill \in Nat /\ desc[p].remotePackets \in Nat
      /\ desc[p].localFill \in Nat /\ desc[p].closeInitiated \in BOOLEAN
  BY <1>1
<1>4. DescType'
  BY <1>1, <1>2, <1>3, DescEffect
<1> QED BY <1>1, <1>2, <1>4 DEF DescBecomes

LEMMA DescClosing ==
  ASSUME DescType, NEW p \in Peers,
         desc' = [desc EXCEPT ![p].closeInitiated = TRUE]
  PROVE  DescBecomes(p, desc[p].open, desc[p].writeSize, desc[p].readSize, desc[p].remoteFill,
                     desc[p].remotePackets, desc[p].localFill, TRUE)
<1>1. /\ desc' = [q \in Peers |-> desc'[q]] /\ \A q \in Peers : q # p => desc'[q] = desc[q]
      /\ desc[p] \in [open : BOOLEAN, writeSize : Nat, readSize : Nat, remoteFill : Nat,
                      remotePackets : Nat, localFill : Nat, closeInitiated : BOOLEAN]
  BY DEF DescType
<1>2. desc'[p] = [open |-> desc[p].open, writeSize |-> desc[p].writeSize, readSize |->
                        desc[p].readSize, remoteFill |->
                        desc[p].remoteFill, remotePackets |->
                        desc[p].remotePackets, localFill |->
                        desc[p].localFill, closeInitiated |-> TRUE]
  BY DEF DescType
<1>3. /\ desc[p].open \in BOOLEAN /\ desc[p].writeSize \in Nat /\ desc[p].readSize \in Nat
      /\ desc[p].remoteFill \in Nat /\ desc[p].remotePackets \in Nat
      /\ desc[p].localFill \in Nat /\ desc[p].closeInitiated \in BOOLEAN
  BY <1>1
<1>4. DescType'
  BY <1>1, <1>2, <1>3, DescEffect
<1> QED BY <1>1, <1>2, <1>4 DEF DescBecomes

LEMMA DescReadGone ==
  ASSUME DescType, NEW p \in Peers, NEW x \in BOOLEAN, NEW y \in BOOLEAN,
         desc' = [desc EXCEPT ![p].readSize = 0,
                               ![p].closeInitiated = x,
                               ![p].open = y]
  PROVE  DescBecomes(p, y, desc[p].writeSize, 0, desc[p].remoteFill, desc[p].remotePackets,
                     desc[p].localFill, x)
<1>1. /\ desc' = [q \in Peers |-> desc'[q]] /\ \A q \in Peers : q # p => desc'[q] = desc[q]
      /\ desc[p] \in [open : BOOLEAN, writeSize : Nat, readSize : Nat, remoteFill : Nat,
                      remotePackets : Nat, localFill : Nat, closeInitiated : BOOLEAN]
  BY DEF DescType
<1>2. desc'[p] = [open |-> y, writeSize |-> desc[p].writeSize, readSize |-> 0,
                        remoteFill |-> desc[p].remoteFill,
                        remotePackets |-> desc[p].remotePackets,
                        localFill |-> desc[p].localFill,
                        closeInitiated |-> x]
  <2>1. desc'[p] = [desc[p] EXCEPT !.readSize = 0, !.closeInitiated = x, !.open = y]
    BY DEF DescType
  <2> QED BY <1>1, <2>1
<1>3. /\ desc[p].open \in BOOLEAN /\ desc[p].writeSize \in Nat /\ desc[p].readSize \in Nat
      /\ desc[p].remoteFill \in Nat /\ desc[p].remotePackets \in Nat
      /\ desc[p].localFill \in Nat /\ desc[p].closeInitiated \in BOOLEAN
  BY <1>1
<1>4. DescType'
  BY ZenonT(30), <1>1, <1>2, <1>3, DescEffect
<1> QED BY <1>1, <1>2, <1>4 DEF DescBecomes

LEMMA DescWriteGone ==
  ASSUME DescType, NEW p \in Peers, NEW x \in BOOLEAN,
         desc' = [desc EXCEPT ![p].writeSize = 0,
                               ![p].open = x]
  PROVE  DescBecomes(p, x, 0, desc[p].readSize, desc[p].remoteFill, desc[p].remotePackets,
                     desc[p].localFill, desc[p].closeInitiated)
<1>1. /\ desc' = [q \in Peers |-> desc'[q]] /\ \A q \in Peers : q # p => desc'[q] = desc[q]
      /\ desc[p] \in [open : BOOLEAN, writeSize : Nat, readSize : Nat, remoteFill : Nat,
                      remotePackets : Nat, localFill : Nat, closeInitiated : BOOLEAN]
  BY DEF DescType
<1>2. desc'[p] = [open |-> x, writeSize |-> 0, readSize |-> desc[p].readSize,
                        remoteFill |-> desc[p].remoteFill,
                        remotePackets |-> desc[p].remotePackets,
                        localFill |-> desc[p].localFill,
                        closeInitiated |-> desc[p].closeInitiated]
  BY ZenonT(30) DEF DescType
<1>3. /\ desc[p].open \in BOOLEAN /\ desc[p].writeSize \in Nat /\ desc[p].readSize \in Nat
      /\ desc[p].remoteFill \in Nat /\ desc[p].remotePackets \in Nat
      /\ desc[p].localFill \in Nat /\ desc[p].closeInitiated \in BOOLEAN
  BY <1>1
<1>4. DescType'
  BY <1>1, <1>2, <1>3, DescEffect
<1> QED BY <1>1, <1>2, <1>4 DEF DescBecomes

LEMMA TypesByServeCall ==
  ASSUME TypeOK, LocalKept, CallsKept, StoreKept, CreditCovers, NEW p \in Peers, ServeCall(p)
  PROVE  TypeOK'
<1>1. PICK t \in Threads :
           /\ ServesCall(p, t)
           /\ \/ CallAborts(p) \/ CallPasses(p, t) \/ WriteSent(p, t) \/ ReadGiven(p, t)
              \/ ReleaseSent(p, t) \/ CloseBlocked(p, t) \/ CloseSent(p, t)
  BY ServeCallCases
<1>2. DescType /\ CallType /\ StoreType /\ QueueType /\ RestType
  BY TypeParts
<1>3. local' \in [Peers -> Seq(Threads)] /\ remote' \in [Peers -> Seq(Messages)]
      /\ crossed' \in BOOLEAN
  <2>1. local' = local \/ (local[p] # <<>> /\ local' = [local EXCEPT ![p] = Tail(@)])
    BY <1>1 DEF ServesCall, Taken
  <2>2. local' \in [Peers -> Seq(Threads)]
    <3>1. local \in [Peers -> Seq(Threads)] /\ local[p] \in Seq(Threads)
      BY <1>2 DEF QueueType
    <3>2. local[p] # <<>> => Tail(local[p]) \in Seq(Threads)
      BY <3>1
    <3> QED BY <2>1, <3>1, <3>2
  <2> QED BY <1>1, <1>2, <2>2 DEF ServesCall, QueueType, RestType
<1>4. CASE CallAborts(p)
  <2>1. UNCHANGED <<desc, call, store, link, sent, got, closing>> /\ aborted' \subseteq Peers
    BY <1>2, <1>4 DEF CallAborts, RestType
  <2> QED BY <1>2, <1>3, <2>1, TypePartsNext
            DEF DescType, CallType, StoreType, QueueType, RestType
<1>5. CASE CallPasses(p, t)
  <2>1. UNCHANGED <<desc, store, link, sent, got, closing, aborted>> /\ CallType'
    BY <1>5 DEF CallPasses, Becomes
  <2> QED BY <1>2, <1>3, <2>1, TypePartsNext
            DEF DescType, StoreType, QueueType, RestType
<1>6. CASE WriteSent(p, t)
  <2>1. /\ UNCHANGED <<store, got, closing, aborted>> /\ CallType'
        /\ link' \in [Peers -> Seq(Messages)]
        /\ sent' = [sent EXCEPT ![p] = @ + 1]
        /\ desc' = [desc EXCEPT ![p].remoteFill = @ + call[t].size, ![p].remotePackets = @ + 1]
    BY <1>6 DEF WriteSent, Becomes, Sends
  <2>2. sent' \in [Peers -> Nat]
    BY <1>2, <2>1 DEF RestType
  <2>3. call[t].size \in Nat
    BY <1>2 DEF CallType
  <2>4. desc[p].remoteFill + call[t].size \in Nat /\ desc[p].remotePackets + 1 \in Nat
    BY <1>2, <2>3 DEF DescType
  <2>5. DescType'
    BY <1>2, <2>1, <2>4, DescCredit DEF DescBecomes
  <2> QED BY <1>2, <1>3, <2>1, <2>2, <2>5, TypePartsNext DEF StoreType, QueueType, RestType
<1>7. CASE ReadGiven(p, t)
  <2>1. /\ UNCHANGED <<desc, link, sent, closing, aborted>> /\ CallType'
        /\ store[p].unread # <<>>
        /\ store' = [store EXCEPT ![p].unread = Tail(@),
                                  ![p].blocked = Append(@, Head(store[p].unread))]
        /\ got' = [got EXCEPT ![p] = Append(@, Head(store[p].unread).id)]
    BY <1>7 DEF ReadGiven, Becomes
  <2>2. /\ store[p].unread \in Seq(Packets) /\ Head(store[p].unread) \in Packets
        /\ Tail(store[p].unread) \in Seq(Packets)
        /\ store[p].blocked \in Seq(Packets)
        /\ Head(store[p].unread).id \in Nat
    BY <1>2, <2>1, MessageFields DEF StoreType
  <2>3. Append(store[p].blocked, Head(store[p].unread)) \in Seq(Packets)
    BY <2>2
  <2>4. StoreType'
    BY ZenonT(30), <1>2, <2>1, <2>2, <2>3 DEF StoreType
  <2>5. got' \in [Peers -> Seq(Nat)]
    BY <1>2, <2>1, <2>2 DEF RestType
  <2> QED BY <1>2, <1>3, <2>1, <2>4, <2>5, TypePartsNext DEF DescType, QueueType, RestType
<1>8. CASE ReleaseSent(p, t)
  <2>1. /\ UNCHANGED <<sent, got, closing, aborted>> /\ CallType'
        /\ link' \in [Peers -> Seq(Messages)]
        /\ store[p].blocked # <<>>
        /\ store' = [store EXCEPT ![p].blocked = Tail(@)]
        /\ desc' = [desc EXCEPT ![p].localFill = @ - Head(store[p].blocked).size]
    BY <1>8 DEF ReleaseSent, Becomes, Sends
  <2>2. Tail(store[p].blocked) \in Seq(Packets)
    BY <1>2, <2>1 DEF StoreType
  <2>3. StoreType'
    BY <1>2, <2>1, <2>2 DEF StoreType
  <2>4. desc[p].localFill - Head(store[p].blocked).size \in Nat
    BY <2>1, Covered
  <2>5. DescType'
    BY <1>2, <2>1, <2>4, DescFilled DEF DescBecomes
  <2> QED BY <1>2, <1>3, <2>1, <2>3, <2>5, TypePartsNext DEF QueueType, RestType
<1>9. CASE CloseBlocked(p, t)
  <2>1. /\ UNCHANGED <<store, link, sent, got, closing, aborted>> /\ CallType'
        /\ desc' = [desc EXCEPT ![p].closeInitiated = TRUE]
    BY <1>9 DEF CloseBlocked, Becomes
  <2>2. DescType'
    BY <1>2, <2>1, DescClosing DEF DescBecomes
  <2> QED BY <1>2, <1>3, <2>1, <2>2, TypePartsNext DEF StoreType, QueueType, RestType
<1>10. CASE CloseSent(p, t)
  <2>1. /\ UNCHANGED <<desc, store, sent, got, closing, aborted>> /\ CallType'
        /\ link' \in [Peers -> Seq(Messages)]
    BY <1>10 DEF CloseSent, Becomes, Sends
  <2> QED BY <1>2, <1>3, <2>1, TypePartsNext DEF DescType, StoreType, QueueType, RestType
<1> QED BY <1>1, <1>4, <1>5, <1>6, <1>7, <1>8, <1>9, <1>10

LEMMA TypesByServeMessage ==
  ASSUME TypeOK, MessagesKept, StoreKept, CreditCovers, NEW p \in Peers, ServeMessage(p)
  PROVE  TypeOK'
<1>1. PICK m \in Messages : TakesMessage(p, m) /\ MessageCase(p, m)
  BY ServeMessageCases
<1>2. DescType /\ CallType /\ StoreType /\ QueueType /\ RestType
  BY TypeParts
<1>3. UNCHANGED <<store, local, sent, got, crossed>> /\ remote' \in [Peers -> Seq(Messages)]
  <2>1. remote[p] # <<>> /\ remote' = [remote EXCEPT ![p] = Tail(@)]
    BY <1>1 DEF TakesMessage
  <2> QED BY <1>1, <1>2, <2>1 DEF TakesMessage, QueueType
<1>4. CASE MessageAborts(p, m)
  <2>1. UNCHANGED <<desc, call, link, closing>> /\ aborted' \subseteq Peers
    BY <1>2, <1>4 DEF MessageAborts, RestType
  <2> QED BY <1>2, <1>3, <2>1, TypePartsNext
            DEF DescType, CallType, StoreType, QueueType, RestType
<1>5. ASSUME NEW type, Replies(p, m, type)
      PROVE  link' \in [Peers -> Seq(Messages)] /\ UNCHANGED <<closing, aborted>>
  BY <1>5 DEF Replies, Sends
<1>6. CASE WriteTaken(p, m) \/ CloseOfNothing(p, m)
  <2>1. UNCHANGED desc /\ CallType' /\ link' \in [Peers -> Seq(Messages)]
        /\ UNCHANGED <<closing, aborted>>
    BY <1>2, <1>5, <1>6 DEF WriteTaken, CloseOfNothing, CallType
  <2> QED BY <1>2, <1>3, <2>1, TypePartsNext DEF DescType, StoreType, QueueType, RestType
<1>7. CASE ReleaseTaken(p, m)
  <2>1. /\ desc' = [desc EXCEPT ![p].remoteFill = @ - m.size, ![p].remotePackets = @ - 1]
        /\ CallType' /\ link' \in [Peers -> Seq(Messages)] /\ UNCHANGED <<closing, aborted>>
        /\ m.type = "release_req"
    BY <1>5, <1>7 DEF ReleaseTaken
  <2>2. remote[p] # <<>> /\ m = Head(remote[p])
    BY <1>1 DEF TakesMessage
  <2>3. desc[p].remoteFill - m.size \in Nat /\ desc[p].remotePackets - 1 \in Nat
    <3>1. \A k \in Measures : Credit(k, p) - Unit(k, m) \in Nat
      BY <2>1, <2>2, Covered
    <3> QED BY <3>1 DEF Measures, Credit, Unit
  <2>4. DescType'
    BY <1>2, <2>1, <2>3, DescCredit DEF DescBecomes
  <2> QED BY <1>2, <1>3, <2>1, <2>4, TypePartsNext DEF StoreType, QueueType, RestType
<1>8. CASE CloseRefused(p, m)
  <2>1. /\ desc' = [desc EXCEPT ![p].closeInitiated = TRUE]
        /\ UNCHANGED call /\ link' \in [Peers -> Seq(Messages)] /\ UNCHANGED <<closing, aborted>>
    BY <1>5, <1>8 DEF CloseRefused
  <2>2. DescType'
    BY <1>2, <2>1, DescClosing DEF DescBecomes
  <2> QED BY <1>2, <1>3, <2>1, <2>2, TypePartsNext DEF CallType, StoreType, QueueType, RestType
<1>9. CASE CloseAccepted(p, m)
  <2>1. /\ desc' = [desc EXCEPT ![p].readSize = 0,
                               ![p].closeInitiated = @ /\ desc[p].readSize = 0,
                               ![p].open = desc[p].writeSize # 0]
        /\ UNCHANGED call /\ link' \in [Peers -> Seq(Messages)] /\ UNCHANGED <<closing, aborted>>
    BY <1>5, <1>9 DEF CloseAccepted
  <2>2. /\ (desc[p].closeInitiated /\ desc[p].readSize = 0) \in BOOLEAN
        /\ (desc[p].writeSize # 0) \in BOOLEAN
    OBVIOUS
  <2>3. DescType'
    BY <1>2, <2>1, <2>2, DescReadGone DEF DescBecomes
  <2> QED BY <1>2, <1>3, <2>1, <2>3, TypePartsNext DEF CallType, StoreType, QueueType, RestType
<1>10. CASE Answered(p, m)
  <2>1. CallType' /\ UNCHANGED <<desc, link, closing, aborted>>
    BY <1>10 DEF Answered, Becomes
  <2> QED BY <1>2, <1>3, <2>1, TypePartsNext DEF DescType, StoreType, QueueType, RestType
<1>11. CASE CloseAnswered(p, m)
  <2>1. /\ CallType' /\ UNCHANGED <<link, aborted>>
        /\ closing' = [closing EXCEPT ![p] = "done"]
        /\ desc' = IF desc[p].open
                   THEN [desc EXCEPT ![p].writeSize = 0, ![p].open = desc[p].readSize # 0]
                   ELSE desc
    BY <1>11 DEF CloseAnswered, Becomes
  <2>2. DescType'
    <3>1. CASE desc[p].open
      <4>1. (desc[p].readSize # 0) \in BOOLEAN
        OBVIOUS
      <4> QED BY <1>2, <2>1, <3>1, <4>1, DescWriteGone DEF DescBecomes
    <3>2. CASE ~desc[p].open
      BY <1>2, <2>1, <3>2 DEF DescType
    <3> QED BY <3>1, <3>2
  <2>3. closing' \in [Peers -> {"open", "called", "done"}]
    BY <1>2, <2>1 DEF RestType
  <2> QED BY <1>2, <1>3, <2>1, <2>2, <2>3, TypePartsNext DEF StoreType, QueueType, RestType
<1> QED BY <1>1, <1>4, <1>6, <1>7, <1>8, <1>9, <1>10, <1>11 DEF MessageCase

LEMMA TypesByReceive ==
  ASSUME TypeOK, MessagesKept, NEW p \in Peers, Receive(p)
  PROVE  TypeOK'
<1>1. PICK m \in Messages :
        Receives(p, m) /\ (ArrivalAborts(p, m) \/ Stored(p, m) \/ Queued(p, m))
  BY ReceiveCases
<1>2. DescType /\ CallType /\ StoreType /\ QueueType /\ RestType
  BY TypeParts
<1>3. UNCHANGED <<local, call, sent, got, closing, crossed>> /\ link' \in [Peers -> Seq(Messages)]
      /\ m.size \in Nat
  <2>1. link[p] # <<>> /\ link' = [link EXCEPT ![p] = Tail(@)]
    BY <1>1 DEF Receives
  <2> QED BY <1>1, <1>2, <2>1 DEF Receives, QueueType
<1>4. CASE ArrivalAborts(p, m)
  <2>1. UNCHANGED <<desc, store, remote>> /\ aborted' \subseteq Peers
    BY <1>2, <1>4 DEF ArrivalAborts, RestType
  <2> QED BY <1>2, <1>3, <2>1, TypePartsNext
            DEF DescType, CallType, StoreType, QueueType, RestType
<1>5. CASE Stored(p, m)
  <2>1. /\ desc' = [desc EXCEPT ![p].localFill = @ + m.size]
        /\ store' = [store EXCEPT ![p].unread = Append(@, PacketOf(m))]
        /\ remote' = [remote EXCEPT ![p] = Append(@, m)]
        /\ UNCHANGED aborted
    BY <1>5 DEF Stored
  <2>2. remote' \in [Peers -> Seq(Messages)]
    BY <1>2, <2>1 DEF QueueType
  <2>3. PacketOf(m) \in Packets
    BY MessageFields DEF PacketOf, Packets
  <2>4. Append(store[p].unread, PacketOf(m)) \in Seq(Packets)
    BY <1>2, <2>3 DEF StoreType
  <2>5. StoreType'
    BY <1>2, <2>1, <2>4 DEF StoreType
  <2>6. desc[p].localFill + m.size \in Nat
    BY <1>2, <1>3 DEF DescType
  <2>7. DescType'
    BY <1>2, <2>1, <2>6, DescFilled DEF DescBecomes
  <2> QED BY <1>2, <1>3, <2>1, <2>2, <2>5, <2>7, TypePartsNext DEF CallType, QueueType, RestType
<1>6. CASE Queued(p, m)
  <2>1. remote' = [remote EXCEPT ![p] = Append(@, m)] /\ UNCHANGED <<desc, store, aborted>>
    BY <1>6 DEF Queued
  <2>2. remote' \in [Peers -> Seq(Messages)]
    BY <1>2, <2>1 DEF QueueType
  <2> QED BY <1>2, <1>3, <2>1, <2>2, TypePartsNext DEF DescType, CallType, StoreType, QueueType,
             RestType
<1> QED BY <1>1, <1>4, <1>5, <1>6

-----------------------------------------------------------------------------
(* Messages on their way                                                   *)

LEMMA MessagesIn ==
  ASSUME QueueType, NEW p \in Peers
  PROVE  /\ MessagesTo(p) \subseteq Messages
         /\ \A m \in MessagesTo(p) : m.of \in Threads /\ m.type \in Types /\ m.size \in Nat
<1>1. link[p] \in Seq(Messages) /\ remote[p] \in Seq(Messages)
  BY DEF QueueType
<1>2. MessagesTo(p) \subseteq Messages
  BY <1>1, ElementsOf DEF MessagesTo
<1> QED BY <1>2, MessageFields

\* No message is sent; or m is sent to the other end of p.
NoNews == \A q \in Peers : MessagesTo(q)' \subseteq MessagesTo(q)
News(p, m) ==
  \A q \in Peers : MessagesTo(q)' \subseteq
                     MessagesTo(q) \union (IF q = Other(p) THEN {m} ELSE {})

\* The oldest message of a queue is taken.
Takes(p) ==
  /\ remote[p] # <<>> /\ remote' = [remote EXCEPT ![p] = Tail(@)]

LEMMA SendsNews ==
  ASSUME QueueType, NEW p \in Peers, NEW m, Sends(p, m), UNCHANGED remote \/ Takes(p)
  PROVE  News(p, m)
<1>1. Other(p) \in Peers /\ Other(p) # p /\ \A q \in Peers : q = p \/ q = Other(p)
  BY Ends
<1>2. /\ m \in Messages /\ link'[p] = link[p]
      /\ link'[Other(p)] = Append(link[Other(p)], m)
  BY DEF Sends
<1>3. /\ link[p] \in Seq(Messages) /\ link[Other(p)] \in Seq(Messages)
      /\ remote[p] \in Seq(Messages)
  BY <1>1 DEF QueueType
<1>4. /\ Elements(link'[Other(p)]) = Elements(link[Other(p)]) \union {m}
      /\ Elements(link'[p]) = Elements(link[p])
  BY <1>2, <1>3, ElementsOf
<1>5. /\ remote'[Other(p)] = remote[Other(p)]
      /\ remote'[p] = remote[p] \/ (remote[p] # <<>> /\ remote'[p] = Tail(remote[p]))
  BY <1>1 DEF Takes, QueueType
<1>6. /\ Elements(remote'[Other(p)]) = Elements(remote[Other(p)])
      /\ Elements(remote'[p]) \subseteq Elements(remote[p])
  BY <1>3, <1>5, ElementsOf
<1>7. /\ MessagesTo(p)' \subseteq MessagesTo(p)
      /\ MessagesTo(Other(p))' \subseteq MessagesTo(Other(p)) \union {m}
  <2>1. MessagesTo(p)' = Elements(link'[p]) \union Elements(remote'[p])
    BY DEF MessagesTo, Elements
  <2>2. MessagesTo(Other(p))' = Elements(link'[Other(p)]) \union Elements(remote'[Other(p)])
    BY DEF MessagesTo, Elements
  <2> QED BY <1>4, <1>6, <2>1, <2>2 DEF MessagesTo
<1>8. ASSUME NEW q \in Peers
      PROVE  MessagesTo(q)' \subseteq MessagesTo(q) \union (IF q = Other(p) THEN {m} ELSE {})
  <2>1. CASE q = p
    <3>1. MessagesTo(q)' = MessagesTo(p)'
      BY <2>1 DEF MessagesTo, Elements
    <3> QED BY <1>7, <2>1, <3>1
  <2>2. CASE q = Other(p)
    <3>1. MessagesTo(q)' = Elements(link'[Other(p)]) \union Elements(remote'[Other(p)])
      BY <2>2 DEF MessagesTo, Elements
    <3> QED BY <1>4, <1>6, <2>2, <3>1 DEF MessagesTo
  <2> QED BY <1>1, <2>1, <2>2
<1> QED BY <1>8 DEF News

LEMMA TakesNoNews ==
  ASSUME QueueType, NEW p \in Peers, UNCHANGED link, UNCHANGED remote \/ Takes(p)
  PROVE  NoNews
<1>1. ASSUME NEW q \in Peers
      PROVE  MessagesTo(q)' \subseteq MessagesTo(q)
  <2>1. remote[q] \in Seq(Messages)
    BY DEF QueueType
  <2>2. remote'[q] = remote[q] \/ (remote[q] # <<>> /\ remote'[q] = Tail(remote[q]))
    BY DEF Takes, QueueType
  <2>3. Elements(remote'[q]) \subseteq Elements(remote[q])
    BY <2>1, <2>2, ElementsOf
  <2>4. MessagesTo(q)' = Elements(link[q]) \union Elements(remote'[q])
    BY DEF MessagesTo, Elements
  <2> QED BY <2>3, <2>4 DEF MessagesTo
<1> QED BY <1>1 DEF NoNews

LEMMA ReceivesNoNews ==
  ASSUME QueueType, NEW p \in Peers, NEW m, Receives(p, m),
         UNCHANGED remote \/ remote' = [remote EXCEPT ![p] = Append(@, m)]
  PROVE  NoNews
<1>1. ASSUME NEW q \in Peers
      PROVE  MessagesTo(q)' \subseteq MessagesTo(q)
  <2>1. remote[q] \in Seq(Messages) /\ link[q] \in Seq(Messages) /\ m \in Messages
    BY DEF QueueType, Receives
  <2>2. /\ link'[q] = link[q] \/ (link[q] # <<>> /\ link'[q] = Tail(link[q]) /\ m = Head(link[q]))
        /\ q # p => link'[q] = link[q]
        /\ q = p => m \in Elements(link[q])
    BY <2>1, ElementsOf DEF Receives, QueueType
  <2>3. Elements(link'[q]) \subseteq Elements(link[q])
    BY <2>1, <2>2, ElementsOf
  <2>4. remote'[q] = remote[q] \/ (q = p /\ remote'[q] = Append(remote[q], m))
    BY DEF QueueType
  <2>5. Elements(remote'[q]) \subseteq Elements(remote[q]) \union Elements(link[q])
    <3>1. Elements(Append(remote[q], m)) = Elements(remote[q]) \union {m}
      BY <2>1, ElementsOf
    <3> QED BY ZenonT(30), <2>2, <2>4, <3>1
  <2>6. MessagesTo(q)' = Elements(link'[q]) \union Elements(remote'[q])
    BY DEF MessagesTo, Elements
  <2> QED BY <2>3, <2>5, <2>6 DEF MessagesTo
<1> QED BY <1>1 DEF NoNews

LEMMA CountIn ==
  ASSUME NEW s \in Seq(Messages), NEW t \in Threads
  PROVE  /\ Count(t, s) \in Nat
         /\ \A x \in Elements(s) : x.of = t => Count(t, s) >= 1
         /\ (\A x \in Elements(s) : x.of # t) => Count(t, s) = 0
BY CountHas DEF Elements

LEMMA TracedAt ==
  ASSUME QueueType, NEW p \in Peers, NEW t \in Threads
  PROVE  /\ Traced(t) = (Count(t, link[p]) + Count(t, remote[p]))
                          + (Count(t, link[Other(p)]) + Count(t, remote[Other(p)]))
         /\ Count(t, link[p]) \in Nat /\ Count(t, remote[p]) \in Nat
         /\ Count(t, link[Other(p)]) \in Nat /\ Count(t, remote[Other(p)]) \in Nat
<1>1. /\ link[p] \in Seq(Messages) /\ remote[p] \in Seq(Messages)
      /\ link[Other(p)] \in Seq(Messages) /\ remote[Other(p)] \in Seq(Messages)
  BY Ends DEF QueueType
<1>2. /\ Count(t, link[p]) \in Nat /\ Count(t, remote[p]) \in Nat
      /\ Count(t, link[Other(p)]) \in Nat /\ Count(t, remote[Other(p)]) \in Nat
  BY <1>1, CountIn
<1>3. CASE p = "app"
  BY <1>2, <1>3, Ends DEF Traced
<1>4. CASE p = "device"
  <2>1. Traced(t) = (Count(t, link[Other(p)]) + Count(t, remote[Other(p)]))
                      + (Count(t, link[p]) + Count(t, remote[p]))
    BY <1>4, Ends DEF Traced
  <2> DEFINE a == Count(t, link[p]) + Count(t, remote[p])
             b == Count(t, link[Other(p)]) + Count(t, remote[Other(p)])
  <2>2. a \in Nat /\ b \in Nat /\ Traced(t) = b + a
    BY <1>2, <2>1
  <2> HIDE DEF a, b
  <2>3. Traced(t) = a + b
    BY <2>2
  <2> QED BY <1>2, <2>3 DEF a, b
<1> QED BY <1>2, <1>3, <1>4 DEF Peers

LEMMA TracedAtNext ==
  ASSUME QueueType', NEW p \in Peers, NEW t \in Threads
  PROVE  /\ Traced(t)' = (Count(t, link'[p]) + Count(t, remote'[p]))
                          + (Count(t, link'[Other(p)]) + Count(t, remote'[Other(p)]))
         /\ Count(t, link'[p]) \in Nat /\ Count(t, remote'[p]) \in Nat
         /\ Count(t, link'[Other(p)]) \in Nat /\ Count(t, remote'[Other(p)]) \in Nat
<1>1. /\ link'[p] \in Seq(Messages) /\ remote'[p] \in Seq(Messages)
      /\ link'[Other(p)] \in Seq(Messages) /\ remote'[Other(p)] \in Seq(Messages)
  BY Ends DEF QueueType
<1>2. /\ Count(t, link'[p]) \in Nat /\ Count(t, remote'[p]) \in Nat
      /\ Count(t, link'[Other(p)]) \in Nat /\ Count(t, remote'[Other(p)]) \in Nat
  BY <1>1, CountIn
<1>3. Traced(t)' = (Count(t, link'["app"]) + Count(t, remote'["app"]))
                     + (Count(t, link'["device"]) + Count(t, remote'["device"]))
  BY DEF Traced, Count
<1>4. CASE p = "app"
  BY <1>2, <1>3, <1>4, Ends
<1>5. CASE p = "device"
  <2> DEFINE a == Count(t, link'[p]) + Count(t, remote'[p])
             b == Count(t, link'[Other(p)]) + Count(t, remote'[Other(p)])
  <2>1. a \in Nat /\ b \in Nat /\ Traced(t)' = b + a
    BY <1>2, <1>3, <1>5, Ends
  <2> HIDE DEF a, b
  <2>2. Traced(t)' = a + b
    BY <2>1
  <2> QED BY <1>2, <2>2 DEF a, b
<1> QED BY <1>2, <1>4, <1>5 DEF Peers

\* A thread is traced when a message is on its way for it.
LEMMA TracedFor ==
  ASSUME QueueType, NEW t \in Threads
  PROVE  /\ \A p \in Peers : \A x \in MessagesTo(p) : x.of = t => Traced(t) >= 1
         /\ (\A p \in Peers : \A x \in MessagesTo(p) : x.of # t) => Traced(t) = 0
<1>1. ASSUME NEW p \in Peers, NEW x \in MessagesTo(p), x.of = t
      PROVE  Traced(t) >= 1
  <2>1. link[p] \in Seq(Messages) /\ remote[p] \in Seq(Messages)
    BY DEF QueueType
  <2>2. Count(t, link[p]) >= 1 \/ Count(t, remote[p]) >= 1
    BY <1>1, <2>1, CountIn DEF MessagesTo
  <2> DEFINE a == Count(t, link[p])
             b == Count(t, remote[p])
             c == Count(t, link[Other(p)])
             d == Count(t, remote[Other(p)])
  <2>3. a \in Nat /\ b \in Nat /\ c \in Nat /\ d \in Nat /\ Traced(t) = (a + b) + (c + d)
    BY TracedAt
  <2>4. a >= 1 \/ b >= 1
    BY <2>2
  <2> HIDE DEF a, b, c, d
  <2> QED BY <2>3, <2>4
<1>2. ASSUME \A p \in Peers : \A x \in MessagesTo(p) : x.of # t
      PROVE  Traced(t) = 0
  <2>1. ASSUME NEW p \in Peers
        PROVE  Count(t, link[p]) = 0 /\ Count(t, remote[p]) = 0
    <3>1. link[p] \in Seq(Messages) /\ remote[p] \in Seq(Messages)
      BY DEF QueueType
    <3> QED BY <1>2, <3>1, CountIn DEF MessagesTo
  <2> QED BY <2>1 DEF Traced, Peers
<1> QED BY <1>1, <1>2

LEMMA TracedForNext ==
  ASSUME QueueType', NEW t \in Threads
  PROVE  \A p \in Peers : \A x \in MessagesTo(p)' : x.of = t => Traced(t)' >= 1
<1>1. ASSUME NEW p \in Peers, NEW x \in MessagesTo(p)', x.of = t
      PROVE  Traced(t)' >= 1
  <2>1. link'[p] \in Seq(Messages) /\ remote'[p] \in Seq(Messages)
    BY DEF QueueType
  <2>2. x \in Elements(link'[p]) \/ x \in Elements(remote'[p])
    BY <1>1 DEF MessagesTo, Elements
  <2>3. Count(t, link'[p]) >= 1 \/ Count(t, remote'[p]) >= 1
    BY <1>1, <2>1, <2>2, CountIn
  <2> DEFINE a == Count(t, link'[p])
             b == Count(t, remote'[p])
             c == Count(t, link'[Other(p)])
             d == Count(t, remote'[Other(p)])
  <2>4. a \in Nat /\ b \in Nat /\ c \in Nat /\ d \in Nat /\ Traced(t)' = (a + b) + (c + d)
    BY TracedAtNext
  <2>5. a >= 1 \/ b >= 1
    BY <2>3
  <2> HIDE DEF a, b, c, d
  <2> QED BY <2>4, <2>5
<1> QED BY <1>1

Once(t, m) == IF m.of = t THEN 1 ELSE 0

LEMMA TracedSends ==
  ASSUME QueueType, QueueType', NEW p \in Peers, NEW m, Sends(p, m), NEW t \in Threads,
         NEW n \in Nat,
         remote'[Other(p)] = remote[Other(p)],
         Count(t, remote[p]) = n + Count(t, remote'[p])
  PROVE  n + Traced(t)' = Traced(t) + Once(t, m)
<1> DEFINE a == Count(t, link[p])
           b == Count(t, remote[p])
           c == Count(t, link[Other(p)])
           d == Count(t, remote[Other(p)])
           e == Count(t, remote'[p])
           x == Once(t, m)
<1>1. a \in Nat /\ b \in Nat /\ c \in Nat /\ d \in Nat /\ Traced(t) = (a + b) + (c + d)
  BY TracedAt
<1>2. m \in Messages /\ link'[p] = link[p] /\ link'[Other(p)] = Append(link[Other(p)], m)
  BY DEF Sends
<1>3. link[Other(p)] \in Seq(Messages)
  BY Ends DEF QueueType
<1>4. Count(t, link'[Other(p)]) = c + x
  BY <1>2, <1>3, CountAppend DEF Once
<1>5. e \in Nat /\ x \in Nat /\ Traced(t)' = (a + e) + (Count(t, link'[Other(p)]) + d)
  BY <1>2, TracedAtNext DEF Once
<1>6. Traced(t)' = (a + e) + ((c + x) + d) /\ b = n + e
  BY <1>4, <1>5
<1> HIDE DEF a, b, c, d, e, x
<1>7. n + Traced(t)' = Traced(t) + x
  BY <1>1, <1>5, <1>6
<1> QED BY <1>7 DEF x

LEMMA TracedTakes ==
  ASSUME QueueType, QueueType', NEW p \in Peers, Takes(p), NEW t \in Threads
  PROVE  /\ remote'[Other(p)] = remote[Other(p)]
         /\ Count(t, remote[p]) = Once(t, Head(remote[p])) + Count(t, remote'[p])
<1>1. Other(p) \in Peers /\ Other(p) # p
  BY Ends
<1>2. remote[p] # <<>> /\ remote'[p] = Tail(remote[p]) /\ remote'[Other(p)] = remote[Other(p)]
      /\ remote[p] \in Seq(Messages)
  BY <1>1 DEF Takes, QueueType
<1> QED BY <1>2, CountTail DEF Once

LEMMA TracedAnswered ==
  ASSUME QueueType, QueueType', NEW p \in Peers, Takes(p), UNCHANGED link, NEW t \in Threads
  PROVE  Traced(t) = Once(t, Head(remote[p])) + Traced(t)' /\ Traced(t)' \in Nat
<1> DEFINE a == Count(t, link[p])
           b == Count(t, remote[p])
           c == Count(t, link[Other(p)])
           d == Count(t, remote[Other(p)])
           e == Count(t, remote'[p])
           x == Once(t, Head(remote[p]))
<1>1. a \in Nat /\ b \in Nat /\ c \in Nat /\ d \in Nat /\ Traced(t) = (a + b) + (c + d)
  BY TracedAt
<1>2. e \in Nat /\ x \in Nat /\ b = x + e /\ Traced(t)' = (a + e) + (c + d)
  <2>1. b = x + e /\ remote'[Other(p)] = remote[Other(p)]
    BY TracedTakes
  <2> QED BY <2>1, TracedAtNext DEF Once
<1> HIDE DEF a, b, c, d, e, x
<1>3. Traced(t) = x + Traced(t)' /\ Traced(t)' \in Nat
  BY <1>1, <1>2
<1> QED BY <1>3 DEF x

LEMMA TracedReceives ==
  ASSUME QueueType, QueueType', NEW p \in Peers, NEW m, Receives(p, m), NEW t \in Threads,
         UNCHANGED remote \/ remote' = [remote EXCEPT ![p] = Append(@, m)]
  PROVE  Traced(t)' <= Traced(t)
<1> DEFINE a == Count(t, link[p])
           b == Count(t, remote[p])
           c == Count(t, link[Other(p)])
           d == Count(t, remote[Other(p)])
           e == Count(t, link'[p])
           f == Count(t, remote'[p])
           x == Once(t, m)
<1>1. a \in Nat /\ b \in Nat /\ c \in Nat /\ d \in Nat /\ Traced(t) = (a + b) + (c + d)
  BY TracedAt
<1>2. Other(p) \in Peers /\ Other(p) # p
  BY Ends
<1>3. /\ link[p] # <<>> /\ link'[p] = Tail(link[p]) /\ link'[Other(p)] = link[Other(p)]
      /\ m = Head(link[p]) /\ m \in Messages
      /\ link[p] \in Seq(Messages) /\ remote[p] \in Seq(Messages)
      /\ remote'[Other(p)] = remote[Other(p)]
      /\ remote'[p] = remote[p] \/ remote'[p] = Append(remote[p], m)
  BY <1>2 DEF Receives, QueueType
<1>4. a = x + e
  BY <1>3, CountTail DEF Once
<1>5. f = b \/ f = b + x
  <2>1. Count(t, Append(remote[p], m)) = Count(t, remote[p]) + Once(t, m)
    BY <1>3, CountAppend DEF Once
  <2> QED BY <1>3, <2>1
<1>6. e \in Nat /\ f \in Nat /\ x \in Nat /\ Traced(t)' = (e + f) + (c + d)
  BY <1>3, TracedAtNext DEF Once
<1> HIDE DEF a, b, c, d, e, f, x
<1> QED BY <1>1, <1>4, <1>5, <1>6

-----------------------------------------------------------------------------
(* Messages, local queues and calls are kept                               *)

\* The calls that wait for an answer are left alone.
Steady == \A u \in Threads : call[u].state = "pending" => call'[u] = call[u]

LEMMA ProperKept ==
  ASSUME QueueType, MessagesKept, Steady, NoNews
  PROVE  MessagesKept'
<1>1. ASSUME NEW q \in Peers, NEW x \in MessagesTo(q)'
      PROVE  Proper(q, x)'
  <2>1. x \in MessagesTo(q)
    BY <1>1 DEF NoNews
  <2>2. Proper(q, x) /\ x.of \in Threads
    BY <2>1, MessagesIn DEF MessagesKept
  <2> QED BY <2>2 DEF Proper, Steady
<1> QED BY <1>1 DEF MessagesKept

LEMMA ProperSent ==
  ASSUME QueueType, MessagesKept, Steady, NEW p \in Peers, NEW m, News(p, m),
         EndOf(m.of) = IF m.type \in Requests THEN p ELSE Other(p),
         call'[m.of].op = OpOf[m.type], call'[m.of].state = "pending",
         m.type \in {"write_req", "release_req"} => m.size > 0
  PROVE  MessagesKept'
<1>1. ASSUME NEW q \in Peers, NEW x \in MessagesTo(q)'
      PROVE  Proper(q, x)'
  <2>1. x \in MessagesTo(q) \/ (q = Other(p) /\ x = m)
    BY <1>1 DEF News
  <2>2. CASE x \in MessagesTo(q)
    <3>1. Proper(q, x) /\ x.of \in Threads
      BY <2>2, MessagesIn DEF MessagesKept
    <3> QED BY <3>1 DEF Proper, Steady
  <2>3. CASE q = Other(p) /\ x = m
    BY <2>3, Ends DEF Proper
  <2> QED BY <2>1, <2>2, <2>3
<1> QED BY <1>1 DEF MessagesKept

\* A thread that does not wait for an answer has no message on its way.
LEMMA TracedPending ==
  ASSUME QueueType, MessagesKept, NEW t \in Threads, call[t].state # "pending"
  PROVE  Traced(t) = 0
<1>1. \A p \in Peers : \A x \in MessagesTo(p) : x.of # t
  BY DEF MessagesKept, Proper
<1> QED BY <1>1, TracedFor

LEMMA SentKept ==
  ASSUME QueueType, QueueType', MessagesKept, OneMessageEach, Steady, NEW p \in Peers,
         NEW m, m \in Messages, Sends(p, m), UNCHANGED remote,
         call[m.of].state # "pending",
         EndOf(m.of) = p, m.type \in Requests,
         call'[m.of].op = OpOf[m.type], call'[m.of].state = "pending",
         m.type \in {"write_req", "release_req"} => m.size > 0
  PROVE  MessagesKept' /\ OneMessageEach'
<1>1. MessagesKept'
  BY SendsNews, ProperSent
<1>2. ASSUME NEW t \in Threads
      PROVE  Traced(t)' <= 1
  <2>1. Count(t, remote[p]) = 0 + Count(t, remote'[p]) /\ remote'[Other(p)] = remote[Other(p)]
    <3>1. Count(t, remote[p]) \in Nat
      BY TracedAt
    <3> QED BY <3>1
  <2>2. 0 + Traced(t)' = Traced(t) + Once(t, m) /\ Traced(t)' \in Nat
    <3>1. 0 \in Nat
      OBVIOUS
    <3>2. 0 + Traced(t)' = Traced(t) + Once(t, m)
      BY <2>1, <3>1, TracedSends
    <3>3. Traced(t)' \in Nat
      BY TracedAtNext
    <3> QED BY <3>2, <3>3
  <2>3. Traced(t) \in Nat /\ Traced(t) <= 1
    BY TracedAt DEF OneMessageEach
  <2>4. m.of = t => Traced(t) = 0
    BY TracedPending
  <2> QED BY <2>2, <2>3, <2>4 DEF Once
<1> QED BY <1>1, <1>2 DEF OneMessageEach

LEMMA RepliedKept ==
  ASSUME QueueType, QueueType', MessagesKept, OneMessageEach, Steady, NEW p \in Peers,
         NEW m, TakesMessage(p, m), NEW type, Replies(p, m, type), m.type \in Requests,
         type \notin Requests, OpOf[type] = OpOf[m.type]
  PROVE  MessagesKept' /\ OneMessageEach'
<1> DEFINE r == [m EXCEPT !.type = type]
<1>1. /\ r.of = m.of /\ r.type = type /\ r \in Messages /\ Sends(p, r)
  BY DEF Replies
<1>2. /\ m.of \in Threads /\ EndOf(m.of) = Other(p) /\ call[m.of].op = OpOf[m.type]
      /\ call[m.of].state = "pending" /\ Takes(p) /\ m = Head(remote[p])
  BY DEF TakesMessage, Proper, Takes
<1> HIDE DEF r
<1>3. News(p, r)
  BY <1>1, <1>2, SendsNews
<1>4. MessagesKept'
  <2>1. /\ EndOf(r.of) = IF r.type \in Requests THEN p ELSE Other(p)
        /\ call'[r.of].op = OpOf[r.type] /\ call'[r.of].state = "pending"
        /\ r.type \notin {"write_req", "release_req"}
    BY <1>1, <1>2 DEF Steady, Requests
  <2> QED BY <1>3, <2>1, ProperSent
<1>5. ASSUME NEW t \in Threads
      PROVE  Traced(t)' <= 1
  <2>1. /\ remote'[Other(p)] = remote[Other(p)]
        /\ Count(t, remote[p]) = Once(t, m) + Count(t, remote'[p])
    BY <1>2, TracedTakes
  <2>2. Once(t, m) \in Nat /\ Once(t, r) = Once(t, m)
    BY <1>1 DEF Once
  <2>3. Once(t, m) + Traced(t)' = Traced(t) + Once(t, r)
    BY <1>1, <2>1, <2>2, TracedSends
  <2>4. Traced(t) \in Nat /\ Traced(t) <= 1 /\ Traced(t)' \in Nat
    BY TracedAt, TracedAtNext DEF OneMessageEach
  <2> QED BY <2>2, <2>3, <2>4
<1> QED BY <1>4, <1>5 DEF OneMessageEach

LEMMA AnsweredKept ==
  ASSUME QueueType, QueueType', MessagesKept, OneMessageEach, NEW p \in Peers,
         NEW m, TakesMessage(p, m), UNCHANGED link, Others(m.of)
  PROVE  MessagesKept' /\ OneMessageEach'
<1>1. Takes(p) /\ m = Head(remote[p]) /\ m.of \in Threads
  BY DEF TakesMessage, Takes
<1>2. ASSUME NEW t \in Threads
      PROVE  /\ Traced(t)' <= 1
             /\ t = m.of => Traced(t)' = 0
  <2>1. Traced(t) = Once(t, m) + Traced(t)' /\ Traced(t)' \in Nat /\ Traced(t) <= 1
    BY <1>1, TracedAnswered DEF OneMessageEach
  <2> QED BY <2>1 DEF Once
<1>3. ASSUME NEW q \in Peers, NEW x \in MessagesTo(q)'
      PROVE  Proper(q, x)'
  <2>1. x \in MessagesTo(q)
    BY <1>1, TakesNoNews DEF NoNews
  <2>2. Proper(q, x) /\ x.of \in Threads
    BY <2>1, MessagesIn DEF MessagesKept
  <2>3. Traced(x.of)' >= 1
    BY <2>2, TracedForNext
  <2>4. x.of # m.of
    <3>1. Traced(m.of)' = 0
      BY <1>1, <1>2
    <3>2. ASSUME x.of = m.of
          PROVE  FALSE
      <4>1. Traced(x.of)' = Traced(m.of)'
        BY <3>2 DEF Traced, Count
      <4> QED BY <2>3, <3>1, <4>1
    <3> QED BY <3>2
  <2> QED BY <2>2, <2>4 DEF Proper, Others
<1> QED BY <1>2, <1>3 DEF MessagesKept, OneMessageEach

LEMMA QuietKept ==
  ASSUME QueueType, QueueType', MessagesKept, OneMessageEach, Steady, UNCHANGED <<link, remote>>
  PROVE  MessagesKept' /\ OneMessageEach'
<1>1. NoNews
  BY DEF NoNews, MessagesTo, Elements
<1>2. \A t : Traced(t)' = Traced(t)
  BY DEF Traced, Count
<1> QED BY <1>1, <1>2, ProperKept DEF OneMessageEach

LEMMA ArrivedKept ==
  ASSUME QueueType, QueueType', MessagesKept, OneMessageEach, NEW p \in Peers, NEW m,
         Receives(p, m), UNCHANGED remote \/ remote' = [remote EXCEPT ![p] = Append(@, m)]
  PROVE  MessagesKept' /\ OneMessageEach'
<1>1. NoNews /\ Steady
  BY ReceivesNoNews DEF Receives, Steady
<1>2. ASSUME NEW t \in Threads
      PROVE  Traced(t)' <= 1
  <2>1. Traced(t)' <= Traced(t) /\ Traced(t) <= 1
    BY TracedReceives DEF OneMessageEach
  <2>2. Traced(t) \in Nat
    BY SMTT(30), TracedAt
  <2>3. Traced(t)' \in Nat
    BY SMTT(30), TracedAtNext
  <2> QED BY <2>1, <2>2, <2>3
<1> QED BY <1>1, <1>2, ProperKept DEF OneMessageEach

\* What a thread's call does first.
Entered(t, op, size) ==
  /\ EndOf(t) \in Peers /\ EndOf(t) \notin aborted
  /\ call[t].state = "idle" /\ Others(t)
  /\ call'[t] = [op |-> op, size |-> size, state |-> "queued", owes |-> call[t].owes]
  /\ local' = [local EXCEPT ![EndOf(t)] = Append(@, t)]
  /\ UNCHANGED <<desc, store, remote, link, sent, got, aborted>>

LEMMA EnterEffect ==
  ASSUME TypeOK, NEW t \in Threads, NEW op, NEW size, Enter(t, op, size)
  PROVE  Entered(t, op, size)
<1>1. CallType
  BY TypeParts
<1>2. /\ EndOf(t) \notin aborted /\ call[t].state = "idle"
      /\ call' = [call EXCEPT ![t].op = op, ![t].size = size, ![t].state = "queued"]
      /\ local' = [local EXCEPT ![EndOf(t)] = Append(@, t)]
      /\ UNCHANGED <<desc, store, remote, link, sent, got, aborted>>
  BY DEF Enter, EndOf
<1>3. Others(t)
  BY <1>1, <1>2 DEF Others, CallType
<1>4. call'[t] = [op |-> op, size |-> size, state |-> "queued", owes |-> call[t].owes]
  BY <1>1, <1>2 DEF CallType
<1> QED BY <1>2, <1>3, <1>4, Threading DEF Entered

LEMMA LocalSame ==
  ASSUME LocalKept, QueueType, UNCHANGED local,
         \A u \in Threads : call[u].state = "queued" => call'[u].state = "queued"
  PROVE  LocalKept'
<1>1. ASSUME NEW p \in Peers, NEW k \in DOMAIN local[p]
      PROVE  EndOf(local[p][k]) = p /\ call'[local[p][k]].state = "queued"
  <2>1. local[p][k] \in Threads
    BY DEF QueueType
  <2> QED BY <2>1 DEF LocalKept
<1> QED BY <1>1 DEF LocalKept

LEMMA LocalEntered ==
  ASSUME LocalKept, QueueType, NEW t \in Threads, NEW op, NEW size, Entered(t, op, size)
  PROVE  LocalKept'
<1>1. EndOf(t) \in Peers /\ local \in [Peers -> Seq(Threads)]
  BY DEF Entered, QueueType
<1>2. ASSUME NEW p \in Peers
      PROVE  /\ \A k \in DOMAIN local'[p] :
                  EndOf(local'[p][k]) = p /\ call'[local'[p][k]].state = "queued"
             /\ \A j, k \in DOMAIN local'[p] : local'[p][j] = local'[p][k] => j = k
  <2>1. /\ \A k \in DOMAIN local[p] : EndOf(local[p][k]) = p /\ call[local[p][k]].state = "queued"
        /\ \A j, k \in DOMAIN local[p] : local[p][j] = local[p][k] => j = k
        /\ local[p] \in Seq(Threads)
    BY <1>1 DEF LocalKept
  <2>2. \A k \in DOMAIN local[p] : local[p][k] # t /\ call'[local[p][k]].state = "queued"
    <3>1. \A k \in DOMAIN local[p] : local[p][k] \in Threads
      BY <2>1
    <3> QED BY <2>1, <3>1 DEF Entered, Others
  <2>3. CASE p = EndOf(t)
    <3> DEFINE s == local[p]
               r == Append(s, t)
               n == Len(s) + 1
    <3>1. local'[p] = r
      BY <1>1, <2>3 DEF Entered
    <3>2. /\ \A k \in DOMAIN s : k \in DOMAIN r /\ r[k] = s[k]
          /\ r[n] = t /\ \A k \in DOMAIN r : k = n \/ k \in DOMAIN s
      BY <2>1
    <3> HIDE DEF r, s, n
    <3>3. call'[t].state = "queued"
      BY DEF Entered
    <3>4. /\ \A k \in DOMAIN s : /\ EndOf(s[k]) = p /\ call'[s[k]].state = "queued"
                                 /\ s[k] # t
          /\ \A j, k \in DOMAIN s : s[j] = s[k] => j = k
      BY <2>1, <2>2 DEF s
    <3>5. ASSUME NEW k \in DOMAIN r PROVE EndOf(r[k]) = p /\ call'[r[k]].state = "queued"
      BY <2>3, <3>2, <3>3, <3>4
    <3>6. ASSUME NEW j \in DOMAIN r, NEW k \in DOMAIN r, r[j] = r[k] PROVE j = k
      BY <3>2, <3>4, <3>6
    <3> QED BY <3>1, <3>5, <3>6
  <2>4. CASE p # EndOf(t)
    <3>1. local'[p] = local[p]
      BY <1>1, <2>4 DEF Entered
    <3> QED BY <2>1, <2>2, <3>1
  <2> QED BY <2>3, <2>4
<1> QED BY <1>2 DEF LocalKept

LEMMA LocalTaken ==
  ASSUME LocalKept, QueueType, NEW p \in Peers, NEW t \in Threads, ServesCall(p, t),
         Others(t)
  PROVE  LocalKept'
<1>1. CASE call[t].state = "queued"
  <2>1. /\ local[p] # <<>> /\ t = Head(local[p]) /\ local' = [local EXCEPT ![p] = Tail(@)]
        /\ local \in [Peers -> Seq(Threads)]
    BY <1>1 DEF ServesCall, Taken, QueueType
  <2>2. ASSUME NEW q \in Peers
        PROVE  /\ \A k \in DOMAIN local'[q] :
                    EndOf(local'[q][k]) = q /\ call'[local'[q][k]].state = "queued"
               /\ \A j, k \in DOMAIN local'[q] : local'[q][j] = local'[q][k] => j = k
    <3>1. /\ \A k \in DOMAIN local[q] : EndOf(local[q][k]) = q /\ call[local[q][k]].state = "queued"
          /\ \A j, k \in DOMAIN local[q] : local[q][j] = local[q][k] => j = k
          /\ local[q] \in Seq(Threads)
      BY <2>1 DEF LocalKept
    <3>2. CASE q = p
      <4> DEFINE s == local[p]
                 r == Tail(s)
      <4>1. local'[q] = r
        BY <2>1, <3>2
      <4>2. /\ \A k \in DOMAIN r : k + 1 \in DOMAIN s /\ k + 1 # 1 /\ r[k] = s[k + 1]
            /\ \A j, k \in DOMAIN r : j + 1 = k + 1 => j = k
            /\ t = s[1] /\ 1 \in DOMAIN s
        BY SMTT(30), <2>1, <3>1, <3>2
      <4>3. \A k \in DOMAIN s : s[k] \in Threads
        BY <3>1, <3>2
      <4> HIDE DEF r, s
      <4>4. ASSUME NEW k \in DOMAIN r
            PROVE  EndOf(r[k]) = q /\ call'[r[k]].state = "queued"
        <5>1. r[k] = s[k + 1] /\ k + 1 \in DOMAIN s /\ k + 1 # 1
          BY <4>2
        <5>2. s[k + 1] # t /\ s[k + 1] \in Threads
          BY <3>1, <3>2, <4>2, <4>3, <5>1 DEF s
        <5>3. EndOf(s[k + 1]) = q /\ call[s[k + 1]].state = "queued"
          BY <3>1, <3>2, <5>1 DEF s
        <5> QED BY <5>1, <5>2, <5>3 DEF Others
      <4>5. ASSUME NEW j \in DOMAIN r, NEW k \in DOMAIN r, r[j] = r[k]
            PROVE  j = k
        <5>1. s[j + 1] = s[k + 1] /\ j + 1 \in DOMAIN s /\ k + 1 \in DOMAIN s
          BY <4>2, <4>5
        <5>2. j + 1 = k + 1
          BY <3>1, <3>2, <5>1 DEF s
        <5> QED BY <4>2, <5>2
      <4> QED BY <4>1, <4>4, <4>5
    <3>3. CASE q # p
      <4>1. local'[q] = local[q]
        BY <2>1, <3>3
      <4>2. \A k \in DOMAIN local[q] : local[q][k] \in Threads
        BY <3>1
      <4>3. \A k \in DOMAIN local[q] : local[q][k] # t
        BY <3>1, <3>3 DEF ServesCall
      <4>4. \A k \in DOMAIN local[q] : call'[local[q][k]] = call[local[q][k]]
        BY <4>2, <4>3 DEF Others
      <4> QED BY <3>1, <4>1, <4>4
    <3> QED BY <3>2, <3>3
  <2> QED BY <2>2 DEF LocalKept
<1>2. CASE call[t].state # "queued"
  <2>1. UNCHANGED local
    BY <1>2 DEF ServesCall, Taken
  <2> QED BY <1>2, <2>1, LocalSame DEF Others
<1> QED BY <1>1, <1>2

LEMMA CallsSame ==
  ASSUME CallsKept, UNCHANGED <<call, closing>>
  PROVE  CallsKept'
BY DEF CallsKept, CallKept

LEMMA CallsEntered ==
  ASSUME CallsKept, TypeOK, NEW t \in Threads, NEW op, NEW size, Entered(t, op, size),
         op \in {"write", "read", "release", "close"},
         op = "write" => size \in Sizes, op = "read" => call[t].owes = 0,
         op = "release" => call[t].owes = 1,
         IF op = "close" THEN /\ closing[EndOf(t)] = "open"
                              /\ closing' = [closing EXCEPT ![EndOf(t)] = "called"]
         ELSE UNCHANGED closing
  PROVE  CallsKept'
<1>1. /\ EndOf(t) \in Peers /\ closing \in [Peers -> {"open", "called", "done"}]
      /\ \A u \in Threads : EndOf(u) \in Peers
  BY Threading DEF TypeOK
<1>2. /\ call'[t].op = op /\ call'[t].size = size /\ call'[t].state = "queued"
      /\ call'[t].owes = call[t].owes
      /\ \A u \in Threads : u # t => call'[u] = call[u]
  BY DEF Entered, Others
<1>3. op = "close" => \A u \in Threads : call[u].op = "close" => EndOf(u) # EndOf(t)
  BY DEF CallsKept, CallKept
<1>4. ASSUME NEW u \in Threads
      PROVE  CallKept(u)'
  <2>1. CASE u = t
    <3>1. op = "close" => closing'[EndOf(t)] = "called"
      BY <1>1
    <3> QED BY <1>2, <2>1, <3>1 DEF CallKept
  <2>2. CASE u # t
    <3>1. CallKept(u) /\ call'[u] = call[u]
      BY <1>2, <2>2 DEF CallsKept
    <3>2. call[u].op = "close" => closing'[EndOf(u)] = "called"
      BY <1>1, <1>3, <3>1 DEF CallKept
    <3> QED BY <3>1, <3>2 DEF CallKept
  <2> QED BY <2>1, <2>2
<1>5. ASSUME NEW u \in Threads, NEW v \in Threads,
             call'[u].op = "close", call'[v].op = "close", EndOf(u) = EndOf(v)
      PROVE  u = v
  BY <1>2, <1>3, <1>5 DEF CallsKept
<1> QED BY <1>4, <1>5 DEF CallsKept

\* One call goes on or ends; the last answer to a close marks the end as closed.
LEMMA CallsBecome ==
  ASSUME CallsKept, TypeOK, NEW t \in Threads, NEW op, NEW state, NEW owes,
         Becomes(t, op, state, owes),
         op = "none" <=> state = "idle", op \in {"none", call[t].op},
         op = "read" => owes = 0, op = "release" /\ state # "pending" => owes = 1,
         \/ UNCHANGED closing
         \/ /\ op = "none" /\ call[t].op = "close"
            /\ closing' = [closing EXCEPT ![EndOf(t)] = "done"]
  PROVE  CallsKept'
<1>1. /\ EndOf(t) \in Peers /\ closing \in [Peers -> {"open", "called", "done"}]
      /\ \A u \in Threads : EndOf(u) \in Peers
  BY Threading DEF TypeOK
<1>2. /\ call'[t].op = op /\ call'[t].state = state /\ call'[t].owes = owes
      /\ op # "none" => call'[t].size = call[t].size
      /\ \A u \in Threads : u # t => call'[u] = call[u]
  BY DEF Becomes, Others
<1>3. ASSUME NEW u \in Threads
      PROVE  CallKept(u)'
  <2>1. CallKept(u) /\ CallKept(t)
    BY DEF CallsKept
  <2>2. CASE u = t
    BY <1>2, <2>1, <2>2 DEF CallKept
  <2>3. CASE u # t
    <3>1. call'[u] = call[u]
      BY <1>2, <2>3
    <3>2. call[u].op = "close" => closing'[EndOf(u)] = closing[EndOf(u)]
      BY <1>1, <2>3 DEF CallsKept
    <3> QED BY <2>1, <3>1, <3>2 DEF CallKept
  <2> QED BY <2>2, <2>3
<1>4. ASSUME NEW u \in Threads, NEW v \in Threads,
             call'[u].op = "close", call'[v].op = "close", EndOf(u) = EndOf(v)
      PROVE  u = v
  <2>1. call[u].op = "close" /\ call[v].op = "close"
    BY <1>2, <1>4
  <2> QED BY <1>4, <2>1 DEF CallsKept
<1> QED BY <1>3, <1>4 DEF CallsKept

LEMMA CallsUnblocked ==
  ASSUME CallsKept, CallType, NEW p, NEW ops, Unblocks(p, ops), UNCHANGED closing
  PROVE  /\ CallsKept' /\ Steady
         /\ \A u \in Threads : call[u].state = "queued" => call'[u].state = "queued"
         /\ \A u \in Threads : call'[u].op = call[u].op /\ call'[u].owes = call[u].owes
<1>1. ASSUME NEW u \in Threads
      PROVE  /\ call'[u].op = call[u].op /\ call'[u].size = call[u].size
             /\ call'[u].owes = call[u].owes
             /\ \/ call'[u] = call[u]
                \/ call[u].state = "blocked" /\ call'[u].state = "ready"
  <2>1. CallKept(u)
    BY DEF CallsKept
  <2>2. CASE call'[u] = call[u]
    BY <2>2
  <2>3. CASE call[u].state = "blocked" /\ call'[u] = [call[u] EXCEPT !.state = "ready"]
    BY <2>3 DEF CallType
  <2> QED BY <2>2, <2>3 DEF Unblocks
<1>2. ASSUME NEW u \in Threads
      PROVE  CallKept(u)'
  <2>1. CallKept(u)
    BY DEF CallsKept
  <2> QED BY <1>1, <2>1 DEF CallKept
<1> QED BY <1>1, <1>2 DEF CallsKept, Steady

LEMMA ControlByApplication ==
  ASSUME TypeOK, TypeOK', Control, NEW t \in Threads, Application(t)
  PROVE  Control'
<1>1. QueueType /\ QueueType' /\ closing \in [Peers -> {"open", "called", "done"}]
      /\ call[t].owes \in 0..1
  BY TypeParts, TypePartsNext DEF TypeOK
<1>2. ASSUME NEW op, NEW size, Entered(t, op, size)
      PROVE  MessagesKept' /\ OneMessageEach' /\ LocalKept'
  <2>1. Steady /\ UNCHANGED <<link, remote>>
    BY <1>2 DEF Entered, Steady, Others
  <2> QED BY <1>1, <1>2, <2>1, QuietKept, LocalEntered DEF Control
<1>3. CASE CallWrite(t)
  <2>1. PICK s \in Sizes : Enter(t, "write", s)
    BY <1>3 DEF CallWrite
  <2>2. Entered(t, "write", s) /\ s > 0 /\ UNCHANGED closing
    BY <1>3, <2>1, EnterEffect DEF CallWrite
  <2>3. CallsKept'
    BY <2>2, CallsEntered DEF Control
  <2> QED BY <1>2, <2>2, <2>3 DEF Control
<1>4. CASE CallRead(t)
  <2>1. Entered(t, "read", 0) /\ call[t].owes = 0 /\ UNCHANGED closing
    BY <1>4, EnterEffect DEF CallRead
  <2>2. CallsKept'
    BY <2>1, CallsEntered DEF Control
  <2> QED BY <1>2, <2>1, <2>2 DEF Control
<1>5. CASE CallRelease(t)
  <2>1. Entered(t, "release", 0) /\ call[t].owes = 1 /\ UNCHANGED closing
    BY <1>1, <1>5, EnterEffect DEF CallRelease
  <2>2. CallsKept'
    BY <2>1, CallsEntered DEF Control
  <2> QED BY <1>2, <2>1, <2>2 DEF Control
<1>6. CASE CallClose(t)
  <2>1. Entered(t, "close", 0) /\ closing[EndOf(t)] = "open"
        /\ closing' = [closing EXCEPT ![EndOf(t)] = "called"]
    BY <1>6, EnterEffect DEF CallClose, EndOf
  <2>2. CallsKept'
    BY <2>1, CallsEntered DEF Control
  <2> QED BY <1>2, <2>1, <2>2 DEF Control
<1> QED BY <1>3, <1>4, <1>5, <1>6 DEF Application

LEMMA ControlByServeCall ==
  ASSUME TypeOK, TypeOK', Control, StoreKept, CreditCovers, NEW p \in Peers, ServeCall(p)
  PROVE  Control'
<1>1. PICK t \in Threads :
           /\ ServesCall(p, t)
           /\ \/ CallAborts(p) \/ CallPasses(p, t) \/ WriteSent(p, t) \/ ReadGiven(p, t)
              \/ ReleaseSent(p, t) \/ CloseBlocked(p, t) \/ CloseSent(p, t)
  BY ServeCallCases DEF Control
<1>2. QueueType /\ QueueType' /\ UNCHANGED remote /\ CallKept(t)
      /\ call[t].state # "pending" /\ EndOf(t) = p /\ call[t].size \in Nat
  BY <1>1, TypeParts, TypePartsNext DEF ServesCall, Control, CallsKept, TypeOK
<1>3. ASSUME Others(t) PROVE LocalKept' /\ Steady
  BY <1>1, <1>2, <1>3, LocalTaken DEF Control, Others, Steady
<1>4. ASSUME NEW op, NEW state, NEW owes, Becomes(t, op, state, owes)
      PROVE  LocalKept' /\ Steady
  BY <1>3, <1>4 DEF Becomes
<1>5. CASE CallAborts(p)
  <2>1. UNCHANGED <<call, link, closing>> /\ Others(t)
    BY <1>5 DEF CallAborts, Others
  <2> QED BY <1>2, <1>3, <2>1, QuietKept, CallsSame DEF Control
<1>6. CASE CallPasses(p, t)
  <2>1. UNCHANGED <<link, closing>>
    BY <1>6 DEF CallPasses
  <2>2. CASE Becomes(t, "none", "idle", call[t].owes)
    <3>1. CallsKept'
      BY <2>1, <2>2, CallsBecome DEF Control
    <3> QED BY <1>2, <1>4, <2>1, <2>2, <3>1, QuietKept DEF Control
  <2>3. CASE /\ call[t].op \in {"read", "write"}
             /\ Becomes(t, call[t].op, "blocked", call[t].owes)
    <3>1. call[t].op # "none" /\ (call[t].op = "read" => call[t].owes = 0)
          /\ call[t].op # "release"
      BY <1>2, <2>3 DEF CallKept
    <3>2. CallsKept'
      BY <2>1, <2>3, <3>1, CallsBecome DEF Control
    <3> QED BY <1>2, <1>4, <2>1, <2>3, <3>2, QuietKept DEF Control
  <2> QED BY <1>6, <2>2, <2>3 DEF CallPasses
<1>7. CASE WriteSent(p, t)
  <2> DEFINE m == [type |-> "write_req", of |-> t, size |-> call[t].size, id |-> sent[p] + 1]
  <2>1. /\ m \in Messages /\ Sends(p, m) /\ Becomes(t, "write", "pending", call[t].owes)
        /\ UNCHANGED closing /\ call[t].op = "write"
    BY <1>7 DEF WriteSent, Sends
  <2>2. /\ m.type = "write_req" /\ m.of = t /\ m.size > 0
        /\ OpOf["write_req"] = "write" /\ m.type \in Requests
    BY <1>2, <2>1 DEF CallKept, OpOf, Types, Requests
  <2> HIDE DEF m
  <2>3. call'[t].op = "write" /\ call'[t].state = "pending"
    BY <2>1 DEF Becomes
  <2>4. MessagesKept' /\ OneMessageEach'
    BY <1>2, <1>4, <2>1, <2>2, <2>3, SentKept DEF Control
  <2>5. CallsKept'
    BY <1>2, <2>1, CallsBecome DEF Control
  <2> QED BY <1>4, <2>1, <2>4, <2>5 DEF Control
<1>8. CASE ReadGiven(p, t)
  <2>1. Becomes(t, "none", "idle", 1) /\ UNCHANGED <<link, closing>>
    BY <1>8 DEF ReadGiven
  <2>2. CallsKept'
    BY <2>1, CallsBecome DEF Control
  <2> QED BY <1>2, <1>4, <2>1, <2>2, QuietKept DEF Control
<1>9. CASE ReleaseSent(p, t)
  <2> DEFINE m == [type |-> "release_req", of |-> t, size |-> Head(store[p].blocked).size,
                   id |-> Head(store[p].blocked).id]
  <2>1. /\ m \in Messages /\ Sends(p, m) /\ Becomes(t, "release", "pending", 0)
        /\ UNCHANGED closing /\ call[t].op = "release" /\ store[p].blocked # <<>>
    BY <1>9 DEF ReleaseSent, Sends
  <2>2. /\ m.type = "release_req" /\ m.of = t /\ m.size > 0
        /\ OpOf["release_req"] = "release" /\ m.type \in Requests
    BY <2>1, Covered DEF OpOf, Types, Requests
  <2> HIDE DEF m
  <2>3. call'[t].op = "release" /\ call'[t].state = "pending"
    BY <2>1 DEF Becomes
  <2>4. MessagesKept' /\ OneMessageEach'
    BY <1>2, <1>4, <2>1, <2>2, <2>3, SentKept DEF Control
  <2>5. CallsKept'
    BY <2>1, CallsBecome DEF Control
  <2> QED BY <1>4, <2>1, <2>4, <2>5 DEF Control
<1>10. CASE CloseBlocked(p, t)
  <2>1. Becomes(t, "close", "blocked", call[t].owes) /\ UNCHANGED <<link, closing>>
        /\ call[t].op = "close"
    BY <1>10 DEF CloseBlocked
  <2>2. CallsKept'
    BY <2>1, CallsBecome DEF Control
  <2> QED BY <1>2, <1>4, <2>1, <2>2, QuietKept DEF Control
<1>11. CASE CloseSent(p, t)
  <2> DEFINE m == [type |-> "close_req", of |-> t, size |-> 0, id |-> 0]
  <2>1. /\ m \in Messages /\ Sends(p, m) /\ Becomes(t, "close", "pending", call[t].owes)
        /\ UNCHANGED closing /\ call[t].op = "close"
    BY <1>11 DEF CloseSent, Sends
  <2>2. /\ m.type = "close_req" /\ m.of = t
        /\ OpOf["close_req"] = "close" /\ m.type \in Requests
    BY DEF OpOf, Types, Requests
  <2> HIDE DEF m
  <2>3. call'[t].op = "close" /\ call'[t].state = "pending"
    BY <2>1 DEF Becomes
  <2>4. MessagesKept' /\ OneMessageEach'
    BY <1>2, <1>4, <2>1, <2>2, <2>3, SentKept DEF Control
  <2>5. CallsKept'
    BY <2>1, CallsBecome DEF Control
  <2> QED BY <1>4, <2>1, <2>4, <2>5 DEF Control
<1> QED BY <1>1, <1>5, <1>6, <1>7, <1>8, <1>9, <1>10, <1>11

LEMMA ControlByServeMessage ==
  ASSUME TypeOK, TypeOK', Control, NEW p \in Peers, ServeMessage(p)
  PROVE  Control'
<1>1. PICK m \in Messages : TakesMessage(p, m) /\ MessageCase(p, m)
  BY ServeMessageCases DEF Control
<1>2. /\ QueueType /\ QueueType' /\ UNCHANGED local /\ Takes(p)
      /\ m.of \in Threads /\ call[m.of].op = OpOf[m.type] /\ call[m.of].state = "pending"
      /\ EndOf(m.of) = IF m.type \in Requests THEN Other(p) ELSE p
      /\ CallType
  BY <1>1, TypeParts, TypePartsNext DEF TakesMessage, Takes, Proper
<1>3. CASE MessageAborts(p, m)
  <2>1. UNCHANGED <<call, link, closing>> /\ Others(m.of)
    BY <1>3 DEF MessageAborts, Others
  <2>2. LocalKept'
    BY <1>2, <2>1, LocalSame DEF Control
  <2>3. CallsKept'
    BY <2>1, CallsSame DEF Control
  <2> QED BY <1>1, <1>2, <2>1, <2>2, <2>3, AnsweredKept DEF Control
<1>4. ASSUME NEW ops, Unblocks(p, ops), UNCHANGED closing
      PROVE  LocalKept' /\ CallsKept' /\ Steady
  <2>1. /\ CallsKept' /\ Steady
        /\ \A u \in Threads : call[u].state = "queued" => call'[u].state = "queued"
    BY <1>2, <1>4, CallsUnblocked DEF Control
  <2> QED BY <1>2, <2>1, LocalSame DEF Control
<1>5. ASSUME NEW type \in Types, Replies(p, m, type), NEW ops, Unblocks(p, ops),
             m.type \in Requests, type \notin Requests, OpOf[type] = OpOf[m.type]
      PROVE  Control'
  <2>1. LocalKept' /\ CallsKept' /\ Steady
    BY <1>4, <1>5 DEF Replies
  <2> QED BY <1>1, <1>2, <1>5, <2>1, RepliedKept DEF Control
<1>6. CASE WriteTaken(p, m)
  <2>1. Replies(p, m, "write_resp") /\ Unblocks(p, {"read"}) /\ m.type = "write_req"
    BY <1>6 DEF WriteTaken
  <2>2. /\ "write_resp" \in Types /\ m.type \in Requests /\ "write_resp" \notin Requests
        /\ OpOf["write_resp"] = OpOf["write_req"]
    BY <2>1 DEF Types, Requests, OpOf
  <2> QED BY <1>5, <2>1, <2>2
<1>7. CASE ReleaseTaken(p, m)
  <2>1. Replies(p, m, "release_resp") /\ Unblocks(p, {"write", "close"}) /\ m.type = "release_req"
    BY <1>7 DEF ReleaseTaken
  <2>2. /\ "release_resp" \in Types /\ m.type \in Requests /\ "release_resp" \notin Requests
        /\ OpOf["release_resp"] = OpOf["release_req"]
    BY <2>1 DEF Types, Requests, OpOf
  <2> QED BY <1>5, <2>1, <2>2
<1>8. CASE CloseRefused(p, m) \/ CloseAccepted(p, m) \/ CloseOfNothing(p, m)
  <2>1. PICK type \in {"close_nack", "close_resp"} : Replies(p, m, type)
    BY <1>8 DEF CloseRefused, CloseAccepted, CloseOfNothing
  <2>2. m.type = "close_req" /\ Unblocks(p, {})
    BY <1>8 DEF CloseRefused, CloseAccepted, CloseOfNothing, Unblocks
  <2>3. /\ type \in Types /\ m.type \in Requests /\ type \notin Requests
        /\ OpOf[type] = OpOf["close_req"]
    BY <2>2 DEF Types, Requests, OpOf
  <2> QED BY <1>5, <2>1, <2>2, <2>3
<1>9. ASSUME Becomes(m.of, "none", "idle", call[m.of].owes), UNCHANGED link
      PROVE  MessagesKept' /\ OneMessageEach' /\ LocalKept'
  <2>1. Others(m.of)
    BY <1>9 DEF Becomes
  <2>2. LocalKept'
    BY <1>2, <2>1, LocalSame DEF Others, Control
  <2> QED BY <1>1, <1>2, <1>9, <2>1, <2>2, AnsweredKept DEF Control
<1>10. CASE Answered(p, m)
  <2>1. Becomes(m.of, "none", "idle", call[m.of].owes) /\ UNCHANGED <<link, closing>>
    BY <1>10 DEF Answered
  <2>2. CallsKept'
    BY <1>2, <2>1, CallsBecome DEF Control
  <2> QED BY <1>9, <2>1, <2>2 DEF Control
<1>11. CASE CloseAnswered(p, m)
  <2>1. Becomes(m.of, "none", "idle", call[m.of].owes) /\ UNCHANGED link
        /\ closing' = [closing EXCEPT ![p] = "done"] /\ m.type \in {"close_resp", "close_nack"}
    BY <1>11 DEF CloseAnswered
  <2>2. EndOf(m.of) = p /\ call[m.of].op = "close"
    BY <1>2, <2>1 DEF Requests, OpOf, Types
  <2>3. closing' = [closing EXCEPT ![EndOf(m.of)] = "done"]
    BY <2>1, <2>2
  <2>4. CallsKept'
    <3> DEFINE u == m.of
    <3>1. /\ u \in Threads /\ Becomes(u, "none", "idle", call[u].owes) /\ call[u].op = "close"
          /\ closing' = [closing EXCEPT ![EndOf(u)] = "done"]
      BY <1>2, <2>1, <2>2, <2>3
    <3> HIDE DEF u
    <3> QED BY <3>1, CallsBecome DEF Control
  <2> QED BY <1>9, <2>1, <2>4 DEF Control
<1> QED BY <1>1, <1>3, <1>6, <1>7, <1>8, <1>10, <1>11 DEF MessageCase

LEMMA ControlByReceive ==
  ASSUME TypeOK, TypeOK', Control, NEW p \in Peers, Receive(p)
  PROVE  Control'
<1>1. PICK m \in Messages :
        Receives(p, m) /\ (ArrivalAborts(p, m) \/ Stored(p, m) \/ Queued(p, m))
  BY ReceiveCases DEF Control
<1>2. QueueType /\ QueueType' /\ UNCHANGED <<local, call, closing>>
  BY <1>1, TypeParts, TypePartsNext DEF Receives
<1>3. UNCHANGED remote \/ remote' = [remote EXCEPT ![p] = Append(@, m)]
  BY <1>1 DEF ArrivalAborts, Stored, Queued
<1>4. MessagesKept' /\ OneMessageEach'
  BY <1>1, <1>2, <1>3, ArrivedKept DEF Control
<1>5. LocalKept'
  BY <1>2, LocalSame DEF Control
<1>6. CallsKept'
  BY <1>2, CallsSame DEF Control
<1> QED BY <1>4, <1>5, <1>6 DEF Control

-----------------------------------------------------------------------------
(* The store, and what is due                                              *)

LEMMA OwingSame ==
  ASSUME \A t \in Threads : call'[t].owes = call[t].owes, NEW p
  PROVE  Owing(p)' = Owing(p)
<1>1. \A t \in ThreadsOf(p) : t \in Threads
  BY DEF ThreadsOf
<1> QED BY <1>1 DEF Owing

LEMMA OwingChanged ==
  ASSUME NEW t \in Threads, Others(t), call[t].owes \in 0..1, call'[t].owes = 1 - call[t].owes
  PROVE  /\ \A q \in Peers : q # EndOf(t) => Owing(q)' = Owing(q)
         /\ Cardinality(Owing(EndOf(t)))' \in Nat /\ Cardinality(Owing(EndOf(t))) \in Nat
         /\ Cardinality(Owing(EndOf(t)))' =
              Cardinality(Owing(EndOf(t))) + (IF call[t].owes = 0 THEN 1 ELSE 0 - 1)
<1> DEFINE p == EndOf(t)
           A == Owing(p)
           B == {u \in ThreadsOf(p) : call'[u].owes = 1}
<1>1. Owing(p)' = B
  BY DEF Owing
<1>2. \A q : \A u : u \in ThreadsOf(q) <=> u \in Threads /\ EndOf(u) = q
  BY DEF ThreadsOf, EndOf
<1>3. ASSUME NEW q \in Peers, q # p PROVE Owing(q)' = Owing(q)
  <2>1. \A u \in ThreadsOf(q) : u # t /\ call'[u] = call[u]
    BY <1>2, <1>3 DEF Others
  <2> QED BY <2>1 DEF Owing
<1>4. A \subseteq Threads /\ B \subseteq Threads
  BY <1>2 DEF Owing
<1>5. IsFiniteSet(A) /\ IsFiniteSet(B)
  BY <1>4, FS_Subset
<1>6. Cardinality(A) \in Nat /\ Cardinality(B) \in Nat
  BY <1>5, FS_CardinalityType
<1>7. t \in ThreadsOf(p) /\ \A u \in ThreadsOf(p) : u # t => call'[u] = call[u]
  BY <1>2 DEF Others
<1>8. CASE call[t].owes = 0
  <2>1. t \notin A /\ B = A \union {t}
    BY <1>7, <1>8 DEF Owing
  <2> HIDE DEF A, B
  <2>2. Cardinality(B) = Cardinality(A) + 1
    BY <1>5, <2>1, FS_AddElement
  <2> QED BY <1>1, <1>3, <1>6, <1>8, <2>2 DEF A
<1>9. CASE call[t].owes = 1
  <2>1. t \in A /\ B = A \ {t}
    BY <1>7, <1>9 DEF Owing
  <2> HIDE DEF A, B
  <2>2. Cardinality(B) = Cardinality(A) - 1
    BY <1>5, <2>1, FS_RemoveElement
  <2> QED BY <1>1, <1>3, <1>6, <1>9, <2>2 DEF A
<1> QED BY <1>8, <1>9

LEMMA StoreSame ==
  ASSUME StoreKept, UNCHANGED store, \A q \in Peers : desc'[q].localFill = desc[q].localFill,
         \A t \in Threads : call'[t].owes = call[t].owes
  PROVE  StoreKept'
<1>1. \A q \in Peers : Owing(q)' = Owing(q)
  BY OwingSame
<1>2. ASSUME NEW q \in Peers
      PROVE  /\ \A x \in Elements(store'[q].unread) \union Elements(store'[q].blocked) : x.size > 0
             /\ desc'[q].localFill = Stock("bytes", q)'
             /\ Cardinality(Owing(q))' = Len(store'[q].blocked)
  <2>1. Stock("bytes", q)' = Stock("bytes", q)
    BY DEF Stock, Weight
  <2> QED BY <1>1, <2>1 DEF StoreKept
<1> QED BY <1>2 DEF StoreKept, Elements

LEMMA StoreRead ==
  ASSUME TypeOK, TypeOK', Control, StoreKept, NEW p \in Peers, NEW t \in Threads,
         ServesCall(p, t), ReadGiven(p, t)
  PROVE  /\ StoreKept'
         /\ \A q \in Peers, k \in Measures : Stock(k, q)' = Stock(k, q)
<1> DEFINE h == Head(store[p].unread)
           u == Tail(store[p].unread)
           b == store[p].blocked
<1>1. /\ store[p].unread # <<>> /\ UNCHANGED desc /\ EndOf(t) = p /\ Others(t)
      /\ call'[t].owes = 1 /\ call[t].owes = 0
      /\ store' = [store EXCEPT ![p].unread = u, ![p].blocked = Append(b, h)]
  BY DEF ReadGiven, Becomes, ServesCall, Control, CallsKept, CallKept
<1>2. StoreType /\ StoreType'
  BY TypeParts, TypePartsNext
<1>3. /\ store[p].unread \in Seq(Packets) /\ b \in Seq(Packets)
      /\ u \in Seq(Packets) /\ h \in Packets /\ h \in Elements(store[p].unread)
      /\ Elements(u) \subseteq Elements(store[p].unread)
      /\ Elements(Append(b, h)) = Elements(b) \union {h} /\ Len(Append(b, h)) = Len(b) + 1
      /\ Len(b) \in Nat
  BY <1>1, <1>2, ElementsOf DEF StoreType
<1>4. /\ store'[p].unread = u /\ store'[p].blocked = Append(b, h)
      /\ \A q \in Peers : q # p => store'[q] = store[q]
  BY <1>1, <1>2 DEF StoreType
<1>5. ASSUME NEW q \in Peers, NEW k \in Measures
      PROVE  Stock(k, q)' = Stock(k, q)
  <2>1. CASE q = p
    <3> DEFINE x == Unit(k, h)
               y == Weight(k, u)
               z == Weight(k, b)
    <3>1. /\ x \in Nat /\ y \in Nat /\ z \in Nat
          /\ Weight(k, store[p].unread) = x + y /\ Weight(k, Append(b, h)) = z + x
      <4>1. Weight(k, store[p].unread) = x + y
        BY <1>1, <1>3, WeightOf, MessageFields
      <4> HIDE DEF h, b, u
      <4>2. x \in Nat /\ z \in Nat /\ Weight(k, Append(b, h)) = z + x
        BY <1>3, WeightOf, MessageFields
      <4>3. y \in Nat
        BY <1>3, WeightOf, MessageFields
      <4> QED BY <4>1, <4>2, <4>3
    <3>2. Stock(k, q) = (x + y) + z /\ Stock(k, q)' = y + (z + x)
      BY <1>4, <2>1, <3>1 DEF Stock, Weight
    <3> HIDE DEF x, y, z
    <3> QED BY <3>1, <3>2
  <2>2. CASE q # p
    BY <1>4, <2>2 DEF Stock, Weight
  <2> QED BY <2>1, <2>2
<1>6. /\ \A q \in Peers : q # p => Owing(q)' = Owing(q)
      /\ Cardinality(Owing(p))' = Cardinality(Owing(p)) + 1
  BY <1>1, OwingChanged
<1> HIDE DEF h, u, b
<1>7. ASSUME NEW q \in Peers
      PROVE  /\ \A x \in Elements(store'[q].unread) \union Elements(store'[q].blocked) : x.size > 0
             /\ desc'[q].localFill = Stock("bytes", q)'
             /\ Cardinality(Owing(q))' = Len(store'[q].blocked)
  <2>1. desc'[q].localFill = Stock("bytes", q)'
    BY <1>1, <1>5 DEF StoreKept, Measures
  <2>2. /\ \A x \in Elements(store[q].unread) \union Elements(store[q].blocked) : x.size > 0
        /\ Cardinality(Owing(q)) = Len(store[q].blocked)
    BY DEF StoreKept
  <2>3. CASE q = p
    <3>1. /\ Elements(store'[q].unread) = Elements(u)
          /\ Elements(store'[q].blocked) = Elements(b) \union {h}
      BY <1>3, <1>4, <2>3
    <3>2. \A x \in Elements(store'[q].unread) \union Elements(store'[q].blocked) : x.size > 0
      BY <1>3, <2>2, <2>3, <3>1 DEF b
    <3>3. Cardinality(Owing(q))' = Len(store'[q].blocked)
      <4>1. Cardinality(Owing(q))' = Cardinality(Owing(p))'
        BY <2>3
      <4> QED BY <1>3, <1>4, <1>6, <2>2, <2>3, <4>1 DEF b
    <3> QED BY <2>1, <3>2, <3>3
  <2>4. CASE q # p
    BY <1>4, <1>6, <2>1, <2>2, <2>4
  <2> QED BY <2>3, <2>4
<1> QED BY <1>5, <1>7 DEF StoreKept, Elements

LEMMA StoreReleased ==
  ASSUME TypeOK, TypeOK', Control, StoreKept, NEW p \in Peers, NEW t \in Threads,
         ServesCall(p, t), ReleaseSent(p, t)
  PROVE  /\ StoreKept'
         /\ \A k \in Measures : Stock(k, p) = Unit(k, Head(store[p].blocked)) + Stock(k, p)'
         /\ store'[Other(p)] = store[Other(p)]
<1> DEFINE h == Head(store[p].blocked)
           u == store[p].unread
           b == Tail(store[p].blocked)
<1>1. /\ store[p].blocked # <<>> /\ EndOf(t) = p /\ Others(t)
      /\ call'[t].owes = 0 /\ call[t].owes = 1
      /\ store' = [store EXCEPT ![p].blocked = b]
      /\ desc' = [desc EXCEPT ![p].localFill = @ - h.size]
  BY DEF ReleaseSent, Becomes, ServesCall, Control, CallsKept, CallKept
<1>2. StoreType /\ StoreType' /\ DescType
  BY TypeParts, TypePartsNext
<1>3. /\ store[p].blocked \in Seq(Packets) /\ b \in Seq(Packets) /\ u \in Seq(Packets)
      /\ h \in Packets /\ Elements(b) \subseteq Elements(store[p].blocked)
      /\ Len(store[p].blocked) = Len(b) + 1 /\ Len(b) \in Nat
  BY <1>1, <1>2, ElementsOf DEF StoreType
<1>4. /\ store'[p].unread = u /\ store'[p].blocked = b
      /\ \A q \in Peers : q # p => store'[q] = store[q]
  BY <1>1, <1>2 DEF StoreType
<1>5. ASSUME NEW k \in Measures
      PROVE  Stock(k, p) = Unit(k, h) + Stock(k, p)' /\ Stock(k, p)' \in Nat /\ Unit(k, h) \in Nat
  <2> DEFINE x == Unit(k, h)
             y == Weight(k, u)
             z == Weight(k, b)
  <2>1. /\ x \in Nat /\ y \in Nat /\ z \in Nat
        /\ Weight(k, store[p].blocked) = x + z
    BY <1>1, <1>3, WeightOf, MessageFields
  <2>2. Stock(k, p) = y + (x + z) /\ Stock(k, p)' = y + z
    BY <1>4, <2>1 DEF Stock, Weight
  <2> HIDE DEF x, y, z
  <2>3. Stock(k, p) = x + Stock(k, p)' /\ Stock(k, p)' \in Nat
    BY <2>1, <2>2
  <2> QED BY <2>1, <2>3 DEF x
<1>6. /\ \A q \in Peers : q # p => Owing(q)' = Owing(q)
      /\ Cardinality(Owing(p))' = Cardinality(Owing(p)) + (0 - 1)
      /\ Cardinality(Owing(p))' \in Nat /\ Cardinality(Owing(p)) \in Nat
  BY <1>1, OwingChanged
<1>7. /\ desc'[p].localFill = desc[p].localFill - h.size /\ desc[p].localFill \in Nat
      /\ \A q \in Peers : q # p => desc'[q] = desc[q]
  BY <1>1, <1>2 DEF DescType
<1>8. h.size \in Nat /\ Unit("bytes", h) = h.size /\ "bytes" \in Measures
  BY <1>3, MessageFields DEF Unit, Measures
<1> HIDE DEF h, u, b
<1>9. ASSUME NEW q \in Peers
      PROVE  /\ \A x \in Elements(store'[q].unread) \union Elements(store'[q].blocked) : x.size > 0
             /\ desc'[q].localFill = Stock("bytes", q)'
             /\ Cardinality(Owing(q))' = Len(store'[q].blocked)
  <2>1. /\ \A x \in Elements(store[q].unread) \union Elements(store[q].blocked) : x.size > 0
        /\ Cardinality(Owing(q)) = Len(store[q].blocked)
        /\ desc[q].localFill = Stock("bytes", q)
    BY DEF StoreKept
  <2>2. CASE q = p
    <3>1. \A x \in Elements(store'[q].unread) \union Elements(store'[q].blocked) : x.size > 0
      BY <1>3, <1>4, <2>1, <2>2 DEF u
    <3>2. desc'[q].localFill = Stock("bytes", q)'
      <4>1. Stock("bytes", p) = h.size + Stock("bytes", p)' /\ Stock("bytes", p)' \in Nat
        BY <1>5, <1>8
      <4>2. desc'[p].localFill = Stock("bytes", p)'
        BY <1>7, <1>8, <2>1, <2>2, <4>1
      <4> QED BY <2>2, <4>2
    <3>3. Cardinality(Owing(q))' = Len(store'[q].blocked)
      <4>1. Cardinality(Owing(q))' = Cardinality(Owing(p))'
        BY <2>2
      <4> QED BY <1>3, <1>4, <1>6, <2>1, <2>2, <4>1
    <3> QED BY <3>1, <3>2, <3>3
  <2>3. CASE q # p
    <3>1. Stock("bytes", q)' = Stock("bytes", q)
      BY <1>4, <2>3 DEF Stock, Weight
    <3> QED BY <1>4, <1>6, <1>7, <2>1, <2>3, <3>1
  <2> QED BY <2>2, <2>3
<1> QED BY <1>4, <1>5, <1>9, Ends DEF StoreKept, Elements, h

LEMMA StoreArrived ==
  ASSUME TypeOK, TypeOK', StoreKept, NEW p \in Peers, NEW m, Receives(p, m), Stored(p, m)
  PROVE  /\ StoreKept'
         /\ \A k \in Measures : Stock(k, p)' = Stock(k, p) + Unit(k, m)
         /\ store'[Other(p)] = store[Other(p)]
<1> DEFINE h == PacketOf(m)
           u == store[p].unread
           b == store[p].blocked
<1>1. /\ m \in Messages /\ m.size > 0 /\ UNCHANGED call
      /\ store' = [store EXCEPT ![p].unread = Append(u, h)]
      /\ desc' = [desc EXCEPT ![p].localFill = @ + m.size]
  BY DEF Stored, Receives, Proper
<1>2. StoreType /\ StoreType' /\ DescType
  BY TypeParts, TypePartsNext
<1>3. h \in Packets /\ h.size = m.size /\ m.size \in Nat
  BY <1>1, MessageFields DEF PacketOf, Packets
<1> HIDE DEF h
<1>4. /\ u \in Seq(Packets) /\ b \in Seq(Packets)
      /\ Elements(Append(u, h)) = Elements(u) \union {h}
  BY <1>2, <1>3, ElementsOf DEF StoreType
<1>5. /\ store'[p].unread = Append(u, h) /\ store'[p].blocked = b
      /\ \A q \in Peers : q # p => store'[q] = store[q]
  BY <1>1, <1>2 DEF StoreType
<1>6. ASSUME NEW k \in Measures
      PROVE  Stock(k, p)' = Stock(k, p) + Unit(k, m) /\ Stock(k, p) \in Nat
  <2> DEFINE x == Unit(k, h)
             y == Weight(k, u)
             z == Weight(k, b)
  <2>1. x \in Nat /\ y \in Nat /\ z \in Nat /\ Weight(k, Append(u, h)) = y + x
    BY <1>3, <1>4, WeightOf, MessageFields
  <2>2. Stock(k, p) = y + z /\ Stock(k, p)' = (y + x) + z
    BY <1>5, <2>1 DEF Stock, Weight
  <2>3. Unit(k, m) = x
    BY <1>3 DEF Unit
  <2> HIDE DEF x, y, z
  <2> QED BY <2>1, <2>2, <2>3
<1>7. \A q \in Peers : Owing(q)' = Owing(q)
  BY <1>1, OwingSame
<1>8. /\ desc'[p].localFill = desc[p].localFill + m.size
      /\ \A q \in Peers : q # p => desc'[q] = desc[q]
  BY <1>1, <1>2 DEF DescType
<1>9. Unit("bytes", m) = m.size /\ "bytes" \in Measures
  BY DEF Unit, Measures
<1> HIDE DEF u, b
<1>10. ASSUME NEW q \in Peers
      PROVE  /\ \A x \in Elements(store'[q].unread) \union Elements(store'[q].blocked) : x.size > 0
             /\ desc'[q].localFill = Stock("bytes", q)'
             /\ Cardinality(Owing(q))' = Len(store'[q].blocked)
  <2>1. /\ \A x \in Elements(store[q].unread) \union Elements(store[q].blocked) : x.size > 0
        /\ Cardinality(Owing(q)) = Len(store[q].blocked)
        /\ desc[q].localFill = Stock("bytes", q)
    BY DEF StoreKept
  <2>2. CASE q = p
    <3>1. \A x \in Elements(store'[q].unread) \union Elements(store'[q].blocked) : x.size > 0
      BY <1>1, <1>3, <1>4, <1>5, <2>1, <2>2 DEF u, b
    <3>2. desc'[q].localFill = Stock("bytes", q)'
      <4>1. Stock("bytes", p)' = Stock("bytes", p) + m.size
        BY <1>6, <1>9
      <4> QED BY <1>8, <2>1, <2>2, <4>1
    <3> QED BY <1>5, <1>7, <2>1, <2>2, <3>1, <3>2 DEF b
  <2>3. CASE q # p
    <3>1. Stock("bytes", q)' = Stock("bytes", q)
      BY <1>5, <2>3 DEF Stock, Weight
    <3> QED BY <1>5, <1>7, <1>8, <2>1, <2>3, <3>1
  <2> QED BY <2>2, <2>3
<1> QED BY <1>5, <1>6, <1>10, Ends DEF StoreKept, Elements

LEMMA DueTermsNext ==
  ASSUME QueueType', StoreType', NEW p \in Peers, NEW k \in Measures
  PROVE  /\ Part(k, link'[Other(p)], "write_req") \in Nat /\ Stock(k, Other(p))' \in Nat
         /\ Part(k, link'[p], "release_req") \in Nat /\ Part(k, remote'[p], "release_req") \in Nat
         /\ Due(k, p)' = (Part(k, link'[Other(p)], "write_req") + Stock(k, Other(p))')
                 + (Part(k, link'[p], "release_req") + Part(k, remote'[p], "release_req"))
         /\ Due(k, p)' \in Nat
<1>1. Other(p) \in Peers
  BY Ends
<1>2. /\ link'[p] \in Seq(Messages) /\ link'[Other(p)] \in Seq(Messages)
      /\ remote'[p] \in Seq(Messages)
      /\ store'[Other(p)].unread \in Seq(Packets) /\ store'[Other(p)].blocked \in Seq(Packets)
  BY <1>1 DEF QueueType, StoreType
<1>3. /\ Part(k, link'[Other(p)], "write_req") \in Nat
      /\ Part(k, link'[p], "release_req") \in Nat /\ Part(k, remote'[p], "release_req") \in Nat
  BY <1>2, PartOf
<1>4. Weight(k, store'[Other(p)].unread) \in Nat /\ Weight(k, store'[Other(p)].blocked) \in Nat
  BY <1>2, WeightOf, MessageFields
<1>5. Stock(k, Other(p))' = Weight(k, store'[Other(p)].unread) + Weight(k, store'[Other(p)].blocked)
  BY DEF Stock, Weight
<1>6. Due(k, p)' = (Part(k, link'[Other(p)], "write_req") + Stock(k, Other(p))')
                 + (Part(k, link'[p], "release_req") + Part(k, remote'[p], "release_req"))
  BY DEF Due, Part, Weight
<1> QED BY <1>3, <1>4, <1>5, <1>6

\* A message is sent by p, which may take a release off its queue, or a packet off its store.
LEMMA DueSends ==
  ASSUME QueueType, StoreType, QueueType', StoreType', NEW p \in Peers, NEW m, Sends(p, m),
         remote'[Other(p)] = remote[Other(p)], store'[Other(p)] = store[Other(p)],
         NEW k \in Measures, NEW n \in Nat, NEW s \in Nat,
         Part(k, remote[p], "release_req") = n + Part(k, remote'[p], "release_req"),
         Stock(k, p) = s + Stock(k, p)'
  PROVE  /\ n + Due(k, p)' = Due(k, p) + Adds(k, m, "write_req")
         /\ s + Due(k, Other(p))' = Due(k, Other(p)) + Adds(k, m, "release_req")
<1> DEFINE o == Other(p)
<1>1. o \in Peers /\ Other(o) = p
  BY Ends
<1>2. m \in Messages /\ link'[p] = link[p] /\ link'[o] = Append(link[o], m)
      /\ link[o] \in Seq(Messages)
  BY <1>1 DEF Sends, QueueType
<1>3. Stock(k, o)' = Stock(k, o)
  BY DEF Stock, Weight
<1> HIDE DEF o
<1> DEFINE a == Part(k, link[o], "write_req")
           b == Stock(k, o)
           c == Part(k, link[p], "release_req")
           d == Part(k, remote[p], "release_req")
           e == Part(k, remote'[p], "release_req")
           x == Adds(k, m, "write_req")
<1>4. /\ a \in Nat /\ b \in Nat /\ c \in Nat /\ d \in Nat /\ e \in Nat /\ x \in Nat
      /\ Due(k, p) = (a + b) + (c + d) /\ Due(k, p)' = ((a + x) + b) + (c + e) /\ d = n + e
  <2>1. a \in Nat /\ b \in Nat /\ c \in Nat /\ d \in Nat /\ e \in Nat /\ x \in Nat
    BY DueTerms, DueTermsNext, <1>2, AddsType DEF o
  <2>2. Due(k, p) = (a + b) + (c + d)
    BY DEF Due, o
  <2>3. Part(k, link'[o], "write_req") = a + x
    BY <1>2, PartOf
  <2>4. Due(k, p)' = (Part(k, link'[o], "write_req") + Stock(k, o)')
                        + (Part(k, link'[p], "release_req") + e)
    BY DueTermsNext DEF o
  <2> QED BY <1>2, <1>3, <2>1, <2>2, <2>3, <2>4
<1> DEFINE f == Part(k, link[p], "write_req")
           g == Stock(k, p)'
           h == Part(k, link[o], "release_req")
           i == Part(k, remote[o], "release_req")
           y == Adds(k, m, "release_req")
<1>5. /\ f \in Nat /\ g \in Nat /\ h \in Nat /\ i \in Nat /\ y \in Nat
      /\ Due(k, o) = (f + (s + g)) + (h + i) /\ Due(k, o)' = (f + g) + ((h + y) + i)
  <2>1. f \in Nat /\ h \in Nat /\ i \in Nat /\ y \in Nat
    BY <1>1, <1>2, DueTerms, AddsType
  <2>2. Due(k, o) = (f + Stock(k, p)) + (h + i)
    BY <1>1 DEF Due
  <2>3. Part(k, link'[o], "release_req") = h + y
    BY <1>2, PartOf
  <2>4. Due(k, o)' = (Part(k, link'[p], "write_req") + Stock(k, Other(o))')
                        + (Part(k, link'[o], "release_req") + Part(k, remote'[o], "release_req"))
    BY <1>1, DueTermsNext
  <2>5. Stock(k, Other(o))' = g
    BY <1>1 DEF Stock
  <2>6. g \in Nat
    BY <1>1, <2>5, DueTermsNext
  <2> QED BY <1>2, <2>1, <2>2, <2>3, <2>4, <2>5, <2>6 DEF o
<1> HIDE DEF a, b, c, d, e, x, f, g, h, i, y
<1>6. n + Due(k, p)' = Due(k, p) + x
  BY <1>4
<1>7. s + Due(k, o)' = Due(k, o) + y
  BY <1>5
<1> QED BY <1>6, <1>7 DEF o, x, y

\* No message is sent.
LEMMA DueStays ==
  ASSUME QueueType, StoreType, QueueType', StoreType', NEW p \in Peers, UNCHANGED link,
         remote'[Other(p)] = remote[Other(p)],
         NEW k \in Measures, NEW n \in Nat,
         Part(k, remote[p], "release_req") = n + Part(k, remote'[p], "release_req"),
         \A q \in Peers : Stock(k, q)' = Stock(k, q)
  PROVE  n + Due(k, p)' = Due(k, p) /\ Due(k, Other(p))' = Due(k, Other(p))
<1> DEFINE o == Other(p)
<1>1. o \in Peers /\ Other(o) = p
  BY Ends
<1>2. Stock(k, p)' = Stock(k, p) /\ Stock(k, o)' = Stock(k, o)
  BY <1>1
<1> DEFINE a == Part(k, link[o], "write_req")
           b == Stock(k, o)
           c == Part(k, link[p], "release_req")
           d == Part(k, remote[p], "release_req")
           e == Part(k, remote'[p], "release_req")
<1>3. /\ a \in Nat /\ b \in Nat /\ c \in Nat /\ d \in Nat /\ e \in Nat
      /\ Due(k, p) = (a + b) + (c + d) /\ Due(k, p)' = (a + b) + (c + e) /\ d = n + e
  <2>1. a \in Nat /\ b \in Nat /\ c \in Nat /\ d \in Nat /\ e \in Nat
    BY DueTerms, DueTermsNext
  <2>2. Due(k, p)' = (Part(k, link'[o], "write_req") + Stock(k, o)')
                        + (Part(k, link'[p], "release_req") + e)
    BY DueTermsNext
  <2> QED BY <1>2, <2>1, <2>2 DEF Due
<1>4. Due(k, o)' = Due(k, o)
  <2>1. Due(k, o)' = (Part(k, link'[p], "write_req") + Stock(k, Other(o))')
                        + (Part(k, link'[o], "release_req") + Part(k, remote'[o], "release_req"))
    BY <1>1, DueTermsNext
  <2>2. Stock(k, Other(o))' = Stock(k, p)
    BY <1>1, <1>2
  <2>3. Due(k, o) = (Part(k, link[p], "write_req") + Stock(k, p))
                        + (Part(k, link[o], "release_req") + Part(k, remote[o], "release_req"))
    BY <1>1 DEF Due
  <2> QED BY <2>1, <2>2, <2>3
<1> HIDE DEF a, b, c, d, e
<1>5. n + Due(k, p)' = Due(k, p)
  BY <1>3
<1> QED BY <1>4, <1>5

\* The oldest message on the link to p is taken: r of it arrives as a release, s as a packet.
LEMMA DueReceives ==
  ASSUME QueueType, StoreType, QueueType', StoreType', NEW p \in Peers, NEW m, Receives(p, m),
         remote'[Other(p)] = remote[Other(p)], store'[Other(p)] = store[Other(p)],
         NEW k \in Measures, NEW r \in Nat, NEW s \in Nat,
         Part(k, remote'[p], "release_req") = Part(k, remote[p], "release_req") + r,
         Stock(k, p)' = Stock(k, p) + s
  PROVE  /\ Due(k, p)' + Adds(k, m, "release_req") = Due(k, p) + r
         /\ Due(k, Other(p))' + Adds(k, m, "write_req") = Due(k, Other(p)) + s
<1> DEFINE o == Other(p)
<1>1. o \in Peers /\ Other(o) = p /\ o # p
  BY Ends
<1>2. /\ m \in Messages /\ m = Head(link[p]) /\ link[p] # <<>> /\ link[p] \in Seq(Messages)
      /\ link'[p] = Tail(link[p]) /\ link'[o] = link[o]
  BY <1>1 DEF Receives, QueueType
<1>3. Stock(k, o)' = Stock(k, o)
  BY DEF Stock, Weight
<1> DEFINE a == Part(k, link[o], "write_req")
           b == Stock(k, o)
           c == Part(k, link'[p], "release_req")
           d == Part(k, remote[p], "release_req")
           x == Adds(k, m, "release_req")
<1>4. /\ a \in Nat /\ b \in Nat /\ c \in Nat /\ d \in Nat /\ x \in Nat
      /\ Due(k, p) = (a + b) + ((x + c) + d) /\ Due(k, p)' = (a + b) + (c + (d + r))
  <2>1. a \in Nat /\ b \in Nat /\ c \in Nat /\ d \in Nat /\ x \in Nat
    BY DueTerms, DueTermsNext, <1>2, AddsType
  <2>2. Part(k, link[p], "release_req") = x + c
    BY <1>2, PartOf
  <2>3. Due(k, p)' = (Part(k, link'[o], "write_req") + Stock(k, o)')
                        + (c + Part(k, remote'[p], "release_req"))
    BY DueTermsNext
  <2> QED BY <1>2, <1>3, <2>1, <2>2, <2>3 DEF Due
<1> DEFINE f == Part(k, link'[p], "write_req")
           g == Stock(k, p)
           h == Part(k, link[o], "release_req")
           i == Part(k, remote[o], "release_req")
           y == Adds(k, m, "write_req")
<1>5. /\ f \in Nat /\ g \in Nat /\ h \in Nat /\ i \in Nat /\ y \in Nat
      /\ Due(k, o) = ((y + f) + g) + (h + i) /\ Due(k, o)' = (f + (g + s)) + (h + i)
  <2>1. g \in Nat /\ h \in Nat /\ i \in Nat /\ y \in Nat
    BY <1>1, <1>2, DueTerms, AddsType
  <2>2. Part(k, link[p], "write_req") = y + f /\ f \in Nat
    <3>1. Tail(link[p]) \in Seq(Messages)
      BY <1>2
    <3>2. Part(k, link[p], "write_req") = y + Part(k, Tail(link[p]), "write_req")
      BY <1>2, PartOf
    <3>3. Part(k, Tail(link[p]), "write_req") \in Nat
      BY <3>1, PartOf
    <3> QED BY <1>2, <3>2, <3>3
  <2>3. Due(k, o) = (Part(k, link[p], "write_req") + g) + (h + i)
    BY <1>1 DEF Due
  <2>4. Due(k, o)' = (f + Stock(k, Other(o))')
                        + (Part(k, link'[o], "release_req") + Part(k, remote'[o], "release_req"))
    BY <1>1, DueTermsNext
  <2>5. Stock(k, Other(o))' = g + s
    <3>1. Stock(k, Other(o))' = Stock(k, p)'
      BY <1>1 DEF Stock
    <3> QED BY <3>1
  <2> QED BY <1>2, <2>1, <2>2, <2>3, <2>4, <2>5
<1> HIDE DEF a, b, c, d, x, f, g, h, i, y
<1>6. Due(k, p)' + x = Due(k, p) + r
  BY <1>4
<1>7. Due(k, o)' + y = Due(k, o) + s
  BY <1>5
<1> QED BY <1>6, <1>7 DEF o, x, y

LEMMA ThreeParts ==
  ASSUME NEW a \in Nat, NEW b \in Nat, NEW c \in Nat
  PROVE  (a + b) + c \in Nat
OBVIOUS

-----------------------------------------------------------------------------
(* The books of both ends                                                  *)

Balanced ==
  \A q \in Peers, k \in Measures : Due(k, q)' + Credit(k, q) = Due(k, q) + Credit(k, q)'
Within == \A q \in Peers, k \in Measures : Credit(k, q)' <= Limit(k, q)
Tallied == \A q \in Peers : Arrived(q)' + sent[q] = Arrived(q) + sent'[q]
Books == StoreKept' /\ Balanced /\ Within /\ Tallied

LEMMA CreditType ==
  ASSUME DescType, NEW q \in Peers, NEW k \in Measures
  PROVE  Credit(k, q) \in Nat
BY DEF DescType, Credit

LEMMA ArrivedTerms ==
  ASSUME TypeOK, NEW q \in Peers
  PROVE  /\ Len(got[Other(q)]) \in Nat /\ Len(store[Other(q)].unread) \in Nat
         /\ Part("packets", link[Other(q)], "write_req") \in Nat
         /\ Arrived(q) \in Nat
<1>1. Other(q) \in Peers /\ "packets" \in Measures
  BY Ends DEF Measures
<1>2. /\ got[Other(q)] \in Seq(Nat) /\ store[Other(q)].unread \in Seq(Packets)
      /\ link[Other(q)] \in Seq(Messages)
  BY <1>1 DEF TypeOK
<1>3. Part("packets", link[Other(q)], "write_req") \in Nat
  BY <1>1, <1>2, PartOf
<1>4. Len(got[Other(q)]) \in Nat /\ Len(store[Other(q)].unread) \in Nat
  BY <1>2
<1>5. Arrived(q) \in Nat
  BY <1>3, <1>4, ThreeParts DEF Arrived
<1> QED BY <1>3, <1>4, <1>5

LEMMA ArrivedNext ==
  ASSUME TypeOK', NEW q \in Peers
  PROVE  /\ Arrived(q)' = (Len(got'[Other(q)]) + Len(store'[Other(q)].unread))
                            + Part("packets", link'[Other(q)], "write_req")
         /\ Arrived(q)' \in Nat
<1>1. Other(q) \in Peers /\ "packets" \in Measures
  BY Ends DEF Measures
<1>2. /\ got'[Other(q)] \in Seq(Nat) /\ store'[Other(q)].unread \in Seq(Packets)
      /\ link'[Other(q)] \in Seq(Messages)
  BY <1>1 DEF TypeOK
<1>3. Part("packets", link'[Other(q)], "write_req") \in Nat
  BY <1>1, <1>2, PartOf
<1>4. Len(got'[Other(q)]) \in Nat /\ Len(store'[Other(q)].unread) \in Nat
  BY <1>2
<1>5. Arrived(q)' = (Len(got'[Other(q)]) + Len(store'[Other(q)].unread))
                            + Part("packets", link'[Other(q)], "write_req")
  BY DEF Arrived, Part, Weight
<1>6. Arrived(q)' \in Nat
  <2> DEFINE a == Len(got'[Other(q)])
             b == Len(store'[Other(q)].unread)
             c == Part("packets", link'[Other(q)], "write_req")
  <2>1. a \in Nat /\ b \in Nat /\ c \in Nat /\ Arrived(q)' = (a + b) + c
    BY <1>3, <1>4, <1>5
  <2> HIDE DEF a, b, c
  <2> QED BY <2>1
<1> QED BY <1>5, <1>6

\* The credit of both ends stays as it is.
CreditSame == \A q \in Peers : /\ desc'[q].remoteFill = desc[q].remoteFill
                               /\ desc'[q].remotePackets = desc[q].remotePackets

LEMMA CreditUnchanged ==
  ASSUME CreditSame, CreditCovers
  PROVE  /\ \A q \in Peers, k \in Measures : Credit(k, q)' = Credit(k, q)
         /\ Within
<1>1. \A q \in Peers, k \in Measures : Credit(k, q)' = Credit(k, q)
  BY DEF CreditSame, Credit
<1> QED BY <1>1 DEF Within, CreditCovers

LEMMA BooksSame ==
  ASSUME TypeOK, TypeOK', StoreKept, CreditCovers, CreditSame,
         UNCHANGED <<store, link, remote, sent, got>>,
         \A q \in Peers : desc'[q].localFill = desc[q].localFill,
         \A t \in Threads : call'[t].owes = call[t].owes
  PROVE  Books
<1>1. StoreKept'
  BY StoreSame
<1>2. /\ \A q \in Peers, k \in Measures : Credit(k, q)' = Credit(k, q)
      /\ Within
  BY CreditUnchanged
<1>3. \A q, k : Due(k, q)' = Due(k, q)
  BY DEF Due, Part, Stock, Weight
<1>4. \A q : Arrived(q)' = Arrived(q)
  BY DEF Arrived, Part, Weight
<1> QED BY <1>1, <1>2, <1>3, <1>4 DEF Books, Balanced, Tallied

\* A message goes out that is no packet; the store is as it was.
LEMMA TalliedSends ==
  ASSUME TypeOK, TypeOK', NEW p \in Peers, NEW m, Sends(p, m), UNCHANGED <<sent, got>>,
         \A q \in Peers : store'[q].unread = store[q].unread, m.type # "write_req"
  PROVE  Tallied
<1>1. ASSUME NEW q \in Peers
      PROVE  Arrived(q)' = Arrived(q)
  <2>1. Other(q) \in Peers /\ (Other(q) = p \/ Other(q) = Other(p)) /\ "packets" \in Measures
    BY Ends DEF Measures
  <2>2. link[Other(p)] \in Seq(Messages) /\ m \in Messages
    BY Ends DEF TypeOK, Sends
  <2>3. Part("packets", Append(link[Other(p)], m), "write_req") =
          Part("packets", link[Other(p)], "write_req") + 0
    BY <2>1, <2>2, PartOf DEF Adds
  <2>4. Part("packets", link[Other(p)], "write_req") \in Nat
    BY <2>1, <2>2, PartOf
  <2>5. Part("packets", link'[Other(q)], "write_req") = Part("packets", link[Other(q)], "write_req")
    <3>1. CASE Other(q) = p
      BY <3>1 DEF Sends
    <3>2. CASE Other(q) = Other(p)
      <4>1. link'[Other(q)] = Append(link[Other(p)], m)
        BY <3>2 DEF Sends
      <4> QED BY <2>3, <2>4, <3>2, <4>1
    <3> QED BY <2>1, <3>1, <3>2
  <2>6. Arrived(q)' = (Len(got'[Other(q)]) + Len(store'[Other(q)].unread))
                            + Part("packets", link'[Other(q)], "write_req")
    BY ArrivedNext
  <2> QED BY <2>1, <2>5, <2>6 DEF Arrived
<1> QED BY <1>1 DEF Tallied

LEMMA BooksSends ==
  ASSUME TypeOK, TypeOK', StoreKept', CreditCovers, CreditSame, NEW p \in Peers, NEW m,
         Sends(p, m), UNCHANGED <<sent, got>>, store'[Other(p)] = store[Other(p)],
         store'[p].unread = store[p].unread,
         remote'[Other(p)] = remote[Other(p)], m.type # "write_req",
         \A k \in Measures :
           /\ Part(k, remote[p], "release_req") = 0 + Part(k, remote'[p], "release_req")
           /\ Stock(k, p) = Adds(k, m, "release_req") + Stock(k, p)'
  PROVE  Books
<1>1. QueueType /\ StoreType /\ QueueType' /\ StoreType' /\ m \in Messages
  BY TypeParts, TypePartsNext DEF Sends
<1>2. /\ \A q \in Peers, k \in Measures : Credit(k, q)' = Credit(k, q)
      /\ Within
  BY CreditUnchanged
<1>3. ASSUME NEW k \in Measures
      PROVE  Due(k, p)' = Due(k, p) /\ Due(k, Other(p))' = Due(k, Other(p))
  <2>1. Adds(k, m, "release_req") \in Nat /\ 0 \in Nat /\ Adds(k, m, "write_req") = 0
    BY <1>1, AddsType DEF Adds
  <2>2. /\ 0 + Due(k, p)' = Due(k, p) + 0
        /\ Adds(k, m, "release_req") + Due(k, Other(p))'
             = Due(k, Other(p)) + Adds(k, m, "release_req")
    BY <1>1, <2>1, DueSends
  <2>3. Due(k, p)' \in Nat /\ Due(k, p) \in Nat
    BY <1>1, DueTerms, DueTermsNext
  <2>4. Due(k, Other(p))' \in Nat /\ Due(k, Other(p)) \in Nat
    BY <1>1, Ends, DueTerms, DueTermsNext
  <2> QED BY <2>1, <2>2, <2>3, <2>4
<1>4. ASSUME NEW q \in Peers, NEW k \in Measures
      PROVE  Due(k, q)' + Credit(k, q) = Due(k, q) + Credit(k, q)'
  <2>1. q = p \/ q = Other(p)
    BY Ends
  <2>2. CASE q = p
    <3>1. Due(k, q)' = Due(k, p)'
      BY <2>2 DEF Due
    <3> QED BY <1>2, <1>3, <2>2, <3>1
  <2>3. CASE q = Other(p)
    <3>1. Due(k, q)' = Due(k, Other(p))'
      BY <2>3 DEF Due
    <3> QED BY <1>2, <1>3, <2>3, <3>1
  <2> QED BY <2>1, <2>2, <2>3
<1>5. Tallied
  <2>1. \A q \in Peers : store'[q].unread = store[q].unread
    BY Ends
  <2> QED BY <2>1, TalliedSends
<1> QED BY <1>2, <1>4, <1>5 DEF Books, Balanced

LEMMA BooksWritten ==
  ASSUME TypeOK, TypeOK', StoreKept, CreditCovers, SidesKept, NEW p \in Peers,
         NEW t \in Threads, ServesCall(p, t), WriteSent(p, t)
  PROVE  Books
<1> DEFINE m == [type |-> "write_req", of |-> t, size |-> call[t].size, id |-> sent[p] + 1]
<1>1. /\ Sends(p, m) /\ m \in Messages /\ m.type = "write_req" /\ m.size = call[t].size
      /\ UNCHANGED <<store, got, remote>> /\ sent' = [sent EXCEPT ![p] = @ + 1]
      /\ desc' = [desc EXCEPT ![p].remoteFill = @ + call[t].size, ![p].remotePackets = @ + 1]
      /\ Fits(p, call[t].size) /\ Others(t) /\ call'[t].owes = call[t].owes
  BY DEF WriteSent, Sends, Becomes, ServesCall
<1> HIDE DEF m
<1>2. QueueType /\ StoreType /\ QueueType' /\ StoreType' /\ DescType /\ call[t].size \in Nat
  BY TypeParts, TypePartsNext DEF TypeOK
<1>3. Other(p) \in Peers /\ Other(p) # p
  BY Ends
<1>4. StoreKept'
  <2>1. \A q \in Peers : desc'[q].localFill = desc[q].localFill
    BY <1>1, <1>2 DEF DescType
  <2>2. \A u \in Threads : call'[u].owes = call[u].owes
    BY <1>1 DEF Others
  <2> QED BY <1>1, <2>1, <2>2, StoreSame
<1>5. /\ desc'[p].remoteFill = desc[p].remoteFill + m.size
      /\ desc'[p].remotePackets = desc[p].remotePackets + 1
      /\ desc'[Other(p)] = desc[Other(p)]
  BY <1>1, <1>2, <1>3 DEF DescType
<1>6. ASSUME NEW k \in Measures
      PROVE  /\ Credit(k, p)' = Credit(k, p) + Unit(k, m)
             /\ Credit(k, Other(p))' = Credit(k, Other(p))
  BY <1>5 DEF Credit, Unit
<1>7. ASSUME NEW k \in Measures
      PROVE  Credit(k, p)' <= Limit(k, p)
  <2>1. AlignUp(call[t].size) \in Nat /\ AlignUp(call[t].size) >= call[t].size
    BY <1>2, Aligned
  <2>2. desc[p].remotePackets < MaxPackets /\ desc[p].remotePackets \in Nat
        /\ desc[p].remoteFill + AlignUp(call[t].size) <= desc[p].writeSize
        /\ desc[p].remoteFill \in Nat /\ desc[p].writeSize \in Nat
    BY <1>1, <1>2 DEF Fits, DescType
  <2>3. desc[p].writeSize <= Buffer[p]
    BY DEF SidesKept
  <2>4. desc[p].remoteFill + m.size <= Buffer[p] /\ desc[p].remotePackets + 1 <= MaxPackets
    <3>1. Buffer[p] \in Nat /\ m.size \in Nat
      BY <1>1, <1>2
    <3> DEFINE f == desc[p].remoteFill
               w == desc[p].writeSize
               a == AlignUp(call[t].size)
               z == m.size
               c == Buffer[p]
    <3>2. f \in Nat /\ w \in Nat /\ a \in Nat /\ z \in Nat /\ c \in Nat /\ a >= z /\ f + a <= w
            /\ w <= c
      BY <1>1, <2>1, <2>2, <2>3, <3>1
    <3> HIDE DEF f, w, a, z, c
    <3>3. f + z <= c
      BY <3>2
    <3>4. desc[p].remotePackets + 1 <= MaxPackets
      BY <2>2
    <3> QED BY <3>3, <3>4 DEF f, z, c
  <2> QED BY <1>6, <2>4 DEF Limit, Credit, Unit
<1>8. ASSUME NEW k \in Measures
      PROVE  Due(k, p)' = Due(k, p) + Unit(k, m) /\ Due(k, Other(p))' = Due(k, Other(p))
  <2>1. Adds(k, m, "write_req") = Unit(k, m) /\ Adds(k, m, "release_req") = 0 /\ 0 \in Nat
    BY <1>1 DEF Adds
  <2>2. /\ Part(k, remote[p], "release_req") = 0 + Part(k, remote'[p], "release_req")
        /\ Stock(k, p) = 0 + Stock(k, p)'
    <3>1. Part(k, remote[p], "release_req") \in Nat /\ Stock(k, p) \in Nat
      BY <1>2, DueTerms, StoreSizes
    <3>2. Stock(k, p)' = Stock(k, p)
      BY <1>1 DEF Stock, Weight
    <3> QED BY <1>1, <3>1, <3>2
  <2>3. /\ 0 + Due(k, p)' = Due(k, p) + Adds(k, m, "write_req")
        /\ 0 + Due(k, Other(p))' = Due(k, Other(p)) + Adds(k, m, "release_req")
    BY <1>1, <1>2, <2>1, <2>2, DueSends
  <2>4. Due(k, p)' \in Nat /\ Due(k, p) \in Nat
    BY <1>2, DueTerms, DueTermsNext
  <2>5. Due(k, Other(p))' \in Nat /\ Due(k, Other(p)) \in Nat
    BY <1>2, <1>3, DueTerms, DueTermsNext
  <2> QED BY <2>1, <2>3, <2>4, <2>5
<1>9. Balanced /\ Within
  <2>1. ASSUME NEW q \in Peers, NEW k \in Measures
        PROVE  /\ Due(k, q)' + Credit(k, q) = Due(k, q) + Credit(k, q)'
               /\ Credit(k, q)' <= Limit(k, q)
    <3>1. CASE q = p
      <4>1. Due(k, q)' = Due(k, p)' /\ Credit(k, q)' = Credit(k, p)'
        BY <3>1 DEF Due, Credit
      <4>2. Due(k, p) \in Nat /\ Credit(k, p) \in Nat /\ Unit(k, m) \in Nat
        BY <1>1, <1>2, DueTerms, CreditType, MessageFields DEF Unit
      <4> QED BY <1>6, <1>7, <1>8, <3>1, <4>1, <4>2
    <3>2. CASE q = Other(p)
      <4>1. Due(k, q)' = Due(k, Other(p))' /\ Credit(k, q)' = Credit(k, Other(p))'
        BY <3>2 DEF Due, Credit
      <4> QED BY <1>3, <1>6, <1>8, <3>2, <4>1 DEF CreditCovers
    <3> QED BY <3>1, <3>2, Ends
  <2> QED BY <2>1 DEF Balanced, Within
<1>10. Tallied
  <2>1. ASSUME NEW q \in Peers
        PROVE  Arrived(q)' + sent[q] = Arrived(q) + sent'[q]
    <3> DEFINE a == Len(got[Other(q)])
               b == Len(store[Other(q)].unread)
               c == Part("packets", link[Other(q)], "write_req")
    <3>1. a \in Nat /\ b \in Nat /\ c \in Nat /\ Arrived(q) = (a + b) + c
      BY ArrivedTerms DEF Arrived
    <3>2. Arrived(q)' = (a + b) + Part("packets", link'[Other(q)], "write_req")
      BY <1>1, ArrivedNext
    <3>3. sent \in [Peers -> Nat]
      BY DEF TypeOK
    <3>4. CASE q = p
      <4>1. Part("packets", link'[Other(q)], "write_req") = c + 1
        <5>1. "packets" \in Measures /\ Adds("packets", m, "write_req") = 1
          BY <1>1 DEF Measures, Adds, Unit
        <5>2. link[Other(p)] \in Seq(Messages)
          BY <1>2, <1>3 DEF QueueType
        <5>3. Part("packets", Append(link[Other(p)], m), "write_req") = c + 1
          BY <1>1, <3>4, <5>1, <5>2, PartOf
        <5> QED BY <1>1, <3>4, <5>3 DEF Sends
      <4>2. sent'[q] = sent[q] + 1 /\ sent[q] \in Nat
        BY <1>1, <3>3, <3>4
      <4> HIDE DEF a, b, c
      <4> QED BY <3>1, <3>2, <4>1, <4>2
    <3>5. CASE q = Other(p)
      <4>1. link'[Other(q)] = link[Other(q)] /\ sent'[q] = sent[q]
        BY <1>1, <1>3, <3>3, <3>5, Ends DEF Sends
      <4> QED BY <3>1, <3>2, <4>1
    <3> QED BY <3>4, <3>5, Ends
  <2> QED BY <2>1 DEF Tallied
<1> QED BY <1>4, <1>9, <1>10 DEF Books

LEMMA BooksRead ==
  ASSUME TypeOK, TypeOK', Control, StoreKept, CreditCovers, NEW p \in Peers, NEW t \in Threads,
         ServesCall(p, t), ReadGiven(p, t)
  PROVE  Books
<1>1. /\ UNCHANGED <<desc, link, sent, remote>> /\ store[p].unread # <<>>
      /\ store' = [store EXCEPT ![p].unread = Tail(@),
                                ![p].blocked = Append(@, Head(store[p].unread))]
      /\ got' = [got EXCEPT ![p] = Append(@, Head(store[p].unread).id)]
  BY DEF ReadGiven, ServesCall
<1>2. QueueType /\ StoreType /\ QueueType' /\ StoreType'
  BY TypeParts, TypePartsNext
<1>3. Other(p) \in Peers /\ Other(p) # p
  BY Ends
<1>4. StoreKept' /\ \A q \in Peers, k \in Measures : Stock(k, q)' = Stock(k, q)
  BY StoreRead
<1>5. /\ \A q \in Peers, k \in Measures : Credit(k, q)' = Credit(k, q)
      /\ Within
  BY <1>1, CreditUnchanged DEF CreditSame
<1>6. ASSUME NEW q \in Peers, NEW k \in Measures
      PROVE  Due(k, q)' = Due(k, q)
  <2>1. Part(k, remote[q], "release_req") = 0 + Part(k, remote'[q], "release_req")
        /\ Due(k, q) \in Nat /\ Due(k, q)' \in Nat /\ 0 \in Nat
    BY <1>1, <1>2, DueTerms, DueTermsNext
  <2>2. 0 + Due(k, q)' = Due(k, q)
    BY <1>1, <1>2, <1>4, <2>1, DueStays
  <2> QED BY <2>1, <2>2
<1>7. Balanced
  BY <1>5, <1>6 DEF Balanced
<1>8. ASSUME NEW q \in Peers
      PROVE  Arrived(q)' = Arrived(q)
  <2> DEFINE a == Len(got[Other(q)])
             b == Len(store[Other(q)].unread)
             c == Part("packets", link[Other(q)], "write_req")
  <2>1. a \in Nat /\ b \in Nat /\ c \in Nat /\ Arrived(q) = (a + b) + c
    BY ArrivedTerms DEF Arrived
  <2>2. Arrived(q)' = (Len(got'[Other(q)]) + Len(store'[Other(q)].unread)) + c
    BY <1>1, ArrivedNext
  <2>3. got \in [Peers -> Seq(Nat)]
          /\ store \in [Peers -> [unread : Seq(Packets), blocked : Seq(Packets)]]
    BY DEF TypeOK
  <2>4. CASE Other(q) = p
    <3>1. got'[p] = Append(got[p], Head(store[p].unread).id)
            /\ store'[p].unread = Tail(store[p].unread)
      BY <1>1, <2>3
    <3>2. got[p] \in Seq(Nat) /\ store[p].unread \in Seq(Packets)
      BY <2>3
    <3>3. Len(got'[Other(q)]) = a + 1
      <4>1. \A x : Len(Append(got[p], x)) = Len(got[p]) + 1
        BY <3>2
      <4> QED BY <2>4, <3>1, <4>1
    <3>4. Len(store'[Other(q)].unread) = b - 1
      <4>1. Len(Tail(store[p].unread)) = Len(store[p].unread) - 1
        BY <1>1, <3>2
      <4> QED BY <2>4, <3>1, <4>1
    <3> HIDE DEF a, b, c
    <3> QED BY <2>1, <2>2, <3>3, <3>4
  <2>5. CASE Other(q) # p
    <3>1. got'[Other(q)] = got[Other(q)] /\ store'[Other(q)] = store[Other(q)]
      BY <1>1, <2>3, <2>5, Ends
    <3> QED BY <2>1, <2>2, <3>1
  <2> QED BY <2>4, <2>5
<1>9. Tallied
  BY <1>1, <1>8 DEF Tallied
<1> QED BY <1>4, <1>5, <1>7, <1>9 DEF Books

\* A thread of p that owes a packet releases one; that message is charged in its place.
LEMMA BooksReleased ==
  ASSUME TypeOK, TypeOK', Control, StoreKept, CreditCovers, NEW p \in Peers, NEW t \in Threads,
         ServesCall(p, t), ReleaseSent(p, t)
  PROVE  Books
<1> DEFINE h == Head(store[p].blocked)
           m == [type |-> "release_req", of |-> t, size |-> h.size, id |-> h.id]
<1>1. /\ Sends(p, m) /\ m.type = "release_req" /\ m.size = h.size
      /\ UNCHANGED <<sent, got, remote>>
      /\ desc' = [desc EXCEPT ![p].localFill = @ - h.size]
      /\ store' = [store EXCEPT ![p].blocked = Tail(@)]
  BY DEF ReleaseSent, ServesCall
<1>2. /\ StoreKept' /\ store'[Other(p)] = store[Other(p)]
      /\ \A k \in Measures : Stock(k, p) = Unit(k, h) + Stock(k, p)'
  BY StoreReleased
<1> HIDE DEF m, h
<1>3. QueueType /\ StoreType /\ DescType
  BY TypeParts
<1>4. CreditSame
  BY SMTT(30), <1>1, <1>3 DEF CreditSame, DescType
<1>5. store'[p].unread = store[p].unread /\ remote'[Other(p)] = remote[Other(p)]
  BY <1>1, <1>3 DEF StoreType
<1>6. ASSUME NEW k \in Measures
      PROVE  /\ Part(k, remote[p], "release_req") = 0 + Part(k, remote'[p], "release_req")
             /\ Stock(k, p) = Adds(k, m, "release_req") + Stock(k, p)'
  <2>1. Adds(k, m, "release_req") = Unit(k, h)
    BY <1>1 DEF Adds, Unit
  <2>2. Part(k, remote[p], "release_req") \in Nat
    BY <1>3, DueTerms
  <2> QED BY <1>1, <1>2, <2>1, <2>2
<1>7. m.type # "write_req"
  BY <1>1
<1> QED BY <1>1, <1>2, <1>4, <1>5, <1>6, <1>7, BooksSends

\* A message that is neither packet nor release goes out; a queue may lose one like it.
LEMMA BooksTalk ==
  ASSUME TypeOK, TypeOK', StoreKept, CreditCovers, CreditSame, NEW p \in Peers, NEW m, Sends(p, m),
         UNCHANGED <<store, sent, got>>, m.type \notin {"write_req", "release_req"},
         UNCHANGED remote \/ (Takes(p) /\ Head(remote[p]).type # "release_req"),
         \A q \in Peers : desc'[q].localFill = desc[q].localFill,
         \A u \in Threads : call'[u].owes = call[u].owes
  PROVE  Books
<1>1. StoreKept'
  BY StoreSame
<1>2. QueueType /\ StoreType
  BY TypeParts
<1>3. Other(p) \in Peers /\ Other(p) # p
  BY Ends
<1>4. remote'[Other(p)] = remote[Other(p)]
  BY <1>2, <1>3 DEF Takes, QueueType
<1>5. ASSUME NEW k \in Measures
      PROVE  /\ Part(k, remote[p], "release_req") = 0 + Part(k, remote'[p], "release_req")
             /\ Stock(k, p) = Adds(k, m, "release_req") + Stock(k, p)'
  <2>1. Part(k, remote[p], "release_req") \in Nat /\ Stock(k, p) \in Nat
    BY <1>2, DueTerms, StoreSizes
  <2>2. Stock(k, p)' = Stock(k, p)
    BY DEF Stock, Weight
  <2>3. Part(k, remote[p], "release_req") = 0 + Part(k, remote'[p], "release_req")
    <3>1. CASE UNCHANGED remote
      BY <2>1, <3>1
    <3>2. CASE Takes(p) /\ Head(remote[p]).type # "release_req"
      <4>1. remote[p] \in Seq(Messages) /\ remote[p] # <<>> /\ remote'[p] = Tail(remote[p])
        BY <1>2, <3>2 DEF Takes, QueueType
      <4>2. Part(k, remote[p], "release_req") = 0 + Part(k, Tail(remote[p]), "release_req")
        BY <3>2, <4>1, PartOf DEF Adds
      <4> QED BY <4>1, <4>2
    <3> QED BY <3>1, <3>2
  <2>4. Adds(k, m, "release_req") = 0
    BY DEF Adds
  <2> QED BY <2>1, <2>2, <2>3, <2>4
<1> QED BY <1>1, <1>4, <1>5, BooksSends

\* An answer is taken.
LEMMA BooksAnswered ==
  ASSUME TypeOK, TypeOK', StoreKept, CreditCovers, CreditSame, NEW p \in Peers,
         Takes(p), Head(remote[p]).type # "release_req",
         UNCHANGED <<link, store, sent, got>>,
         \A q \in Peers : desc'[q].localFill = desc[q].localFill,
         \A u \in Threads : call'[u].owes = call[u].owes
  PROVE  Books
<1>1. StoreKept'
  BY StoreSame
<1>2. QueueType /\ StoreType /\ QueueType' /\ StoreType'
  BY TypeParts, TypePartsNext
<1>3. Other(p) \in Peers /\ Other(p) # p
  BY Ends
<1>4. /\ remote'[Other(p)] = remote[Other(p)] /\ remote[p] \in Seq(Messages)
      /\ remote[p] # <<>> /\ remote'[p] = Tail(remote[p])
  BY <1>2, <1>3 DEF Takes, QueueType
<1>5. /\ \A q \in Peers, k \in Measures : Credit(k, q)' = Credit(k, q)
      /\ Within
  BY CreditUnchanged
<1>6. ASSUME NEW k \in Measures
      PROVE  Due(k, p)' = Due(k, p) /\ Due(k, Other(p))' = Due(k, Other(p))
  <2>1. Part(k, remote[p], "release_req") = 0 + Part(k, remote'[p], "release_req") /\ 0 \in Nat
    BY <1>4, PartOf DEF Adds
  <2>2. \A q \in Peers : Stock(k, q)' = Stock(k, q)
    BY DEF Stock, Weight
  <2>3. 0 + Due(k, p)' = Due(k, p) /\ Due(k, Other(p))' = Due(k, Other(p))
    BY <1>2, <1>4, <2>1, <2>2, DueStays
  <2>4. Due(k, p)' \in Nat
    BY <1>2, DueTermsNext
  <2> QED BY <2>3, <2>4
<1>7. ASSUME NEW q \in Peers, NEW k \in Measures
      PROVE  Due(k, q)' = Due(k, q)
  <2>1. CASE q = p
    <3>1. Due(k, q)' = Due(k, p)'
      BY <2>1 DEF Due
    <3> QED BY <1>6, <2>1, <3>1
  <2>2. CASE q = Other(p)
    <3>1. Due(k, q)' = Due(k, Other(p))'
      BY <2>2 DEF Due
    <3> QED BY <1>6, <2>2, <3>1
  <2> QED BY <2>1, <2>2, Ends
<1>8. \A q : Arrived(q)' = Arrived(q)
  BY DEF Arrived, Part, Weight
<1> QED BY <1>1, <1>5, <1>7, <1>8 DEF Books, Balanced, Tallied

\* A release is taken, and given back to the writer.
LEMMA BooksGivenBack ==
  ASSUME TypeOK, TypeOK', StoreKept, CreditCovers, NEW p \in Peers, NEW m,
         TakesMessage(p, m), ReleaseTaken(p, m),
         \A u \in Threads : call'[u].owes = call[u].owes
  PROVE  Books
<1> DEFINE r == [m EXCEPT !.type = "release_resp"]
<1>1. /\ Sends(p, r) /\ r.type = "release_resp" /\ r \in Messages
      /\ m.type = "release_req" /\ m \in Messages /\ m.size \in Nat
      /\ Takes(p) /\ m = Head(remote[p]) /\ UNCHANGED <<store, sent, got>>
      /\ desc' = [desc EXCEPT ![p].remoteFill = @ - m.size, ![p].remotePackets = @ - 1]
  BY DEF ReleaseTaken, TakesMessage, Replies, Takes
<1> HIDE DEF r
<1>2. QueueType /\ StoreType /\ QueueType' /\ StoreType' /\ DescType /\ DescType'
  BY TypeParts, TypePartsNext
<1>3. Other(p) \in Peers /\ Other(p) # p
  BY Ends
<1>4. StoreKept'
  <2>1. \A q \in Peers : desc'[q].localFill = desc[q].localFill
    BY <1>1, <1>2 DEF DescType
  <2> QED BY <1>1, <2>1, StoreSame
<1>5. /\ remote'[Other(p)] = remote[Other(p)] /\ remote[p] \in Seq(Messages)
      /\ remote[p] # <<>> /\ remote'[p] = Tail(remote[p])
  BY <1>1, <1>2, <1>3 DEF Takes, QueueType
<1>6. ASSUME NEW k \in Measures
      PROVE  /\ Credit(k, p)' = Credit(k, p) - Unit(k, m)
             /\ Credit(k, Other(p))' = Credit(k, Other(p))
             /\ Credit(k, p) \in Nat /\ Unit(k, m) \in Nat
             /\ Credit(k, p) <= Limit(k, p) /\ Credit(k, Other(p)) <= Limit(k, Other(p))
             /\ Limit(k, p) \in Nat
  <2>1. /\ desc'[p].remoteFill = desc[p].remoteFill - m.size
        /\ desc'[p].remotePackets = desc[p].remotePackets - 1
        /\ desc'[Other(p)] = desc[Other(p)]
    BY <1>1, <1>2, <1>3 DEF DescType
  <2>2. /\ Credit(k, p)' = Credit(k, p) - Unit(k, m)
        /\ Credit(k, Other(p))' = Credit(k, Other(p))
    BY <2>1 DEF Credit, Unit
  <2>3. Unit(k, m) \in Nat /\ Credit(k, p) \in Nat /\ Limit(k, p) \in Nat
    BY <1>1, <1>2, CreditType DEF Unit, Limit
  <2> QED BY <1>3, <2>2, <2>3 DEF CreditCovers
<1>7. ASSUME NEW k \in Measures
      PROVE  Unit(k, m) + Due(k, p)' = Due(k, p) /\ Due(k, Other(p))' = Due(k, Other(p))
  <2>1. Adds(k, r, "write_req") = 0 /\ Adds(k, r, "release_req") = 0 /\ 0 \in Nat
    BY <1>1 DEF Adds
  <2>2. Part(k, remote[p], "release_req") = Unit(k, m) + Part(k, remote'[p], "release_req")
    BY <1>1, <1>5, PartOf DEF Adds
  <2>3. Stock(k, p) = 0 + Stock(k, p)'
    <3>1. Stock(k, p) \in Nat
      BY <1>2, StoreSizes
    <3>2. Stock(k, p)' = Stock(k, p)
      BY <1>1 DEF Stock, Weight
    <3> QED BY <3>1, <3>2
  <2> DEFINE n == Unit(k, m)
  <2>4. n \in Nat /\ Part(k, remote[p], "release_req") = n + Part(k, remote'[p], "release_req")
    BY <1>6, <2>2
  <2>5. store'[Other(p)] = store[Other(p)]
    BY <1>1
  <2> HIDE DEF n
  <2>6. /\ n + Due(k, p)' = Due(k, p) + Adds(k, r, "write_req")
        /\ 0 + Due(k, Other(p))' = Due(k, Other(p)) + Adds(k, r, "release_req")
    BY <1>1, <1>2, <1>5, <2>1, <2>3, <2>4, <2>5, DueSends
  <2>7. /\ n + Due(k, p)' = Due(k, p) + 0
        /\ 0 + Due(k, Other(p))' = Due(k, Other(p)) + 0
    BY <2>1, <2>6
  <2>8. Due(k, p) \in Nat /\ Due(k, Other(p)) \in Nat /\ Due(k, Other(p))' \in Nat
    BY <1>2, <1>3, DueTerms, DueTermsNext
  <2> QED BY <2>7, <2>8 DEF n
<1>8. Balanced /\ Within
  <2>1. ASSUME NEW q \in Peers, NEW k \in Measures
        PROVE  /\ Due(k, q)' + Credit(k, q) = Due(k, q) + Credit(k, q)'
               /\ Credit(k, q)' <= Limit(k, q)
    <3>1. CASE q = p
      <4>1. Due(k, q)' = Due(k, p)' /\ Credit(k, q)' = Credit(k, p)'
        BY <3>1 DEF Due, Credit
      <4>2. Due(k, p)' \in Nat /\ Due(k, p) \in Nat
        BY <1>2, DueTerms, DueTermsNext
      <4> DEFINE a == Due(k, p)'
                 b == Due(k, p)
                 c == Credit(k, p)
                 d == Credit(k, p)'
                 x == Unit(k, m)
                 l == Limit(k, p)
      <4>3. /\ a \in Nat /\ b \in Nat /\ c \in Nat /\ x \in Nat /\ l \in Nat /\ c <= l
            /\ d = c - x /\ x + a = b
        BY <1>6, <1>7, <4>2
      <4> HIDE DEF a, b, c, d, x, l
      <4>4. a + c = b + d /\ d <= l
        BY <4>3
      <4> QED BY <3>1, <4>1, <4>4 DEF a, b, c, d, l
    <3>2. CASE q = Other(p)
      <4>1. Due(k, q)' = Due(k, Other(p))' /\ Credit(k, q)' = Credit(k, Other(p))'
        BY <3>2 DEF Due, Credit
      <4> QED BY <1>6, <1>7, <3>2, <4>1
    <3> QED BY <3>1, <3>2, Ends
  <2> QED BY <2>1 DEF Balanced, Within
<1>9. Tallied
  <2>1. r.type # "write_req"
    BY <1>1
  <2> QED BY <1>1, <2>1, TalliedSends
<1> QED BY <1>4, <1>8, <1>9 DEF Books

LEMMA BalancedSame ==
  ASSUME CreditSame, CreditCovers, NEW p \in Peers,
         \A k \in Measures : Due(k, p)' = Due(k, p) /\ Due(k, Other(p))' = Due(k, Other(p))
  PROVE  Balanced /\ Within
<1>1. /\ \A q \in Peers, k \in Measures : Credit(k, q)' = Credit(k, q)
      /\ Within
  BY CreditUnchanged
<1>2. ASSUME NEW q \in Peers, NEW k \in Measures
      PROVE  Due(k, q)' + Credit(k, q) = Due(k, q) + Credit(k, q)'
  <2>1. CASE q = p
    <3>1. Due(k, q)' = Due(k, p)'
      BY <2>1 DEF Due
    <3> QED BY <1>1, <2>1, <3>1
  <2>2. CASE q = Other(p)
    <3>1. Due(k, q)' = Due(k, Other(p))'
      BY <2>2 DEF Due
    <3> QED BY <1>1, <2>2, <3>1
  <2> QED BY <2>1, <2>2, Ends
<1> QED BY <1>1, <1>2 DEF Balanced

\* What arrived does not change when the reader thread of p takes m off the link, unless m
\* is a packet; then it moves to the store.
LEMMA TalliedReceives ==
  ASSUME TypeOK, TypeOK', NEW p \in Peers, NEW m, Receives(p, m),
         Len(store'[p].unread) =
           Len(store[p].unread) + Adds("packets", m, "write_req"),
         store'[Other(p)].unread = store[Other(p)].unread
  PROVE  Tallied
<1>1. ASSUME NEW q \in Peers
      PROVE  Arrived(q)' = Arrived(q)
  <2> DEFINE o == Other(q)
  <2>1. /\ o \in Peers /\ (o = p \/ o = Other(p)) /\ "packets" \in Measures
        /\ Other(p) \in Peers /\ Other(p) # p
    BY Ends DEF Measures
  <2>2. /\ link[p] \in Seq(Messages) /\ link[p] # <<>> /\ link'[p] = Tail(link[p])
        /\ m = Head(link[p]) /\ m \in Messages /\ link'[Other(p)] = link[Other(p)]
        /\ got' = got
    BY <2>1 DEF TypeOK, Receives
  <2> HIDE DEF o
  <2> DEFINE a == Len(got[o])
             b == Len(store[o].unread)
             c == Part("packets", link[o], "write_req")
             d == Len(store'[o].unread)
             e == Part("packets", link'[o], "write_req")
             x == Adds("packets", m, "write_req")
  <2>3. /\ a \in Nat /\ b \in Nat /\ c \in Nat /\ Arrived(q) = (a + b) + c
    BY ArrivedTerms DEF Arrived, o
  <2>4. Arrived(q)' = (a + d) + e
    BY <2>2, ArrivedNext DEF o
  <2>5. CASE o = p
    <3>1. x \in Nat /\ e \in Nat
      BY <2>1, <2>2, <2>5, AddsType, PartOf
    <3>2. d = b + x /\ c = x + e
      BY <2>1, <2>2, <2>5, PartOf
    <3> HIDE DEF a, b, c, d, e, x
    <3> QED BY <2>3, <2>4, <3>1, <3>2
  <2>6. CASE o = Other(p)
    <3>1. d = b /\ e = c
      BY <2>2, <2>6
    <3> HIDE DEF a, b, c, d, e, x
    <3> QED BY <2>3, <2>4, <3>1
  <2> QED BY <2>1, <2>5, <2>6
<1>2. UNCHANGED sent
  BY DEF Receives
<1> QED BY <1>1, <1>2 DEF Tallied

\* A packet arrives and is stored.
LEMMA BooksArrived ==
  ASSUME TypeOK, TypeOK', StoreKept, CreditCovers, NEW p \in Peers, NEW m,
         Receives(p, m), Stored(p, m)
  PROVE  Books
<1>1. /\ StoreKept'
      /\ \A k \in Measures : Stock(k, p)' = Stock(k, p) + Unit(k, m)
      /\ store'[Other(p)] = store[Other(p)]
  BY StoreArrived
<1>2. /\ QueueType /\ StoreType /\ QueueType' /\ StoreType' /\ DescType
      /\ m.type = "write_req" /\ m \in Messages /\ PacketOf(m) \in Packets
      /\ desc' = [desc EXCEPT ![p].localFill = @ + m.size]
      /\ store' = [store EXCEPT ![p].unread = Append(@, PacketOf(m))]
      /\ remote' = [remote EXCEPT ![p] = Append(@, m)]
  BY TypeParts, TypePartsNext, MessageFields DEF Stored, Receives, PacketOf, Packets
<1>3. Other(p) \in Peers /\ Other(p) # p /\ "packets" \in Measures
  BY Ends DEF Measures
<1>4. /\ remote'[p] = Append(remote[p], m) /\ remote'[Other(p)] = remote[Other(p)]
      /\ remote[p] \in Seq(Messages)
  BY <1>2, <1>3 DEF QueueType
<1>5. CreditSame
  BY <1>2 DEF CreditSame, DescType
<1>6. ASSUME NEW k \in Measures
      PROVE  Due(k, p)' = Due(k, p) /\ Due(k, Other(p))' = Due(k, Other(p))
  <2> DEFINE n == Unit(k, m)
  <2>1. Adds(k, m, "release_req") = 0 /\ Adds(k, m, "write_req") = n /\ 0 \in Nat
    BY <1>2 DEF Adds
  <2>2. n \in Nat /\ Stock(k, p)' = Stock(k, p) + n
    BY <1>1, <1>2, MessageFields DEF Unit
  <2> HIDE DEF n
  <2>3. Part(k, remote'[p], "release_req") = Part(k, remote[p], "release_req") + 0
    BY <1>2, <1>4, <2>1, PartOf
  <2>4. /\ Due(k, p)' + Adds(k, m, "release_req") = Due(k, p) + 0
        /\ Due(k, Other(p))' + Adds(k, m, "write_req") = Due(k, Other(p)) + n
    <3>1. store'[Other(p)] = store[Other(p)] /\ remote'[Other(p)] = remote[Other(p)]
      BY <1>1, <1>4
    <3>2. QueueType /\ StoreType /\ QueueType' /\ StoreType'
      BY <1>2
    <3> QED BY <2>1, <2>2, <2>3, <3>1, <3>2, DueReceives
  <2>5. /\ Due(k, p) \in Nat /\ Due(k, p)' \in Nat
        /\ Due(k, Other(p)) \in Nat /\ Due(k, Other(p))' \in Nat
    BY <1>2, <1>3, DueTerms, DueTermsNext
  <2> QED BY <2>1, <2>2, <2>4, <2>5
<1>7. Balanced /\ Within
  BY <1>5, <1>6, BalancedSame
<1>8. Tallied
  <2>1. Adds("packets", m, "write_req") = 1
    BY <1>2, <1>3 DEF Adds, Unit
  <2>2. store[p].unread \in Seq(Packets) /\ store'[p].unread = Append(store[p].unread, PacketOf(m))
    BY <1>2 DEF StoreType
  <2>3. Len(store'[p].unread) = Len(store[p].unread) + Adds("packets", m, "write_req")
    BY <1>2, <2>1, <2>2
  <2> QED BY <1>1, <2>3, TalliedReceives
<1> QED BY <1>1, <1>7, <1>8 DEF Books

\* Any other message arrives.
LEMMA BooksQueued ==
  ASSUME TypeOK, TypeOK', StoreKept, CreditCovers, NEW p \in Peers, NEW m,
         Receives(p, m), Queued(p, m)
  PROVE  Books
<1>1. /\ QueueType /\ StoreType /\ QueueType' /\ StoreType'
      /\ m.type # "write_req" /\ m \in Messages
      /\ remote' = [remote EXCEPT ![p] = Append(@, m)] /\ UNCHANGED <<desc, store, call>>
  BY TypeParts, TypePartsNext DEF Queued, Receives
<1>2. Other(p) \in Peers /\ Other(p) # p /\ "packets" \in Measures
  BY Ends DEF Measures
<1>3. /\ remote'[p] = Append(remote[p], m) /\ remote'[Other(p)] = remote[Other(p)]
      /\ remote[p] \in Seq(Messages)
  BY <1>1, <1>2 DEF QueueType
<1>4. StoreKept'
  BY <1>1, StoreSame
<1>5. ASSUME NEW k \in Measures
      PROVE  Due(k, p)' = Due(k, p) /\ Due(k, Other(p))' = Due(k, Other(p))
  <2> DEFINE n == Adds(k, m, "release_req")
  <2>1. n \in Nat /\ Adds(k, m, "write_req") = 0 /\ 0 \in Nat
    BY <1>1, AddsType DEF Adds
  <2>2. Stock(k, p)' = Stock(k, p) + 0
    <3>1. Stock(k, p) \in Nat
      BY <1>1, StoreSizes
    <3>2. Stock(k, p)' = Stock(k, p)
      BY <1>1 DEF Stock, Weight
    <3> QED BY <3>1, <3>2
  <2>3. Part(k, remote'[p], "release_req") = Part(k, remote[p], "release_req") + n
    BY <1>1, <1>3, PartOf
  <2>4. store'[Other(p)] = store[Other(p)]
    BY <1>1
  <2>5. /\ Due(k, p)' + Adds(k, m, "release_req") = Due(k, p) + n
        /\ Due(k, Other(p))' + Adds(k, m, "write_req") = Due(k, Other(p)) + 0
    <3> HIDE DEF n
    <3> QED BY <1>1, <1>3, <2>1, <2>2, <2>3, <2>4, DueReceives
  <2>6. /\ Due(k, p) \in Nat /\ Due(k, p)' \in Nat
        /\ Due(k, Other(p)) \in Nat /\ Due(k, Other(p))' \in Nat
    BY <1>1, <1>2, DueTerms, DueTermsNext
  <2>7. Due(k, p)' = Due(k, p)
    <3>1. Due(k, p)' + n = Due(k, p) + n
      BY <2>5
    <3> HIDE DEF n
    <3> QED BY <2>1, <2>6, <3>1
  <2> QED BY <2>1, <2>5, <2>6, <2>7
<1>6. CreditSame
  BY <1>1 DEF CreditSame
<1>7. Balanced /\ Within
  BY <1>5, <1>6, BalancedSame
<1>8. Tallied
  <2>1. Adds("packets", m, "write_req") = 0 /\ Len(store[p].unread) \in Nat
    BY <1>1 DEF Adds, StoreType
  <2> QED BY <1>1, <2>1, TalliedReceives
<1> QED BY <1>4, <1>7, <1>8 DEF Books

\* What a process that aborts loses is not due any more.
Fewer == /\ StoreKept' /\ CreditSame
         /\ \A q \in Peers, k \in Measures : Due(k, q)' <= Due(k, q)

LEMMA FewerAt ==
  ASSUME NEW p \in Peers, StoreKept', CreditSame,
         \A k \in Measures : Due(k, p)' <= Due(k, p) /\ Due(k, Other(p))' <= Due(k, Other(p))
  PROVE  Fewer
<1>1. ASSUME NEW q \in Peers, NEW k \in Measures
      PROVE  Due(k, q)' <= Due(k, q)
  <2>1. CASE q = p
    <3>1. Due(k, q)' = Due(k, p)'
      BY <2>1 DEF Due
    <3> QED BY <2>1, <3>1
  <2>2. CASE q = Other(p)
    <3>1. Due(k, q)' = Due(k, Other(p))'
      BY <2>2 DEF Due
    <3> QED BY <2>2, <3>1
  <2> QED BY <2>1, <2>2, Ends
<1> QED BY <1>1 DEF Fewer

LEMMA ReleaseLost ==
  ASSUME TypeOK, TypeOK', StoreKept, NEW p \in Peers, NEW m,
         TakesMessage(p, m), MessageAborts(p, m)
  PROVE  Fewer
<1>1. /\ QueueType /\ StoreType /\ QueueType' /\ StoreType'
      /\ Takes(p) /\ m = Head(remote[p]) /\ m \in Messages
      /\ UNCHANGED <<store, link, desc, call>>
  BY TypeParts, TypePartsNext DEF TakesMessage, MessageAborts, Takes
<1>2. Other(p) \in Peers /\ Other(p) # p
  BY Ends
<1>3. /\ remote'[Other(p)] = remote[Other(p)] /\ remote[p] \in Seq(Messages)
      /\ remote[p] # <<>> /\ remote'[p] = Tail(remote[p])
  BY <1>1, <1>2 DEF Takes, QueueType
<1>4. StoreKept' /\ CreditSame
  BY <1>1, StoreSame DEF CreditSame
<1>5. ASSUME NEW k \in Measures
      PROVE  Due(k, p)' <= Due(k, p) /\ Due(k, Other(p))' <= Due(k, Other(p))
  <2> DEFINE n == Adds(k, m, "release_req")
  <2>1. n \in Nat
    BY <1>1, AddsType
  <2>2. Part(k, remote[p], "release_req") = n + Part(k, remote'[p], "release_req")
    BY <1>1, <1>3, PartOf
  <2>3. \A q \in Peers : Stock(k, q)' = Stock(k, q)
    BY <1>1 DEF Stock, Weight
  <2> HIDE DEF n
  <2>4. n + Due(k, p)' = Due(k, p) /\ Due(k, Other(p))' = Due(k, Other(p))
    BY <1>1, <1>3, <2>1, <2>2, <2>3, DueStays
  <2>5. Due(k, p)' \in Nat /\ Due(k, Other(p))' \in Nat
    BY <1>1, <1>2, DueTermsNext
  <2> QED BY <2>1, <2>4, <2>5
<1> QED BY <1>4, <1>5, FewerAt

LEMMA PacketLost ==
  ASSUME TypeOK, TypeOK', StoreKept, NEW p \in Peers, NEW m,
         Receives(p, m), ArrivalAborts(p, m)
  PROVE  Fewer
<1>1. /\ QueueType /\ StoreType /\ QueueType' /\ StoreType' /\ m \in Messages
      /\ UNCHANGED <<store, remote, desc, call>>
  BY TypeParts, TypePartsNext DEF Receives, ArrivalAborts
<1>2. Other(p) \in Peers
  BY Ends
<1>3. StoreKept' /\ CreditSame
  BY <1>1, StoreSame DEF CreditSame
<1>4. ASSUME NEW k \in Measures
      PROVE  Due(k, p)' <= Due(k, p) /\ Due(k, Other(p))' <= Due(k, Other(p))
  <2>1. /\ Part(k, remote'[p], "release_req") = Part(k, remote[p], "release_req") + 0
        /\ Stock(k, p)' = Stock(k, p) + 0
    <3>1. Part(k, remote[p], "release_req") \in Nat /\ Stock(k, p) \in Nat
      BY <1>1, DueTerms, StoreSizes
    <3>2. Stock(k, p)' = Stock(k, p)
      BY <1>1 DEF Stock, Weight
    <3> QED BY <1>1, <3>1, <3>2
  <2>2. store'[Other(p)] = store[Other(p)] /\ remote'[Other(p)] = remote[Other(p)] /\ 0 \in Nat
    BY <1>1
  <2>3. /\ Due(k, p)' + Adds(k, m, "release_req") = Due(k, p) + 0
        /\ Due(k, Other(p))' + Adds(k, m, "write_req") = Due(k, Other(p)) + 0
    BY <1>1, <2>1, <2>2, DueReceives
  <2>4. Due(k, p)' \in Nat /\ Due(k, Other(p))' \in Nat /\ Due(k, p) \in Nat
        /\ Due(k, Other(p)) \in Nat
    BY <1>1, <1>2, DueTerms, DueTermsNext
  <2>5. Adds(k, m, "release_req") \in Nat /\ Adds(k, m, "write_req") \in Nat
    BY <1>1, AddsType
  <2> QED BY <2>3, <2>4, <2>5
<1> QED BY <1>3, <1>4, FewerAt

\* Credit covers what is due; and until a process aborts, both change alike.
Settled == /\ StoreKept' /\ CreditCovers'
           /\ NoAbort' => Balanced /\ Tallied

LEMMA DueType ==
  ASSUME TypeOK, TypeOK', NEW q \in Peers, NEW k \in Measures
  PROVE  /\ Due(k, q) \in Nat /\ Due(k, q)' \in Nat
         /\ Credit(k, q) \in Nat /\ Credit(k, q)' \in Nat /\ Limit(k, q) \in Nat
<1>1. QueueType /\ StoreType /\ DescType /\ QueueType' /\ StoreType' /\ DescType'
  BY TypeParts, TypePartsNext
<1>2. Due(k, q) \in Nat /\ Due(k, q)' \in Nat
  BY <1>1, DueTerms, DueTermsNext
<1>3. Credit(k, q) \in Nat /\ Credit(k, q)' \in Nat
  BY <1>1 DEF DescType, Credit
<1> QED BY <1>2, <1>3 DEF Limit

LEMMA SettledByBooks ==
  ASSUME TypeOK, TypeOK', CreditCovers, Books
  PROVE  Settled
<1>1. ASSUME NEW q \in Peers, NEW k \in Measures
      PROVE  Credit(k, q)' >= Due(k, q)' /\ Credit(k, q)' <= Limit(k, q)'
  <2> DEFINE a == Due(k, q)
             b == Due(k, q)'
             c == Credit(k, q)
             d == Credit(k, q)'
  <2>1. a \in Nat /\ b \in Nat /\ c \in Nat /\ d \in Nat
    BY DueType
  <2>2. c >= a
    BY DEF CreditCovers
  <2>3. b + c = a + d
    BY DEF Books, Balanced
  <2>4. d <= Limit(k, q) /\ Limit(k, q)' = Limit(k, q)
    BY DEF Books, Within, Limit
  <2> HIDE DEF a, b, c, d
  <2>5. d >= b
    BY <2>1, <2>2, <2>3
  <2> QED BY <2>4, <2>5 DEF b, d
<1>2. CreditCovers'
  BY <1>1 DEF CreditCovers
<1> QED BY <1>2 DEF Settled, Books

LEMMA SettledByLoss ==
  ASSUME TypeOK, TypeOK', CreditCovers, Fewer, ~NoAbort'
  PROVE  Settled
<1>1. /\ \A q \in Peers, k \in Measures : Credit(k, q)' = Credit(k, q)
      /\ Within
  BY CreditUnchanged DEF Fewer
<1>2. ASSUME NEW q \in Peers, NEW k \in Measures
      PROVE  Credit(k, q)' >= Due(k, q)' /\ Credit(k, q)' <= Limit(k, q)'
  <2> DEFINE a == Due(k, q)
             b == Due(k, q)'
             c == Credit(k, q)
             d == Credit(k, q)'
  <2>1. a \in Nat /\ b \in Nat /\ c \in Nat /\ d \in Nat
    BY DueType
  <2>2. c >= a
    BY DEF CreditCovers
  <2>3. b <= a /\ d = c
    BY <1>1 DEF Fewer
  <2>4. d <= Limit(k, q) /\ Limit(k, q)' = Limit(k, q)
    BY <1>1 DEF Within, Limit
  <2> HIDE DEF a, b, c, d
  <2>5. d >= b
    BY <2>1, <2>2, <2>3
  <2> QED BY <2>4, <2>5 DEF b, d
<1>3. CreditCovers'
  BY <1>2 DEF CreditCovers
<1> QED BY <1>3 DEF Settled, Fewer

LEMMA SettledExact ==
  ASSUME TypeOK, TypeOK', CreditExact, Settled, NoAbort'
  PROVE  CreditExact'
<1>1. ASSUME NEW q \in Peers, NEW k \in Measures
      PROVE  Credit(k, q)' = Due(k, q)'
  <2> DEFINE a == Due(k, q)
             b == Due(k, q)'
             c == Credit(k, q)
             d == Credit(k, q)'
  <2>1. a \in Nat /\ b \in Nat /\ c \in Nat /\ d \in Nat
    BY DueType
  <2>2. c = a
    BY DEF CreditExact
  <2>3. b + c = a + d
    BY DEF Settled, Balanced
  <2> HIDE DEF a, b, c, d
  <2>4. d = b
    BY <2>1, <2>2, <2>3
  <2> QED BY <2>4 DEF b, d
<1>2. ASSUME NEW q \in Peers
      PROVE  sent'[q] = Arrived(q)'
  <2>1. Arrived(q) \in Nat /\ Arrived(q)' \in Nat
    BY ArrivedTerms, ArrivedNext
  <2>2. sent[q] \in Nat /\ sent'[q] \in Nat
    BY DEF TypeOK
  <2>3. sent[q] = Arrived(q) /\ Arrived(q)' + sent[q] = Arrived(q) + sent'[q]
    BY DEF CreditExact, Settled, Tallied
  <2> DEFINE a == Arrived(q)
             b == Arrived(q)'
  <2>4. a \in Nat /\ b \in Nat /\ sent[q] = a /\ b + sent[q] = a + sent'[q]
    BY <2>1, <2>3
  <2> HIDE DEF a, b
  <2>5. sent'[q] = b
    BY <2>2, <2>4
  <2> QED BY <2>5 DEF b
<1> QED BY <1>1, <1>2 DEF CreditExact

LEMMA SettledByApplication ==
  ASSUME TypeOK, TypeOK', StoreKept, CreditCovers, NEW t \in Threads, Application(t)
  PROVE  Settled /\ UNCHANGED <<desc, link, remote, store, sent, got, aborted>>
<1>1. PICK op, size : Enter(t, op, size)
  BY DEF Application, CallWrite, CallRead, CallRelease, CallClose
<1>2. Entered(t, op, size)
  BY <1>1, EnterEffect
<1>3. /\ UNCHANGED <<desc, link, remote, store, sent, got, aborted>>
      /\ \A u \in Threads : call'[u].owes = call[u].owes
  BY <1>2 DEF Entered, Others
<1>4. Books
  BY <1>3, BooksSame DEF CreditSame
<1> QED BY <1>3, <1>4, SettledByBooks

LEMMA SettledByServeCall ==
  ASSUME TypeOK, TypeOK', Control, StoreKept, CreditCovers, SidesKept, NEW p \in Peers,
         ServeCall(p)
  PROVE  Settled
<1>1. PICK t \in Threads :
        /\ ServesCall(p, t)
        /\ \/ CallAborts(p) \/ CallPasses(p, t) \/ WriteSent(p, t) \/ ReadGiven(p, t)
           \/ ReleaseSent(p, t) \/ CloseBlocked(p, t) \/ CloseSent(p, t)
  BY ServeCallCases DEF Control
<1>2. DescType /\ UNCHANGED remote
  BY <1>1, TypeParts DEF ServesCall
<1>3. CASE CallAborts(p)
  <2>1. Books
    BY <1>2, <1>3, BooksSame DEF CallAborts, CreditSame
  <2> QED BY <2>1, SettledByBooks
<1>4. CASE CallPasses(p, t)
  <2>1. Others(t) /\ call'[t].owes = call[t].owes /\ UNCHANGED <<desc, store, link, sent, got>>
    BY <1>4 DEF CallPasses, Becomes
  <2>2. \A u \in Threads : call'[u].owes = call[u].owes
    BY <2>1 DEF Others
  <2>3. Books
    BY <1>2, <2>1, <2>2, BooksSame DEF CreditSame
  <2> QED BY <2>3, SettledByBooks
<1>5. CASE WriteSent(p, t)
  BY <1>1, <1>5, BooksWritten, SettledByBooks
<1>6. CASE ReadGiven(p, t)
  BY <1>1, <1>6, BooksRead, SettledByBooks
<1>7. CASE ReleaseSent(p, t)
  BY <1>1, <1>7, BooksReleased, SettledByBooks
<1>8. CASE CloseBlocked(p, t)
  <2>1. Others(t) /\ call'[t].owes = call[t].owes /\ UNCHANGED <<store, link, sent, got>>
        /\ desc' = [desc EXCEPT ![p].closeInitiated = TRUE]
    BY <1>8 DEF CloseBlocked, Becomes
  <2>2. \A u \in Threads : call'[u].owes = call[u].owes
    BY <2>1 DEF Others
  <2>3. CreditSame /\ \A q \in Peers : desc'[q].localFill = desc[q].localFill
    BY <1>2, <2>1 DEF DescType, CreditSame
  <2>4. Books
    BY <1>2, <2>1, <2>2, <2>3, BooksSame
  <2> QED BY <2>4, SettledByBooks
<1>9. CASE CloseSent(p, t)
  <2> DEFINE m == [type |-> "close_req", of |-> t, size |-> 0, id |-> 0]
  <2>1. Others(t) /\ call'[t].owes = call[t].owes /\ UNCHANGED <<desc, store, sent, got>>
        /\ Sends(p, m) /\ m.type = "close_req"
    BY <1>9 DEF CloseSent, Becomes
  <2> HIDE DEF m
  <2>2. \A u \in Threads : call'[u].owes = call[u].owes
    BY <2>1 DEF Others
  <2>3. CreditSame /\ \A q \in Peers : desc'[q].localFill = desc[q].localFill
    BY <2>1 DEF CreditSame
  <2>4. m.type \notin {"write_req", "release_req"}
    BY <2>1
  <2>5. Books
    BY <1>2, <2>1, <2>2, <2>3, <2>4, BooksTalk
  <2> QED BY <2>5, SettledByBooks
<1> QED BY <1>1, <1>3, <1>4, <1>5, <1>6, <1>7, <1>8, <1>9

LEMMA BooksReplied ==
  ASSUME TypeOK, TypeOK', StoreKept, CreditCovers, CreditSame, NEW p \in Peers, NEW m,
         TakesMessage(p, m), m.type # "release_req", NEW type,
         type \notin {"write_req", "release_req"}, Replies(p, m, type),
         \A q \in Peers : desc'[q].localFill = desc[q].localFill,
         \A u \in Threads : call'[u].owes = call[u].owes
  PROVE  Books
<1> DEFINE r == [m EXCEPT !.type = type]
<1>1. /\ Sends(p, r) /\ r.type = type
      /\ Takes(p) /\ m = Head(remote[p]) /\ UNCHANGED <<store, sent, got>>
  BY DEF Replies, TakesMessage, Takes
<1> HIDE DEF r
<1>2. r.type \notin {"write_req", "release_req"} /\ Head(remote[p]).type # "release_req"
  BY <1>1
<1> QED BY <1>1, <1>2, BooksTalk

LEMMA SettledByServeMessage ==
  ASSUME TypeOK, TypeOK', Control, StoreKept, CreditCovers, NEW p \in Peers, ServeMessage(p)
  PROVE  Settled
<1>1. PICK m \in Messages : TakesMessage(p, m) /\ MessageCase(p, m)
  BY ServeMessageCases DEF Control
<1>2. DescType /\ CallType /\ CallsKept /\ m.of \in Threads
  BY <1>1, TypeParts DEF TakesMessage, Control
<1>3. CASE MessageAborts(p, m)
  <2>1. ~NoAbort'
    BY <1>3 DEF MessageAborts, NoAbort
  <2>2. Fewer
    BY <1>1, <1>3, ReleaseLost
  <2> QED BY <2>1, <2>2, SettledByLoss
<1>4. CASE WriteTaken(p, m)
  <2>1. /\ m.type = "write_req" /\ Replies(p, m, "write_resp") /\ UNCHANGED <<desc, closing>>
        /\ Unblocks(p, {"read"})
    BY <1>4 DEF WriteTaken, Replies
  <2>2. \A u \in Threads : call'[u].owes = call[u].owes
    BY <1>2, <2>1, CallsUnblocked
  <2>3. CreditSame /\ \A q \in Peers : desc'[q].localFill = desc[q].localFill
    BY <2>1 DEF CreditSame
  <2>4. Books
    BY <1>1, <2>1, <2>2, <2>3, BooksReplied
  <2> QED BY <2>4, SettledByBooks
<1>5. CASE ReleaseTaken(p, m)
  <2>1. Unblocks(p, {"write", "close"}) /\ UNCHANGED closing
    BY <1>5 DEF ReleaseTaken, Replies
  <2>2. \A u \in Threads : call'[u].owes = call[u].owes
    BY <1>2, <2>1, CallsUnblocked
  <2>3. Books
    BY <1>1, <1>5, <2>2, BooksGivenBack
  <2> QED BY <2>3, SettledByBooks
<1>6. CASE CloseRefused(p, m)
  <2>1. m.type = "close_req" /\ Replies(p, m, "close_nack") /\ UNCHANGED call
    BY <1>6 DEF CloseRefused
  <2>2. CreditSame /\ \A q \in Peers : desc'[q].localFill = desc[q].localFill
    BY <1>2, <1>6 DEF CloseRefused, DescType, CreditSame
  <2>3. \A u \in Threads : call'[u].owes = call[u].owes
    BY <2>1
  <2>4. Books
    BY <1>1, <2>1, <2>2, <2>3, BooksReplied
  <2> QED BY <2>4, SettledByBooks
<1>7. CASE CloseAccepted(p, m)
  <2>1. m.type = "close_req" /\ Replies(p, m, "close_resp") /\ UNCHANGED call
    BY <1>7 DEF CloseAccepted
  <2>2. CreditSame /\ \A q \in Peers : desc'[q].localFill = desc[q].localFill
    BY <1>2, <1>7 DEF CloseAccepted, DescType, CreditSame
  <2>3. \A u \in Threads : call'[u].owes = call[u].owes
    BY <2>1
  <2>4. Books
    BY <1>1, <2>1, <2>2, <2>3, BooksReplied
  <2> QED BY <2>4, SettledByBooks
<1>8. CASE CloseOfNothing(p, m)
  <2>1. m.type = "close_req" /\ Replies(p, m, "close_resp") /\ UNCHANGED <<call, desc>>
    BY <1>8 DEF CloseOfNothing
  <2>2. CreditSame /\ \A q \in Peers : desc'[q].localFill = desc[q].localFill
    BY <2>1 DEF CreditSame
  <2>3. \A u \in Threads : call'[u].owes = call[u].owes
    BY <2>1
  <2>4. Books
    BY <1>1, <2>1, <2>2, <2>3, BooksReplied
  <2> QED BY <2>4, SettledByBooks
<1>9. CASE Answered(p, m)
  <2>1. /\ Takes(p) /\ Head(remote[p]).type # "release_req"
        /\ UNCHANGED <<link, store, sent, got, desc>>
        /\ Others(m.of) /\ call'[m.of].owes = call[m.of].owes
    BY <1>1, <1>9 DEF Answered, Becomes, TakesMessage, Takes
  <2>2. CreditSame /\ \A q \in Peers : desc'[q].localFill = desc[q].localFill
    BY <2>1 DEF CreditSame
  <2>3. \A u \in Threads : call'[u].owes = call[u].owes
    BY <2>1 DEF Others
  <2>4. Books
    BY <2>1, <2>2, <2>3, BooksAnswered
  <2> QED BY <2>4, SettledByBooks
<1>10. CASE CloseAnswered(p, m)
  <2>1. /\ Takes(p) /\ Head(remote[p]).type # "release_req"
        /\ UNCHANGED <<link, store, sent, got>>
        /\ Others(m.of) /\ call'[m.of].owes = call[m.of].owes
        /\ desc' = IF desc[p].open
                   THEN [desc EXCEPT ![p].writeSize = 0, ![p].open = desc[p].readSize # 0]
                   ELSE desc
    BY <1>1, <1>10 DEF CloseAnswered, Becomes, TakesMessage, Takes
  <2>2. CreditSame /\ \A q \in Peers : desc'[q].localFill = desc[q].localFill
    BY <1>2, <2>1 DEF DescType, CreditSame
  <2>3. \A u \in Threads : call'[u].owes = call[u].owes
    BY <2>1 DEF Others
  <2>4. Books
    BY <2>1, <2>2, <2>3, BooksAnswered
  <2> QED BY <2>4, SettledByBooks
<1> QED BY <1>1, <1>3, <1>4, <1>5, <1>6, <1>7, <1>8, <1>9, <1>10 DEF MessageCase

LEMMA SettledByReceive ==
  ASSUME TypeOK, TypeOK', Control, StoreKept, CreditCovers, NEW p \in Peers, Receive(p)
  PROVE  Settled
<1>1. PICK m \in Messages :
        Receives(p, m) /\ (ArrivalAborts(p, m) \/ Stored(p, m) \/ Queued(p, m))
  BY ReceiveCases DEF Control
<1>2. CASE ArrivalAborts(p, m)
  <2>1. ~NoAbort'
    BY <1>2 DEF ArrivalAborts, NoAbort
  <2>2. Fewer
    BY <1>1, <1>2, PacketLost
  <2> QED BY <2>1, <2>2, SettledByLoss
<1>3. CASE Stored(p, m)
  BY <1>1, <1>3, BooksArrived, SettledByBooks
<1>4. CASE Queued(p, m)
  BY <1>1, <1>4, BooksQueued, SettledByBooks
<1> QED BY <1>1, <1>2, <1>3, <1>4

-----------------------------------------------------------------------------
(* The sizes of a descriptor                                               *)

SizesSame ==
  \A q \in Peers : /\ desc'[q].writeSize = desc[q].writeSize
                   /\ desc'[q].readSize = desc[q].readSize /\ desc'[q].open = desc[q].open

LEMMA SidesSame ==
  ASSUME SidesKept, SizesSame, \A q \in Peers : closing[q] = "done" => closing'[q] = "done"
  PROVE  SidesKept'
<1>1. ASSUME NEW q \in Peers
      PROVE  /\ desc'[q].writeSize = Buffer[q] \/ (desc'[q].writeSize = 0 /\ closing'[q] = "done")
             /\ desc'[q].readSize = Buffer[Other(q)] \/ desc'[q].readSize = 0
             /\ desc'[q].writeSize # 0 \/ desc'[q].readSize # 0 => desc'[q].open
  BY DEF SidesKept, SizesSame
<1> QED BY <1>1 DEF SidesKept

\* What a step does to the sizes and to closing.
LEMMA SizesByServeCall ==
  ASSUME TypeOK, Control, StoreKept, CreditCovers, NEW p \in Peers, ServeCall(p)
  PROVE  SizesSame /\ UNCHANGED closing
<1>1. PICK t \in Threads :
        /\ ServesCall(p, t)
        /\ \/ CallAborts(p) \/ CallPasses(p, t) \/ WriteSent(p, t) \/ ReadGiven(p, t)
           \/ ReleaseSent(p, t) \/ CloseBlocked(p, t) \/ CloseSent(p, t)
  BY ServeCallCases DEF Control
<1>2. DescType
  BY TypeParts
<1>3. CASE UNCHANGED desc
  BY <1>1, <1>3 DEF SizesSame, CallAborts, CallPasses, WriteSent, ReadGiven, ReleaseSent,
                    CloseBlocked, CloseSent
<1>4. CASE CallAborts(p) \/ CallPasses(p, t) \/ ReadGiven(p, t) \/ CloseSent(p, t)
  BY <1>3, <1>4 DEF CallAborts, CallPasses, ReadGiven, CloseSent
<1>5. CASE WriteSent(p, t)
  BY <1>2, <1>5 DEF WriteSent, SizesSame, DescType
<1>6. CASE ReleaseSent(p, t)
  BY <1>2, <1>6 DEF ReleaseSent, SizesSame, DescType
<1>7. CASE CloseBlocked(p, t)
  BY <1>2, <1>7 DEF CloseBlocked, SizesSame, DescType
<1> QED BY <1>1, <1>4, <1>5, <1>6, <1>7

LEMMA SizesByReceive ==
  ASSUME TypeOK, MessagesKept, NEW p \in Peers, Receive(p)
  PROVE  SizesSame /\ UNCHANGED closing
<1>1. DescType
  BY TypeParts
<1>2. UNCHANGED closing /\ \/ UNCHANGED desc
                           \/ \E x : desc' = [desc EXCEPT ![p].localFill = x]
  BY DEF Receive
<1> QED BY <1>1, <1>2 DEF SizesSame, DescType

LEMMA SidesByServeMessage ==
  ASSUME TypeOK, MessagesKept, SidesKept, NEW p \in Peers, ServeMessage(p)
  PROVE  SidesKept'
<1>1. PICK m \in Messages : TakesMessage(p, m) /\ MessageCase(p, m)
  BY ServeMessageCases
<1>2. DescType /\ closing \in [Peers -> {"open", "called", "done"}]
  BY TypeParts DEF RestType
<1>3. CASE MessageAborts(p, m) \/ WriteTaken(p, m) \/ CloseOfNothing(p, m) \/ Answered(p, m)
  <2>1. UNCHANGED <<desc, closing>>
    BY <1>3 DEF MessageAborts, WriteTaken, CloseOfNothing, Answered, Replies
  <2> QED BY <2>1, SidesSame DEF SizesSame
<1>4. CASE ReleaseTaken(p, m)
  <2>1. SizesSame /\ UNCHANGED closing
    BY <1>2, <1>4 DEF ReleaseTaken, Replies, SizesSame, DescType
  <2> QED BY <2>1, SidesSame
<1>5. CASE CloseRefused(p, m)
  <2>1. SizesSame /\ UNCHANGED closing
    BY <1>2, <1>5 DEF CloseRefused, Replies, SizesSame, DescType
  <2> QED BY <2>1, SidesSame
<1>6. CASE CloseAccepted(p, m)
  <2>1. /\ \A q \in Peers : q # p => desc'[q] = desc[q]
        /\ desc'[p].writeSize = desc[p].writeSize /\ desc'[p].readSize = 0
        /\ desc'[p].open = (desc[p].writeSize # 0) /\ UNCHANGED closing
    BY <1>2, <1>6 DEF CloseAccepted, Replies, DescType
  <2> QED BY <2>1 DEF SidesKept
<1>7. CASE CloseAnswered(p, m)
  <2>1. closing'[p] = "done" /\ \A q \in Peers : q # p => closing'[q] = closing[q]
    BY <1>2, <1>7 DEF CloseAnswered
  <2>2. CASE desc[p].open
    <3>1. /\ \A q \in Peers : q # p => desc'[q] = desc[q]
          /\ desc'[p].writeSize = 0 /\ desc'[p].readSize = desc[p].readSize
          /\ desc'[p].open = (desc[p].readSize # 0)
      BY <1>2, <1>7, <2>2 DEF CloseAnswered, DescType
    <3> QED BY ZenonT(30), <2>1, <3>1 DEF SidesKept
  <2>3. CASE ~desc[p].open
    <3>1. UNCHANGED desc
      BY <1>7, <2>3 DEF CloseAnswered
    <3> QED BY <2>1, <3>1 DEF SidesKept
  <2> QED BY <2>2, <2>3
<1> QED BY <1>1, <1>3, <1>4, <1>5, <1>6, <1>7 DEF MessageCase

-----------------------------------------------------------------------------
(* What holds whatever the calls cross                                     *)

LEMMA NothingQueued ==
  \A k \in Measures : Weight(k, <<>>) = 0 /\ Part(k, <<>>, "write_req") = 0
                        /\ Part(k, <<>>, "release_req") = 0
BY BytesEmpty, OfTypeEmpty DEF Weight, Part

LEMMA InitBooks ==
  ASSUME Init
  PROVE  /\ \A p \in Peers, k \in Measures : Due(k, p) = 0 /\ Credit(k, p) = 0
         /\ \A p \in Peers : sent[p] = 0 /\ Arrived(p) = 0
         /\ StoreKept
<1>1. \A p \in Peers :
        /\ link[p] = <<>> /\ remote[p] = <<>> /\ got[p] = <<>> /\ sent[p] = 0
        /\ store[p].unread = <<>> /\ store[p].blocked = <<>>
        /\ desc[p].remoteFill = 0 /\ desc[p].remotePackets = 0 /\ desc[p].localFill = 0
  BY DEF Init
<1>2. \A t \in Threads : call[t].owes = 0
  BY DEF Init
<1>3. "bytes" \in Measures /\ "packets" \in Measures
  BY DEF Measures
<1>4. ASSUME NEW p \in Peers, NEW k \in Measures
      PROVE  Stock(k, p) = 0 /\ Credit(k, p) = 0
  <2>1. Weight(k, <<>>) = 0
    BY NothingQueued
  <2>2. Weight(k, store[p].unread) = 0 /\ Weight(k, store[p].blocked) = 0
    BY <1>1, <2>1
  <2> QED BY <1>1, <2>2 DEF Stock, Credit
<1>5. ASSUME NEW p \in Peers, NEW k \in Measures
      PROVE  Due(k, p) = 0
  <2>1. Other(p) \in Peers
    BY Ends
  <2>2. Part(k, <<>>, "write_req") = 0 /\ Part(k, <<>>, "release_req") = 0
    BY NothingQueued
  <2>3. /\ Part(k, link[Other(p)], "write_req") = 0
        /\ Part(k, link[p], "release_req") = 0 /\ Part(k, remote[p], "release_req") = 0
    BY <1>1, <2>1, <2>2
  <2>4. Stock(k, Other(p)) = 0
    BY <1>4, <2>1
  <2> QED BY <2>3, <2>4 DEF Due
<1>6. ASSUME NEW p \in Peers
      PROVE  Arrived(p) = 0
  <2>1. Other(p) \in Peers
    BY Ends
  <2>2. Part("packets", <<>>, "write_req") = 0
    BY <1>3, NothingQueued
  <2>3. Part("packets", link[Other(p)], "write_req") = 0
    BY <1>1, <2>1, <2>2
  <2>4. Len(got[Other(p)]) = 0 /\ Len(store[Other(p)].unread) = 0
    BY <1>1, <2>1
  <2> QED BY <2>3, <2>4 DEF Arrived
<1>7. ASSUME NEW p \in Peers
      PROVE  /\ \A x \in Elements(store[p].unread) \union Elements(store[p].blocked) : x.size > 0
             /\ desc[p].localFill = Stock("bytes", p)
             /\ Cardinality(Owing(p)) = Len(store[p].blocked)
  <2>1. Elements(store[p].unread) = {} /\ Elements(store[p].blocked) = {}
        /\ Len(store[p].blocked) = 0
    BY <1>1 DEF Elements
  <2>2. Owing(p) = {}
    BY <1>2 DEF Owing, ThreadsOf
  <2>3. Cardinality(Owing(p)) = 0
    BY <2>2, FS_EmptySet
  <2> QED BY <1>1, <1>3, <1>4, <2>1, <2>3
<1>8. StoreKept
  BY <1>7 DEF StoreKept
<1> QED BY <1>1, <1>4, <1>5, <1>6, <1>8

LEMMA KeptInit ==
  ASSUME Init
  PROVE  Kept
<1>1. TypeOK
  <2>1. DescType
    BY Ends DEF Init, DescType
  <2>2. CallType
    BY DEF Init, CallType
  <2>3. StoreType
    BY DEF Init, StoreType
  <2>4. QueueType
    BY DEF Init, QueueType
  <2>5. RestType
    <3>1. /\ sent = [p \in Peers |-> 0] /\ got = [p \in Peers |-> <<>>]
          /\ closing = [p \in Peers |-> "open"] /\ aborted = {} /\ crossed = FALSE
      BY DEF Init
    <3>2. <<>> \in Seq(Nat)
      OBVIOUS
    <3>3. sent \in [Peers -> Nat] /\ closing \in [Peers -> {"open", "called", "done"}]
      BY <3>1
    <3>4. got \in [Peers -> Seq(Nat)]
      BY <3>1, <3>2
    <3>5. aborted \subseteq Peers
      BY <3>1
    <3>6. crossed \in BOOLEAN
      BY <3>1, Zenon
    <3> QED BY <3>3, <3>4, <3>5, <3>6 DEF RestType
  <2> QED BY <2>1, <2>2, <2>3, <2>4, <2>5, TypeParts
<1>2. Control
  <2>1. \A p \in Peers : link[p] = <<>> /\ remote[p] = <<>> /\ local[p] = <<>>
    BY DEF Init
  <2>2. \A p \in Peers : MessagesTo(p) = {}
    BY <2>1 DEF MessagesTo, Elements
  <2>3. MessagesKept
    BY <2>2 DEF MessagesKept
  <2>4. OneMessageEach
    BY <1>1, <2>2, TracedFor, TypeParts DEF OneMessageEach
  <2>5. LocalKept
    BY <2>1 DEF LocalKept
  <2>6. \A t \in Threads : call[t].op = "none" /\ call[t].state = "idle"
    BY DEF Init
  <2>7. CallsKept
    BY <2>6 DEF CallsKept, CallKept
  <2> QED BY <2>3, <2>4, <2>5, <2>7 DEF Control
<1>3. CreditCovers
  <2>1. \A p \in Peers, k \in Measures : Limit(k, p) \in Nat
    BY DEF Limit
  <2>2. \A p \in Peers, k \in Measures : Due(k, p) = 0 /\ Credit(k, p) = 0
    BY InitBooks
  <2> QED BY <2>1, <2>2 DEF CreditCovers
<1>4. SidesKept
  BY DEF Init, SidesKept
<1> QED BY <1>1, <1>2, <1>3, <1>4, InitBooks DEF Kept

LEMMA KeptNext ==
  ASSUME Kept, Next
  PROVE  Kept' /\ Settled
<1>1. TypeOK /\ Control /\ StoreKept /\ CreditCovers /\ SidesKept
      /\ LocalKept /\ CallsKept /\ MessagesKept
  BY DEF Kept, Control
<1>2. ASSUME NEW t \in Threads, Application(t)
      PROVE  Kept' /\ Settled
  <2>1. TypeOK'
    BY <1>1, <1>2, TypesByApplication
  <2>2. Control'
    BY <1>1, <1>2, <2>1, ControlByApplication
  <2>3. Settled /\ UNCHANGED <<desc, link, remote, store, sent, got, aborted>>
    BY <1>1, <1>2, <2>1, SettledByApplication
  <2>4. \A q \in Peers : closing[q] = "done" => closing'[q] = "done"
    <3>1. closing \in [Peers -> {"open", "called", "done"}]
      BY <1>1 DEF TypeOK
    <3> QED BY <1>2, <3>1 DEF Application, CallWrite, CallRead, CallRelease, CallClose
  <2>5. SidesKept'
    BY <1>1, <2>3, <2>4, SidesSame DEF SizesSame
  <2> QED BY <2>1, <2>2, <2>3, <2>5 DEF Kept, Settled
<1>3. ASSUME NEW p \in Peers, ServeCall(p)
      PROVE  Kept' /\ Settled
  <2>1. TypeOK'
    BY <1>1, <1>3, TypesByServeCall
  <2>2. Control'
    BY <1>1, <1>3, <2>1, ControlByServeCall
  <2>3. Settled
    BY <1>1, <1>3, <2>1, SettledByServeCall
  <2>4. SidesKept'
    BY <1>1, <1>3, SizesByServeCall, SidesSame
  <2> QED BY <2>1, <2>2, <2>3, <2>4 DEF Kept, Settled
<1>4. ASSUME NEW p \in Peers, ServeMessage(p)
      PROVE  Kept' /\ Settled
  <2>1. TypeOK'
    BY <1>1, <1>4, TypesByServeMessage
  <2>2. Control'
    BY <1>1, <1>4, <2>1, ControlByServeMessage
  <2>3. Settled
    BY <1>1, <1>4, <2>1, SettledByServeMessage
  <2>4. SidesKept'
    BY <1>1, <1>4, SidesByServeMessage
  <2> QED BY <2>1, <2>2, <2>3, <2>4 DEF Kept, Settled
<1>5. ASSUME NEW p \in Peers, Receive(p)
      PROVE  Kept' /\ Settled
  <2>1. TypeOK'
    BY <1>1, <1>5, TypesByReceive
  <2>2. Control'
    BY <1>1, <1>5, <2>1, ControlByReceive
  <2>3. Settled
    BY <1>1, <1>5, <2>1, SettledByReceive
  <2>4. SidesKept'
    BY <1>1, <1>5, SizesByReceive, SidesSame
  <2> QED BY <2>1, <2>2, <2>3, <2>4 DEF Kept, Settled
<1> QED BY <1>2, <1>3, <1>4, <1>5 DEF Next

LEMMA KeptStutters ==
  ASSUME Kept, UNCHANGED vars
  PROVE  Kept'
<1>1. TypeOK'
  BY DEF Kept, TypeOK, vars
<1>2. UNCHANGED <<desc, store, local, remote, link, call, sent, got, closing>>
  BY DEF vars
<1>3. Control'
  BY <1>2 DEF Kept, Control, MessagesKept, MessagesTo, Proper, OneMessageEach, Traced,
              LocalKept, CallsKept, CallKept
<1>4. StoreKept'
  BY <1>2 DEF Kept, StoreKept, Stock, Weight, Owing
<1>5. CreditCovers'
  BY <1>2 DEF Kept, CreditCovers, Credit, Due, Part, Stock, Weight, Limit
<1>6. SidesKept'
  BY <1>2 DEF Kept, SidesKept
<1> QED BY <1>1, <1>3, <1>4, <1>5, <1>6 DEF Kept

-----------------------------------------------------------------------------
(* No assertion fails until a call crosses a close                         *)

\* Packets that have a size are not more than their bytes.
LEMMA PacketsInBytes ==
  ASSUME NEW s \in Seq(Messages), NEW type, \A x \in Elements(s) : x.type = type => x.size > 0
  PROVE  Part("packets", s, type) <= Part("bytes", s, type)
<1> DEFINE Sized(r) == \A x \in Elements(r) : x.type = type => x.size > 0
           P(r) == Part("packets", r, type)
           B(r) == Part("bytes", r, type)
           S == {n \in Nat : \A r \in Seq(Messages) : Len(r) = n /\ Sized(r) => P(r) <= B(r)}
<1>1. 0 \in S
  <2>1. ASSUME NEW r \in Seq(Messages), Len(r) = 0
        PROVE  P(r) <= B(r)
    <3>1. r = <<>>
      BY <2>1
    <3>2. OfType(<<>>, type) = <<>>
      BY OfTypeEmpty
    <3>3. P(r) = 0 /\ B(r) = 0
      BY <3>1, <3>2, BytesEmpty DEF Part, Weight
    <3> QED BY <3>3
  <2> QED BY <2>1
<1>2. ASSUME NEW n \in Nat, n \in S
      PROVE  n + 1 \in S
  <2>1. ASSUME NEW r \in Seq(Messages), Len(r) = n + 1, Sized(r)
        PROVE  P(r) <= B(r)
    <3>1. r # <<>> /\ Tail(r) \in Seq(Messages) /\ Len(Tail(r)) = n /\ Head(r) \in Messages
      <4> HIDE DEF Messages
      <4> QED BY <2>1
    <3>2. Elements(Tail(r)) \subseteq Elements(r) /\ Head(r) \in Elements(r)
      BY <3>1, ElementsOf
    <3>3. Sized(Tail(r))
      BY <2>1, <3>2
    <3>4. P(Tail(r)) <= B(Tail(r))
      BY <1>2, <3>1, <3>3
    <3>5. "packets" \in Measures /\ "bytes" \in Measures
      BY DEF Measures
    <3>6. P(r) = Adds("packets", Head(r), type) + P(Tail(r))
      BY <3>1, <3>5, PartOf
    <3>7. B(r) = Adds("bytes", Head(r), type) + B(Tail(r))
      BY <3>1, <3>5, PartOf
    <3>8. P(Tail(r)) \in Nat /\ B(Tail(r)) \in Nat
      BY <3>1, <3>5, PartOf
    <3>9. Head(r).size \in Nat /\ (Head(r).type = type => Head(r).size > 0)
      BY <2>1, <3>1, <3>2, MessageFields
    <3>10. /\ Adds("packets", Head(r), type) \in Nat /\ Adds("bytes", Head(r), type) \in Nat
           /\ Adds("packets", Head(r), type) <= Adds("bytes", Head(r), type)
      BY <3>9 DEF Adds, Unit
    <3> DEFINE a == P(r)
               b == B(r)
               c == P(Tail(r))
               d == B(Tail(r))
               x == Adds("packets", Head(r), type)
               y == Adds("bytes", Head(r), type)
    <3>11. a = x + c /\ b = y + d /\ c <= d /\ x <= y
      BY <3>4, <3>6, <3>7, <3>10
    <3>12. c \in Nat /\ d \in Nat /\ x \in Nat /\ y \in Nat
      BY <3>8, <3>10
    <3> HIDE DEF a, b, c, d, x, y
    <3>13. a <= b
      BY <3>11, <3>12
    <3> QED BY <3>13 DEF a, b
  <2> QED BY <2>1
<1>3. Nat \subseteq S
  <2> HIDE DEF S
  <2> QED BY <1>1, <1>2, Induction
<1>4. Len(s) \in S /\ Sized(s)
  BY <1>3
<1> QED BY <1>4

\* As long as an end has credit to get back, the stream is there at both ends.
LEMMA OpenForCredit ==
  ASSUME TypeOK, CreditCovers, SidesKept, ClosedEmpty, NEW p \in Peers, desc[p].remoteFill > 0
  PROVE  desc[p].open /\ desc[Other(p)].open
<1>1. Other(p) \in Peers /\ Other(Other(p)) = p /\ "bytes" \in Measures
  BY Ends DEF Measures
<1>2. desc[p].remoteFill <= Buffer[p]
  BY <1>1 DEF CreditCovers, Credit, Limit
<1>3. Buffer[p] # 0
  BY <1>2 DEF TypeOK
<1>4. closing[p] # "done" /\ desc[Other(p)].readSize = Buffer[p]
  BY DEF ClosedEmpty
<1>5. desc[p].writeSize = Buffer[p]
  BY <1>4 DEF SidesKept
<1> QED BY <1>1, <1>3, <1>4, <1>5 DEF SidesKept

LEMMA ReleaseFinds ==
  ASSUME Kept, ClosedEmpty, NEW p \in Peers, NEW m, TakesMessage(p, m), m.type = "release_req"
  PROVE  desc[p].open
<1>1. /\ TypeOK /\ CreditCovers /\ SidesKept /\ StoreKept
      /\ remote[p] # <<>> /\ m = Head(remote[p]) /\ m.size \in Nat /\ Proper(p, m)
  BY DEF Kept, TakesMessage
<1>2. "bytes" \in Measures
  BY DEF Measures
<1>3. m.size > 0
  BY <1>1 DEF Proper
<1>4. Credit("bytes", p) - Unit("bytes", m) \in Nat
  BY <1>1, <1>2, Covered
<1>5. desc[p].remoteFill - m.size \in Nat
  BY <1>4 DEF Credit, Unit
<1>6. desc[p].remoteFill \in Nat
  BY <1>1 DEF TypeOK
<1>7. desc[p].remoteFill > 0
  BY <1>1, <1>3, <1>5, <1>6
<1> QED BY <1>1, <1>7, OpenForCredit

LEMMA PacketFinds ==
  ASSUME Kept, ClosedEmpty, NEW p \in Peers, NEW m, Receives(p, m), m.type = "write_req"
  PROVE  desc[p].open /\ HasRoom(p)
<1> DEFINE o == Other(p)
<1>1. /\ TypeOK /\ CreditCovers /\ SidesKept /\ QueueType /\ StoreType
      /\ link[p] # <<>> /\ m = Head(link[p]) /\ m.size \in Nat /\ Proper(p, m)
  BY TypeParts DEF Kept, Receives
<1>2. o \in Peers /\ Other(o) = p /\ "bytes" \in Measures /\ "packets" \in Measures
  BY Ends DEF Measures
<1>3. m.size > 0
  BY <1>1 DEF Proper
<1>4. link[p] \in Seq(Messages)
  BY <1>1 DEF QueueType
<1> HIDE DEF o
<1>5. ASSUME NEW k \in Measures
      PROVE  Credit(k, o) >= Unit(k, m) + Stock(k, p) /\ Credit(k, o) <= Limit(k, o)
  <2> DEFINE a == Part(k, link[p], "write_req")
             b == Stock(k, p)
             c == Part(k, link[o], "release_req")
             d == Part(k, remote[o], "release_req")
             e == Part(k, Tail(link[p]), "write_req")
             u == Unit(k, m)
             f == Credit(k, o)
  <2>1. a \in Nat /\ b \in Nat /\ c \in Nat /\ d \in Nat
    BY <1>1, <1>2, DueTerms
  <2>2. Due(k, o) = (a + b) + (c + d)
    BY <1>2 DEF Due
  <2>3. a = u + e
    <3>1. Adds(k, m, "write_req") = u
      BY DEF Adds
    <3> QED BY <1>1, <1>4, <3>1, PartOf
  <2>4. u \in Nat /\ e \in Nat
    <3>1. Tail(link[p]) \in Seq(Messages)
      BY <1>1, <1>4
    <3> QED BY <1>1, <3>1, PartOf DEF Unit
  <2>5. f >= Due(k, o) /\ f <= Limit(k, o)
    BY <1>1, <1>2 DEF CreditCovers
  <2>6. f \in Nat
    BY <1>1, <1>2, CreditType, TypeParts
  <2> HIDE DEF a, b, c, d, e, u, f
  <2>7. f >= u + b
    BY <2>1, <2>2, <2>3, <2>4, <2>5, <2>6
  <2> QED BY <2>5, <2>7 DEF f, u, b
<1>6. desc[o].remoteFill > 0
  <2>1. desc[o].remoteFill >= m.size + Stock("bytes", p)
    BY <1>2, <1>5 DEF Credit, Unit
  <2>2. Stock("bytes", p) \in Nat /\ desc[o].remoteFill \in Nat
    BY <1>1, <1>2, StoreSizes DEF TypeOK
  <2> QED BY <1>1, <1>3, <2>1, <2>2
<1>7. HasRoom(p)
  <2>1. Credit("packets", o) >= 1 + Stock("packets", p) /\ Credit("packets", o) <= MaxPackets
    BY <1>2, <1>5 DEF Unit, Limit
  <2>2. Stock("packets", p) = Len(store[p].unread) + Len(store[p].blocked)
    BY DEF Stock, Weight
  <2>3. Len(store[p].unread) \in Nat /\ Len(store[p].blocked) \in Nat
    BY <1>1 DEF StoreType
  <2>4. Credit("packets", o) \in Nat /\ MaxPackets \in Nat
    BY <1>1, <1>2, CreditType, TypeParts
  <2> DEFINE a == Len(store[p].unread)
             b == Len(store[p].blocked)
             c == Credit("packets", o)
  <2>5. a \in Nat /\ b \in Nat /\ c \in Nat /\ c >= 1 + (a + b) /\ c <= MaxPackets
    BY <2>1, <2>2, <2>3, <2>4
  <2> HIDE DEF a, b, c
  <2>6. a + b < MaxPackets
    BY <2>4, <2>5
  <2> QED BY <2>6 DEF HasRoom, a, b
<1> QED BY <1>1, <1>2, <1>6, <1>7, OpenForCredit

\* A call finds its stream: a write or close, because the end has not closed; a release,
\* because its packet is charged; a read, because there is a packet it waits for.
LEMMA CallFinds ==
  ASSUME Kept, Uncrossed, NEW p \in Peers, NEW t \in Threads, ServesCall(p, t)
  PROVE  desc[p].open
<1> DEFINE o == Other(p)
<1>1. /\ TypeOK /\ CreditCovers /\ SidesKept /\ StoreKept /\ CallsKept /\ CallKept(t)
      /\ QueueType /\ StoreType /\ CreditExact /\ CloseLast /\ ClosedEmpty /\ MessagesKept
  BY TypeParts DEF Kept, Control, CallsKept, Uncrossed
<1>2. o \in Peers /\ Other(o) = p /\ "bytes" \in Measures /\ "packets" \in Measures
  BY Ends DEF Measures
<1>3. EndOf(t) = p /\ call[t].state \in {"queued", "ready"} /\ t \in ThreadsOf(p)
  BY Threading DEF ServesCall
<1>4. call[t].op \in {"write", "read", "release", "close"}
  BY <1>1, <1>3 DEF TypeOK, CallKept
<1> SUFFICES ASSUME ~desc[p].open
             PROVE  FALSE
  OBVIOUS
<1>5. desc[p].writeSize = 0 /\ desc[p].readSize = 0
  BY <1>1 DEF SidesKept
<1>6. CASE call[t].op \in {"write", "close"}
  <2>1. closing[p] = "done"
    BY <1>1, <1>3, <1>5, <1>6 DEF CloseLast, SidesKept
  <2>2. CASE call[t].op = "close"
    BY <1>1, <1>3, <2>1, <2>2 DEF CallKept
  <2>3. CASE call[t].op = "write"
    <3>1. t \in Calls(p, "write", InCall)
      BY <1>3, <2>3 DEF Calls, InCall
    <3> QED BY <1>1, <2>1, <3>1 DEF CloseLast
  <2> QED BY <1>6, <2>2, <2>3
<1>7. CASE call[t].op = "release"
  <2>1. call[t].owes = 1
    BY <1>1, <1>3, <1>7 DEF CallKept
  <2>2. store[p].blocked # <<>>
    <3>1. t \in Owing(p) /\ IsFiniteSet(Owing(p))
      <4>1. Owing(p) \subseteq Threads
        BY DEF Owing, ThreadsOf
      <4> QED BY <1>3, <2>1, <4>1, FS_Subset DEF Owing
    <3>2. Cardinality(Owing(p)) # 0
      BY <3>1, FS_EmptySet
    <3> QED BY <1>1, <3>2 DEF StoreKept
  <2>3. desc[o].remoteFill > 0
    <3>1. Stock("bytes", p) = desc[p].localFill
            /\ desc[p].localFill - Head(store[p].blocked).size \in Nat
          /\ Head(store[p].blocked).size > 0 /\ Head(store[p].blocked) \in Packets
      BY <1>1, <2>2, Covered DEF StoreKept
    <3>2. Due("bytes", o) >= Stock("bytes", p)
      BY <1>1, <1>2, DueTerms
    <3>3. desc[o].remoteFill >= Due("bytes", o) /\ desc[o].remoteFill \in Nat
      BY <1>1, <1>2 DEF CreditCovers, Credit, TypeOK
    <3>4. Due("bytes", o) \in Nat /\ Stock("bytes", p) \in Nat
            /\ Head(store[p].blocked).size \in Nat
      BY <1>1, <1>2, <3>1, DueTerms, StoreSizes, MessageFields
    <3> DEFINE a == desc[o].remoteFill
               b == Due("bytes", o)
               c == Stock("bytes", p)
               d == Head(store[p].blocked).size
    <3>5. a >= b /\ b >= c /\ c - d \in Nat /\ d > 0 /\ a \in Nat /\ b \in Nat /\ c \in Nat
            /\ d \in Nat
      BY <3>1, <3>2, <3>3, <3>4
    <3> HIDE DEF a, b, c, d
    <3>6. a > 0
      BY <3>5
    <3> QED BY <3>6 DEF a
  <2>4. desc[p].open
    BY <1>1, <1>2, <2>3, OpenForCredit
  <2> QED BY <2>4
<1>8. CASE call[t].op = "read"
  <2>1. closing[o] # "open" /\ desc[o].remoteFill = 0
    BY <1>1, <1>2, <1>3, <1>5, <1>8 DEF CloseLast, ClosedEmpty
  <2>2. Due("bytes", o) = 0
    BY <1>1, <1>2, <2>1 DEF CreditExact, Credit
  <2>3. Stock("bytes", p) = 0 /\ Part("bytes", link[p], "write_req") = 0
    <3>1. /\ Due("bytes", o) >= Stock("bytes", p)
          /\ Due("bytes", o) >= Part("bytes", link[p], "write_req")
          /\ Stock("bytes", p) \in Nat /\ Part("bytes", link[p], "write_req") \in Nat
      BY <1>1, <1>2, DueTerms
    <3> QED BY <2>2, <3>1
  <2>4. store[p].unread = <<>>
    <3> SUFFICES ASSUME store[p].unread # <<>>
                 PROVE  FALSE
      OBVIOUS
    <3>1. store[p].unread \in Seq(Packets)
      BY <1>1 DEF StoreType
    <3>2. Head(store[p].unread) \in Elements(store[p].unread)
            /\ Tail(store[p].unread) \in Seq(Packets)
      BY <3>1, ElementsOf
    <3>3. Head(store[p].unread).size > 0 /\ Head(store[p].unread).size \in Nat
      <4>1. Head(store[p].unread) \in Packets
        BY <3>1, <3>2, ElementsOf
      <4> QED BY <1>1, <3>2, <4>1, MessageFields DEF StoreKept
    <3>4. Channel!Bytes(store[p].unread) =
            Head(store[p].unread).size + Channel!Bytes(Tail(store[p].unread))
      BY <3>1, MessageFields, BytesOfQueue
    <3>5. Channel!Bytes(Tail(store[p].unread)) \in Nat
      BY <3>2, MessageFields, BytesOfQueue
    <3>6. Stock("bytes", p) = Weight("bytes", store[p].unread) + Weight("bytes", store[p].blocked)
          /\ Weight("bytes", store[p].blocked) \in Nat
          /\ Weight("bytes", store[p].unread) = Channel!Bytes(store[p].unread)
      BY <1>1, <1>2, StoreSizes DEF Stock, Weight
    <3> DEFINE a == Head(store[p].unread).size
               b == Channel!Bytes(Tail(store[p].unread))
               c == Weight("bytes", store[p].blocked)
    <3>7. a > 0 /\ a \in Nat /\ b \in Nat /\ c \in Nat /\ (a + b) + c = 0
      BY <2>3, <3>3, <3>4, <3>5, <3>6
    <3> HIDE DEF a, b, c
    <3> QED BY <3>7
  <2>5. Part("packets", link[p], "write_req") = 0
    <3>1. link[p] \in Seq(Messages)
      BY <1>1 DEF QueueType
    <3>2. \A x \in Elements(link[p]) : x.type = "write_req" => x.size > 0
      BY <1>1 DEF MessagesKept, MessagesTo, Proper
    <3>3. Part("packets", link[p], "write_req") <= Part("bytes", link[p], "write_req")
      BY <3>1, <3>2, PacketsInBytes
    <3>4. Part("packets", link[p], "write_req") \in Nat
      BY <1>2, <3>1, PartOf
    <3> QED BY <2>3, <3>3, <3>4
  <2>6. sent[o] = Len(got[p])
    <3>1. sent[o] = (Len(got[p]) + Len(store[p].unread)) + Part("packets", link[p], "write_req")
      BY <1>1, <1>2 DEF CreditExact, Arrived
    <3>2. Len(got[p]) \in Nat /\ Len(store[p].unread) = 0
      BY <1>1, <2>4 DEF TypeOK
    <3> QED BY <2>5, <3>1, <3>2
  <2>7. Cardinality(Calls(p, "read", InCall)) \in Nat /\ Cardinality(Calls(p, "read", InCall)) # 0
    <3>1. t \in Calls(p, "read", InCall)
      BY <1>3, <1>8 DEF Calls, InCall
    <3>2. Calls(p, "read", InCall) \subseteq Threads
      BY DEF Calls, ThreadsOf
    <3>3. IsFiniteSet(Calls(p, "read", InCall))
      BY <3>2, FS_Subset
    <3> QED BY <3>1, <3>3, FS_EmptySet, FS_CardinalityType
  <2>8. Reads(p) <= sent[o]
    BY <1>1, <1>2, <2>1 DEF CloseLast
  <2>9. Len(got[p]) \in Nat
    BY <1>1 DEF TypeOK
  <2>10. Len(got[p]) + Cardinality(Calls(p, "read", InCall)) <= Len(got[p])
    BY <2>6, <2>8 DEF Reads
  <2> QED BY <2>7, <2>9, <2>10
<1> QED BY <1>4, <1>6, <1>7, <1>8

\* A close request was sent with no credit out, so it finds the store empty.
LEMMA NeverRefused ==
  ASSUME Kept, CreditExact, CloseMessages, NEW p \in Peers, NEW m, TakesMessage(p, m),
         m.type = "close_req"
  PROVE  /\ desc[p].localFill = 0
         /\ EndOf(m.of) = Other(p) /\ desc[Other(p)].remoteFill = 0
         /\ closing[Other(p)] # "open"
<1>1. /\ TypeOK /\ StoreKept /\ QueueType /\ StoreType /\ CallsKept /\ m \in MessagesTo(p)
      /\ m.of \in Threads /\ Proper(p, m)
  <2>1. remote[p] \in Seq(Messages) /\ remote[p] # <<>> /\ m = Head(remote[p])
    BY DEF Kept, TypeOK, TakesMessage
  <2>2. m \in Elements(remote[p])
    BY <2>1, ElementsOf
  <2> QED BY <2>2, TypeParts DEF Kept, Control, TakesMessage, MessagesTo
<1>2. Other(p) \in Peers /\ Other(Other(p)) = p /\ "bytes" \in Measures
  BY Ends DEF Measures
<1>3. EndOf(m.of) = Other(p) /\ call[m.of].op = "close"
  BY <1>1 DEF Proper, Requests, OpOf, Types
<1>4. desc[Other(p)].remoteFill = 0
  BY <1>1, <1>3 DEF CloseMessages, EmptyAt, CloseTypes
<1>5. Due("bytes", Other(p)) = 0
  BY <1>2, <1>4 DEF CreditExact, Credit
<1>6. Due("bytes", Other(p)) >= Stock("bytes", p) /\ Stock("bytes", p) \in Nat
  BY <1>1, <1>2, DueTerms
<1>7. Stock("bytes", p) = 0
  BY <1>5, <1>6
<1>8. desc[p].localFill = 0
  BY <1>1, <1>7 DEF StoreKept
<1>9. closing[Other(p)] # "open"
  BY <1>1, <1>3 DEF CallsKept, CallKept
<1> QED BY <1>3, <1>4, <1>8, <1>9

\* An end that closes has all its credit back, and takes no more.
StillEmpty ==
  \A q \in Peers : closing[q] # "open" /\ desc[q].remoteFill = 0 => desc'[q].remoteFill = 0

LEMMA ClosedEmptyKept ==
  ASSUME ClosedEmpty, StillEmpty,
         \A q \in Peers : /\ desc'[q].readSize = desc[q].readSize
                          /\ closing'[q] = "done" => closing[q] = "done"
                          /\ closing[q] # "open" => closing'[q] # "open"
  PROVE  ClosedEmpty'
<1>1. ASSUME NEW q \in Peers,
             closing'[q] = "done" \/ desc'[Other(q)].readSize # Buffer[q]
      PROVE  closing'[q] # "open" /\ desc'[q].remoteFill = 0
  <2>1. Other(q) \in Peers
    BY Ends
  <2>2. closing[q] = "done" \/ desc[Other(q)].readSize # Buffer[q]
    BY <1>1, <2>1
  <2>3. closing[q] # "open" /\ desc[q].remoteFill = 0
    BY <2>2 DEF ClosedEmpty
  <2> QED BY <2>3 DEF StillEmpty
<1> QED BY <1>1 DEF ClosedEmpty

LEMMA EmptyKept ==
  ASSUME QueueType, MessagesKept, CallsKept, CloseMessages, StillEmpty, NEW q \in Peers,
         NEW m \in MessagesTo(q)
  PROVE  EmptyAt(m)'
<1>1. m.of \in Threads /\ m.type \in Types /\ EndOf(m.of) \in Peers
  BY MessagesIn, Threading
<1>2. CASE m.type \in CloseTypes
  <2>1. m.type # "close_nack" /\ desc[EndOf(m.of)].remoteFill = 0
    BY <1>2 DEF CloseMessages, EmptyAt
  <2>2. call[m.of].op = "close"
    <3>1. call[m.of].op = OpOf[m.type]
      BY DEF MessagesKept, Proper
    <3> QED BY <1>2, <3>1 DEF OpOf, CloseTypes, Types
  <2>3. closing[EndOf(m.of)] # "open"
    BY <1>1, <2>2 DEF CallsKept, CallKept
  <2> QED BY <1>1, <2>1, <2>3 DEF StillEmpty, EmptyAt
<1> QED BY <1>2 DEF EmptyAt

LEMMA CloseMessagesKept ==
  ASSUME QueueType, MessagesKept, CallsKept, CloseMessages, StillEmpty, NoNews
  PROVE  CloseMessages'
<1>1. ASSUME NEW q \in Peers, NEW x \in MessagesTo(q)'
      PROVE  EmptyAt(x)'
  <2>1. x \in MessagesTo(q)
    BY <1>1 DEF NoNews
  <2> QED BY <2>1, EmptyKept
<1> QED BY <1>1 DEF CloseMessages

LEMMA CloseMessagesSent ==
  ASSUME QueueType, MessagesKept, CallsKept, CloseMessages, StillEmpty, NEW p \in Peers, NEW m,
         News(p, m), EmptyAt(m)'
  PROVE  CloseMessages'
<1>1. ASSUME NEW q \in Peers, NEW x \in MessagesTo(q)'
      PROVE  EmptyAt(x)'
  <2>1. x \in MessagesTo(q) \/ x = m
    BY <1>1 DEF News
  <2>2. CASE x \in MessagesTo(q)
    BY <2>2, EmptyKept
  <2>3. CASE x = m
    BY <2>3
  <2> QED BY <2>1, <2>2, <2>3
<1> QED BY <1>1 DEF CloseMessages

-----------------------------------------------------------------------------
(* Who is in a call                                                        *)

LEMMA CallsEqual ==
  ASSUME \A u \in Threads : /\ call'[u].op = call[u].op
                            /\ call'[u].state \in InCall <=> call[u].state \in InCall
  PROVE  \A q, op : Calls(q, op, InCall)' = Calls(q, op, InCall)
BY DEF Calls, ThreadsOf

\* One call goes on.
LEMMA CallGoesOn ==
  ASSUME NEW t \in Threads, NEW state \in InCall, NEW owes, call[t].state \in InCall,
         Becomes(t, call[t].op, state, owes)
  PROVE  /\ \A u \in Threads : call'[u].op = call[u].op
         /\ \A q, op : Calls(q, op, InCall)' = Calls(q, op, InCall)
<1>1. \A u \in Threads : /\ call'[u].op = call[u].op
                         /\ call'[u].state \in InCall <=> call[u].state \in InCall
  BY DEF Becomes, Others
<1> QED BY <1>1, CallsEqual

LEMMA CallsOn ==
  ASSUME NEW p, NEW ops, Unblocks(p, ops), CallType
  PROVE  /\ \A u \in Threads : call'[u].op = call[u].op
         /\ \A q, op : Calls(q, op, InCall)' = Calls(q, op, InCall)
<1>1. ASSUME NEW u \in Threads
      PROVE  /\ call'[u].op = call[u].op
             /\ call'[u].state \in InCall <=> call[u].state \in InCall
  <2>1. CASE call'[u] = call[u]
    BY <2>1
  <2>2. CASE call[u].state = "blocked" /\ call'[u] = [call[u] EXCEPT !.state = "ready"]
    <3>1. call[u] \in [op : {"none", "write", "read", "release", "close"}, size : Nat,
                       state : {"idle"} \union InCall, owes : 0..1]
      BY DEF CallType
    <3>2. call'[u].state = "ready" /\ call'[u].op = call[u].op
      BY <2>2, <3>1
    <3> QED BY <2>2, <3>2 DEF InCall
  <2> QED BY <2>1, <2>2 DEF Unblocks
<1> QED BY <1>1, CallsEqual

\* One call ends.
LEMMA CallEnds ==
  ASSUME NEW t \in Threads, NEW owes, Becomes(t, "none", "idle", owes)
  PROVE  /\ \A u \in Threads : call'[u].op \in {call[u].op, "none"}
         /\ \A q, op : Calls(q, op, InCall)' = Calls(q, op, InCall) \ {t}
         /\ \A q, op : call[t].op # op => Calls(q, op, InCall)' = Calls(q, op, InCall)
<1>1. /\ call'[t].op = "none" /\ call'[t].state = "idle" /\ "idle" \notin InCall
      /\ \A u \in Threads : u # t => call'[u] = call[u]
  BY DEF Becomes, Others, InCall
<1>2. \A q, op : Calls(q, op, InCall)' = Calls(q, op, InCall) \ {t}
  BY <1>1 DEF Calls, ThreadsOf
<1>3. ASSUME NEW q, NEW op, call[t].op # op
      PROVE  Calls(q, op, InCall)' = Calls(q, op, InCall)
  BY <1>1, <1>3 DEF Calls, ThreadsOf
<1> QED BY <1>1, <1>2, <1>3

LEMMA CallEnters ==
  ASSUME NEW t \in Threads, NEW op, NEW size, Entered(t, op, size)
  PROVE  /\ \A q, o : q # EndOf(t) \/ o # op => Calls(q, o, InCall)' = Calls(q, o, InCall)
         /\ Calls(EndOf(t), op, InCall)' = Calls(EndOf(t), op, InCall) \union {t}
         /\ t \notin Calls(EndOf(t), op, InCall)
<1>1. /\ call[t].state = "idle" /\ call'[t].op = op /\ call'[t].state = "queued"
      /\ "idle" \notin InCall /\ "queued" \in InCall
      /\ \A u \in Threads : u # t => call'[u] = call[u]
  BY DEF Entered, Others, InCall
<1>2. ASSUME NEW q, NEW o, q # EndOf(t) \/ o # op
      PROVE  Calls(q, o, InCall)' = Calls(q, o, InCall)
  BY <1>1, <1>2 DEF Calls, ThreadsOf, EndOf
<1>3. Calls(EndOf(t), op, InCall)' = Calls(EndOf(t), op, InCall) \union {t}
  BY <1>1 DEF Calls, ThreadsOf, EndOf
<1>4. t \notin Calls(EndOf(t), op, InCall)
  BY <1>1 DEF Calls
<1> QED BY <1>2, <1>3, <1>4

LEMMA CallsFinite ==
  ASSUME NEW q, NEW op
  PROVE  IsFiniteSet(Calls(q, op, InCall)) /\ Cardinality(Calls(q, op, InCall)) \in Nat
<1>1. Calls(q, op, InCall) \subseteq Threads
  BY DEF Calls, ThreadsOf
<1> QED BY <1>1, FS_Subset, FS_CardinalityType

LEMMA CloseLastKept ==
  ASSUME TypeOK, TypeOK', CloseLast,
         \A u \in Threads : call'[u].op \in {call[u].op, "none"},
         \A q \in Peers : /\ closing'[q] # "open" => closing[q] # "open"
                          /\ Calls(q, "write", InCall)' \subseteq Calls(q, "write", InCall)
                          /\ Reads(q)' = Reads(q) /\ Reads(q) \in Nat
                          /\ sent'[q] >= sent[q]
  PROVE  CloseLast'
<1>1. ASSUME NEW q \in Peers, closing'[q] # "open"
      PROVE  Calls(q, "write", InCall)' = {} /\ Reads(Other(q))' <= sent'[q]
  <2>1. closing[q] # "open" /\ Other(q) \in Peers
    BY <1>1, Ends
  <2>2. Calls(q, "write", InCall) = {} /\ Reads(Other(q)) <= sent[q]
    BY <2>1 DEF CloseLast
  <2>3. Calls(q, "write", InCall)' = {}
    BY <2>2
  <2>4. Reads(Other(q))' = Reads(Other(q)) /\ Reads(Other(q)) \in Nat
    BY <2>1
  <2>5. sent[q] \in Nat /\ sent'[q] \in Nat /\ sent'[q] >= sent[q]
    BY DEF TypeOK
  <2>6. Reads(Other(q)) <= sent'[q]
    BY <2>2, <2>4, <2>5
  <2> QED BY <2>3, <2>4, <2>6
<1>2. ASSUME NEW u \in Threads
      PROVE  /\ call'[u].op \in {"write", "close"} => Buffer[EndOf(u)] # 0
             /\ call'[u].op = "read" => Buffer[Other(EndOf(u))] # 0
  BY DEF CloseLast
<1>3. ASSUME NEW q \in Peers
      PROVE  (Reads(Other(q)) <= sent[q])' <=> Reads(Other(q))' <= sent'[q]
  OBVIOUS
<1> QED BY <1>1, <1>2, <1>3 DEF CloseLast

-----------------------------------------------------------------------------
(* Until a call crosses a close                                            *)

LEMMA ReadsType ==
  ASSUME TypeOK, NEW q \in Peers
  PROVE  Reads(q) \in Nat
<1>1. Len(got[q]) \in Nat
  BY DEF TypeOK
<1>2. Cardinality(Calls(q, "read", InCall)) \in Nat
  BY CallsFinite
<1> QED BY <1>1, <1>2 DEF Reads

LEMMA ReadsSame ==
  ASSUME NEW q, got'[q] = got[q], Calls(q, "read", InCall)' = Calls(q, "read", InCall)
  PROVE  Reads(q)' = Reads(q)
BY DEF Reads

LEMMA UncrossedByApplication ==
  ASSUME Kept, Kept', Settled, Uncrossed, NEW t \in Threads, Application(t), ~crossed'
  PROVE  Uncrossed'
<1> DEFINE p == EndOf(t)
<1>1. /\ TypeOK /\ TypeOK' /\ StoreKept /\ CreditCovers /\ QueueType /\ CallsKept /\ MessagesKept
      /\ CreditExact /\ CloseLast /\ ClosedEmpty /\ CloseMessages /\ NoAbort
      /\ p \in Peers /\ Other(p) \in Peers /\ Other(Other(p)) = p /\ Other(p) # p
      /\ closing \in [Peers -> {"open", "called", "done"}]
  BY TypeParts, Threading, Ends DEF Kept, Control, Uncrossed, TypeOK
<1>2. UNCHANGED <<desc, link, remote, store, sent, got, aborted>>
  BY <1>1, SettledByApplication
<1>3. NoAbort' /\ CreditExact'
  <2>1. NoAbort'
    BY <1>1, <1>2 DEF NoAbort
  <2> QED BY <1>1, <2>1, SettledExact
<1>4. StillEmpty
  BY <1>2 DEF StillEmpty
<1>5. CloseMessages'
  <2>1. NoNews
    BY <1>2 DEF NoNews, MessagesTo
  <2> QED BY <1>1, <1>4, <2>1, CloseMessagesKept
<1>6. \A q \in Peers : /\ closing'[q] = "done" => closing[q] = "done"
                       /\ closing[q] # "open" => closing'[q] # "open"
  BY <1>1, Application(t) DEF Application, CallWrite, CallRead, CallRelease, CallClose
<1>7. ClosedEmpty'
  BY <1>1, <1>2, <1>4, <1>6, ClosedEmptyKept
<1>8. CloseLast'
  <2>1. PICK op, size :
          /\ Entered(t, op, size)
          /\ op \in {"write", "close"} => Buffer[p] # 0
          /\ op = "read" => Buffer[Other(p)] # 0
          /\ op = "write" => closing[p] = "open"
          /\ op = "read" /\ closing[Other(p)] # "open" => Reads(p) < sent[Other(p)]
          /\ op = "close" => Calls(p, "write", InCall) = {} /\ Reads(Other(p)) <= sent[p]
          /\ IF op = "close" THEN closing' = [closing EXCEPT ![p] = "called"]
             ELSE UNCHANGED closing
    <3>1. CASE CallWrite(t)
      <4>1. PICK s \in Sizes : Enter(t, "write", s)
        BY <3>1 DEF CallWrite
      <4>2. Entered(t, "write", s)
        BY <1>1, <4>1, EnterEffect
      <4>3. closing[p] = "open" /\ Buffer[p] # 0 /\ UNCHANGED closing
        BY <3>1 DEF CallWrite, EndOf
      <4> QED BY <4>2, <4>3
    <3>2. CASE CallRead(t)
      <4>1. Entered(t, "read", 0)
        BY <1>1, <3>2, EnterEffect DEF CallRead
      <4>2. /\ Buffer[Other(p)] # 0 /\ UNCHANGED closing
            /\ ~(closing[Other(p)] # "open" /\ Reads(p) >= sent[Other(p)])
        BY <3>2 DEF CallRead, EndOf
      <4>3. Reads(p) \in Nat /\ sent[Other(p)] \in Nat
        BY <1>1, ReadsType DEF TypeOK
      <4> QED BY <4>1, <4>2, <4>3
    <3>3. CASE CallRelease(t)
      <4>1. Entered(t, "release", 0) /\ UNCHANGED closing
        BY <1>1, <3>3, EnterEffect DEF CallRelease
      <4> QED BY <4>1
    <3>4. CASE CallClose(t)
      <4>1. Entered(t, "close", 0)
        BY <1>1, <3>4, EnterEffect DEF CallClose
      <4>2. /\ Buffer[p] # 0 /\ closing' = [closing EXCEPT ![p] = "called"]
            /\ Calls(p, "write", InCall) = {} /\ ~(Reads(Other(p)) > sent[p])
        BY <3>4 DEF CallClose, EndOf
      <4>3. Reads(Other(p)) \in Nat /\ sent[p] \in Nat
        BY <1>1, ReadsType DEF TypeOK
      <4> QED BY <4>1, <4>2, <4>3
    <3> QED BY <3>1, <3>2, <3>3, <3>4 DEF Application
  <2>2. /\ \A q, o : q # p \/ o # op => Calls(q, o, InCall)' = Calls(q, o, InCall)
        /\ Calls(p, op, InCall)' = Calls(p, op, InCall) \union {t}
        /\ t \notin Calls(p, op, InCall)
    BY <2>1, CallEnters
  <2>3. /\ call'[t].op = op /\ \A u \in Threads : u # t => call'[u] = call[u]
    BY <2>1 DEF Entered, Others
  <2>4. ASSUME NEW u \in Threads
        PROVE  /\ call'[u].op \in {"write", "close"} => Buffer[EndOf(u)] # 0
               /\ call'[u].op = "read" => Buffer[Other(EndOf(u))] # 0
    <3>1. CASE u = t
      BY <2>1, <2>3, <3>1
    <3>2. CASE u # t
      BY <1>1, <2>3, <3>2 DEF CloseLast
    <3> QED BY <3>1, <3>2
  <2>5. ASSUME NEW q \in Peers, closing'[q] # "open"
        PROVE  Calls(q, "write", InCall)' = {} /\ Reads(Other(q))' <= sent'[q]
    <3> DEFINE o == Other(q)
    <3>1. o \in Peers /\ Other(o) = q /\ (q = p \/ q = Other(p))
      BY <1>1, Ends
    <3>2. Calls(q, "write", InCall) = {} /\ Reads(o) <= sent[q]
      <4>1. CASE closing[q] # "open"
        BY <1>1, <4>1 DEF CloseLast
      <4>2. CASE closing[q] = "open"
        BY <1>1, <2>1, <2>5, <4>2
      <4> QED BY <4>1, <4>2
    <3>3. Calls(q, "write", InCall)' = {}
      <4>1. CASE q = p /\ op = "write"
        <5>1. closing[q] = "open" /\ UNCHANGED closing
          BY <2>1, <4>1
        <5> QED BY <2>5, <5>1
      <4>2. CASE q # p \/ op # "write"
        BY <2>2, <3>2, <4>2
      <4> QED BY <4>1, <4>2
    <3> HIDE DEF o
    <3>4. CASE o = p /\ op = "read"
      <4>1. closing[q] # "open" /\ Other(p) = q
        BY <2>1, <2>5, <3>1, <3>4
      <4>2. Reads(p) < sent[q]
        BY <2>1, <3>4, <4>1
      <4>3. Cardinality(Calls(p, "read", InCall)') = Cardinality(Calls(p, "read", InCall)) + 1
        BY <2>2, <3>4, CallsFinite, FS_AddElement
      <4>4. Reads(p)' = Len(got[p]) + (Cardinality(Calls(p, "read", InCall)) + 1)
        BY <1>2, <4>3 DEF Reads
      <4>5. Len(got[p]) \in Nat /\ Cardinality(Calls(p, "read", InCall)) \in Nat /\ sent[q] \in Nat
        <5>1. sent[q] \in Nat /\ got[p] \in Seq(Nat)
          BY <1>1 DEF TypeOK
        <5> QED BY <5>1, CallsFinite
      <4>6. Reads(p)' <= sent[q]
        <5> DEFINE a == Len(got[p])
                   b == Cardinality(Calls(p, "read", InCall))
        <5>1. a \in Nat /\ b \in Nat /\ a + b < sent[q] /\ Reads(p)' = a + (b + 1)
          BY <4>2, <4>4, <4>5 DEF Reads
        <5> HIDE DEF a, b
        <5> QED BY <4>5, <5>1
      <4>7. Reads(Other(q))' <= sent[q]
        BY <3>4, <4>6 DEF o
      <4> QED BY <1>2, <3>3, <4>7
    <3>5. CASE o # p \/ op # "read"
      <4>1. Calls(o, "read", InCall)' = Calls(o, "read", InCall)
        BY <2>2, <3>5
      <4>2. got'[o] = got[o]
        BY <1>2
      <4>3. Reads(o)' = Reads(o)
        BY <4>1, <4>2, ReadsSame
      <4> QED BY <1>2, <3>2, <3>3, <4>3 DEF o
    <3> QED BY <3>4, <3>5
  <2> QED BY <2>4, <2>5 DEF CloseLast
<1> QED BY <1>3, <1>5, <1>7, <1>8 DEF Uncrossed

LEMMA UncrossedKept ==
  ASSUME Kept, Kept', Settled, Uncrossed, NoAbort', StillEmpty, CloseMessages', CloseLast',
         ClosedEmpty'
  PROVE  Uncrossed'
<1>1. TypeOK /\ TypeOK' /\ CreditExact
  BY DEF Kept, Uncrossed
<1>2. CreditExact'
  BY <1>1, SettledExact
<1> QED BY <1>2 DEF Uncrossed

\* The served call goes on or ends, no packet is sent or given.
LEMMA CloseLastQuiet ==
  ASSUME TypeOK, TypeOK', CloseLast, UNCHANGED got, \A q \in Peers : sent'[q] >= sent[q],
         \A q \in Peers : closing'[q] # "open" => closing[q] # "open",
         \A u \in Threads : call'[u].op \in {call[u].op, "none"},
         \A q : /\ Calls(q, "write", InCall)' \subseteq Calls(q, "write", InCall)
                /\ Calls(q, "read", InCall)' = Calls(q, "read", InCall)
  PROVE  CloseLast'
<1>1. \A q \in Peers : Reads(q)' = Reads(q) /\ Reads(q) \in Nat
  BY ReadsSame, ReadsType
<1> QED BY <1>1, CloseLastKept

LEMMA UncrossedByServeCall ==
  ASSUME Kept, Kept', Settled, Uncrossed, NEW p \in Peers, ServeCall(p)
  PROVE  Uncrossed'
<1>1. /\ TypeOK /\ TypeOK' /\ Control /\ StoreKept /\ CreditCovers /\ QueueType /\ DescType
      /\ CallType /\ LocalKept /\ CallsKept /\ MessagesKept
      /\ CloseLast /\ ClosedEmpty /\ CloseMessages /\ NoAbort
      /\ Other(p) \in Peers /\ Other(p) # p
  BY TypeParts, Ends DEF Kept, Control, Uncrossed
<1>2. PICK t \in Threads :
        /\ ServesCall(p, t)
        /\ \/ CallAborts(p) \/ CallPasses(p, t) \/ WriteSent(p, t) \/ ReadGiven(p, t)
           \/ ReleaseSent(p, t) \/ CloseBlocked(p, t) \/ CloseSent(p, t)
  BY <1>1, ServeCallCases
<1>3. desc[p].open
  BY <1>2, CallFinds
<1>4. SizesSame /\ UNCHANGED <<closing, remote>>
  BY <1>1, <1>2, SizesByServeCall DEF ServesCall
<1>5. call[t].state \in InCall /\ EndOf(t) = p
  BY <1>2 DEF ServesCall, InCall
<1>6. NoAbort'
  BY <1>1, <1>2, <1>3 DEF NoAbort, CallAborts, CallPasses, WriteSent, ReadGiven, ReleaseSent,
                          CloseBlocked, CloseSent
<1>7. sent \in [Peers -> Nat] /\ \A q \in Peers : sent'[q] >= sent[q]
  <2>1. sent \in [Peers -> Nat]
    BY <1>1 DEF TypeOK
  <2>2. sent' = sent \/ sent' = [sent EXCEPT ![p] = @ + 1]
    BY <1>2, <1>3 DEF CallAborts, CallPasses, WriteSent, ReadGiven, ReleaseSent,
                      CloseBlocked, CloseSent
  <2> QED BY <2>1, <2>2
<1>8. StillEmpty
  <2>1. CASE WriteSent(p, t)
    <3>1. t \in Calls(p, "write", InCall)
      BY <1>5, <2>1, Threading DEF WriteSent, Calls
    <3>2. closing[p] = "open"
      BY <1>1, <3>1 DEF CloseLast
    <3>3. \A q \in Peers : q # p => desc'[q] = desc[q]
      BY <1>1, <2>1 DEF WriteSent, DescType
    <3> QED BY <3>2, <3>3 DEF StillEmpty
  <2>2. CASE ReleaseSent(p, t)
    <3>1. \A q \in Peers : desc'[q].remoteFill = desc[q].remoteFill
      BY <1>1, <2>2 DEF ReleaseSent, DescType
    <3> QED BY <3>1 DEF StillEmpty
  <2>3. CASE CloseBlocked(p, t)
    <3>1. \A q \in Peers : desc'[q].remoteFill = desc[q].remoteFill
      BY <1>1, <2>3 DEF CloseBlocked, DescType
    <3> QED BY <3>1 DEF StillEmpty
  <2>4. CASE CallPasses(p, t) \/ ReadGiven(p, t) \/ CloseSent(p, t)
    <3>1. UNCHANGED desc
      BY <2>4 DEF CallPasses, ReadGiven, CloseSent
    <3> QED BY <3>1 DEF StillEmpty
  <2> QED BY <1>2, <1>3, <2>1, <2>2, <2>3, <2>4 DEF CallAborts
<1>9. ClosedEmpty'
  BY <1>1, <1>4, <1>8, ClosedEmptyKept DEF SizesSame
<1>10. CloseMessages'
  <2>1. CASE UNCHANGED link
    <3>1. NoNews
      BY <1>4, <2>1 DEF NoNews, MessagesTo
    <3> QED BY <1>1, <1>8, <3>1, CloseMessagesKept
  <2>2. ASSUME NEW m, Sends(p, m), m.type \notin CloseTypes
        PROVE  CloseMessages'
    <3>1. News(p, m)
      BY <1>1, <1>4, <2>2, SendsNews
    <3>2. EmptyAt(m)'
      BY <2>2 DEF EmptyAt
    <3> QED BY <1>1, <1>8, <3>1, <3>2, CloseMessagesSent
  <2>3. CASE WriteSent(p, t)
    <3> DEFINE m == [type |-> "write_req", of |-> t, size |-> call[t].size, id |-> sent[p] + 1]
    <3>1. Sends(p, m) /\ m.type \notin CloseTypes
      BY <2>3 DEF WriteSent, CloseTypes
    <3> HIDE DEF m
    <3> QED BY <2>2, <3>1
  <2>4. CASE ReleaseSent(p, t)
    <3> DEFINE m == [type |-> "release_req", of |-> t, size |-> Head(store[p].blocked).size,
                     id |-> Head(store[p].blocked).id]
    <3>1. Sends(p, m) /\ m.type \notin CloseTypes
      BY <2>4 DEF ReleaseSent, CloseTypes
    <3> HIDE DEF m
    <3> QED BY <2>2, <3>1
  <2>5. CASE CloseSent(p, t)
    <3> DEFINE m == [type |-> "close_req", of |-> t, size |-> 0, id |-> 0]
    <3>1. Sends(p, m) /\ m.type = "close_req" /\ m.of = t /\ desc'[p].remoteFill = 0
      BY <2>5 DEF CloseSent
    <3> HIDE DEF m
    <3>2. News(p, m)
      BY <1>1, <1>4, <3>1, SendsNews
    <3>3. EmptyAt(m)'
      BY <1>5, <3>1 DEF EmptyAt
    <3> QED BY <1>1, <1>8, <3>2, <3>3, CloseMessagesSent
  <2>6. CASE CallPasses(p, t) \/ ReadGiven(p, t) \/ CloseBlocked(p, t)
    BY <2>1, <2>6 DEF CallPasses, ReadGiven, CloseBlocked
  <2> QED BY <1>2, <1>3, <2>3, <2>4, <2>5, <2>6 DEF CallAborts
<1>11. CloseLast'
  <2>1. ASSUME NEW state \in InCall, NEW owes, Becomes(t, call[t].op, state, owes),
               UNCHANGED got
        PROVE  CloseLast'
    <3>1. /\ \A u \in Threads : call'[u].op = call[u].op
          /\ \A q, op : Calls(q, op, InCall)' = Calls(q, op, InCall)
      BY <1>5, <2>1, CallGoesOn
    <3> QED BY <1>1, <1>4, <1>7, <2>1, <3>1, CloseLastQuiet
  <2>2. "pending" \in InCall /\ "blocked" \in InCall
    BY DEF InCall
  <2>3. CASE WriteSent(p, t)
    BY <2>1, <2>2, <2>3 DEF WriteSent
  <2>4. CASE ReleaseSent(p, t)
    BY <2>1, <2>2, <2>4 DEF ReleaseSent
  <2>5. CASE CloseSent(p, t)
    BY <2>1, <2>2, <2>5 DEF CloseSent
  <2>6. CASE CloseBlocked(p, t)
    BY <2>1, <2>2, <2>6 DEF CloseBlocked
  <2>7. CASE CallPasses(p, t)
    <3>1. UNCHANGED got
      BY <2>7 DEF CallPasses
    <3>2. CASE Becomes(t, call[t].op, "blocked", call[t].owes)
      BY <2>1, <2>2, <3>1, <3>2
    <3>3. CASE call[t].op = "write" /\ Becomes(t, "none", "idle", call[t].owes)
      <4>1. /\ \A u \in Threads : call'[u].op \in {call[u].op, "none"}
            /\ \A q, op : Calls(q, op, InCall)' = Calls(q, op, InCall) \ {t}
            /\ \A q, op : call[t].op # op => Calls(q, op, InCall)' = Calls(q, op, InCall)
        BY <3>3, CallEnds
      <4>2. \A q : /\ Calls(q, "write", InCall)' \subseteq Calls(q, "write", InCall)
                   /\ Calls(q, "read", InCall)' = Calls(q, "read", InCall)
        BY <3>3, <4>1
      <4> QED BY <1>1, <1>4, <1>7, <3>1, <4>1, <4>2, CloseLastQuiet
    <3> QED BY <2>7, <3>2, <3>3 DEF CallPasses
  <2>8. CASE ReadGiven(p, t)
    <3>1. /\ call[t].op = "read" /\ Becomes(t, "none", "idle", 1)
          /\ got' = [got EXCEPT ![p] = Append(@, Head(store[p].unread).id)]
          /\ store[p].unread # <<>>
      BY <2>8 DEF ReadGiven
    <3>2. /\ \A u \in Threads : call'[u].op \in {call[u].op, "none"}
          /\ \A q, op : Calls(q, op, InCall)' = Calls(q, op, InCall) \ {t}
          /\ \A q, op : call[t].op # op => Calls(q, op, InCall)' = Calls(q, op, InCall)
      BY <3>1, CallEnds
    <3>3. ASSUME NEW q \in Peers
          PROVE  Reads(q)' = Reads(q)
      <4>1. CASE q = p
        <5>1. t \in Calls(p, "read", InCall)
          BY <1>5, <3>1, Threading DEF Calls
        <5>2. Cardinality(Calls(p, "read", InCall)') = Cardinality(Calls(p, "read", InCall)) - 1
          BY <3>2, <5>1, CallsFinite, FS_RemoveElement
        <5>3. Len(got'[p]) = Len(got[p]) + 1 /\ Len(got[p]) \in Nat
          <6>1. got \in [Peers -> Seq(Nat)] /\ store[p].unread \in Seq(Packets)
            BY <1>1 DEF TypeOK
          <6>2. Head(store[p].unread) \in Packets
            BY <3>1, <6>1, ElementsOf
          <6>3. Head(store[p].unread).id \in Nat
            BY <6>2, MessageFields
          <6> QED BY <3>1, <6>1, <6>3
        <5>4. Cardinality(Calls(p, "read", InCall)) \in Nat
          BY CallsFinite
        <5>5. Reads(p)' = Len(got'[p]) + Cardinality(Calls(p, "read", InCall)')
          BY DEF Reads
        <5> DEFINE a == Len(got[p])
                   b == Cardinality(Calls(p, "read", InCall))
        <5>6. a \in Nat /\ b \in Nat /\ Reads(p)' = (a + 1) + (b - 1) /\ Reads(p) = a + b
          BY <5>2, <5>3, <5>4, <5>5 DEF Reads
        <5> HIDE DEF a, b
        <5>7. Reads(p)' = Reads(p)
          BY <5>6
        <5> QED BY <4>1, <5>7
      <4>2. CASE q # p
        <5>1. got'[q] = got[q]
          <6>1. got \in [Peers -> Seq(Nat)]
            BY <1>1 DEF TypeOK
          <6> QED BY <3>1, <4>2, <6>1
        <5>2. t \notin Calls(q, "read", InCall)
          BY <1>5, <4>2, Threading DEF Calls
        <5>3. Calls(q, "read", InCall)' = Calls(q, "read", InCall)
          <6>1. Calls(q, "read", InCall)' = Calls(q, "read", InCall) \ {t}
            BY <3>2
          <6> QED BY <5>2, <6>1
        <5> QED BY <5>1, <5>3, ReadsSame
      <4> QED BY <4>1, <4>2
    <3>4. \A q \in Peers :
            Reads(q) \in Nat /\ Calls(q, "write", InCall)' \subseteq Calls(q, "write", InCall)
      BY <1>1, <3>2, ReadsType
    <3> QED BY <1>1, <1>4, <1>7, <3>2, <3>3, <3>4, CloseLastKept
  <2> QED BY <1>2, <1>3, <2>3, <2>4, <2>5, <2>6, <2>7, <2>8 DEF CallAborts
<1> QED BY <1>6, <1>8, <1>9, <1>10, <1>11, UncrossedKept

LEMMA UncrossedByServeMessage ==
  ASSUME Kept, Kept', Settled, Uncrossed, NEW p \in Peers, ServeMessage(p)
  PROVE  Uncrossed'
<1>1. /\ TypeOK /\ TypeOK' /\ Control /\ StoreKept /\ CreditCovers /\ QueueType /\ DescType
      /\ CallType /\ CallsKept /\ MessagesKept
      /\ CreditExact /\ CloseLast /\ ClosedEmpty /\ CloseMessages /\ NoAbort
      /\ Other(p) \in Peers /\ Other(p) # p /\ Other(Other(p)) = p
      /\ closing \in [Peers -> {"open", "called", "done"}]
  BY TypeParts, Ends DEF Kept, Control, Uncrossed, TypeOK
<1>2. PICK m \in Messages : TakesMessage(p, m) /\ MessageCase(p, m)
  BY <1>1, ServeMessageCases
<1>3. /\ m.of \in Threads /\ Proper(p, m) /\ m \in MessagesTo(p) /\ Takes(p)
      /\ remote[p] # <<>> /\ m = Head(remote[p]) /\ m.size \in Nat
      /\ UNCHANGED <<sent, got>>
  <2>1. /\ remote[p] \in Seq(Messages) /\ remote[p] # <<>> /\ m = Head(remote[p])
        /\ m.of \in Threads /\ Proper(p, m) /\ Takes(p) /\ UNCHANGED <<sent, got>>
        /\ m.size \in Nat
    BY <1>1, <1>2 DEF TakesMessage, Takes, QueueType
  <2>2. m \in Elements(remote[p])
    BY <2>1, ElementsOf
  <2> QED BY <2>1, <2>2 DEF MessagesTo
<1>4. ~MessageAborts(p, m)
  BY <1>1, <1>2, ReleaseFinds DEF MessageAborts
<1>5. NoAbort'
  BY <1>1, <1>2, <1>4 DEF NoAbort, MessageCase, WriteTaken, ReleaseTaken, CloseRefused,
                          CloseAccepted, CloseOfNothing, Answered, CloseAnswered, Replies
<1>6. \A q \in Peers : sent'[q] >= sent[q]
  BY <1>1, <1>3 DEF TypeOK
\* A request is answered, and the calls go on.
<1>7. ASSUME NEW type, Replies(p, m, type), m.type # "close_req", type \notin CloseTypes,
             StillEmpty,
             \A q \in Peers : desc'[q].readSize = desc[q].readSize,
             \A u \in Threads : call'[u].op = call[u].op,
             \A q, op : Calls(q, op, InCall)' = Calls(q, op, InCall)
      PROVE  Uncrossed'
  <2> DEFINE r == [m EXCEPT !.type = type]
  <2>1. Sends(p, r) /\ r.type \notin CloseTypes /\ UNCHANGED closing
    BY <1>7 DEF Replies
  <2> HIDE DEF r
  <2>2. News(p, r)
    BY <1>1, <1>3, <2>1, SendsNews
  <2>3. EmptyAt(r)'
    BY <2>1 DEF EmptyAt
  <2>4. CloseMessages'
    BY <1>1, <1>7, <2>2, <2>3, CloseMessagesSent
  <2>5. ClosedEmpty'
    BY <1>1, <1>7, <2>1, ClosedEmptyKept
  <2>6. CloseLast'
    BY <1>1, <1>3, <1>6, <1>7, <2>1, CloseLastQuiet
  <2> QED BY <1>5, <1>7, <2>4, <2>5, <2>6, UncrossedKept
<1>8. CASE WriteTaken(p, m)
  <2>1. /\ m.type = "write_req" /\ Replies(p, m, "write_resp") /\ Unblocks(p, {"read"})
        /\ UNCHANGED desc
    BY <1>8 DEF WriteTaken
  <2>2. /\ \A u \in Threads : call'[u].op = call[u].op
        /\ \A q, op : Calls(q, op, InCall)' = Calls(q, op, InCall)
    BY <1>1, <2>1, CallsOn
  <2>3. StillEmpty /\ "write_resp" \notin CloseTypes
    BY <2>1 DEF StillEmpty, CloseTypes
  <2>4. \A q \in Peers : desc'[q].readSize = desc[q].readSize
    BY <2>1
  <2> QED BY <1>7, <2>1, <2>2, <2>3, <2>4
<1>9. CASE ReleaseTaken(p, m)
  <2>1. /\ m.type = "release_req" /\ Replies(p, m, "release_resp")
        /\ Unblocks(p, {"write", "close"})
        /\ desc' = [desc EXCEPT ![p].remoteFill = @ - m.size, ![p].remotePackets = @ - 1]
    BY <1>9 DEF ReleaseTaken
  <2>2. /\ \A u \in Threads : call'[u].op = call[u].op
        /\ \A q, op : Calls(q, op, InCall)' = Calls(q, op, InCall)
    BY <1>1, <2>1, CallsOn
  <2>3. StillEmpty
    <3>1. m.size > 0
      BY <1>3, <2>1 DEF Proper
    <3>2. "bytes" \in Measures
      BY DEF Measures
    <3>3. Credit("bytes", p) - Unit("bytes", m) \in Nat
      BY <1>1, <1>3, <2>1, <3>2, Covered
    <3>4. desc[p].remoteFill - m.size \in Nat /\ desc[p].remoteFill \in Nat
      BY <1>1, <3>3 DEF Credit, Unit, DescType
    <3>5. desc[p].remoteFill # 0
      BY <1>3, <3>1, <3>4
    <3>6. \A q \in Peers : q # p => desc'[q] = desc[q]
      BY <1>1, <2>1 DEF DescType
    <3> QED BY <3>5, <3>6 DEF StillEmpty
  <2>4. \A q \in Peers : desc'[q].readSize = desc[q].readSize
    BY <1>1, <2>1 DEF DescType
  <2>5. "release_resp" \notin CloseTypes
    BY DEF CloseTypes
  <2> QED BY <1>7, <2>1, <2>2, <2>3, <2>4, <2>5
<1>10. CASE CloseRefused(p, m)
  BY <1>1, <1>2, <1>10, NeverRefused DEF CloseRefused
\* A close is answered at an end whose read side is gone then.
<1>11. CASE CloseAccepted(p, m) \/ CloseOfNothing(p, m)
  <2> DEFINE r == [m EXCEPT !.type = "close_resp"]
  <2>1. /\ m.type = "close_req" /\ Sends(p, r) /\ r.type = "close_resp" /\ r.of = m.of
        /\ UNCHANGED <<closing, call>>
    BY <1>11 DEF CloseAccepted, CloseOfNothing, Replies
  <2> HIDE DEF r
  <2>2. /\ EndOf(m.of) = Other(p) /\ desc[Other(p)].remoteFill = 0
        /\ closing[Other(p)] # "open"
    BY <1>1, <1>2, <2>1, NeverRefused
  <2>3. /\ \A q \in Peers : desc'[q].remoteFill = desc[q].remoteFill
        /\ \A q \in Peers : q # p => desc'[q].readSize = desc[q].readSize
    <3>1. CASE CloseAccepted(p, m)
      BY <1>1, <3>1 DEF CloseAccepted, DescType
    <3>2. CASE CloseOfNothing(p, m)
      BY <3>2 DEF CloseOfNothing
    <3> QED BY <1>11, <3>1, <3>2
  <2>4. StillEmpty
    BY <2>3 DEF StillEmpty
  <2>5. CloseMessages'
    <3>1. News(p, r)
      BY <1>1, <1>3, <2>1, SendsNews
    <3>2. desc'[Other(p)].remoteFill = 0
      BY <1>1, <2>2, <2>3
    <3>3. EmptyAt(r)'
      BY <2>1, <2>2, <3>2 DEF EmptyAt
    <3> QED BY <1>1, <2>4, <3>1, <3>3, CloseMessagesSent
  <2>6. ClosedEmpty'
    <3>1. ASSUME NEW q \in Peers,
                 closing'[q] = "done" \/ desc'[Other(q)].readSize # Buffer[q]
          PROVE  closing'[q] # "open" /\ desc'[q].remoteFill = 0
      <4>1. CASE q = Other(p)
        BY <1>1, <2>1, <2>2, <2>3, <4>1
      <4>2. CASE q = p
        <5>1. desc'[Other(q)].readSize = desc[Other(q)].readSize
          BY <1>1, <2>3, <4>2
        <5>2. closing[q] # "open" /\ desc[q].remoteFill = 0
          BY <1>1, <2>1, <3>1, <5>1 DEF ClosedEmpty
        <5> QED BY <2>1, <2>3, <5>2
      <4> QED BY <4>1, <4>2, Ends
    <3> QED BY <3>1 DEF ClosedEmpty
  <2>7. CloseLast'
    <3>1. \A u \in Threads : /\ call'[u].op = call[u].op
                             /\ call'[u].state \in InCall <=> call[u].state \in InCall
      BY <2>1
    <3>2. \A q, op : Calls(q, op, InCall)' = Calls(q, op, InCall)
      BY <3>1, CallsEqual
    <3> QED BY <1>1, <1>3, <1>6, <2>1, <3>1, <3>2, CloseLastQuiet
  <2> QED BY <1>5, <2>4, <2>5, <2>6, <2>7, UncrossedKept
\* An answer is taken, and its call returns.
<1>12. CASE Answered(p, m) \/ CloseAnswered(p, m)
  <2>1. /\ Becomes(m.of, "none", "idle", call[m.of].owes) /\ UNCHANGED link
        /\ m.type \in {"write_resp", "release_resp", "close_resp", "close_nack"}
    BY <1>12 DEF Answered, CloseAnswered
  <2>2. EndOf(m.of) = p /\ call[m.of].op = OpOf[m.type] /\ OpOf[m.type] # "read"
    BY <1>3, <2>1 DEF Proper, Requests, OpOf, Types
  <2>3. /\ \A q \in Peers : desc'[q].remoteFill = desc[q].remoteFill
        /\ \A q \in Peers : desc'[q].readSize = desc[q].readSize
    <3>1. CASE UNCHANGED desc
      BY <3>1
    <3>2. CASE desc' = [desc EXCEPT ![p].writeSize = 0, ![p].open = desc[p].readSize # 0]
      BY <1>1, <3>2 DEF DescType
    <3> QED BY <1>12, <3>1, <3>2 DEF Answered, CloseAnswered
  <2>4. StillEmpty
    BY <2>3 DEF StillEmpty
  <2>5. CloseMessages'
    <3>1. NoNews
      BY <1>1, <1>3, <2>1, TakesNoNews
    <3> QED BY <1>1, <2>4, <3>1, CloseMessagesKept
  \* The end that is done had closed, with no credit out.
  <2>6. /\ \A q \in Peers : closing'[q] # "open" <=> closing[q] # "open"
        /\ \A q \in Peers : closing'[q] = "done" =>
             closing[q] = "done" \/ (closing[q] # "open" /\ desc[q].remoteFill = 0)
    <3>1. CASE Answered(p, m)
      BY <3>1 DEF Answered
    <3>2. CASE CloseAnswered(p, m)
      <4>1. m.type \in {"close_resp", "close_nack"} /\ closing' = [closing EXCEPT ![p] = "done"]
        BY <3>2 DEF CloseAnswered
      <4>2. call[m.of].op = "close" /\ m.type \in CloseTypes
        BY <2>2, <4>1 DEF OpOf, CloseTypes, Types
      <4>3. closing[p] = "called"
        BY <1>1, <1>3, <2>2, <4>2 DEF CallsKept, CallKept
      <4>4. desc[p].remoteFill = 0
        BY <1>1, <1>3, <2>2, <4>2 DEF CloseMessages, EmptyAt
      <4> QED BY <1>1, <4>1, <4>3, <4>4
    <3> QED BY <1>12, <3>1, <3>2
  <2>7. ClosedEmpty'
    <3>1. ASSUME NEW q \in Peers,
                 closing'[q] = "done" \/ desc'[Other(q)].readSize # Buffer[q]
          PROVE  closing'[q] # "open" /\ desc'[q].remoteFill = 0
      <4>1. Other(q) \in Peers
        BY Ends
      <4>2. closing[q] # "open" /\ desc[q].remoteFill = 0
        BY <1>1, <2>3, <2>6, <3>1, <4>1 DEF ClosedEmpty
      <4> QED BY <2>3, <2>6, <4>2
    <3> QED BY <3>1 DEF ClosedEmpty
  <2>8. CloseLast'
    <3>1. /\ \A u \in Threads : call'[u].op \in {call[u].op, "none"}
          /\ \A q, op : Calls(q, op, InCall)' = Calls(q, op, InCall) \ {m.of}
          /\ \A q, op : call[m.of].op # op => Calls(q, op, InCall)' = Calls(q, op, InCall)
      BY <1>3, <2>1, CallEnds
    <3>2. \A q : /\ Calls(q, "write", InCall)' \subseteq Calls(q, "write", InCall)
                 /\ Calls(q, "read", InCall)' = Calls(q, "read", InCall)
      BY <2>2, <3>1
    <3> QED BY <1>1, <1>3, <1>6, <2>6, <3>1, <3>2, CloseLastQuiet
  <2> QED BY <1>5, <2>4, <2>5, <2>7, <2>8, UncrossedKept
<1> QED BY <1>2, <1>4, <1>8, <1>9, <1>10, <1>11, <1>12 DEF MessageCase

LEMMA UncrossedByReceive ==
  ASSUME Kept, Kept', Settled, Uncrossed, NEW p \in Peers, Receive(p)
  PROVE  Uncrossed'
<1>1. /\ TypeOK /\ TypeOK' /\ Control /\ QueueType /\ DescType /\ CallsKept /\ MessagesKept
      /\ CloseLast /\ ClosedEmpty /\ CloseMessages /\ NoAbort
  BY TypeParts DEF Kept, Control, Uncrossed
<1>2. PICK m \in Messages :
        Receives(p, m) /\ (ArrivalAborts(p, m) \/ Stored(p, m) \/ Queued(p, m))
  BY <1>1, ReceiveCases
<1>3. ~ArrivalAborts(p, m)
  BY <1>1, <1>2, PacketFinds DEF ArrivalAborts
<1>4. /\ NoAbort' /\ UNCHANGED <<call, sent, got, closing>>
      /\ remote' = [remote EXCEPT ![p] = Append(@, m)]
  BY <1>1, <1>2, <1>3 DEF NoAbort, Stored, Queued, Receives
<1>5. SizesSame
  BY <1>1, SizesByReceive
<1>6. StillEmpty
  <2>1. CASE UNCHANGED desc
    BY <2>1 DEF StillEmpty
  <2>2. CASE desc' = [desc EXCEPT ![p].localFill = @ + m.size]
    <3>1. \A q \in Peers : desc'[q].remoteFill = desc[q].remoteFill
      BY <1>1, <2>2 DEF DescType
    <3> QED BY <3>1 DEF StillEmpty
  <2> QED BY <1>2, <1>3, <2>1, <2>2 DEF Stored, Queued
<1>7. CloseMessages'
  <2>1. NoNews
    BY <1>1, <1>2, <1>4, ReceivesNoNews
  <2> QED BY <1>1, <1>6, <2>1, CloseMessagesKept
<1>8. ClosedEmpty'
  BY <1>1, <1>4, <1>5, <1>6, ClosedEmptyKept DEF SizesSame
<1>9. CloseLast'
  <2>1. \A u \in Threads : /\ call'[u].op = call[u].op
                           /\ call'[u].state \in InCall <=> call[u].state \in InCall
    BY <1>4
  <2>2. \A q, op : Calls(q, op, InCall)' = Calls(q, op, InCall)
    BY <2>1, CallsEqual
  <2>3. \A q \in Peers : sent'[q] >= sent[q]
    BY <1>1, <1>4 DEF TypeOK
  <2> QED BY <1>1, <1>4, <2>1, <2>2, <2>3, CloseLastQuiet
<1> QED BY <1>4, <1>6, <1>7, <1>8, <1>9, UncrossedKept

-----------------------------------------------------------------------------
(* The inductive invariant                                                 *)

LEMMA InvInit ==
  ASSUME Init
  PROVE  IInv
<1>1. Kept
  BY KeptInit
<1>2. CreditExact
  BY InitBooks DEF CreditExact
<1>3. /\ \A p \in Peers : /\ closing[p] = "open" /\ desc[p].readSize = Buffer[Other(p)]
                          /\ link[p] = <<>> /\ remote[p] = <<>>
      /\ \A t \in Threads : call[t].op = "none"
  BY DEF Init
<1>4. CloseLast
  BY <1>3 DEF CloseLast
<1>5. ClosedEmpty
  BY <1>3, Ends DEF ClosedEmpty
<1>6. CloseMessages
  <2>1. \A p \in Peers : MessagesTo(p) = {}
    BY <1>3 DEF MessagesTo, Elements
  <2> QED BY <2>1 DEF CloseMessages
<1>7. NoAbort
  BY DEF Init, NoAbort
<1> QED BY <1>1, <1>2, <1>4, <1>5, <1>6, <1>7 DEF IInv, Uncrossed

LEMMA InvNext ==
  ASSUME IInv, Next
  PROVE  IInv'
<1>1. Kept /\ Kept' /\ Settled
  BY KeptNext DEF IInv
<1>2. ASSUME ~crossed'
      PROVE  Uncrossed'
  <2>1. ASSUME NEW t \in Threads, Application(t)
        PROVE  Uncrossed'
    <3>1. ~crossed
      BY <1>2, <2>1 DEF Application, CallWrite, CallRead, CallRelease, CallClose
    <3>2. Uncrossed
      BY <3>1 DEF IInv
    <3> QED BY <1>1, <1>2, <2>1, <3>2, UncrossedByApplication
  <2>2. ASSUME NEW p \in Peers, ServeCall(p) \/ ServeMessage(p) \/ Receive(p)
        PROVE  Uncrossed'
    <3>1. ~crossed
      BY <1>2, <2>2 DEF ServeCall, ServeMessage, Receive
    <3>2. Uncrossed
      BY <3>1 DEF IInv
    <3> QED BY <1>1, <2>2, <3>2, UncrossedByServeCall, UncrossedByServeMessage, UncrossedByReceive
  <2> QED BY <2>1, <2>2 DEF Next
<1> QED BY <1>1, <1>2 DEF IInv

LEMMA InvStutters ==
  ASSUME IInv, UNCHANGED vars
  PROVE  IInv'
<1>1. Kept'
  BY KeptStutters DEF IInv
<1>2. UNCHANGED <<desc, store, local, remote, link, call, sent, got, closing, aborted, crossed>>
  BY DEF vars
<1>3. ASSUME Uncrossed
      PROVE  Uncrossed'
  <2>1. CreditExact'
    BY <1>2, <1>3 DEF Uncrossed, CreditExact, Credit, Due, Part, Stock, Weight, Arrived
  <2>2. CloseLast' /\ ClosedEmpty' /\ CloseMessages' /\ NoAbort'
    BY <1>2, <1>3 DEF Uncrossed, CloseLast, Calls, Reads, ClosedEmpty, CloseMessages, MessagesTo,
                      EmptyAt, NoAbort
  <2> QED BY <2>1, <2>2 DEF Uncrossed
<1> QED BY <1>1, <1>2, <1>3 DEF IInv

LEMMA Invariance == Spec => []IInv
<1>1. Init => IInv
  BY InvInit
<1>2. IInv /\ [Next]_vars => IInv'
  BY InvNext, InvStutters
<1> QED BY <1>1, <1>2, PTL DEF Spec

(***************************************************************************)
(* The state keeps its types, whatever calls cross: in particular the      *)
(* writer's credit never falls below zero (the releases that arrive were   *)
(* all charged: releasePacketFromStream of one end against the event       *)
(* XLINK_READ_REL_REQ of the other) and neither does the reader's fill.    *)
(***************************************************************************)
THEOREM TypeSafety == Spec => []TypeOK
<1>1. IInv => TypeOK
  BY DEF IInv, Kept
<1> QED BY <1>1, Invariance, PTL

-----------------------------------------------------------------------------
(* The credit is sound                                                     *)

Sized == Messages \union Packets

LEMMA SizedFields ==
  /\ \A x \in Sized : x.size \in Nat
  /\ Seq(Messages) \subseteq Seq(Sized) /\ Seq(Packets) \subseteq Seq(Sized)
<1>1. \A x \in Sized : x.size \in Nat
  BY MessageFields DEF Sized
<1>2. Seq(Messages) \subseteq Seq(Sized)
  <2>1. Messages \subseteq Sized
    BY DEF Sized
  <2> HIDE DEF Messages, Sized
  <2> QED BY <2>1
<1>3. Seq(Packets) \subseteq Seq(Sized)
  <2>1. Packets \subseteq Sized
    BY DEF Sized
  <2> HIDE DEF Packets, Sized
  <2> QED BY <2>1
<1> QED BY <1>1, <1>2, <1>3

LEMMA WeightConcat ==
  ASSUME NEW s \in Seq(Sized), NEW r \in Seq(Sized), NEW k \in Measures
  PROVE  /\ s \o r \in Seq(Sized)
         /\ Weight(k, s \o r) = Weight(k, s) + Weight(k, r)
         /\ Weight(k, s) \in Nat /\ Weight(k, r) \in Nat
<1>1. Channel!Bytes(s \o r) = Channel!Bytes(s) + Channel!Bytes(r)
  BY SizedFields, BytesConcat
<1>2. Weight(k, s) \in Nat /\ Weight(k, r) \in Nat
  BY SizedFields, WeightOf
<1> HIDE DEF Sized
<1>3. s \o r \in Seq(Sized) /\ Len(s \o r) = Len(s) + Len(r)
  OBVIOUS
<1> QED BY <1>1, <1>2, <1>3 DEF Weight

\* Due(k, p) is the measure of Charged(p).
LEMMA DueIsCharged ==
  ASSUME QueueType, StoreType, NEW p \in Peers, NEW k \in Measures
  PROVE  Weight(k, Charged(p)) = Due(k, p)
<1> DEFINE a == OnLink(Other(p))
           b == store[Other(p)].unread
           c == store[Other(p)].blocked
           d == OfType(link[p], "release_req")
           e == OfType(remote[p], "release_req")
<1>1. a \in Seq(Sized) /\ b \in Seq(Sized) /\ c \in Seq(Sized) /\ d \in Seq(Sized)
        /\ e \in Seq(Sized)
  <2>1. Other(p) \in Peers
    BY Ends
  <2>2. /\ link[p] \in Seq(Messages) /\ link[Other(p)] \in Seq(Messages)
        /\ remote[p] \in Seq(Messages) /\ b \in Seq(Packets) /\ c \in Seq(Packets)
    BY <2>1 DEF QueueType, StoreType
  <2>3. a \in Seq(Messages)
    BY <2>2, OfTypeSeq DEF OnLink
  <2>4. d \in Seq(Messages)
    BY <2>2, OfTypeSeq
  <2>5. e \in Seq(Messages)
    BY <2>2, OfTypeSeq
  <2> QED BY <2>2, <2>3, <2>4, <2>5, SizedFields
<1>2. Due(k, p) = (Weight(k, a) + (Weight(k, b) + Weight(k, c))) + (Weight(k, d) + Weight(k, e))
  BY DEF Due, Part, Stock, OnLink
<1>3. Charged(p) = (((a \o b) \o c) \o d) \o e
  BY DEF Charged
<1> HIDE DEF a, b, c, d, e
<1>4. a \o b \in Seq(Sized) /\ Weight(k, a \o b) = Weight(k, a) + Weight(k, b)
  BY <1>1, WeightConcat
<1>5. (a \o b) \o c \in Seq(Sized) /\ Weight(k, (a \o b) \o c) = Weight(k, a \o b) + Weight(k, c)
  BY <1>1, <1>4, WeightConcat
<1>6. /\ ((a \o b) \o c) \o d \in Seq(Sized)
      /\ Weight(k, ((a \o b) \o c) \o d) = Weight(k, (a \o b) \o c) + Weight(k, d)
  BY <1>1, <1>5, WeightConcat
<1>7. Weight(k, (((a \o b) \o c) \o d) \o e) = Weight(k, ((a \o b) \o c) \o d) + Weight(k, e)
  BY <1>1, <1>6, WeightConcat
<1>8. /\ Weight(k, a) \in Nat /\ Weight(k, b) \in Nat /\ Weight(k, c) \in Nat
      /\ Weight(k, d) \in Nat /\ Weight(k, e) \in Nat
  BY <1>1, SizedFields, WeightOf
<1> DEFINE u == Weight(k, a)
           v == Weight(k, b)
           w == Weight(k, c)
           x == Weight(k, d)
           y == Weight(k, e)
<1>9. /\ u \in Nat /\ v \in Nat /\ w \in Nat /\ x \in Nat /\ y \in Nat
      /\ Due(k, p) = (u + (v + w)) + (x + y)
      /\ Weight(k, Charged(p)) = (((u + v) + w) + x) + y
  BY <1>2, <1>3, <1>4, <1>5, <1>6, <1>7, <1>8
<1> HIDE DEF u, v, w, x, y
<1> QED BY <1>9

\* No message of a type is in a queue.
LEMMA OfTypeNone ==
  ASSUME NEW s \in Seq(Messages), NEW type, \A x \in Elements(s) : x.type # type
  PROVE  OfType(s, type) = <<>>
<1> DEFINE S == {n \in Nat : \A r \in Seq(Messages) :
                   Len(r) = n /\ (\A x \in Elements(r) : x.type # type) => OfType(r, type) = <<>>}
<1>1. 0 \in S
  <2>1. ASSUME NEW r \in Seq(Messages), Len(r) = 0
        PROVE  OfType(r, type) = <<>>
    <3>1. r = <<>>
      BY <2>1
    <3> QED BY <3>1, OfTypeEmpty
  <2> QED BY <2>1
<1>2. ASSUME NEW n \in Nat, n \in S
      PROVE  n + 1 \in S
  <2>1. ASSUME NEW r \in Seq(Messages), Len(r) = n + 1, \A x \in Elements(r) : x.type # type
        PROVE  OfType(r, type) = <<>>
    <3>1. r # <<>> /\ Tail(r) \in Seq(Messages) /\ Len(Tail(r)) = n
      <4> HIDE DEF Messages
      <4> QED BY <2>1
    <3>2. Elements(Tail(r)) \subseteq Elements(r) /\ Head(r) \in Elements(r)
      BY <3>1, ElementsOf
    <3>3. OfType(Tail(r), type) = <<>>
      BY <1>2, <2>1, <3>1, <3>2
    <3>4. OfType(r, type) = IF Head(r).type = type THEN <<Head(r)>> \o OfType(Tail(r), type)
                            ELSE OfType(Tail(r), type)
      BY <3>1, OfTypeTail
    <3> QED BY <2>1, <3>2, <3>3, <3>4
  <2> QED BY <2>1
<1>3. Nat \subseteq S
  <2> HIDE DEF S
  <2> QED BY <1>1, <1>2, Induction
<1>4. Len(s) \in S
  BY <1>3
<1> QED BY <1>4

LEMMA ElementsConcat ==
  ASSUME NEW S, NEW s \in Seq(S), NEW r \in Seq(S)
  PROVE  s \o r \in Seq(S) /\ Elements(s \o r) \subseteq Elements(s) \union Elements(r)
<1>1. s \o r \in Seq(S)
  OBVIOUS
<1>2. ASSUME NEW k \in DOMAIN (s \o r)
      PROVE  (s \o r)[k] \in Elements(s) \union Elements(r)
  <2>1. k \in 1..(Len(s) + Len(r))
    OBVIOUS
  <2>2. CASE k <= Len(s)
    <3>1. (s \o r)[k] = s[k] /\ k \in DOMAIN s
      BY <2>1, <2>2
    <3> QED BY <3>1 DEF Elements
  <2>3. CASE k > Len(s)
    <3>1. (s \o r)[k] = r[k - Len(s)] /\ k - Len(s) \in DOMAIN r
      BY <2>1, <2>3
    <3> QED BY <3>1 DEF Elements
  <2> QED BY <2>1, <2>2, <2>3
<1> QED BY <1>1, <1>2 DEF Elements

LEMMA SoundCredit ==
  ASSUME IInv
  PROVE  CreditSound
<1>1. ASSUME ~crossed
      PROVE  CreditConserved /\ NoAbort /\ CloseNeverRefused
  <2>1. Uncrossed /\ QueueType /\ StoreType
    BY <1>1, TypeParts DEF IInv, Kept
  <2>2. "bytes" \in Measures /\ "packets" \in Measures
    BY DEF Measures
  <2>3. CreditConserved
    <3>1. ASSUME NEW p \in Peers
          PROVE  /\ desc[p].remoteFill = Channel!Bytes(Charged(p))
                 /\ desc[p].remotePackets = Len(Charged(p))
      <4>1. Credit("bytes", p) = Weight("bytes", Charged(p))
        BY <2>1, <2>2, DueIsCharged DEF Uncrossed, CreditExact
      <4>2. Credit("packets", p) = Weight("packets", Charged(p))
        BY <2>1, <2>2, DueIsCharged DEF Uncrossed, CreditExact
      <4> QED BY <4>1, <4>2 DEF Credit, Weight
    <3> QED BY <3>1 DEF CreditConserved
  <2>4. CloseNeverRefused
    <3>1. ASSUME NEW p \in Peers
          PROVE  OfType(link[p] \o remote[p], "close_nack") = <<>>
      <4>1. link[p] \in Seq(Messages) /\ remote[p] \in Seq(Messages)
        BY <2>1 DEF QueueType
      <4>2. /\ link[p] \o remote[p] \in Seq(Messages)
            /\ Elements(link[p] \o remote[p]) \subseteq MessagesTo(p)
        BY <4>1, ElementsConcat DEF MessagesTo
      <4>3. \A x \in MessagesTo(p) : x.type # "close_nack"
        BY <2>1 DEF Uncrossed, CloseMessages, EmptyAt, CloseTypes
      <4> QED BY <4>2, <4>3, OfTypeNone
    <3> QED BY <3>1 DEF CloseNeverRefused
  <2> QED BY <2>1, <2>3, <2>4 DEF Uncrossed
<1> QED BY <1>1 DEF CreditSound

(***************************************************************************)
(* The credit is exact until a call crosses a close: the two counters of   *)
(* isStreamSpaceEnoughFor are the bytes and packets on the link, in the    *)
(* other end's store, and in releases not yet seen. So a packet that       *)
(* arrives finds its stream and a free descriptor, no assertion of XLink.c *)
(* fails, and no close is refused, for any threads, sizes and buffers.     *)
(***************************************************************************)
THEOREM CreditSafety == Spec => []CreditSound
<1>1. IInv => CreditSound
  BY SoundCredit
<1> QED BY <1>1, Invariance, PTL

-----------------------------------------------------------------------------
(* The stream implements the channel                                       *)

\* The packets among the messages of a queue.
PacketsOf(s) == [k \in DOMAIN OfType(s, "write_req") |-> PacketOf(OfType(s, "write_req")[k])]

LEMMA PacketsIn ==
  ASSUME NEW s \in Seq(Messages)
  PROVE  /\ PacketsOf(s) \in Seq(Packets)
         /\ Len(PacketsOf(s)) = Part("packets", s, "write_req")
         /\ Channel!Bytes(PacketsOf(s)) = Part("bytes", s, "write_req")
<1> DEFINE o == OfType(s, "write_req")
           q == PacketsOf(s)
<1>1. o \in Seq(Messages)
  BY OfTypeSeq
<1>2. q = [k \in DOMAIN o |-> PacketOf(o[k])]
  BY DEF PacketsOf
<1>3. Part("packets", s, "write_req") = Len(o) /\ Part("bytes", s, "write_req") = Channel!Bytes(o)
  BY DEF Part, Weight
<1>4. \A m \in Messages : PacketOf(m) \in Packets /\ PacketOf(m).size = m.size
  BY MessageFields DEF PacketOf, Packets
<1> HIDE DEF o, q, Messages, Packets
<1>5. DOMAIN o = 1..Len(o) /\ \A k \in 1..Len(o) : o[k] \in Messages
  BY <1>1
<1>6. q = [k \in 1..Len(o) |-> PacketOf(o[k])]
  BY <1>2, <1>5
<1>7. q \in Seq(Packets) /\ Len(q) = Len(o) /\ DOMAIN q = 1..Len(o)
  BY <1>1, <1>4, <1>5, <1>6
<1>8. [k \in DOMAIN q |-> q[k].size] = [k \in DOMAIN o |-> o[k].size]
  <2>1. ASSUME NEW k \in 1..Len(o)
        PROVE  q[k].size = o[k].size
    BY <1>4, <1>5, <1>6
  <2> QED BY <1>5, <1>7, <2>1
<1>9. Channel!Bytes(q) = Channel!Bytes(o)
  BY <1>8 DEF Channel!Bytes
<1> QED BY <1>3, <1>7, <1>9 DEF q

LEMMA PacketsAppend ==
  ASSUME NEW s \in Seq(Messages), NEW m \in Messages
  PROVE  PacketsOf(Append(s, m)) =
           IF m.type = "write_req" THEN Append(PacketsOf(s), PacketOf(m)) ELSE PacketsOf(s)
<1> DEFINE o == OfType(s, "write_req")
           v == OfType(Append(s, m), "write_req")
<1>1. o \in Seq(Messages)
  BY OfTypeSeq
<1>2. v = IF m.type = "write_req" THEN Append(o, m) ELSE o
  BY OfTypeAppend
<1>3. PacketsOf(s) = [k \in DOMAIN o |-> PacketOf(o[k])]
      /\ PacketsOf(Append(s, m)) = [k \in DOMAIN v |-> PacketOf(v[k])]
  BY DEF PacketsOf
<1> HIDE DEF o, v, Messages
<1>4. CASE m.type = "write_req"
  <2>1. v = Append(o, m)
    BY <1>2, <1>4
  <2>2. DOMAIN o = 1..Len(o) /\ DOMAIN v = 1..(Len(o) + 1) /\ Len(o) \in Nat
    BY <1>1, <2>1
  <2>3. v[Len(o) + 1] = m /\ \A k \in 1..Len(o) : v[k] = o[k]
    BY <1>1, <2>1
  <2> DEFINE f == [k \in 1..Len(o) |-> PacketOf(o[k])]
             g == [k \in 1..(Len(o) + 1) |-> PacketOf(v[k])]
             h == Append(f, PacketOf(m))
  <2>4. f \in Seq({PacketOf(o[k]) : k \in 1..Len(o)}) /\ Len(f) = Len(o)
    BY <2>2
  <2>5. DOMAIN h = 1..(Len(o) + 1) /\ h = [k \in DOMAIN h |-> h[k]]
    BY <2>2, <2>4
  <2>6. ASSUME NEW k \in 1..(Len(o) + 1)
        PROVE  h[k] = g[k]
    <3>1. CASE k = Len(o) + 1
      BY <2>2, <2>3, <2>4, <3>1
    <3>2. CASE k # Len(o) + 1
      <4>1. k \in 1..Len(o)
        BY <2>2, <3>2
      <4>2. h[k] = f[k]
        BY <2>4, <4>1
      <4> QED BY <2>3, <4>1, <4>2
    <3> QED BY <3>1, <3>2
  <2>7. h = g
    <3>1. g = [k \in 1..(Len(o) + 1) |-> g[k]]
      OBVIOUS
    <3> HIDE DEF f, g, h
    <3> QED BY <2>5, <2>6, <3>1
  <2>8. PacketsOf(s) = f /\ PacketsOf(Append(s, m)) = g
    BY <1>3, <2>2
  <2> QED BY <1>4, <2>7, <2>8
<1>5. CASE m.type # "write_req"
  BY <1>2, <1>3, <1>5
<1> QED BY <1>4, <1>5

LEMMA PacketsTail ==
  ASSUME NEW s \in Seq(Messages), s # <<>>
  PROVE  PacketsOf(s) =
           IF Head(s).type = "write_req" THEN <<PacketOf(Head(s))>> \o PacketsOf(Tail(s))
           ELSE PacketsOf(Tail(s))
<1> DEFINE o == OfType(Tail(s), "write_req")
           v == OfType(s, "write_req")
           m == Head(s)
<1>1. Tail(s) \in Seq(Messages)
  <2> HIDE DEF Messages
  <2> QED OBVIOUS
<1>2. o \in Seq(Messages)
  BY <1>1, OfTypeSeq
<1>3. v = IF m.type = "write_req" THEN <<m>> \o o ELSE o
  BY OfTypeTail
<1>4. PacketsOf(Tail(s)) = [k \in DOMAIN o |-> PacketOf(o[k])]
      /\ PacketsOf(s) = [k \in DOMAIN v |-> PacketOf(v[k])]
  BY DEF PacketsOf
<1> HIDE DEF o, v, m, Messages
<1>5. CASE m.type = "write_req"
  <2>1. v = <<m>> \o o
    BY <1>3, <1>5
  <2>2. DOMAIN o = 1..Len(o) /\ DOMAIN v = 1..(Len(o) + 1) /\ Len(o) \in Nat
    BY <1>2, <2>1
  <2>3. v[1] = m /\ \A k \in 1..Len(o) : v[k + 1] = o[k]
    BY <1>2, <2>1
  <2> DEFINE f == [k \in 1..Len(o) |-> PacketOf(o[k])]
             g == [k \in 1..(Len(o) + 1) |-> PacketOf(v[k])]
             h == <<PacketOf(m)>> \o f
  <2>4. f \in Seq({PacketOf(o[k]) : k \in 1..Len(o)}) /\ Len(f) = Len(o)
    BY <2>2
  <2>5. DOMAIN h = 1..(Len(o) + 1) /\ h = [k \in DOMAIN h |-> h[k]]
    BY <2>2, <2>4
  <2>6. ASSUME NEW k \in 1..(Len(o) + 1)
        PROVE  h[k] = g[k]
    <3>1. CASE k = 1
      BY <2>2, <2>3, <2>4, <3>1
    <3>2. CASE k # 1
      <4>1. k - 1 \in 1..Len(o) /\ (k - 1) + 1 = k
        BY <2>2, <3>2
      <4>2. h[k] = f[k - 1]
        BY <2>2, <2>4, <4>1
      <4>3. v[k] = o[k - 1]
        BY <2>3, <4>1
      <4> QED BY <4>1, <4>2, <4>3
    <3> QED BY <3>1, <3>2
  <2>7. h = g
    <3>1. g = [k \in 1..(Len(o) + 1) |-> g[k]]
      OBVIOUS
    <3> HIDE DEF f, g, h
    <3> QED BY <2>5, <2>6, <3>1
  <2>8. PacketsOf(Tail(s)) = f /\ PacketsOf(s) = g
    BY <1>4, <2>2
  <2> QED BY <1>5, <2>7, <2>8 DEF m
<1>6. CASE m.type # "write_req"
  BY <1>3, <1>4, <1>6 DEF m
<1> QED BY <1>5, <1>6

\* What the application of end "app" wrote and the other end did not read.
Unread == store["device"].unread \o PacketsOf(link["device"])

LEMMA UnreadIs ==
  Unread = store["device"].unread \o
             [k \in DOMAIN OnLink("device") |-> PacketOf(OnLink("device")[k])]
BY DEF Unread, PacketsOf, OnLink

WithinChannel ==
  /\ Len(Unread) + Len(store["device"].blocked) <= MaxPackets
  /\ Channel!Bytes(Unread) + Channel!Bytes(store["device"].blocked) <= Buffer["app"]

LEMMA ChannelBounded == Kept => WithinChannel
<1> SUFFICES ASSUME Kept
             PROVE  WithinChannel
  OBVIOUS
<1>1. QueueType /\ StoreType /\ CreditCovers /\ DescType
  BY TypeParts DEF Kept
<1>2. "app" \in Peers /\ "device" \in Peers /\ Other("app") = "device"
  BY Ends DEF Peers
<1> DEFINE s == store["device"].unread
           b == store["device"].blocked
           q == PacketsOf(link["device"])
<1>3. s \in Seq(Packets) /\ b \in Seq(Packets) /\ link["device"] \in Seq(Messages)
  BY <1>1, <1>2 DEF StoreType, QueueType
<1>4. q \in Seq(Packets)
  BY <1>3, PacketsIn
<1>5. s \in Seq(Sized) /\ b \in Seq(Sized) /\ q \in Seq(Sized)
  BY <1>3, <1>4, SizedFields
<1>6. ASSUME NEW k \in Measures
      PROVE  Weight(k, Unread) + Weight(k, b) <= Limit(k, "app")
  <2>1. Weight(k, Unread) = Weight(k, s) + Weight(k, q) /\ Weight(k, s) \in Nat
          /\ Weight(k, q) \in Nat
    BY <1>5, WeightConcat DEF Unread
  <2>2. Weight(k, q) = Part(k, link["device"], "write_req")
    <3>1. Len(q) = Part("packets", link["device"], "write_req")
      BY <1>3, PacketsIn
    <3>2. Channel!Bytes(q) = Part("bytes", link["device"], "write_req")
      BY <1>3, PacketsIn
    <3> HIDE DEF q
    <3> QED BY <3>1, <3>2 DEF Weight, Measures
  <2>3. Due(k, "app") = (Weight(k, q) + (Weight(k, s) + Weight(k, b)))
                          + (Part(k, link["app"], "release_req") + Part(k, remote["app"], "release_req"))
    <3> HIDE DEF q
    <3> QED BY <1>2, <2>2 DEF Due, Stock
  <2>4. /\ Part(k, link["app"], "release_req") \in Nat
        /\ Part(k, remote["app"], "release_req") \in Nat
    BY <1>1, <1>2, DueTerms
  <2>5. Credit(k, "app") >= Due(k, "app") /\ Credit(k, "app") <= Limit(k, "app")
    BY <1>1, <1>2 DEF CreditCovers
  <2>6. Weight(k, b) \in Nat /\ Credit(k, "app") \in Nat /\ Limit(k, "app") \in Nat
    BY <1>1, <1>2, <1>5, WeightConcat, CreditType DEF Limit
  <2> DEFINE u == Weight(k, q)
             v == Weight(k, s)
             w == Weight(k, b)
             x == Part(k, link["app"], "release_req")
             y == Part(k, remote["app"], "release_req")
             c == Credit(k, "app")
             l == Limit(k, "app")
  <2>7. /\ u \in Nat /\ v \in Nat /\ w \in Nat /\ x \in Nat /\ y \in Nat /\ c \in Nat /\ l \in Nat
        /\ c >= (u + (v + w)) + (x + y) /\ c <= l /\ Weight(k, Unread) = v + u
    BY <2>1, <2>3, <2>4, <2>5, <2>6
  <2> HIDE DEF u, v, w, x, y, c, l
  <2>8. (v + u) + w <= l
    BY <2>7
  <2> QED BY <2>7, <2>8 DEF w, l
<1>7. "bytes" \in Measures /\ "packets" \in Measures
  BY DEF Measures
<1>8. Weight("bytes", Unread) + Weight("bytes", b) <= Buffer["app"]
  BY <1>6, <1>7 DEF Limit
<1>9. Weight("packets", Unread) + Weight("packets", b) <= MaxPackets
  BY <1>6, <1>7 DEF Limit
<1> QED BY <1>8, <1>9 DEF Weight, WithinChannel

LEMMA ChannelBoundedNext == Kept' => WithinChannel'
BY ChannelBounded, PTL

\* Nothing happens in the channel.
LEMMA ChannelQuiet ==
  ASSUME sent'["app"] = sent["app"], store'["device"] = store["device"],
         PacketsOf(link'["device"]) = PacketsOf(link["device"]),
         desc'["device"].readSize = desc["device"].readSize
  PROVE  UNCHANGED Channel!vars
<1>1. (OnLink("device"))' = OfType(link'["device"], "write_req")
  BY DEF OnLink, OfType
<1>2. (store["device"].unread \o
             [k \in DOMAIN OnLink("device") |-> PacketOf(OnLink("device")[k])])'
        = store'["device"].unread \o PacketsOf(link'["device"])
  BY <1>1 DEF PacketsOf, PacketOf
<1>3. UNCHANGED (store["device"].unread \o
             [k \in DOMAIN OnLink("device") |-> PacketOf(OnLink("device")[k])])
  BY <1>2, UnreadIs DEF Unread
<1> QED BY <1>3 DEF Channel!vars

LEMMA UnreadNext ==
  /\ Unread' = store'["device"].unread \o PacketsOf(link'["device"])
  /\ Unread' = (store["device"].unread \o
                   [k \in DOMAIN OnLink("device") |-> PacketOf(OnLink("device")[k])])'
<1>1. (OnLink("device"))' = OfType(link'["device"], "write_req")
  BY DEF OnLink, OfType
<1>2. (store["device"].unread \o
         [k \in DOMAIN OnLink("device") |-> PacketOf(OnLink("device")[k])])'
        = store'["device"].unread \o PacketsOf(link'["device"])
  BY <1>1 DEF PacketsOf, PacketOf
<1>3. Unread' = store'["device"].unread \o PacketsOf(link'["device"])
  BY DEF Unread, PacketsOf, PacketOf, OfType
<1> QED BY <1>2, <1>3

\* A message that is no packet of this direction leaves its packets alone.
LEMMA LinkQuiet ==
  ASSUME QueueType, NEW p \in Peers, NEW m, Sends(p, m), p = "device" \/ m.type # "write_req"
  PROVE  PacketsOf(link'["device"]) = PacketsOf(link["device"])
<1>1. p = "app" \/ p = "device"
  BY DEF Peers
<1>2. CASE p = "device"
  BY <1>2 DEF Sends
<1>3. CASE p = "app" /\ m.type # "write_req"
  <2>1. link["device"] \in Seq(Messages) /\ m \in Messages
        /\ link'["device"] = Append(link["device"], m)
    BY <1>3, Ends DEF Sends, QueueType, Peers
  <2> QED BY <1>3, <2>1, PacketsAppend
<1> QED BY <1>1, <1>2, <1>3

\* XLinkWriteData at end "app" is a write of the channel.
LEMMA ChannelWrite ==
  ASSUME Kept, Kept', Uncrossed, Buffer["app"] # 0, NEW t \in Threads, ServesCall("app", t),
         WriteSent("app", t)
  PROVE  Channel!Write
<1> DEFINE m == [type |-> "write_req", of |-> t, size |-> call[t].size, id |-> sent["app"] + 1]
<1>1. /\ "app" \in Peers /\ "device" \in Peers /\ Other("app") = "device"
      /\ QueueType /\ StoreType /\ DescType /\ CallKept(t) /\ CloseLast /\ ClosedEmpty
      /\ sent \in [Peers -> Nat]
  BY TypeParts, Ends DEF Kept, Control, CallsKept, Uncrossed, Peers, RestType
<1>2. /\ Sends("app", m) /\ m \in Messages /\ m.type = "write_req" /\ UNCHANGED store
      /\ PacketOf(m) = [id |-> sent["app"] + 1, size |-> call[t].size]
      /\ call[t].op = "write" /\ sent' = [sent EXCEPT !["app"] = @ + 1]
      /\ desc' = [desc EXCEPT !["app"].remoteFill = @ + call[t].size,
                              !["app"].remotePackets = @ + 1]
  BY DEF WriteSent, Sends, PacketOf
<1> HIDE DEF m
<1>3. call[t].size \in Sizes
  BY <1>1, <1>2 DEF CallKept
<1>4. desc["device"].readSize # 0
  <2>1. t \in Calls("app", "write", InCall)
    BY <1>1, <1>2, Threading DEF ServesCall, Calls, InCall
  <2>2. closing["app"] = "open"
    BY <1>1, <2>1 DEF CloseLast
  <2> QED BY <1>1, <2>2 DEF ClosedEmpty
<1>5. desc'["device"].readSize = desc["device"].readSize
  BY <1>1, <1>2 DEF DescType
<1>6. Unread' = Append(Unread, [id |-> sent["app"] + 1, size |-> call[t].size])
  <2> DEFINE s == store["device"].unread
             q == PacketsOf(link["device"])
             x == PacketOf(m)
  <2>1. link["device"] \in Seq(Messages) /\ s \in Seq(Packets) /\ m \in Messages
        /\ link'["device"] = Append(link["device"], m)
    BY <1>1, <1>2 DEF QueueType, StoreType, Sends
  <2>2. PacketsOf(link'["device"]) = Append(q, x) /\ q \in Seq(Packets) /\ x \in Packets
    BY <1>2, <2>1, PacketsAppend, PacketsIn, MessageFields DEF PacketOf, Packets
  <2>3. Unread' = store'["device"].unread \o PacketsOf(link'["device"])
    BY UnreadNext
  <2>4. Unread' = s \o Append(q, x) /\ Unread = s \o q
    BY <1>2, <2>2, <2>3 DEF Unread
  <2> HIDE DEF s, q, x, Packets
  <2>5. s \o Append(q, x) = Append(s \o q, x)
    BY <2>1, <2>2
  <2> QED BY <1>2, <2>4, <2>5 DEF x
<1>7. /\ Len(Unread') + Len(store["device"].blocked) <= MaxPackets
      /\ Channel!Bytes(Unread') + Channel!Bytes(store["device"].blocked) <= Buffer["app"]
  <2>1. WithinChannel'
    BY ChannelBoundedNext
  <2>2. /\ Len(Unread') + Len(store'["device"].blocked) <= MaxPackets
        /\ Channel!Bytes(Unread') + Channel!Bytes(store'["device"].blocked) <= Buffer["app"]
    BY <2>1 DEF WithinChannel, Channel!Bytes, Channel!Total
  <2> QED BY <1>2, <2>2
<1>8. sent'["app"] = sent["app"] + 1
  BY <1>1, <1>2
<1>9. Unread' = (store["device"].unread \o
                   [k \in DOMAIN OnLink("device") |-> PacketOf(OnLink("device")[k])])'
  BY UnreadNext
<1> QED BY <1>2, <1>3, <1>4, <1>5, <1>6, <1>7, <1>8, <1>9, UnreadIs DEF Channel!Write

\* XLinkReadData at end "device" is a read of the channel.
LEMMA ChannelRead ==
  ASSUME Kept, NEW t \in Threads, ServesCall("device", t), ReadGiven("device", t)
  PROVE  Channel!Read
<1>1. /\ "device" \in Peers /\ QueueType /\ StoreType
  BY TypeParts DEF Kept, Peers
<1>2. /\ store["device"].unread # <<>> /\ UNCHANGED <<desc, link, sent>>
      /\ store' = [store EXCEPT !["device"].unread = Tail(@),
                                !["device"].blocked = Append(@, Head(store["device"].unread))]
  BY DEF ReadGiven
<1> DEFINE s == store["device"].unread
           q == PacketsOf(link["device"])
<1>3. /\ s \in Seq(Packets) /\ q \in Seq(Packets) /\ s # <<>>
      /\ store'["device"].unread = Tail(s)
      /\ store'["device"].blocked = Append(store["device"].blocked, Head(s))
  <2>1. link["device"] \in Seq(Messages)
    BY <1>1 DEF QueueType
  <2> QED BY <1>1, <1>2, <2>1, PacketsIn DEF StoreType
<1>4. Unread' = Tail(s) \o q /\ Unread = s \o q
  <2>1. Unread' = store'["device"].unread \o PacketsOf(link'["device"])
    BY UnreadNext
  <2> QED BY <1>2, <1>3, <2>1 DEF Unread
<1> HIDE DEF s, q, Packets
<1>5. Tail(s) \o q = Tail(s \o q) /\ Head(s \o q) = Head(s) /\ s \o q # <<>>
  BY <1>3
<1>6. /\ Unread # <<>> /\ Unread' = Tail(Unread)
      /\ store'["device"].blocked = Append(store["device"].blocked, Head(Unread))
  BY <1>3, <1>4, <1>5
<1>7. Unread' = (store["device"].unread \o
                   [k \in DOMAIN OnLink("device") |-> PacketOf(OnLink("device")[k])])'
  BY UnreadNext
<1> QED BY <1>2, <1>6, <1>7, UnreadIs DEF Channel!Read

\* XLinkReleaseData at end "device" is a release of the channel.
LEMMA ChannelRelease ==
  ASSUME Kept, NEW t \in Threads, ServesCall("device", t), ReleaseSent("device", t)
  PROVE  Channel!Release
<1> DEFINE h == Head(store["device"].blocked)
           m == [type |-> "release_req", of |-> t, size |-> h.size, id |-> h.id]
<1>1. /\ "device" \in Peers /\ QueueType /\ StoreType /\ DescType
  BY TypeParts DEF Kept, Peers
<1>2. /\ store["device"].blocked # <<>> /\ Sends("device", m) /\ UNCHANGED sent
      /\ store' = [store EXCEPT !["device"].blocked = Tail(@)]
      /\ desc' = [desc EXCEPT !["device"].localFill = @ - h.size]
  BY DEF ReleaseSent
<1> HIDE DEF m, h
<1>3. /\ store'["device"].unread = store["device"].unread
      /\ store'["device"].blocked = Tail(store["device"].blocked)
      /\ desc'["device"].readSize = desc["device"].readSize
  BY <1>1, <1>2 DEF StoreType, DescType
<1>4. PacketsOf(link'["device"]) = PacketsOf(link["device"])
  BY <1>1, <1>2, LinkQuiet
<1>5. Unread' = Unread
  <2>1. Unread' = store'["device"].unread \o PacketsOf(link'["device"])
    BY UnreadNext
  <2> QED BY <1>3, <1>4, <2>1 DEF Unread
<1>6. Unread' = (store["device"].unread \o
                   [k \in DOMAIN OnLink("device") |-> PacketOf(OnLink("device")[k])])'
  BY UnreadNext
<1> QED BY <1>2, <1>3, <1>5, <1>6, UnreadIs DEF Channel!Release

\* A close that end "device" accepts closes the channel, which is empty.
LEMMA ChannelClose ==
  ASSUME Kept, Uncrossed, NEW m, TakesMessage("device", m), CloseAccepted("device", m)
  PROVE  Channel!Close
<1> DEFINE r == [m EXCEPT !.type = "close_resp"]
<1>1. /\ "device" \in Peers /\ "app" \in Peers /\ Other("device") = "app" /\ Other("app") = "device"
      /\ QueueType /\ StoreType /\ DescType /\ StoreKept /\ CreditExact /\ CloseMessages
      /\ MessagesKept
  BY TypeParts, Ends DEF Kept, Control, Uncrossed, Peers
<1>2. /\ m.type = "close_req" /\ Sends("device", r) /\ UNCHANGED <<store, sent>>
      /\ desc' = [desc EXCEPT !["device"].readSize = 0,
                              !["device"].closeInitiated = @ /\ desc["device"].readSize = 0,
                              !["device"].open = desc["device"].writeSize # 0]
  BY DEF CloseAccepted, Replies, TakesMessage
<1>3. desc'["device"].readSize = 0
  BY <1>1, <1>2 DEF DescType
<1> HIDE DEF r
<1>4. desc["app"].remoteFill = 0
  BY <1>1, <1>2, NeverRefused
<1>5. "bytes" \in Measures /\ "packets" \in Measures
  BY DEF Measures
<1>6. Due("bytes", "app") = 0
  BY <1>1, <1>4, <1>5 DEF CreditExact, Credit
<1>7. Stock("bytes", "device") = 0 /\ Part("bytes", link["device"], "write_req") = 0
  <2>1. /\ Due("bytes", "app") >= Stock("bytes", "device")
        /\ Due("bytes", "app") >= Part("bytes", link["device"], "write_req")
        /\ Stock("bytes", "device") \in Nat /\ Part("bytes", link["device"], "write_req") \in Nat
    BY <1>1, <1>5, DueTerms
  <2> QED BY <1>6, <2>1
<1>8. store["device"].unread = <<>> /\ store["device"].blocked = <<>>
  <2>1. /\ store["device"].unread \in Seq(Packets) /\ store["device"].blocked \in Seq(Packets)
        /\ Weight("bytes", store["device"].unread) \in Nat
        /\ Weight("bytes", store["device"].blocked) \in Nat
    BY <1>1, <1>5, StoreSizes
  <2>2. Weight("bytes", store["device"].unread) = 0 /\ Weight("bytes", store["device"].blocked) = 0
    BY <1>7, <2>1 DEF Stock
  <2>3. ASSUME NEW s \in Seq(Packets), Elements(s) \subseteq Elements(store["device"].unread)
                                          \union Elements(store["device"].blocked),
               Weight("bytes", s) = 0
        PROVE  s = <<>>
    <3> SUFFICES ASSUME s # <<>>
                 PROVE  FALSE
      OBVIOUS
    <3>1. Head(s) \in Elements(s) /\ Tail(s) \in Seq(Packets) /\ Head(s) \in Packets
      BY <2>3, ElementsOf
    <3>2. Head(s).size > 0 /\ Head(s).size \in Nat
      BY <1>1, <2>3, <3>1, MessageFields DEF StoreKept
    <3>3. Weight("bytes", s) = Unit("bytes", Head(s)) + Weight("bytes", Tail(s))
          /\ Weight("bytes", Tail(s)) \in Nat
      BY <1>5, <2>3, <3>1, MessageFields, WeightOf
    <3> QED BY <2>3, <3>2, <3>3 DEF Unit
  <2>4. store["device"].unread = <<>>
    BY <2>1, <2>2, <2>3
  <2>5. store["device"].blocked = <<>>
    BY <2>1, <2>2, <2>3
  <2> QED BY <2>4, <2>5
<1>9. PacketsOf(link["device"]) = <<>>
  <2>1. link["device"] \in Seq(Messages)
    BY <1>1 DEF QueueType
  <2>2. \A x \in Elements(link["device"]) : x.type = "write_req" => x.size > 0
    BY <1>1 DEF MessagesKept, MessagesTo, Proper
  <2>3. /\ Part("packets", link["device"], "write_req") <= Part("bytes", link["device"], "write_req")
        /\ Part("packets", link["device"], "write_req") \in Nat
    BY <1>5, <2>1, <2>2, PacketsInBytes, PartOf
  <2>4. Len(PacketsOf(link["device"])) = 0 /\ PacketsOf(link["device"]) \in Seq(Packets)
    BY <1>7, <2>1, <2>3, PacketsIn
  <2> QED BY <2>4
<1>10. PacketsOf(link'["device"]) = PacketsOf(link["device"])
  BY <1>1, <1>2, LinkQuiet
<1>11. Unread = <<>> /\ Unread' = Unread
  <2>1. Unread' = store'["device"].unread \o PacketsOf(link'["device"])
    BY UnreadNext
  <2>2. Unread' = Unread
    BY <1>2, <1>10, <2>1 DEF Unread
  <2>3. Unread = <<>>
    BY <1>8, <1>9 DEF Unread
  <2> QED BY <2>2, <2>3
<1>12. Unread' = (store["device"].unread \o
                   [k \in DOMAIN OnLink("device") |-> PacketOf(OnLink("device")[k])])'
  BY UnreadNext
<1> QED BY <1>2, <1>3, <1>8, <1>11, <1>12, UnreadIs DEF Channel!Close

\* A packet that goes from the link to the store stays in its place.
LEMMA ChannelReceive ==
  ASSUME Kept, ClosedEmpty, NEW p \in Peers, Receive(p)
  PROVE  UNCHANGED Channel!vars
<1>1. /\ QueueType /\ StoreType /\ DescType /\ TypeOK /\ MessagesKept
      /\ "app" \in Peers /\ "device" \in Peers
  BY TypeParts DEF Kept, Control, Peers
<1>2. PICK m \in Messages :
        Receives(p, m) /\ (ArrivalAborts(p, m) \/ Stored(p, m) \/ Queued(p, m))
  BY <1>1, ReceiveCases
<1>3. ~ArrivalAborts(p, m)
  BY <1>2, PacketFinds DEF ArrivalAborts
<1>4. /\ link' = [link EXCEPT ![p] = Tail(@)] /\ sent' = sent
      /\ link[p] # <<>> /\ m = Head(link[p]) /\ SizesSame
  BY <1>1, <1>2, SizesByReceive DEF Receives
<1>5. desc'["device"].readSize = desc["device"].readSize
  BY <1>1, <1>4 DEF SizesSame
<1>6. CASE p = "app"
  <2>1. link'["device"] = link["device"]
    BY <1>1, <1>4, <1>6 DEF QueueType
  <2>2. store'["device"] = store["device"]
    BY <1>1, <1>2, <1>3, <1>6 DEF Stored, Queued, StoreType
  <2> QED BY <1>4, <1>5, <2>1, <2>2, ChannelQuiet
<1>7. CASE p = "device"
  <2> DEFINE s == store["device"].unread
             l == link["device"]
             q == PacketsOf(Tail(l))
             x == PacketOf(m)
  <2>1. /\ l \in Seq(Messages) /\ l # <<>> /\ m = Head(l) /\ link'["device"] = Tail(l)
        /\ s \in Seq(Packets) /\ Tail(l) \in Seq(Messages)
    <3>1. l \in Seq(Messages) /\ l # <<>> /\ m = Head(l) /\ link'["device"] = Tail(l)
          /\ s \in Seq(Packets)
      BY <1>1, <1>4, <1>7 DEF QueueType, StoreType
    <3> QED BY <3>1, ElementsOf
  <2>2. q \in Seq(Packets) /\ x \in Packets
    BY <1>2, <2>1, PacketsIn, MessageFields DEF PacketOf, Packets
  <2>3. PacketsOf(l) = IF m.type = "write_req" THEN <<x>> \o q ELSE q
    BY <2>1, PacketsTail
  <2>4. CASE Stored(p, m)
    <3>1. /\ m.type = "write_req" /\ store'["device"].unread = Append(s, x)
          /\ store'["device"].blocked = store["device"].blocked
      BY <1>1, <1>7, <2>4 DEF Stored, StoreType
    <3>2. Unread' = Append(s, x) \o q
      BY <2>1, <3>1, UnreadNext
    <3>3. Unread = s \o (<<x>> \o q)
      BY <2>3, <3>1 DEF Unread
    <3> HIDE DEF s, q, x, l, Packets
    <3>4. Append(s, x) \o q = s \o (<<x>> \o q)
      BY <2>1, <2>2
    <3>5. Unread' = Unread
      BY <3>2, <3>3, <3>4
    <3> QED BY <1>4, <1>5, <3>1, <3>5, UnreadIs, UnreadNext DEF Channel!vars
  <2>5. CASE Queued(p, m)
    <3>1. m.type # "write_req" /\ store' = store
      BY <2>5 DEF Queued
    <3>2. PacketsOf(link'["device"]) = PacketsOf(link["device"])
      BY <2>1, <2>3, <3>1
    <3> QED BY <1>4, <1>5, <3>1, <3>2, ChannelQuiet
  <2> QED BY <1>2, <1>3, <2>4, <2>5
<1> QED BY <1>6, <1>7 DEF Peers

LEMMA ChannelServeCall ==
  ASSUME Kept, Kept', Uncrossed, Buffer["app"] # 0, NEW p \in Peers, ServeCall(p)
  PROVE  Channel!Next \/ UNCHANGED Channel!vars
<1>1. /\ QueueType /\ StoreType /\ DescType /\ TypeOK /\ Control /\ StoreKept /\ CreditCovers
      /\ LocalKept /\ CallsKept /\ "app" \in Peers /\ "device" \in Peers
      /\ (p = "app" \/ p = "device") /\ sent \in [Peers -> Nat]
  BY TypeParts DEF Kept, Control, Peers, RestType
<1>2. PICK t \in Threads :
        /\ ServesCall(p, t)
        /\ \/ CallAborts(p) \/ CallPasses(p, t) \/ WriteSent(p, t) \/ ReadGiven(p, t)
           \/ ReleaseSent(p, t) \/ CloseBlocked(p, t) \/ CloseSent(p, t)
  BY <1>1, ServeCallCases
<1>3. ~CallAborts(p)
  BY <1>2, CallFinds DEF CallAborts
<1>4. desc'["device"].readSize = desc["device"].readSize
  BY <1>1, <1>2, SizesByServeCall DEF SizesSame
<1>5. CASE CallPasses(p, t) \/ CloseBlocked(p, t)
  <2>1. UNCHANGED <<store, link, sent>>
    BY <1>5 DEF CallPasses, CloseBlocked
  <2> QED BY <1>4, <2>1, ChannelQuiet
<1>6. CASE WriteSent(p, t)
  <2>1. CASE p = "app"
    BY <1>2, <1>6, <2>1, ChannelWrite DEF Channel!Next
  <2>2. CASE p = "device"
    <3> DEFINE m == [type |-> "write_req", of |-> t, size |-> call[t].size, id |-> sent[p] + 1]
    <3>1. Sends(p, m) /\ store' = store /\ sent' = [sent EXCEPT ![p] = @ + 1]
      BY <1>6 DEF WriteSent
    <3> HIDE DEF m
    <3>2. PacketsOf(link'["device"]) = PacketsOf(link["device"])
      BY <1>1, <2>2, <3>1, LinkQuiet
    <3>3. sent'["app"] = sent["app"]
      BY <1>1, <2>2, <3>1
    <3> QED BY <1>4, <3>1, <3>2, <3>3, ChannelQuiet
  <2> QED BY <1>1, <2>1, <2>2
<1>7. CASE ReadGiven(p, t)
  <2>1. CASE p = "device"
    BY <1>2, <1>7, <2>1, ChannelRead DEF Channel!Next
  <2>2. CASE p = "app"
    <3>1. UNCHANGED <<link, sent>> /\ store'["device"] = store["device"]
      BY <1>1, <1>7, <2>2 DEF ReadGiven, StoreType
    <3> QED BY <1>4, <3>1, ChannelQuiet
  <2> QED BY <1>1, <2>1, <2>2
<1>8. CASE ReleaseSent(p, t)
  <2>1. CASE p = "device"
    BY <1>2, <1>8, <2>1, ChannelRelease DEF Channel!Next
  <2>2. CASE p = "app"
    <3> DEFINE m == [type |-> "release_req", of |-> t, size |-> Head(store[p].blocked).size,
                     id |-> Head(store[p].blocked).id]
    <3>1. Sends(p, m) /\ m.type = "release_req" /\ sent' = sent
          /\ store'["device"] = store["device"]
      BY <1>1, <1>8, <2>2 DEF ReleaseSent, StoreType
    <3> HIDE DEF m
    <3>2. PacketsOf(link'["device"]) = PacketsOf(link["device"])
      BY <1>1, <3>1, LinkQuiet
    <3> QED BY <1>4, <3>1, <3>2, ChannelQuiet
  <2> QED BY <1>1, <2>1, <2>2
<1>9. CASE CloseSent(p, t)
  <2> DEFINE m == [type |-> "close_req", of |-> t, size |-> 0, id |-> 0]
  <2>1. Sends(p, m) /\ m.type = "close_req" /\ sent' = sent /\ store' = store
    BY <1>9 DEF CloseSent
  <2> HIDE DEF m
  <2>2. PacketsOf(link'["device"]) = PacketsOf(link["device"])
    BY <1>1, <2>1, LinkQuiet
  <2> QED BY <1>4, <2>1, <2>2, ChannelQuiet
<1> QED BY <1>2, <1>3, <1>5, <1>6, <1>7, <1>8, <1>9

LEMMA ChannelServeMessage ==
  ASSUME Kept, Uncrossed, NEW p \in Peers, ServeMessage(p)
  PROVE  Channel!Next \/ UNCHANGED Channel!vars
<1>1. /\ QueueType /\ StoreType /\ DescType /\ TypeOK /\ MessagesKept
      /\ "app" \in Peers /\ "device" \in Peers /\ (p = "app" \/ p = "device")
  BY TypeParts DEF Kept, Control, Peers
<1>2. PICK m \in Messages : TakesMessage(p, m) /\ MessageCase(p, m)
  BY <1>1, ServeMessageCases
<1>3. UNCHANGED <<store, sent>>
  BY <1>2 DEF TakesMessage
<1>4. ASSUME NEW type, Replies(p, m, type), type # "write_req"
      PROVE  PacketsOf(link'["device"]) = PacketsOf(link["device"])
  <2> DEFINE r == [m EXCEPT !.type = type]
  <2>1. Sends(p, r) /\ r.type # "write_req"
    BY <1>4 DEF Replies
  <2> HIDE DEF r
  <2> QED BY <1>1, <2>1, LinkQuiet
<1>5. CASE CloseAccepted(p, m) /\ p = "device"
  BY <1>2, <1>5, ChannelClose DEF Channel!Next
<1>6. CASE ~(CloseAccepted(p, m) /\ p = "device")
  <2>1. PacketsOf(link'["device"]) = PacketsOf(link["device"])
    <3>1. CASE UNCHANGED link
      BY <3>1
    <3>2. CASE Replies(p, m, "write_resp") \/ Replies(p, m, "release_resp")
                 \/ Replies(p, m, "close_resp") \/ Replies(p, m, "close_nack")
      BY <1>4, <3>2
    <3> QED BY <1>2, <3>1, <3>2 DEF MessageCase, MessageAborts, WriteTaken, ReleaseTaken,
                                   CloseRefused, CloseAccepted, CloseOfNothing, Answered,
                                   CloseAnswered
  <2>2. desc'["device"].readSize = desc["device"].readSize
    <3>1. CASE UNCHANGED desc
      BY <3>1
    <3>2. CASE ReleaseTaken(p, m)
      BY <1>1, <3>2 DEF ReleaseTaken, DescType
    <3>3. CASE CloseRefused(p, m)
      BY <1>1, <3>3 DEF CloseRefused, DescType
    <3>4. CASE CloseAccepted(p, m)
      <4>1. p = "app"
        BY <1>1, <1>6, <3>4
      <4> QED BY <1>1, <3>4, <4>1 DEF CloseAccepted, DescType
    <3>5. CASE CloseAnswered(p, m)
      BY <1>1, <3>5 DEF CloseAnswered, DescType
    <3> QED BY <1>2, <3>1, <3>2, <3>3, <3>4, <3>5 DEF MessageCase, MessageAborts, WriteTaken,
                                                     CloseOfNothing, Answered
  <2> QED BY <1>3, <2>1, <2>2, ChannelQuiet
<1> QED BY <1>5, <1>6

LEMMA ChannelStep ==
  ASSUME IInv, IInv', Buffer["app"] # 0, Next, ~crossed'
  PROVE  Channel!Next \/ UNCHANGED Channel!vars
<1>1. Kept /\ Kept'
  BY DEF IInv
<1>2. ASSUME NEW t \in Threads, Application(t)
      PROVE  UNCHANGED Channel!vars
  <2>1. PICK op, size : Enter(t, op, size)
    BY <1>2 DEF Application, CallWrite, CallRead, CallRelease, CallClose
  <2>2. UNCHANGED <<desc, store, link, sent>>
    BY <2>1 DEF Enter
  <2> QED BY <2>2, ChannelQuiet
<1>3. ASSUME NEW p \in Peers, ServeCall(p) \/ ServeMessage(p) \/ Receive(p)
      PROVE  Channel!Next \/ UNCHANGED Channel!vars
  <2>1. ~crossed
    BY <1>3 DEF ServeCall, ServeMessage, Receive
  <2>2. Uncrossed
    BY <2>1 DEF IInv
  <2>3. CASE ServeCall(p)
    BY <1>1, <2>2, <2>3, ChannelServeCall
  <2>4. CASE ServeMessage(p)
    BY <1>1, <2>2, <2>4, ChannelServeMessage
  <2>5. CASE Receive(p)
    BY <1>1, <2>2, <2>5, ChannelReceive DEF Uncrossed
  <2> QED BY <1>3, <2>3, <2>4, <2>5
<1> QED BY <1>2, <1>3 DEF Next

LEMMA ChannelInit ==
  ASSUME Init, Buffer["app"] # 0
  PROVE  Channel!Init
<1>1. /\ sent["app"] = 0 /\ store["device"].unread = <<>> /\ store["device"].blocked = <<>>
      /\ link["device"] = <<>> /\ desc["device"].readSize = Buffer["app"]
  BY Ends DEF Init, Peers
<1>2. PacketsOf(<<>>) = <<>>
  <2>1. OfType(<<>>, "write_req") = <<>>
    BY OfTypeEmpty
  <2> QED BY <2>1 DEF PacketsOf
<1>3. Unread = <<>>
  BY <1>1, <1>2 DEF Unread
<1> QED BY <1>1, <1>3, UnreadIs DEF Channel!Init

(***************************************************************************)
(* A stream that end "app" opens for writing is the channel XLink.h        *)
(* describes, until a call crosses its close: packets are read once and in *)
(* the order they were written, the reader's buffer holds them until they  *)
(* are released and never holds more than it was made for, and the stream  *)
(* closes when nothing is left in it. (Without a buffer there is no        *)
(* channel: such a stream is closed for writing from the start.)           *)
(***************************************************************************)
THEOREM ChannelRefinement == Buffer["app"] # 0 /\ Spec => ImplementsChannel
<1>1. Buffer["app"] # 0 /\ Init => Channel!Init
  BY ChannelInit
<1>2. Buffer["app"] # 0 /\ IInv /\ IInv' /\ [Next]_vars => [crossed' \/ Channel!Next]_(Channel!vars)
  <2> SUFFICES ASSUME Buffer["app"] # 0, IInv, IInv', [Next]_vars
               PROVE  crossed' \/ Channel!Next \/ UNCHANGED Channel!vars
    BY DEF Channel!vars
  <2>1. CASE UNCHANGED vars
    <3>1. UNCHANGED <<desc, store, link, sent>>
      BY <2>1 DEF vars
    <3> QED BY <3>1, ChannelQuiet
  <2>2. CASE Next
    <3>1. CASE crossed'
      BY <3>1
    <3>2. CASE ~crossed'
      BY <2>2, <3>2, ChannelStep
    <3> QED BY <3>1, <3>2
  <2> QED BY <2>1, <2>2
<1>3. CASE Buffer["app"] # 0
  BY <1>1, <1>2, <1>3, Invariance, PTL DEF Spec, ImplementsChannel
<1> QED BY <1>3
=============================================================================
