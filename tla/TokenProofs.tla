----------------------------- MODULE TokenProofs -----------------------------
(***************************************************************************)
(* Proofs about JwtTool.tla and Auth.tla: a token that jwttool makes is    *)
(* accepted by a provider with its key, and means what was asked for.      *)
(* The loops over claims are recursive functions; what they compute is     *)
(* shown by induction, for which the set of the numbers with a property is *)
(* all of Nat (SetInduction).                                              *)
(***************************************************************************)
EXTENDS JwtTool, SequenceTheorems, WellFoundedInduction, TLAPS

(* A set of natural numbers has a least element.                           *)
LEMMA LeastNumber ==
  ASSUME NEW S \in SUBSET Nat, S # {}
  PROVE  Min(S) \in S /\ \A x \in S : Min(S) <= x
<1>1. PICK m \in S : \A y \in S : ~(<<y, m>> \in OpToRel(<, Nat))
  BY WFMin, NatLessThanWellFounded, Zenon
<1>2. \A y \in S : ~(y < m)
  BY <1>1 DEF OpToRel
<1>3. \A y \in S : m <= y
  BY <1>2
<1> QED
  BY <1>3 DEF Min

(* Induction.                                                              *)
LEMMA SetInduction ==
  ASSUME NEW S \in SUBSET Nat, 0 \in S, \A n \in S : n + 1 \in S
  PROVE  S = Nat
<1> DEFINE T == Nat \ S
<1>1. SUFFICES ASSUME T # {} PROVE FALSE
  OBVIOUS
<1>2. Min(T) \in T /\ \A x \in T : Min(T) <= x
  BY <1>1, LeastNumber
<1>3. PICK m \in T : \A x \in T : m <= x
  BY <1>2
<1>4. m - 1 \in Nat /\ m - 1 \notin T
  BY <1>3
<1>5. (m - 1) + 1 \in S
  BY <1>4
<1> QED
  BY <1>3, <1>5

-----------------------------------------------------------------------------
(* The loop of Without.                                                    *)

(* One round.                                                              *)
Round(acc, item, skipped) == IF item = skipped THEN acc ELSE Append(acc, item)

(* r is what the loop has after each of its first n rounds.                *)
IsResult(r, n, list, skipped) ==
    r = [k \in 0..n |-> IF k = 0 THEN <<>> ELSE Round(r[k - 1], list[k], skipped)]

(* There is such a function ...                                            *)
LEMMA ResultExists ==
  ASSUME NEW list, NEW skipped
  PROVE  \A n \in Nat : \E r : IsResult(r, n, list, skipped)
<1> DEFINE S == {n \in Nat : \E r : IsResult(r, n, list, skipped)}
<1>1. 0 \in S
  <2> DEFINE r == [k \in 0..0 |-> <<>>]
  <2>1. r = [k \in 0..0 |-> IF k = 0 THEN <<>> ELSE Round(r[k - 1], list[k], skipped)]
    OBVIOUS
  <2>2. IsResult(r, 0, list, skipped)
    BY <2>1 DEF IsResult
  <2> QED
    BY <2>2
<1>2. ASSUME NEW n \in S
      PROVE  n + 1 \in S
  <2>1. PICK g : IsResult(g, n, list, skipped)
    BY <1>2
  <2> DEFINE r == [k \in 0..(n + 1) |-> IF k <= n THEN g[k] ELSE Round(g[n], list[n + 1], skipped)]
  <2>2. \A k \in 0..n : g[k] = IF k = 0 THEN <<>> ELSE Round(g[k - 1], list[k], skipped)
    BY <2>1 DEF IsResult
  <2>3. \A k \in 0..n : r[k] = g[k]
    OBVIOUS
  <2>4. r[n + 1] = Round(g[n], list[n + 1], skipped)
    OBVIOUS
  <2>5. ASSUME NEW k \in 0..(n + 1)
        PROVE  r[k] = IF k = 0 THEN <<>> ELSE Round(r[k - 1], list[k], skipped)
    <3> HIDE DEF r
    <3>1. CASE k \in 0..n
      BY <2>2, <2>3, <3>1
    <3>2. CASE k = n + 1
      BY <2>3, <2>4, <3>2
    <3> QED
      BY <3>1, <3>2
  <2>6. IsResult(r, n + 1, list, skipped)
    BY <2>5 DEF IsResult
  <2> QED
    BY <2>6
<1> HIDE DEF S
<1>3. S \in SUBSET Nat
  BY DEF S
<1>4. S = Nat
  BY <1>1, <1>2, <1>3, SetInduction
<1> QED
  BY <1>4 DEF S

(* ... and Without is its last value.                                      *)
LEMMA WithoutResult ==
  ASSUME NEW list, NEW skipped, Len(list) \in Nat
  PROVE  \E r : IsResult(r, Len(list), list, skipped) /\ Without(list, skipped) = r[Len(list)]
<1> DEFINE result[n \in 0..Len(list)] ==
            IF n = 0 THEN <<>>
            ELSE IF list[n] = skipped THEN result[n - 1]
            ELSE Append(result[n - 1], list[n])
<1>1. \E r : r = [n \in 0..Len(list) |->
            IF n = 0 THEN <<>>
            ELSE IF list[n] = skipped THEN r[n - 1]
            ELSE Append(r[n - 1], list[n])]
  BY ResultExists DEF IsResult, Round
<1>2. result = [n \in 0..Len(list) |->
            IF n = 0 THEN <<>>
            ELSE IF list[n] = skipped THEN result[n - 1]
            ELSE Append(result[n - 1], list[n])]
  BY <1>1
<1>3. Without(list, skipped) = result[Len(list)]
  BY DEF Without
<1> HIDE DEF result
<1> QED
  BY <1>2, <1>3 DEF IsResult, Round

(* What one round gives.                                                   *)
LEMMA ResultRound ==
  ASSUME NEW list, NEW skipped, NEW n \in Nat, NEW r, IsResult(r, n, list, skipped)
  PROVE  /\ r[0] = <<>>
         /\ \A k \in 1..n : r[k] = IF list[k] = skipped THEN r[k - 1] ELSE Append(r[k - 1], list[k])
<1>1. \A k \in 0..n : r[k] = IF k = 0 THEN <<>> ELSE Round(r[k - 1], list[k], skipped)
  BY DEF IsResult
<1> QED
  BY <1>1 DEF Round

(* The loop skips what it should.                                          *)
LEMMA WithoutSkips ==
  ASSUME NEW S, NEW list \in Seq(S), NEW skipped
  PROVE  /\ Without(list, skipped) \in Seq(S)
         /\ \A i \in 1..Len(Without(list, skipped)) :
               Without(list, skipped)[i] \in S /\ Without(list, skipped)[i] # skipped
<1>1. Len(list) \in Nat /\ \A k \in 1..Len(list) : list[k] \in S
  OBVIOUS
<1>2. PICK r : IsResult(r, Len(list), list, skipped) /\ Without(list, skipped) = r[Len(list)]
  BY <1>1, WithoutResult
<1>3. /\ r[0] = <<>>
      /\ \A k \in 1..Len(list) :
            r[k] = IF list[k] = skipped THEN r[k - 1] ELSE Append(r[k - 1], list[k])
  BY <1>1, <1>2, ResultRound
<1> DEFINE Clean(q) == q \in Seq(S) /\ \A i \in 1..Len(q) : q[i] # skipped
           N == {n \in Nat : n <= Len(list) => Clean(r[n])}
<1>4. 0 \in N
  <2>1. <<>> \in Seq(S) /\ Len(<<>>) = 0 /\ \A i \in 1..0 : FALSE
    OBVIOUS
  <2>2. Clean(<<>>)
    BY <2>1
  <2> QED
    BY <1>3, <2>2
<1>5. ASSUME NEW n \in N
      PROVE  n + 1 \in N
  <2>1. SUFFICES ASSUME n + 1 <= Len(list)
                 PROVE  Clean(r[n + 1])
    OBVIOUS
  <2>2. n + 1 \in 1..Len(list) /\ Clean(r[n]) /\ (n + 1) - 1 = n
    BY <1>1, <2>1
  <2>3. r[n + 1] = IF list[n + 1] = skipped THEN r[n] ELSE Append(r[n], list[n + 1])
    BY <1>3, <2>2
  <2>4. list[n + 1] \in S
    BY <1>1, <2>2
  <2>5. CASE list[n + 1] = skipped
    BY <2>2, <2>3, <2>5
  <2>6. CASE list[n + 1] # skipped
    <3>1. r[n + 1] = Append(r[n], list[n + 1]) /\ r[n] \in Seq(S)
      BY <2>2, <2>3, <2>6
    <3>2. /\ r[n + 1] \in Seq(S) /\ Len(r[n + 1]) = Len(r[n]) + 1 /\ Len(r[n]) \in Nat
          /\ r[n + 1][Len(r[n]) + 1] = list[n + 1]
          /\ \A i \in 1..Len(r[n]) : r[n + 1][i] = r[n][i]
      BY <2>4, <3>1
    <3>3. \A i \in 1..Len(r[n + 1]) : i \in 1..Len(r[n]) \/ i = Len(r[n]) + 1
      BY <3>2
    <3> QED
      BY <2>2, <2>6, <3>2, <3>3
  <2> QED
    BY <2>5, <2>6
<1> HIDE DEF N
<1>6. N = Nat
  <2>1. N \in SUBSET Nat
    BY DEF N
  <2> QED
    BY <1>4, <1>5, <2>1, SetInduction
<1>7. Clean(r[Len(list)])
  BY <1>1, <1>6 DEF N
<1> QED
  BY <1>2, <1>7

(* It skips nothing else.                                                  *)
LEMMA WithoutKeeps ==
  ASSUME NEW S, NEW list \in Seq(S), NEW skipped, \A i \in 1..Len(list) : list[i] # skipped
  PROVE  Without(list, skipped) = list
<1>1. Len(list) \in Nat /\ \A k \in 1..Len(list) : list[k] \in S
  OBVIOUS
<1>2. PICK r : IsResult(r, Len(list), list, skipped) /\ Without(list, skipped) = r[Len(list)]
  BY <1>1, WithoutResult
<1>3. r[0] = <<>> /\ \A k \in 1..Len(list) : r[k] = Append(r[k - 1], list[k])
  <2>1. /\ r[0] = <<>>
        /\ \A k \in 1..Len(list) :
              r[k] = IF list[k] = skipped THEN r[k - 1] ELSE Append(r[k - 1], list[k])
    BY <1>1, <1>2, ResultRound
  <2> QED
    BY <2>1
<1> DEFINE Copy(q, n) == q \in Seq(S) /\ Len(q) = n /\ \A i \in 1..n : q[i] = list[i]
           N == {n \in Nat : n <= Len(list) => Copy(r[n], n)}
<1>4. 0 \in N
  <2>1. <<>> \in Seq(S) /\ Len(<<>>) = 0 /\ \A i \in 1..0 : FALSE
    OBVIOUS
  <2>2. Copy(<<>>, 0)
    BY <2>1
  <2> QED
    BY <1>3, <2>2
<1>5. ASSUME NEW n \in N
      PROVE  n + 1 \in N
  <2>1. SUFFICES ASSUME n + 1 <= Len(list)
                 PROVE  Copy(r[n + 1], n + 1)
    OBVIOUS
  <2>2. n + 1 \in 1..Len(list) /\ Copy(r[n], n) /\ (n + 1) - 1 = n
    BY <1>1, <2>1
  <2>3. r[n + 1] = Append(r[n], list[n + 1]) /\ r[n] \in Seq(S) /\ list[n + 1] \in S
    BY <1>1, <1>3, <2>2
  <2>4. /\ r[n + 1] \in Seq(S) /\ Len(r[n + 1]) = n + 1
        /\ r[n + 1][n + 1] = list[n + 1]
        /\ \A i \in 1..n : r[n + 1][i] = r[n][i]
    BY <2>2, <2>3
  <2>5. \A i \in 1..(n + 1) : i \in 1..n \/ i = n + 1
    OBVIOUS
  <2> QED
    BY <2>2, <2>4, <2>5
<1> HIDE DEF N
<1>6. N = Nat
  <2>1. N \in SUBSET Nat
    BY DEF N
  <2> QED
    BY <1>4, <1>5, <2>1, SetInduction
<1>7. Copy(r[Len(list)], Len(list))
  BY <1>1, <1>6 DEF N
<1> QED
  BY <1>2, <1>7

-----------------------------------------------------------------------------
(* strings.Join of items of one word.                                      *)

(* r are the first n items put together.                                   *)
IsJoined(r, n, list) == r = [k \in 1..n |-> IF k = 1 THEN list[k] ELSE r[k - 1] \o list[k]]

(* There is such a function.                                               *)
LEMMA JoinedExists ==
  ASSUME NEW list
  PROVE  \A n \in Nat : \E r : IsJoined(r, n, list)
<1> DEFINE S == {n \in Nat : \E r : IsJoined(r, n, list)}
<1>1. 0 \in S
  <2> DEFINE r == [k \in 1..0 |-> <<>>]
  <2>1. r = [k \in 1..0 |-> IF k = 1 THEN list[k] ELSE r[k - 1] \o list[k]]
    OBVIOUS
  <2>2. IsJoined(r, 0, list)
    BY <2>1 DEF IsJoined
  <2> QED
    BY <2>2
<1>2. ASSUME NEW n \in S
      PROVE  n + 1 \in S
  <2>1. PICK g : IsJoined(g, n, list)
    BY <1>2
  <2> DEFINE r == [k \in 1..(n + 1) |->
                     IF k <= n THEN g[k] ELSE IF n = 0 THEN list[1] ELSE g[n] \o list[n + 1]]
  <2>2. \A k \in 1..n : g[k] = IF k = 1 THEN list[k] ELSE g[k - 1] \o list[k]
    BY <2>1 DEF IsJoined
  <2>3. \A k \in 1..n : r[k] = g[k]
    OBVIOUS
  <2>4. r[n + 1] = IF n = 0 THEN list[1] ELSE g[n] \o list[n + 1]
    OBVIOUS
  <2>5. ASSUME NEW k \in 1..(n + 1)
        PROVE  r[k] = IF k = 1 THEN list[k] ELSE r[k - 1] \o list[k]
    <3> HIDE DEF r
    <3>1. CASE k \in 1..n
      BY <2>2, <2>3, <3>1
    <3>2. CASE k = n + 1
      BY <2>3, <2>4, <3>2
    <3> QED
      BY <3>1, <3>2
  <2>6. IsJoined(r, n + 1, list)
    BY <2>5 DEF IsJoined
  <2> QED
    BY <2>6
<1> HIDE DEF S
<1>3. S \in SUBSET Nat
  BY DEF S
<1>4. S = Nat
  BY <1>1, <1>2, <1>3, SetInduction
<1> QED
  BY <1>4 DEF S

(* FlattenSeq is its last value.                                           *)
LEMMA FlattenJoined ==
  ASSUME NEW list, Len(list) \in Nat, Len(list) # 0
  PROVE  \E r : IsJoined(r, Len(list), list) /\ FlattenSeq(list) = r[Len(list)]
<1> DEFINE flatten[i \in 1..Len(list)] == IF i = 1 THEN list[i] ELSE flatten[i - 1] \o list[i]
<1>1. \E r : r = [i \in 1..Len(list) |-> IF i = 1 THEN list[i] ELSE r[i - 1] \o list[i]]
  BY JoinedExists DEF IsJoined
<1>2. flatten = [i \in 1..Len(list) |-> IF i = 1 THEN list[i] ELSE flatten[i - 1] \o list[i]]
  BY <1>1
<1>3. FlattenSeq(list) = flatten[Len(list)]
  BY DEF FlattenSeq
<1> HIDE DEF flatten
<1> QED
  BY <1>2, <1>3 DEF IsJoined

(* A word put behind others.                                               *)
LEMMA WordAdded ==
  ASSUME NEW W, NEW q \in Seq(W), NEW w \in Seq(W), Len(w) = 1
  PROVE  /\ q \o w \in Seq(W) /\ Len(q \o w) = Len(q) + 1
         /\ (q \o w)[Len(q) + 1] = w[1]
         /\ \A i \in 1..Len(q) : (q \o w)[i] = q[i]
<1>1. /\ q \o w \in Seq(W) /\ Len(q \o w) = Len(q) + 1 /\ Len(q) \in Nat
      /\ \A i \in 1..(Len(q) + 1) : (q \o w)[i] = IF i <= Len(q) THEN q[i] ELSE w[i - Len(q)]
  <2>1. /\ q \o w \in Seq(W) /\ Len(q \o w) = Len(q) + Len(w)
        /\ \A i \in 1..Len(q) + Len(w) : (q \o w)[i] = IF i <= Len(q) THEN q[i] ELSE w[i - Len(q)]
    BY ConcatProperties, Zenon
  <2>2. Len(q) \in Nat
    OBVIOUS
  <2> QED
    BY <2>1, <2>2
<1>2. (q \o w)[Len(q) + 1] = w[1]
  <2>1. Len(q) + 1 \in 1..(Len(q) + 1) /\ ~(Len(q) + 1 <= Len(q)) /\ (Len(q) + 1) - Len(q) = 1
    BY <1>1
  <2> QED
    BY <1>1, <2>1
<1>3. \A i \in 1..Len(q) : (q \o w)[i] = q[i]
  BY <1>1
<1> QED
  BY <1>1, <1>2, <1>3

(* Words that are joined are split again.                                  *)
LEMMA WordsJoined ==
  ASSUME NEW W, NEW list \in Seq(Seq(W)), \A i \in 1..Len(list) : Len(list[i]) = 1
  PROVE  SplitClaimString(FlattenSeq(list)) = list
<1>1. Len(list) \in Nat /\ \A k \in 1..Len(list) : list[k] \in Seq(W) /\ list[k] = <<list[k][1]>> /\ list[k][1] \in W
  OBVIOUS
<1>2. CASE Len(list) = 0
  <2>1. list = <<>> /\ FlattenSeq(list) = list
    BY <1>2 DEF FlattenSeq
  <2> QED
    BY <2>1 DEF SplitClaimString
<1>3. CASE Len(list) # 0
  <2>1. PICK r : IsJoined(r, Len(list), list) /\ FlattenSeq(list) = r[Len(list)]
    BY <1>1, <1>3, FlattenJoined
  <2>2. \A k \in 1..Len(list) : r[k] = IF k = 1 THEN list[k] ELSE r[k - 1] \o list[k]
    BY <2>1 DEF IsJoined
  <2> DEFINE Words(q, n) == q \in Seq(W) /\ Len(q) = n /\ \A i \in 1..n : q[i] = list[i][1]
             N == {n \in Nat : n + 1 <= Len(list) => Words(r[n + 1], n + 1)}
  <2>3. 0 \in N
    <3>1. r[1] = list[1] /\ 1 \in 1..Len(list)
      BY <1>1, <1>3, <2>2
    <3>2. Words(list[1], 1)
      BY <1>1, <3>1
    <3> QED
      BY <3>1, <3>2
  <2>4. ASSUME NEW n \in N
        PROVE  n + 1 \in N
    <3>1. SUFFICES ASSUME n + 2 <= Len(list)
                   PROVE  Words(r[n + 2], n + 2)
      <4>1. (n + 1) + 1 = n + 2 /\ n + 1 \in Nat
        OBVIOUS
      <4> HIDE DEF Words
      <4> QED
        BY <4>1
    <3>2. n + 2 \in 1..Len(list) /\ Words(r[n + 1], n + 1) /\ (n + 2) - 1 = n + 1 /\ n + 2 # 1
      BY <1>1, <3>1
    <3>3. r[n + 2] = r[n + 1] \o list[n + 2]
      BY <2>2, <3>2
    <3>4. list[n + 2] \in Seq(W) /\ Len(list[n + 2]) = 1
      BY <1>1, <3>2
    <3>5. /\ r[n + 2] \in Seq(W) /\ Len(r[n + 2]) = n + 2
          /\ r[n + 2][n + 2] = list[n + 2][1]
          /\ \A i \in 1..(n + 1) : r[n + 2][i] = r[n + 1][i]
      <4> DEFINE q == r[n + 1]
                 w == list[n + 2]
      <4>1. q \in Seq(W) /\ Len(q) = n + 1 /\ w \in Seq(W) /\ Len(w) = 1 /\ r[n + 2] = q \o w
        BY <3>2, <3>3, <3>4
      <4> HIDE DEF q, w
      <4>2. /\ q \o w \in Seq(W) /\ Len(q \o w) = Len(q) + 1
            /\ (q \o w)[Len(q) + 1] = w[1]
            /\ \A i \in 1..Len(q) : (q \o w)[i] = q[i]
        BY <4>1, WordAdded
      <4>3. n \in Nat /\ Len(q) + 1 = n + 2
        BY <4>1
      <4> QED
        BY <4>1, <4>2, <4>3 DEF q, w
    <3>6. \A i \in 1..(n + 2) : i \in 1..(n + 1) \/ i = n + 2
      OBVIOUS
    <3> QED
      BY <3>2, <3>5, <3>6
  <2> HIDE DEF N
  <2>5. N = Nat
    <3>1. N \in SUBSET Nat
      BY DEF N
    <3> QED
      BY <2>3, <2>4, <3>1, SetInduction
  <2>6. Words(r[Len(list)], Len(list))
    <3>1. Len(list) - 1 \in N /\ (Len(list) - 1) + 1 = Len(list)
      BY <1>1, <1>3, <2>5
    <3> QED
      BY <1>1, <3>1 DEF N
  <2> HIDE DEF Words
  <2>7. /\ FlattenSeq(list) \in Seq(W) /\ Len(FlattenSeq(list)) = Len(list)
        /\ \A i \in 1..Len(list) : FlattenSeq(list)[i] = list[i][1]
    BY <2>1, <2>6 DEF Words
  <2> QED
    BY <1>1, <2>7 DEF SplitClaimString
<1> QED
  BY <1>2, <1>3

-----------------------------------------------------------------------------
(* A token of the tool.                                                    *)

(* What --attr does not replace is what the flags say.                     *)
LEMMA ClaimsKept ==
  ASSUME NEW a, NEW f, MadeFor(a, f), NEW key \in Registered, NEW value
  PROVE  Claim(f, key, value) = value
<1>1. {i \in DOMAIN f.attrs : f.attrs[i].key = key} = {}
  BY DEF MadeFor
<1> QED
  BY <1>1 DEF Claim

(* A number of days that does not wrap.                                    *)
LEMMA NoWrap ==
  ASSUME NEW n \in Int, n > 0, n < 106752
  PROVE  Int64(n * 24 * 60) = n * 24 * 60
<1>1. PICK m \in Int : m = n * 24 * 60
  OBVIOUS
<1>2. 0 < m /\ m <= 153721440
  BY <1>1, SMT
<1>3. PICK x \in Int : x = m + 153722867
  BY SMT
<1>4. 0 <= x /\ x < 307445735
  BY <1>2, <1>3, SMT
<1>5. x % 307445735 = x
  BY <1>4, SMT
<1>6. Int64(m) = m
  BY <1>3, <1>5, SMT DEF Int64, Half, Full
<1> QED
  BY <1>1, <1>6

(* A duration is a number.                                                 *)
LEMMA MinutesType ==
  ASSUME NEW e, e.n \in Int
  PROVE  Minutes(e) \in Int
<1>1. \A m \in Int : Int64(m) \in Int
  BY SMT DEF Int64, Half, Full
<1>2. e.n * 24 * 60 \in Int /\ e.n * 60 \in Int
  OBVIOUS
<1>3. Int64(e.n * 24 * 60) \in Int
  BY <1>1, <1>2
<1> QED
  BY <1>2, <1>3 DEF Minutes

(* No duration below 106752 days wraps: the token has not expired when it  *)
(* is issued.                                                              *)
LEMMA ExpiryAhead ==
  ASSUME NEW a, NEW f, MadeFor(a, f), InRange(f.expiry), f.expiry.n \in Int
  PROVE  Minutes(f.expiry) > 0
<1>1. f.expiry.unit \in {"d", "h", "m"} /\ InRange(f.expiry)
  BY DEF MadeFor, Fatal, Parses
<1>2. CASE f.expiry.unit = "d"
  <2>1. PICK n \in Int : n = f.expiry.n
    OBVIOUS
  <2>2. n > 0 /\ n < 106752
    BY <1>1, <1>2, <2>1, SMT DEF InRange
  <2>5. Int64(n * 24 * 60) = n * 24 * 60
    BY <2>2, NoWrap
  <2>6. Minutes(f.expiry) = n * 24 * 60
    BY <1>2, <2>1, <2>5 DEF Minutes
  <2> QED
    BY <2>2, <2>6
<1>3. CASE f.expiry.unit # "d"
  BY <1>1, <1>3, SMT DEF Minutes, InRange
<1> QED
  BY <1>2, <1>3

(* A token that jwttool makes with the key, the issuer and the audience of *)
(* a provider is accepted by it ...                                        *)
THEOREM TokenAccepted ==
  ASSUME NEW a, NEW f, MadeFor(a, f), InRange(f.expiry), f.expiry.n \in Int
  PROVE  Authenticate(a, Signed(f)) = "ok"
<1> DEFINE t == Signed(f)
<1>1. /\ t.alg = Algorithm(f) /\ t.key = Key(f) /\ t.exp = ExpClaim(f) /\ t.nbf = NbfClaim(f)
      /\ t.iss = IssClaim(f) /\ t.aud = AudClaim(f)
  BY DEF Signed
<1> HIDE DEF t
<1>2. \A key \in Registered : \A value : Claim(f, key, value) = value
  BY ClaimsKept
<1>3. t.exp.form = "date" /\ t.exp.minutes > 0
  <2>1. t.exp = [form |-> "date", minutes |-> Minutes(f.expiry)]
    BY <1>1, <1>2 DEF ExpClaim, Registered
  <2> QED
    BY <2>1, ExpiryAhead
<1>4. t.nbf = Absent
  BY <1>1, <1>2 DEF NbfClaim, Registered
<1>5. a.issuer # "" => t.iss = Text(<<a.issuer>>)
  <2>1. t.iss = IF f.issuer = "" THEN Absent ELSE Text(<<f.issuer>>)
    BY <1>1, <1>2 DEF IssClaim, Registered
  <2> QED
    BY <2>1 DEF MadeFor
<1>6. a.audience # "" => t.aud = Text(<<a.audience>>)
  <2>1. t.aud = IF f.audience = "" THEN Absent ELSE Text(<<f.audience>>)
    BY <1>1, <1>2 DEF AudClaim, Registered
  <2> QED
    BY <2>1 DEF MadeFor
<1>7. KeyFunc(a, t) /\ t.key = a.key
  BY <1>1 DEF KeyFunc, MadeFor
<1>8. JwtParse(a, t)
  BY <1>3, <1>4, <1>5, <1>6, <1>7 DEF JwtParse
<1>9. Authenticate(a, t) = "ok"
  BY <1>8 DEF Authenticate, MadeFor
<1> QED
  BY <1>9 DEF t

(* ... unless it has expired when it is issued, as one does whose days     *)
(* wrap to a negative number.                                              *)
THEOREM ExpiredRefused ==
  ASSUME NEW a, NEW f, MadeFor(a, f), Minutes(f.expiry) \in Int, Minutes(f.expiry) <= 0
  PROVE  Authenticate(a, Signed(f)) = "unauthorized"
<1>1. Signed(f).exp = ExpClaim(f)
  BY DEF Signed
<1>2. Claim(f, "exp", [form |-> "date", minutes |-> Minutes(f.expiry)])
         = [form |-> "date", minutes |-> Minutes(f.expiry)]
  BY ClaimsKept DEF Registered
<1>3. ~(Signed(f).exp.minutes > 0)
  <2>1. Signed(f).exp.minutes = Minutes(f.expiry)
    BY <1>1, <1>2 DEF ExpClaim
  <2> QED
    BY <2>1
<1>4. ~JwtParse(a, Signed(f))
  BY <1>3 DEF JwtParse
<1> QED
  BY <1>4 DEF Authenticate, MadeFor

(* Nothing is split into nothing.                                          *)
LEMMA NothingSplit ==
  SplitTrim(<<>>) = <<>>
<1>1. <<>> \in Seq({}) /\ \A i \in 1..Len(<<>>) : <<>>[i] # <<>>
  OBVIOUS
<1> QED
  BY <1>1, WithoutKeeps DEF SplitTrim

(* No text is NotText.                                                     *)
LEMMA TextsAreTexts ==
  ASSUME NEW x \in Texts
  PROVE  x # NotText
<1>1. SUFFICES ASSUME x = <<"">> PROVE FALSE
  BY DEF NotText
<1>2. Len(x) = 1
  BY <1>1
<1>3. x[1] = ""
  BY <1>1
<1>4. 1 \in 1..Len(x)
  BY <1>2
<1>5. x[1] \in STRING \ {""}
  BY <1>4, ElementOfSeq DEF Texts
<1> QED
  BY <1>3, <1>5

(* The identity it stands for is the one that was asked for: subject,      *)
(* roles and scopes survive splitting, joining and splitting again.        *)
THEOREM TokenMeansWhatWasAsked ==
  ASSUME NEW a, NEW f, MadeFor(a, f), f.roles \in Seq(Texts), f.scopes \in Seq(Texts),
         \A i \in DOMAIN f.scopes : Len(f.scopes[i]) <= 1
  PROVE  Identity(a, Signed(f)) =
            [subject |-> f.subject, roles |-> SplitTrim(f.roles),
             scopes |-> SplitTrim(f.scopes), known |-> TRUE]
<1> DEFINE t == Signed(f)
<1>1. t.sub = SubClaim(f) /\ t.roles = RolesClaim(f) /\ t.scope = ScopeClaim(f)
  BY DEF Signed
<1> HIDE DEF t
<1>2. \A key \in Registered : \A value : Claim(f, key, value) = value
  BY ClaimsKept
<1>3. ClaimString(t.sub) = f.subject
  <2>1. t.sub = Text(f.subject)
    BY <1>1, <1>2 DEF SubClaim, Registered
  <2> QED
    BY <2>1 DEF ClaimString, Text
<1>4. \A list \in Seq(Texts) : SplitTrim(list) \in Seq(Texts)
  BY WithoutSkips DEF SplitTrim
<1>5. ClaimStringSlice(t.roles) = SplitTrim(f.roles)
  <2>1. t.roles = IF f.roles = <<>> THEN Absent ELSE [form |-> "list", items |-> SplitTrim(f.roles)]
    BY <1>1, <1>2 DEF RolesClaim, Registered
  <2>2. CASE f.roles = <<>>
    <3>1. SplitTrim(f.roles) = <<>>
      BY <2>2, NothingSplit
    <3> QED
      BY <2>1, <2>2, <3>1 DEF ClaimStringSlice, Absent
  <2>3. CASE f.roles # <<>>
    <3>1. SplitTrim(f.roles) \in Seq(Texts)
      BY <1>4
    <3>2. \A i \in 1..Len(SplitTrim(f.roles)) : SplitTrim(f.roles)[i] # NotText
      <4>1. \A x \in Texts : x # NotText
        BY TextsAreTexts
      <4> QED
        BY <3>1, <4>1
    <3>3. Without(SplitTrim(f.roles), NotText) = SplitTrim(f.roles)
      BY <3>1, <3>2, WithoutKeeps
    <3>4. t.roles.form = "list" /\ t.roles.items = SplitTrim(f.roles)
      BY <2>1, <2>3
    <3> QED
      BY <3>3, <3>4 DEF ClaimStringSlice
  <2> QED
    BY <2>2, <2>3
<1>6. ParseScopeClaim(t.scope) = SplitTrim(f.scopes)
  <2>1. t.scope = IF f.scopes = <<>> THEN Absent ELSE Text(FlattenSeq(SplitTrim(f.scopes)))
    BY <1>1, <1>2 DEF ScopeClaim, Registered
  <2>2. CASE f.scopes = <<>>
    <3>1. SplitTrim(f.scopes) = <<>>
      BY <2>2, NothingSplit
    <3> QED
      BY <2>1, <2>2, <3>1 DEF ParseScopeClaim, Absent
  <2>3. CASE f.scopes # <<>>
    <3>1. SplitTrim(f.scopes) \in Seq(Texts)
      BY <1>4
    <3>2. \A i \in 1..Len(SplitTrim(f.scopes)) : Len(SplitTrim(f.scopes)[i]) = 1
      <4> DEFINE S == {x \in Texts : Len(x) <= 1}
      <4>1. f.scopes \in Seq(S)
        <5>1. f.scopes \in [1..Len(f.scopes) -> S] /\ Len(f.scopes) \in Nat
          OBVIOUS
        <5> QED
          BY <5>1
      <4>2. \A i \in 1..Len(SplitTrim(f.scopes)) :
               SplitTrim(f.scopes)[i] \in S /\ SplitTrim(f.scopes)[i] # <<>>
        BY <4>1, WithoutSkips DEF SplitTrim
      <4>3. \A x \in S : x # <<>> => Len(x) = 1
        <5>1. SUFFICES ASSUME NEW x \in S, x # <<>>
                       PROVE  Len(x) = 1
          OBVIOUS
        <5>2. Len(x) \in Nat \ {0} /\ Len(x) <= 1
          BY <5>1, EmptySeq DEF Texts
        <5>3. \A n \in Nat \ {0} : n <= 1 => n = 1
          OBVIOUS
        <5> QED
          BY <5>2, <5>3
      <4> QED
        BY <4>2, <4>3
    <3>3. SplitClaimString(FlattenSeq(SplitTrim(f.scopes))) = SplitTrim(f.scopes)
      BY <3>1, <3>2, WordsJoined DEF Texts
    <3>4. t.scope.form = "string" /\ t.scope.text = FlattenSeq(SplitTrim(f.scopes))
      BY <2>1, <2>3 DEF Text
    <3> QED
      BY <3>3, <3>4 DEF ParseScopeClaim
  <2> QED
    BY <2>2, <2>3
<1>7. Identity(a, t) = [subject |-> f.subject, roles |-> SplitTrim(f.roles),
                        scopes |-> SplitTrim(f.scopes), known |-> TRUE]
  BY <1>3, <1>5, <1>6 DEF Identity, MadeFor
<1> QED
  BY <1>7 DEF t
=============================================================================
