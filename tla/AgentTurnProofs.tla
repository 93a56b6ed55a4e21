--------------------------- MODULE AgentTurnProofs ---------------------------
(***************************************************************************)
(* Proofs about AgentTurn, for every set of turns, settings and facts, and *)
(* every number of rounds, calls and setups.                               *)
(*                                                                         *)
(* Four invariants, each checked by TLC before it was proved:              *)
(*   TypeInv    the types; a turn that asks has rounds left; only a state  *)
(*              of the summary strategy covers turns;                      *)
(*   PairedInv  every sequence of messages that is stored, read or about   *)
(*              to be saved is Linked: calls are followed by their results *)
(*              (AllLinked), and a turn's own calls are complete (Asked).  *)
(*              Ends, suffixes and what a round adds keep that;            *)
(*   TailInv    where nothing overlaps, one turn or setup runs (Alone),    *)
(*              a turn's messages are its own (Attributed), and the state  *)
(*              holds an end of the log, as does whatever is about to      *)
(*              replace it (EndsOfLog);                                    *)
(*   Told       what a turn of full context or summaries was told is in    *)
(*              the messages it read or covered by the summary it read.    *)
(*                                                                         *)
(* Among, the filter on messages, is recursive.  What it does is proved by *)
(* induction on the length, with SetInduction: a set of numbers stands in  *)
(* the place of the predicate.                                             *)
(***************************************************************************)
EXTENDS AgentTurn, SequenceTheorems, WellFoundedInduction, TLAPS

-----------------------------------------------------------------------------
(* A set of numbers that is not empty has a least one.                     *)
LEMMA LeastElement ==
    ASSUME NEW S \in SUBSET Nat, S # {}
    PROVE  \E x \in S : \A y \in S : x <= y
<1> DEFINE R == OpToRel(<, Nat)
<1>1. IsWellFoundedOn(R, Nat)
  BY NatLessThanWellFounded
<1>2. \A x, y \in Nat : (<<y, x>> \in R) <=> y < x
  BY DEF OpToRel
<1> HIDE DEF R
<1>3. PICK x \in S : \A y \in S : ~ (<<y, x>> \in R)
  BY <1>1, WFMin, Zenon
<1>4. \A y \in S : x \in Nat /\ y \in Nat /\ ~(y < x)
  BY <1>2, <1>3
<1> QED
  BY <1>4

(* Induction, with a set in the place of a predicate.                      *)
LEMMA SetInduction ==
    ASSUME NEW T, 0 \in T, \A n \in Nat : n \in T => n + 1 \in T
    PROVE  \A n \in Nat : n \in T
<1> DEFINE S == {n \in Nat : n \notin T}
<1> SUFFICES ASSUME S # {} PROVE FALSE
  OBVIOUS
<1>1. S \in SUBSET Nat
  OBVIOUS
<1>2. PICK x \in S : \A y \in S : x <= y
  BY <1>1, LeastElement
<1>3. x - 1 \in Nat /\ x - 1 \in T
  BY <1>2
<1> QED
  BY <1>3

(* kept is what the sequence is cut down to, place by place.               *)
Keeps(S, ms, kept) ==
    kept = [i \in 0..Len(ms) |->
              IF i = 0 THEN <<>>
              ELSE IF ms[i] \in S THEN Append(kept[i - 1], ms[i]) ELSE kept[i - 1]]

LEMMA KeepsExists ==
    ASSUME NEW S, NEW M, NEW ms \in Seq(M)
    PROVE  \E kept : Keeps(S, ms, kept)
<1> DEFINE K(n) == \E h : h = [i \in 0..n |->
                       IF i = 0 THEN <<>>
                       ELSE IF ms[i] \in S THEN Append(h[i - 1], ms[i]) ELSE h[i - 1]]
           T == {n \in Nat : K(n)}
<1>1. 0 \in T
  <2> DEFINE h == [i \in 0..0 |-> <<>>]
  <2>1. h = [i \in 0..0 |-> IF i = 0 THEN <<>>
                       ELSE IF ms[i] \in S THEN Append(h[i - 1], ms[i]) ELSE h[i - 1]]
    OBVIOUS
  <2> QED
    BY <2>1
<1>2. ASSUME NEW n \in Nat, n \in T PROVE n + 1 \in T
  <2>1. PICK h : h = [i \in 0..n |->
                       IF i = 0 THEN <<>>
                       ELSE IF ms[i] \in S THEN Append(h[i - 1], ms[i]) ELSE h[i - 1]]
    BY <1>2
  <2> DEFINE g == [i \in 0..(n + 1) |->
                     IF i \in 0..n THEN h[i]
                     ELSE IF ms[i] \in S THEN Append(h[i - 1], ms[i]) ELSE h[i - 1]]
  <2>2. \A i \in 0..n : g[i] = h[i]
    OBVIOUS
  <2>3. \A i \in 0..(n + 1) : i # 0 => i - 1 \in 0..n
    OBVIOUS
  <2>4. \A i \in 0..(n + 1) :
          g[i] = IF i = 0 THEN <<>>
                 ELSE IF ms[i] \in S THEN Append(g[i - 1], ms[i]) ELSE g[i - 1]
    <3> TAKE i \in 0..(n + 1)
    <3>1. CASE i \in 0..n
      <4>1. g[i] = IF i = 0 THEN <<>>
                 ELSE IF ms[i] \in S THEN Append(h[i - 1], ms[i]) ELSE h[i - 1]
        BY <2>1, <2>2, <3>1
      <4> QED
        BY <2>2, <2>3, <4>1
    <3>2. CASE i \notin 0..n
      <4>1. i # 0 /\ g[i] = IF ms[i] \in S THEN Append(h[i - 1], ms[i]) ELSE h[i - 1]
        BY <3>2
      <4> QED
        BY <2>2, <2>3, <4>1
    <3> QED
      BY <3>1, <3>2
  <2>5. g = [i \in 0..(n + 1) |-> IF i = 0 THEN <<>>
                 ELSE IF ms[i] \in S THEN Append(g[i - 1], ms[i]) ELSE g[i - 1]]
    <3> DEFINE f == [i \in 0..(n + 1) |-> g[i]]
    <3>1. g = f
      OBVIOUS
    <3> HIDE DEF g
    <3> QED
      BY <2>4, <3>1
  <2>6. K(n + 1)
    <3> HIDE DEF g
    <3> QED
      BY <2>5, Zenon
  <2> HIDE DEF K
  <2> QED
    BY <2>6
<1>3. Len(ms) \in T
  <2> HIDE DEF T
  <2> QED
    BY <1>1, <1>2, SetInduction
<1>4. PICK h : h = [i \in 0..Len(ms) |->
                 IF i = 0 THEN <<>>
                 ELSE IF ms[i] \in S THEN Append(h[i - 1], ms[i]) ELSE h[i - 1]]
  BY <1>3
<1>5. Keeps(S, ms, h)
  BY <1>4, Zenon DEF Keeps
<1> QED
  BY <1>5

(* Among, unfolded.                                                        *)
LEMMA AmongKeeps ==
    ASSUME NEW S, NEW M, NEW ms \in Seq(M)
    PROVE  \E kept : Keeps(S, ms, kept) /\ Among(S, ms) = kept[Len(ms)]
<1> DEFINE f == CHOOSE kept : Keeps(S, ms, kept)
<1>1. Keeps(S, ms, f)
  BY KeepsExists, Zenon
<1>2. Among(S, ms) = f[Len(ms)]
  BY Zenon DEF Among, Keeps
<1> QED
  BY <1>1, <1>2, Zenon

(* One more message: the sequence before it is cut down to the same.       *)
LEMMA KeepsAgree ==
    ASSUME NEW S, NEW M, NEW ms \in Seq(M), NEW m \in M, NEW f, NEW g,
           Keeps(S, ms, f), Keeps(S, Append(ms, m), g)
    PROVE  f[Len(ms)] = g[Len(ms)]
<1> DEFINE n == Len(ms)
           new == Append(ms, m)
<1>1. n \in Nat /\ Len(new) = n + 1 /\ \A i \in 1..n : new[i] = ms[i]
  OBVIOUS
<1>2. \A i \in 0..n : f[i] = IF i = 0 THEN <<>>
             ELSE IF ms[i] \in S THEN Append(f[i - 1], ms[i]) ELSE f[i - 1]
  BY DEF Keeps
<1>3. \A i \in 0..(n + 1) : g[i] = IF i = 0 THEN <<>>
             ELSE IF new[i] \in S THEN Append(g[i - 1], new[i]) ELSE g[i - 1]
  BY <1>1 DEF Keeps
<1> HIDE DEF n, new
<1> DEFINE T == {i \in Nat : i <= n => f[i] = g[i]}
<1>4. 0 \in T
  BY <1>1, <1>2, <1>3
<1>5. ASSUME NEW i \in Nat, i \in T PROVE i + 1 \in T
  <2> SUFFICES ASSUME i + 1 <= n PROVE f[i + 1] = g[i + 1]
    OBVIOUS
  <2>1. i + 1 \in 1..n /\ i + 1 \in 0..(n + 1) /\ (i + 1) - 1 = i /\ f[i] = g[i]
    BY <1>1, <1>5
  <2>2. new[i + 1] = ms[i + 1]
    BY <1>1, <2>1
  <2> QED
    BY <1>2, <1>3, <2>1, <2>2
<1>6. n \in T
  <2> HIDE DEF T
  <2> QED
    BY <1>1, <1>4, <1>5, SetInduction
<1> QED
  BY <1>1, <1>6 DEF n

LEMMA AmongAppend ==
    ASSUME NEW S, NEW M, NEW ms \in Seq(M), NEW m \in M
    PROVE  Among(S, Append(ms, m)) =
             IF m \in S THEN Append(Among(S, ms), m) ELSE Among(S, ms)
<1> DEFINE new == Append(ms, m)
           n == Len(ms)
<1>1. new \in Seq(M) /\ n \in Nat /\ Len(new) = n + 1 /\ new[n + 1] = m
  OBVIOUS
<1>2. PICK f : Keeps(S, ms, f) /\ Among(S, ms) = f[n]
  BY AmongKeeps
<1> HIDE DEF new, n
<1>3. PICK g : Keeps(S, new, g) /\ Among(S, new) = g[n + 1]
  BY <1>1, AmongKeeps
<1>4. f[n] = g[n]
  BY <1>2, <1>3, KeepsAgree DEF new, n
<1>5. g[n + 1] = IF new[n + 1] \in S THEN Append(g[n], new[n + 1]) ELSE g[n]
  <2>1. \A i \in 0..(n + 1) : g[i] = IF i = 0 THEN <<>>
             ELSE IF new[i] \in S THEN Append(g[i - 1], new[i]) ELSE g[i - 1]
    BY <1>1, <1>3 DEF Keeps
  <2>2. n + 1 \in 0..(n + 1) /\ n + 1 # 0 /\ (n + 1) - 1 = n
    BY <1>1
  <2> QED
    BY <2>1, <2>2
<1> QED
  BY <1>1, <1>2, <1>3, <1>4, <1>5 DEF new

LEMMA AmongEmpty == ASSUME NEW S PROVE Among(S, <<>>) = <<>>
<1>1. <<>> \in Seq({}) /\ Len(<<>>) = 0
  OBVIOUS
<1>2. PICK f : Keeps(S, <<>>, f) /\ Among(S, <<>>) = f[0]
  BY <1>1, AmongKeeps
<1> QED
  BY <1>1, <1>2 DEF Keeps

(* Induction over the sequences of a set.                                  *)
LEMMA SequenceInduction ==
    ASSUME NEW M, NEW T, <<>> \in T,
           \A s \in Seq(M), m \in M : s \in T => Append(s, m) \in T
    PROVE  \A s \in Seq(M) : s \in T
<1> SUFFICES ASSUME NEW s \in Seq(M) PROVE s \in T
  OBVIOUS
<1> DEFINE N == {n \in Nat : n <= Len(s) => SubSeq(s, 1, n) \in T}
<1>1. 0 \in N
  <2>1. SubSeq(s, 1, 0) = <<>>
    BY SubSeqEmpty
  <2> QED
    BY <2>1
<1>2. ASSUME NEW n \in Nat, n \in N PROVE n + 1 \in N
  <2> SUFFICES ASSUME n + 1 <= Len(s) PROVE SubSeq(s, 1, n + 1) \in T
    OBVIOUS
  <2>1. SubSeq(s, 1, n) \in Seq(M) /\ s[n + 1] \in M /\ SubSeq(s, 1, n) \in T
    BY <1>2
  <2>2. SubSeq(s, 1, n + 1) = Append(SubSeq(s, 1, n), s[n + 1])
    OBVIOUS
  <2> QED
    BY <2>1, <2>2
<1>3. Len(s) \in N
  <2> HIDE DEF N
  <2> QED
    BY <1>1, <1>2, SetInduction
<1>4. SubSeq(s, 1, Len(s)) = s /\ Len(s) <= Len(s)
  BY SubSeqFull
<1>5. SubSeq(s, 1, Len(s)) \in T
  BY <1>3, <1>4
<1> QED
  BY <1>4, <1>5, Zenon

(* What is left is of the set, and of what there was.                      *)
LEMMA AmongType ==
    ASSUME NEW S, NEW M, NEW ms \in Seq(M)
    PROVE  Among(S, ms) \in Seq(M) /\ Among(S, ms) \in Seq(S)
<1> DEFINE T == {s \in Seq(M) : Among(S, s) \in Seq(M) /\ Among(S, s) \in Seq(S)}
<1>1. <<>> \in T
  <2>1. <<>> \in Seq(M) /\ <<>> \in Seq(S)
    OBVIOUS
  <2> QED
    BY <2>1, AmongEmpty, Zenon
<1>2. ASSUME NEW s \in Seq(M), NEW m \in M, s \in T PROVE Append(s, m) \in T
  <2>1. Append(s, m) \in Seq(M)
    OBVIOUS
  <2>2. Among(S, Append(s, m)) = IF m \in S THEN Append(Among(S, s), m) ELSE Among(S, s)
    BY AmongAppend
  <2>3. Among(S, s) \in Seq(M) /\ Among(S, s) \in Seq(S)
    BY <1>2
  <2>4. Among(S, Append(s, m)) \in Seq(M) /\ Among(S, Append(s, m)) \in Seq(S)
    BY <2>2, <2>3
  <2> QED
    BY <2>1, <2>4
<1> HIDE DEF T
<1>3. ms \in T
  BY <1>1, <1>2, SequenceInduction
<1> QED
  BY <1>3 DEF T

LEMMA AmongConcat ==
    ASSUME NEW S, NEW M, NEW a \in Seq(M), NEW b \in Seq(M)
    PROVE  Among(S, a \o b) = Among(S, a) \o Among(S, b)
<1> DEFINE T == {s \in Seq(M) : Among(S, a \o s) = Among(S, a) \o Among(S, s)}
<1>1. Among(S, a) \in Seq(M)
  BY AmongType
<1>2. <<>> \in T
  BY <1>1, AmongEmpty, ConcatEmptySeq
<1>3. ASSUME NEW s \in Seq(M), NEW m \in M, s \in T PROVE Append(s, m) \in T
  <2>1. a \o Append(s, m) = Append(a \o s, m) /\ a \o s \in Seq(M)
    OBVIOUS
  <2>2. Among(S, Append(a \o s, m)) =
          IF m \in S THEN Append(Among(S, a \o s), m) ELSE Among(S, a \o s)
    <3> DEFINE c == a \o s
    <3>1. c \in Seq(M)
      BY <2>1
    <3> HIDE DEF c
    <3>2. Among(S, Append(c, m)) = IF m \in S THEN Append(Among(S, c), m) ELSE Among(S, c)
      BY <3>1, AmongAppend
    <3> QED
      BY <3>2 DEF c
  <2>3. Among(S, Append(s, m)) = IF m \in S THEN Append(Among(S, s), m) ELSE Among(S, s)
    BY AmongAppend
  <2>4. Among(S, s) \in Seq(M) /\ Append(s, m) \in Seq(M)
    BY AmongType
  <2>5. Among(S, a) \o Append(Among(S, s), m) = Append(Among(S, a) \o Among(S, s), m)
    BY <1>1, <2>4
  <2> QED
    BY <1>3, <2>1, <2>2, <2>3, <2>4, <2>5
<1> HIDE DEF T
<1>4. b \in T
  BY <1>2, <1>3, SequenceInduction
<1> QED
  BY <1>4 DEF T

(* All of it, or nothing.                                                  *)
LEMMA AmongAll ==
    ASSUME NEW S, NEW ms \in Seq(S)
    PROVE  Among(S, ms) = ms
<1> DEFINE T == {s \in Seq(S) : Among(S, s) = s}
<1>1. <<>> \in T
  BY AmongEmpty
<1>2. ASSUME NEW s \in Seq(S), NEW m \in S, s \in T PROVE Append(s, m) \in T
  BY <1>2, AmongAppend
<1> HIDE DEF T
<1>3. ms \in T
  BY <1>1, <1>2, SequenceInduction
<1> QED
  BY <1>3 DEF T

LEMMA AmongNone ==
    ASSUME NEW S, NEW M, M \cap S = {}, NEW ms \in Seq(M)
    PROVE  Among(S, ms) = <<>>
<1> DEFINE T == {s \in Seq(M) : Among(S, s) = <<>>}
<1>1. <<>> \in T
  BY AmongEmpty
<1>2. ASSUME NEW s \in Seq(M), NEW m \in M, s \in T PROVE Append(s, m) \in T
  <2>1. m \notin S /\ Append(s, m) \in Seq(M)
    OBVIOUS
  <2> QED
    BY <1>2, <2>1, AmongAppend
<1> HIDE DEF T
<1>3. ms \in T
  BY <1>1, <1>2, SequenceInduction
<1> QED
  BY <1>3 DEF T

-----------------------------------------------------------------------------
(* s is an end of t.                                                       *)
EndOf(s, t) == \E u \in Seq(Messages) : t = u \o s

LEMMA EndOfRefl == ASSUME NEW s \in Seq(Messages) PROVE EndOf(s, s) /\ EndOf(<<>>, s)
<1>1. <<>> \in Seq(Messages) /\ <<>> \o s = s /\ s \o <<>> = s
  BY ConcatEmptySeq
<1> QED
  BY <1>1 DEF EndOf

LEMMA EndOfTrans ==
    ASSUME NEW r \in Seq(Messages), NEW s \in Seq(Messages), NEW t \in Seq(Messages),
           EndOf(r, s), EndOf(s, t)
    PROVE  EndOf(r, t)
<1>1. PICK u \in Seq(Messages) : s = u \o r
  BY DEF EndOf
<1>2. PICK v \in Seq(Messages) : t = v \o s
  BY DEF EndOf
<1>3. t = (v \o u) \o r /\ v \o u \in Seq(Messages)
  BY <1>1, <1>2, ConcatAssociative, ConcatProperties
<1> QED
  BY <1>3 DEF EndOf

LEMMA EndOfConcat ==
    ASSUME NEW s \in Seq(Messages), NEW t \in Seq(Messages), NEW b \in Seq(Messages),
           EndOf(s, t)
    PROVE  EndOf(s \o b, t \o b)
<1>1. PICK u \in Seq(Messages) : t = u \o s
  BY DEF EndOf
<1>2. t \o b = u \o (s \o b)
  BY <1>1, ConcatAssociative
<1> QED
  BY <1>2 DEF EndOf

LEMMA EndOfAmong ==
    ASSUME NEW S, NEW s \in Seq(Messages), NEW t \in Seq(Messages), EndOf(s, t)
    PROVE  EndOf(Among(S, s), Among(S, t))
<1>1. PICK u \in Seq(Messages) : t = u \o s
  BY DEF EndOf
<1>2. Among(S, t) = Among(S, u) \o Among(S, s) /\ Among(S, u) \in Seq(Messages)
  BY <1>1, AmongConcat, AmongType
<1> QED
  BY <1>2 DEF EndOf

(* What is left of a sequence from k on is an end of it.                   *)
LEMMA RestIsEnd ==
    ASSUME NEW s \in Seq(Messages), NEW k \in 1..(Len(s) + 1)
    PROVE  /\ SubSeq(s, k, Len(s)) \in Seq(Messages)
           /\ EndOf(SubSeq(s, k, Len(s)), s)
<1>1. k - 1 \in (1 - 1)..Len(s) /\ Len(s) \in (k - 1)..Len(s) /\ 1 \in 1..(Len(s) + 1)
  OBVIOUS
<1>2. SubSeq(s, 1, k - 1) \o SubSeq(s, (k - 1) + 1, Len(s)) = SubSeq(s, 1, Len(s))
  <2> DEFINE j == k - 1
             n == Len(s)
  <2>1. j \in (1 - 1)..Len(s) /\ n \in j..Len(s) /\ 1 \in 1..(Len(s) + 1)
    BY <1>1
  <2> HIDE DEF j, n
  <2>2. SubSeq(s, 1, j) \o SubSeq(s, j + 1, n) = SubSeq(s, 1, n)
    BY <2>1, ConcatAdjacentSubSeq
  <2> QED
    BY <2>2 DEF j, n
<1>3. SubSeq(s, 1, Len(s)) = s /\ (k - 1) + 1 = k
  BY SubSeqFull
<1>4. SubSeq(s, 1, k - 1) \in Seq(Messages) /\ SubSeq(s, k, Len(s)) \in Seq(Messages)
  OBVIOUS
<1> QED
  BY <1>2, <1>3, <1>4 DEF EndOf

LEMMA LastOfIsEnd ==
    ASSUME NEW s \in Seq(Messages), NEW n \in Nat
    PROVE  LastOf(s, n) \in Seq(Messages) /\ EndOf(LastOf(s, n), s)
<1>1. CASE Len(s) <= n
  BY <1>1, EndOfRefl DEF LastOf
<1>2. CASE ~(Len(s) <= n)
  <2>1. Len(s) - n + 1 \in 1..(Len(s) + 1)
    BY <1>2
  <2>2. LastOf(s, n) = SubSeq(s, Len(s) - n + 1, Len(s))
    BY <1>2 DEF LastOf
  <2> QED
    BY <2>1, <2>2, RestIsEnd
<1> QED
  BY <1>1, <1>2

-----------------------------------------------------------------------------
(* Tool calls and results are linked: Paired but for the results in front. *)
(* That a result's number is one of its call's makes every end of a linked *)
(* sequence linked, which is why ends may be taken of ends.                *)
HasCall(s, i) ==
    LET c == i - s[i].n
    IN  c >= 1 /\ s[c].role = "calls" /\ Answers(s, c, i) /\ s[i].n <= s[c].n

HasResults(s, i) ==
    \A k \in 1..s[i].n : i + k <= Len(s) /\ Answers(s, i, i + k) /\ s[i + k].n = k

Linked(s) ==
    \A i \in 1..Len(s) :
      /\ s[i].role = "calls" => HasResults(s, i)
      /\ s[i].role = "tool" => (\A j \in 1..i : s[j].role = "tool") \/ HasCall(s, i)

LEMMA NumberType == ASSUME NEW s \in Seq(Messages), NEW i \in 1..Len(s)
                    PROVE  s[i] \in Messages /\ s[i].n \in Nat
<1>1. s[i] \in Messages
  OBVIOUS
<1> QED
  BY <1>1, TurnAssumption DEF Messages

LEMMA LinkedEnd ==
    ASSUME NEW s \in Seq(Messages), NEW t \in Seq(Messages), EndOf(s, t), Linked(t)
    PROVE  Linked(s)
<1>1. PICK u \in Seq(Messages) : t = u \o s
  BY DEF EndOf
<1> DEFINE d == Len(u)
           n == Len(s)
<1>2. d \in Nat /\ n \in Nat /\ Len(t) = d + n /\ \A i \in 1..n : s[i] = t[d + i]
  BY <1>1
<1> HIDE DEF d, n
<1> SUFFICES ASSUME NEW i \in 1..n
             PROVE  /\ s[i].role = "calls" => HasResults(s, i)
                    /\ s[i].role = "tool" =>
                         (\A j \in 1..i : s[j].role = "tool") \/ HasCall(s, i)
  BY DEF Linked, n
<1> DEFINE e == d + i
<1>3. e \in 1..Len(t) /\ s[i] = t[e] /\ t[e].n \in Nat
  <2>1. e \in 1..Len(t) /\ s[i] = t[e]
    BY <1>2
  <2> HIDE DEF e
  <2> QED
    BY <2>1, NumberType
<1>4. ASSUME s[i].role = "calls" PROVE HasResults(s, i)
  <2>1. HasResults(t, e)
    BY <1>3, <1>4 DEF Linked
  <2> SUFFICES ASSUME NEW k \in 1..s[i].n
               PROVE  i + k <= Len(s) /\ Answers(s, i, i + k) /\ s[i + k].n = k
    BY DEF HasResults
  <2>2. e + k <= Len(t) /\ Answers(t, e, e + k) /\ t[e + k].n = k
    BY <1>3, <2>1 DEF HasResults
  <2>3. k \in Nat /\ k >= 1
    BY <1>3
  <2>4. i + k \in 1..n
    BY <1>2, <2>2, <2>3
  <2>5. s[i + k] = t[d + (i + k)] /\ d + (i + k) = e + k
    BY <1>2, <2>3, <2>4
  <2> QED
    BY <1>3, <2>2, <2>4, <2>5 DEF Answers, n
<1>5. ASSUME s[i].role = "tool"
      PROVE  (\A j \in 1..i : s[j].role = "tool") \/ HasCall(s, i)
  <2>1. (\A j \in 1..e : t[j].role = "tool") \/ HasCall(t, e)
    BY <1>3, <1>5 DEF Linked
  <2>2. CASE \A j \in 1..e : t[j].role = "tool"
    <3>1. \A j \in 1..i : d + j \in 1..e /\ s[j] = t[d + j]
      BY <1>2
    <3> QED
      BY <2>2, <3>1
  <2>3. CASE HasCall(t, e)
    <3> DEFINE c == e - t[e].n
    <3>1. /\ c \in Nat /\ c >= 1 /\ c <= Len(t) /\ t[c].role = "calls"
          /\ Answers(t, c, e) /\ t[e].n <= t[c].n
      BY <1>3, <2>3 DEF HasCall
    <3>2. HasResults(t, c) /\ t[c].n \in Nat
      BY <3>1, NumberType DEF Linked
    <3>3. CASE c > d
      <4>1. i - s[i].n = c - d /\ c - d \in 1..n
        <5> DEFINE y == t[e].n
        <5>1. s[i].n = y /\ y \in Nat /\ c = e - y /\ e = d + i
          BY <1>3
        <5>2. c \in Nat /\ d \in Nat /\ n \in Nat /\ i \in 1..n
          BY <1>2, <3>1
        <5> HIDE DEF c, e, y, n
        <5> QED
          BY <3>3, <5>1, <5>2
      <4>2. s[c - d] = t[c]
        <5>1. d + (c - d) = c
          BY <1>2, <3>1
        <5> QED
          BY <1>2, <4>1, <5>1
      <4> QED
        BY <1>3, <3>1, <4>1, <4>2 DEF HasCall, Answers
    <3>4. CASE c <= d
      <4> SUFFICES ASSUME NEW j \in 1..i PROVE s[j].role = "tool"
        OBVIOUS
      <4>0. c = e - t[e].n /\ e = d + i /\ e \in Nat
        BY <1>2, <1>3
      <4> HIDE DEF c, e
      <4>1. (d + j) - c \in 1..t[c].n /\ c + ((d + j) - c) = d + j
        <5> DEFINE y == t[e].n
                   z == t[c].n
        <5>1. y \in Nat /\ z \in Nat /\ y <= z /\ c = e - y /\ c \in Nat
          BY <1>3, <3>1, <3>2, <4>0
        <5> HIDE DEF y, z
        <5>2. (d + j) - c \in 1..z /\ c + ((d + j) - c) = d + j
          BY <1>2, <3>4, <4>0, <5>1
        <5> QED
          BY <5>2 DEF z
      <4>2. t[d + j].role = "tool"
        BY <3>2, <4>1 DEF HasResults, Answers
      <4> QED
        BY <1>2, <4>2
    <3> QED
      BY <1>2, <3>1, <3>3, <3>4
  <2> QED
    BY <2>1, <2>2, <2>3
<1> QED
  BY <1>4, <1>5

(* What begins with something else than a result goes on a linked sequence.*)
LEMMA LinkedConcat ==
    ASSUME NEW s \in Seq(Messages), NEW b \in Seq(Messages), Linked(s), Linked(b),
           b # <<>> => b[1].role # "tool"
    PROVE  Linked(s \o b)
<1> DEFINE t == s \o b
           d == Len(s)
           n == Len(b)
<1>1. /\ d \in Nat /\ n \in Nat /\ t \in Seq(Messages) /\ Len(t) = d + n
      /\ \A i \in 1..d : t[i] = s[i]
      /\ \A i \in 1..n : t[d + i] = b[i]
  OBVIOUS
<1>2. n >= 1 => b[1].role # "tool"
  OBVIOUS
<1> HIDE DEF t, d, n
<1> SUFFICES ASSUME NEW i \in 1..(d + n)
             PROVE  /\ t[i].role = "calls" => HasResults(t, i)
                    /\ t[i].role = "tool" =>
                         (\A j \in 1..i : t[j].role = "tool") \/ HasCall(t, i)
  BY <1>1 DEF Linked, t
<1>3. CASE i <= d
  <2>1. i \in 1..d /\ t[i] = s[i] /\ s[i].n \in Nat
    BY <1>1, <1>3, NumberType DEF d
  <2>2. ASSUME t[i].role = "calls" PROVE HasResults(t, i)
    <3>1. HasResults(s, i)
      BY <2>1, <2>2 DEF Linked, d
    <3> SUFFICES ASSUME NEW k \in 1..t[i].n
                 PROVE  i + k <= Len(t) /\ Answers(t, i, i + k) /\ t[i + k].n = k
      BY DEF HasResults
    <3>2. i + k <= d /\ Answers(s, i, i + k) /\ s[i + k].n = k
      BY <2>1, <3>1 DEF HasResults, d
    <3>3. i + k \in 1..d
      BY <1>1, <2>1, <3>2
    <3> QED
      BY <1>1, <2>1, <3>2, <3>3 DEF Answers
  <2>3. ASSUME t[i].role = "tool"
        PROVE  (\A j \in 1..i : t[j].role = "tool") \/ HasCall(t, i)
    <3>1. (\A j \in 1..i : s[j].role = "tool") \/ HasCall(s, i)
      BY <2>1, <2>3 DEF Linked, d
    <3>2. \A j \in 1..i : j \in 1..d /\ t[j] = s[j]
      BY <1>1, <2>1
    <3>3. ASSUME HasCall(s, i) PROVE HasCall(t, i)
      <4>1. i - s[i].n \in 1..i
        BY <2>1, <3>3 DEF HasCall
      <4> QED
        BY <2>1, <3>2, <3>3, <4>1 DEF HasCall, Answers
    <3> QED
      BY <3>1, <3>2, <3>3
  <2> QED
    BY <2>2, <2>3
<1>4. CASE i > d
  <2> DEFINE e == i - d
  <2>1. e \in 1..n /\ i = d + e /\ t[i] = b[e] /\ b[e].n \in Nat
    <3>1. e \in 1..n /\ i = d + e
      BY <1>1, <1>4
    <3> HIDE DEF e
    <3> QED
      BY <1>1, <3>1, NumberType DEF n
  <2> HIDE DEF e
  <2>2. ASSUME t[i].role = "calls" PROVE HasResults(t, i)
    <3>1. HasResults(b, e)
      BY <2>1, <2>2 DEF Linked, n
    <3> SUFFICES ASSUME NEW k \in 1..t[i].n
                 PROVE  i + k <= Len(t) /\ Answers(t, i, i + k) /\ t[i + k].n = k
      BY DEF HasResults
    <3>2. e + k <= n /\ Answers(b, e, e + k) /\ b[e + k].n = k
      BY <2>1, <3>1 DEF HasResults, n
    <3>3. e + k \in 1..n /\ i + k = d + (e + k)
      BY <1>1, <2>1, <3>2
    <3>4. t[i + k] = b[e + k]
      BY <1>1, <3>3
    <3> QED
      BY <1>1, <2>1, <3>2, <3>3, <3>4 DEF Answers
  <2>3. ASSUME t[i].role = "tool" PROVE HasCall(t, i)
    <3>1. (\A j \in 1..e : b[j].role = "tool") \/ HasCall(b, e)
      BY <2>1, <2>3 DEF Linked, n
    <3>2. 1 \in 1..e /\ b[1].role # "tool"
      BY <1>1, <1>2, <2>1
    <3>3. HasCall(b, e)
      BY <3>1, <3>2
    <3> DEFINE c == e - b[e].n
    <3>4. c \in 1..n /\ b[c].role = "calls" /\ Answers(b, c, e) /\ b[e].n <= b[c].n
      BY <1>1, <2>1, <3>3 DEF HasCall
    <3>5. i - t[i].n = d + c
      BY <1>1, <2>1, <3>4
    <3> HIDE DEF c
    <3>6. t[d + c] = b[c] /\ d + c >= 1
      BY <1>1, <3>4
    <3> QED
      BY <2>1, <3>4, <3>5, <3>6 DEF HasCall, Answers
  <2> QED
    BY <2>2, <2>3
<1> QED
  BY <1>1, <1>3, <1>4

LEMMA LinkedEmpty == Linked(<<>>)
  BY DEF Linked

(* One message that is neither a call nor a result is linked.              *)
LEMMA LinkedOne ==
    ASSUME NEW m \in Messages, m.role \notin {"calls", "tool"}
    PROVE  Linked(<<m>>)
  BY DEF Linked

(* So are a message with calls and their results.                          *)
LEMMA LinkedCalls ==
    ASSUME NEW t \in Turns, NEW n \in 1..MaxCalls, round[t] \in 0..MAX_TOOL_LOOPS
    PROVE  LET b == CallsAndResults(t, n)
           IN  /\ b \in Seq(Messages) /\ Len(b) = n + 1 /\ Linked(b)
               /\ b[1] = Message("calls", {t}, round[t], n)
               /\ \A i \in 2..(n + 1) : b[i] = Message("tool", {t}, round[t], i - 1)
<1> DEFINE r == round[t]
           first == Message("calls", {t}, r, n)
           rest == [i \in 1..n |-> Message("tool", {t}, r, i)]
           b == <<first>> \o rest
<1>1. n \in Nat /\ n \in 0..MaxCalls /\ MaxCalls \in Nat
  BY TurnAssumption
<1>2. first \in Messages
  BY <1>1 DEF Message, Messages
<1>3. \A i \in 1..n : Message("tool", {t}, r, i) \in Messages
  BY <1>1 DEF Message, Messages
<1>4. rest \in Seq(Messages) /\ Len(rest) = n
  BY <1>1, <1>3
<1>5. /\ b \in Seq(Messages) /\ Len(b) = n + 1
      /\ b[1] = first /\ \A i \in 2..(n + 1) : b[i] = Message("tool", {t}, r, i - 1)
  <2> HIDE DEF first
  <2>1. <<first>> \in Seq(Messages) /\ Len(<<first>>) = 1
    BY <1>2
  <2>2. \A i \in 2..(n + 1) : i - 1 \in 1..n /\ b[i] = rest[i - 1]
    <3> HIDE DEF rest
    <3> QED
      BY <1>1, <1>4, <2>1
  <2>3. b \in Seq(Messages) /\ Len(b) = n + 1 /\ b[1] = first
    <3> HIDE DEF rest
    <3> QED
      BY <1>1, <1>4, <2>1
  <2> HIDE DEF b
  <2> QED
    BY <2>2, <2>3
<1>6. CallsAndResults(t, n) = b
  BY DEF CallsAndResults
<1> HIDE DEF b, first
<1>7. Linked(b)
  <2> SUFFICES ASSUME NEW i \in 1..(n + 1)
               PROVE  /\ b[i].role = "calls" => HasResults(b, i)
                      /\ b[i].role = "tool" => HasCall(b, i)
    BY <1>5 DEF Linked
  <2>1. first.role = "calls" /\ first.n = n /\ first.turns = {t} /\ first.round = r
    BY DEF first, Message
  <2>2. \A k \in 2..(n + 1) : /\ b[k].role = "tool" /\ b[k].n = k - 1
                             /\ b[k].turns = {t} /\ b[k].round = r
    <3> TAKE k \in 2..(n + 1)
    <3>1. b[k] = Message("tool", {t}, r, k - 1)
      BY <1>5
    <3> QED
      BY <3>1 DEF Message
  <2>3. CASE i = 1
    <3> SUFFICES ASSUME NEW k \in 1..n
                 PROVE  1 + k <= n + 1 /\ Answers(b, 1, 1 + k) /\ b[1 + k].n = k
      BY <1>5, <2>1, <2>3 DEF HasResults
    <3>1. 1 + k \in 2..(n + 1) /\ (1 + k) - 1 = k
      BY <1>1
    <3> QED
      BY <1>1, <1>5, <2>1, <2>2, <3>1 DEF Answers
  <2>4. CASE i \in 2..(n + 1)
    <3>1. b[i].n = i - 1 /\ i - b[i].n = 1 /\ i - 1 <= n
      BY <1>1, <2>2, <2>4
    <3>2. b[1].role = "calls" /\ b[1].n = n /\ b[1].turns = {t} /\ b[1].round = r
      BY <1>5, <2>1
    <3>3. b[i].turns = {t} /\ b[i].round = r /\ b[i].role = "tool"
      BY <2>2, <2>4
    <3>4. HasCall(b, i)
      BY <3>1, <3>2, <3>3 DEF HasCall, Answers
    <3>5. b[i].role # "calls"
      BY <3>3
    <3> QED
      BY <3>4, <3>5
  <2> QED
    BY <1>1, <2>3, <2>4
<1> QED
  BY <1>5, <1>6, <1>7 DEF first

(* From its first message that is no result, a linked sequence is paired.  *)
LEMMA LinkedIsPaired ==
    ASSUME NEW s \in Seq(Messages), Linked(s), NEW p \in 1..Len(s), s[p].role # "tool"
    PROVE  Paired(FromFirst(s))
<1> DEFINE I == {i \in 1..Len(s) : s[i].role # "tool"}
           q == SelectInSeq(s, LAMBDA m : m.role # "tool")
           r == SubSeq(s, q, Len(s))
<1>1. q = Min(I)
  BY DEF SelectInSeq
<1>2. I \in SUBSET Nat /\ I # {}
  OBVIOUS
<1>3. q \in I
  <2> HIDE DEF I, q
  <2>1. PICK x \in I : \A y \in I : x <= y
    BY <1>2, LeastElement
  <2> QED
    BY <1>1, <2>1 DEF Min
<1>4. q \in 1..Len(s) /\ s[q].role # "tool"
  BY <1>3
<1> HIDE DEF I, q
<1>5. r \in Seq(Messages) /\ EndOf(r, s) /\ r[1] = s[q]
  BY <1>4, RestIsEnd
<1>6. FromFirst(s) = r
  BY DEF FromFirst, q
<1> HIDE DEF r
<1>7. Linked(r) /\ r[1].role # "tool"
  BY <1>4, <1>5, LinkedEnd
<1>8. ASSUME NEW i \in 1..Len(r), r[i].role = "tool"
      PROVE  i > r[i].n /\ r[i - r[i].n].role = "calls" /\ Answers(r, i - r[i].n, i)
  <2>1. 1 \in 1..i
    OBVIOUS
  <2>2. HasCall(r, i)
    BY <1>7, <1>8, <2>1 DEF Linked
  <2>3. i \in Nat /\ r[i].n \in Nat /\ i - r[i].n >= 1
    BY <1>5, <2>2, NumberType DEF HasCall
  <2> QED
    BY <2>2, <2>3 DEF HasCall
<1> QED
  BY <1>6, <1>7, <1>8 DEF Paired, Linked, HasResults

-----------------------------------------------------------------------------
(* What a snapshot puts before the messages: the summary or the facts.     *)
Blocks == {m \in Messages : m.role = "summary" \/ (m.role = "facts" /\ m.turns = {})}

SpokenOnes == {m \in Messages : m.role \notin {"summary", "facts"}}

OwnOnes(t) == {m \in Messages : m.turns = {t} /\ m.role # "summary"}

LEMMA EmptyStateType ==
    ASSUME NEW kind \in Kinds
    PROVE  EmptyState(kind) \in States /\ EmptyState(kind).messages = <<>>
           /\ EmptyState(kind).covered = {} /\ EmptyState(kind).kind = kind
<1>1. <<>> \in Seq(Messages)
  OBVIOUS
<1> QED
  BY <1>1 DEF EmptyState, States

LEMMA StateAsType ==
    ASSUME TypeOK, NEW kind \in Kinds
    PROVE  /\ StateAs(kind) \in States /\ StateAs(kind).kind = kind
           /\ EndOf(StateAs(kind).messages, context.messages)
           /\ context.kind = kind => StateAs(kind) = context
<1>1. context \in States /\ context.messages \in Seq(Messages)
  BY DEF TypeOK, States
<1> QED
  BY <1>1, EmptyStateType, EndOfRefl DEF StateAs

LEMMA WindowType == ASSUME TypeOK, NEW kind \in Kinds
                    PROVE  WindowOf(kind) \in Int
  BY TurnAssumption DEF TypeOK, WindowOf, Params

(* A snapshot is a block, or none, and an end of the saved messages.       *)
LEMMA SnapshotParts ==
    ASSUME TypeOK, NEW kind \in Kinds, ~BadWindow(kind)
    PROVE  \E lead \in Seq(Blocks), rest \in Seq(Messages) :
             Snapshot(kind) = lead \o rest /\ EndOf(rest, StateAs(kind).messages)
<1> DEFINE ms == StateAs(kind).messages
           w == WindowOf(kind)
<1>1. ms \in Seq(Messages) /\ StateAs(kind).covered \in SUBSET Turns
  BY StateAsType DEF States
<1>2. w \in Int /\ (kind \in {"window", "facts"} => w \in Nat)
  BY WindowType DEF BadWindow
<1>3. \A W \in SUBSET Turns : Message("summary", W, 0, 0) \in Blocks
  BY TurnAssumption DEF Message, Messages, Blocks
<1>4. Message("facts", {}, 0, 0) \in Blocks
  BY TurnAssumption DEF Message, Messages, Blocks
<1>5. <<>> \in Seq(Blocks) /\ \A m \in Blocks : <<m>> \in Seq(Blocks)
  OBVIOUS
<1>6. EndOf(ms, ms) /\ \A s \in Seq(Messages) : <<>> \o s = s
  BY <1>1, EndOfRefl
<1>7. kind \in {"window", "facts"} => LastOf(ms, w) \in Seq(Messages) /\ EndOf(LastOf(ms, w), ms)
  BY <1>1, <1>2, LastOfIsEnd
<1>8. CASE kind = "full"
  <2>1. Snapshot(kind) = <<>> \o ms
    BY <1>1, <1>6, <1>8 DEF Snapshot
  <2> QED
    BY <1>1, <1>5, <1>6, <2>1
<1>9. CASE kind = "window"
  <2>1. Snapshot(kind) = LastOf(ms, w)
    BY <1>9 DEF Snapshot
  <2>2. Snapshot(kind) = <<>> \o LastOf(ms, w)
    BY <1>6, <1>7, <1>9, <2>1
  <2> QED
    BY <1>5, <1>7, <1>9, <2>2
<1>10. CASE kind = "summary"
  <2> DEFINE lead == IF StateAs("summary").covered = {} THEN <<>>
                     ELSE <<Message("summary", StateAs("summary").covered, 0, 0)>>
  <2>1. Snapshot(kind) = lead \o ms
    BY <1>10 DEF Snapshot
  <2>2. lead \in Seq(Blocks)
    BY <1>1, <1>3, <1>5, <1>10
  <2> HIDE DEF lead
  <2> QED
    BY <1>1, <1>6, <2>1, <2>2
<1>11. CASE kind = "facts"
  <2>1. Snapshot(kind) = <<Message("facts", {}, 0, 0)>> \o LastOf(ms, w)
    BY <1>11 DEF Snapshot
  <2> QED
    BY <1>4, <1>5, <1>7, <1>11, <2>1
<1> QED
  BY <1>8, <1>9, <1>10, <1>11 DEF Kinds

LEMMA SnapshotType ==
    ASSUME TypeOK, NEW kind \in Kinds, ~BadWindow(kind)
    PROVE  Snapshot(kind) \in Seq(Messages)
<1>1. PICK lead \in Seq(Blocks), rest \in Seq(Messages) : Snapshot(kind) = lead \o rest
  BY SnapshotParts
<1>2. lead \in Seq(Messages)
  BY DEF Blocks
<1> QED
  BY <1>1, <1>2, ConcatProperties

-----------------------------------------------------------------------------
(* What the types rest on: a turn asks only while the loop may go on, a    *)
(* migration goes on only with a window it can take, and only summaries    *)
(* cover turns.                                                            *)
RoundsLeft == \A t \in Turns : pc[t] \in {"new", "begun", "asking"} =>
                round[t] < MAX_TOOL_LOOPS

CanMigrate == setup.pc = "state" /\ setup.target.kind \in {"window", "facts"} =>
                setup.target.size \in Nat

CoversOnlyAsSummary(state) == state.kind # "summary" => state.covered = {}

Uncovered ==
    /\ CoversOnlyAsSummary(context)
    /\ \A t \in Turns : CoversOnlyAsSummary(toSave[t])

TypeInv == TypeOK /\ RoundsLeft /\ CanMigrate /\ Uncovered

LEMMA InitTyped == Init => TypeInv
<1> SUFFICES ASSUME Init PROVE TypeInv
  OBVIOUS
<1> USE TurnAssumption DEF Init
<1>1. FirstParams.kind \in Kinds /\ "full" \in Kinds
  BY DEF Params, Kinds
<1>2. EmptyState("full") \in States /\ EmptyState("full").covered = {}
  BY <1>1, EmptyStateType
<1>3. <<>> \in Seq(Messages)
  OBVIOUS
<1> QED
  BY <1>1, <1>2, <1>3
  DEF TypeInv, TypeOK, RoundsLeft, CanMigrate, Uncovered, CoversOnlyAsSummary, NoSetup

(* The end of turns leaves the types.                                      *)
Endings == {"done", "failed", "thrown", "stopped"}

LEMMA EndTyped ==
    ASSUME TypeInv, NEW T \in SUBSET Turns, NEW how \in Endings, End(T, how)
    PROVE  /\ pc' \in [Turns -> {"new", "begun", "asking", "answered", "saving",
                         "done", "failed", "thrown", "stopped"}]
           /\ history' \in [Turns -> Seq(Messages)]
           /\ round' \in [Turns -> 0..MAX_TOOL_LOOPS]
           /\ toSave' \in [Turns -> States]
           /\ seen' \in [Turns -> SUBSET Turns]
           /\ RoundsLeft'
           /\ \A t \in Turns : CoversOnlyAsSummary(toSave'[t])
<1> USE TurnAssumption DEF TypeInv, TypeOK, End, Endings
<1>1. EmptyState("full") \in States /\ EmptyState("full").covered = {}
  BY EmptyStateType DEF Kinds
<1>2. <<>> \in Seq(Messages) /\ 0 \in 0..MAX_TOOL_LOOPS
  OBVIOUS
<1>3. toSave' \in [Turns -> States] /\ history' \in [Turns -> Seq(Messages)]
  BY <1>1, <1>2
<1>4. \A t \in Turns : CoversOnlyAsSummary(toSave'[t])
  BY <1>1 DEF Uncovered, CoversOnlyAsSummary
<1> QED
  BY <1>2, <1>3, <1>4 DEF RoundsLeft

(* What the turn says after its prompt.                                    *)
Says(t) == OwnOnes(t) \cap SpokenOnes

LEMMA FinalTextParts ==
    ASSUME NEW t \in Turns, NEW text \in FinalTexts(t)
    PROVE  /\ text \in Seq(Says(t)) /\ text \in Seq(Messages) /\ Linked(text)
           /\ text # <<>> => text[1].role # "tool"
<1> DEFINE m == Message("assistant", {t}, 0, 0)
<1>1. m \in Says(t) /\ m \in Messages /\ m.role = "assistant"
  BY TurnAssumption DEF Message, Messages, Says, OwnOnes, SpokenOnes
<1>2. text = <<m>> \/ text = <<>>
  BY DEF FinalTexts
<1> HIDE DEF m
<1>3. CASE text = <<m>>
  BY <1>1, <1>3, LinkedOne
<1>4. CASE text = <<>>
  BY <1>4, LinkedEmpty
<1> QED
  BY <1>2, <1>3, <1>4

(* What an answer adds to the turn is its own, and linked.                 *)
LEMMA CallsParts ==
    ASSUME TypeInv, NEW t \in Turns, NEW n \in 1..MaxCalls
    PROVE  LET b == CallsAndResults(t, n)
           IN  b \in Seq(Says(t)) /\ b # <<>> /\ b[1].role = "calls" /\ Linked(b)
               /\ b \in Seq(Messages) /\ Len(b) \in Nat
<1> DEFINE b == CallsAndResults(t, n)
<1>1. round[t] \in 0..MAX_TOOL_LOOPS
  BY DEF TypeInv, TypeOK
<1>2. /\ b \in Seq(Messages) /\ Len(b) = n + 1 /\ Linked(b)
      /\ b[1] = Message("calls", {t}, round[t], n)
      /\ \A i \in 2..(n + 1) : b[i] = Message("tool", {t}, round[t], i - 1)
  BY <1>1, LinkedCalls
<1>3. n \in Nat /\ n \in 0..MaxCalls /\ MaxCalls \in Nat
  BY TurnAssumption
<1>4. b[1] \in Says(t) /\ b[1].role = "calls"
  BY <1>1, <1>2, <1>3 DEF Message, Messages, Says, OwnOnes, SpokenOnes
<1>5. \A i \in 2..(n + 1) : b[i] \in Says(t)
  <2> TAKE i \in 2..(n + 1)
  <2>1. i - 1 \in 0..MaxCalls
    BY <1>3
  <2>2. Message("tool", {t}, round[t], i - 1) \in Says(t)
    BY <1>1, <2>1 DEF Message, Messages, Says, OwnOnes, SpokenOnes
  <2> QED
    BY <1>2, <2>2
<1> HIDE DEF b
<1>6. \A i \in 1..(n + 1) : b[i] \in Says(t)
  <2> TAKE i \in 1..(n + 1)
  <2>1. i = 1 \/ i \in 2..(n + 1)
    BY <1>3
  <2> QED
    BY <1>4, <1>5, <2>1
<1>7. b \in Seq(Says(t))
  BY <1>2, <1>6
<1> QED
  BY <1>2, <1>3, <1>4, <1>7 DEF b

Speaks(t, added) ==
    /\ added \in Seq(Says(t)) /\ added \in Seq(Messages) /\ Linked(added)
    /\ added # <<>> => added[1].role # "tool"
    /\ history' = [history EXCEPT ![t] = history[t] \o added]

LEMMA AskingParts ==
    ASSUME TypeInv, NEW t \in Turns, Answer(t) \/ CallTools(t)
    PROVE  \E added \in Seq(Messages) : Speaks(t, added)
<1>1. CASE Answer(t)
  <2>1. PICK text \in FinalTexts(t) : history' = [history EXCEPT ![t] = history[t] \o text]
    BY <1>1 DEF Answer
  <2>2. Speaks(t, text) /\ text \in Seq(Messages)
    BY <2>1, FinalTextParts DEF Speaks
  <2> QED
    BY <2>2
<1>2. CASE CallTools(t)
  <2>1. PICK n \in 1..MaxCalls, text \in FinalTexts(t) :
          history' = [history EXCEPT ![t] =
            history[t] \o CallsAndResults(t, n) \o (IF LoopIsOver(t) THEN text ELSE <<>>)]
    BY <1>2 DEF CallTools
  <2> DEFINE h == history[t]
             b == CallsAndResults(t, n)
             x == IF LoopIsOver(t) THEN text ELSE <<>>
             added == b \o x
  <2>2. /\ b \in Seq(Says(t)) /\ b # <<>> /\ b[1].role = "calls" /\ Linked(b)
        /\ b \in Seq(Messages) /\ Len(b) \in Nat
    BY CallsParts
  <2>3. /\ x \in Seq(Says(t)) /\ x \in Seq(Messages) /\ Linked(x)
        /\ x # <<>> => x[1].role # "tool"
    <3>1. /\ text \in Seq(Says(t)) /\ text \in Seq(Messages) /\ Linked(text)
          /\ text # <<>> => text[1].role # "tool"
      BY FinalTextParts
    <3>2. <<>> \in Seq(Says(t)) /\ <<>> \in Seq(Messages)
      OBVIOUS
    <3> QED
      BY <3>1, <3>2, LinkedEmpty
  <2>4. h \in Seq(Messages)
    BY DEF TypeInv, TypeOK
  <2>5. history' = [history EXCEPT ![t] = (h \o b) \o x]
    BY <2>1
  <2> HIDE DEF h, b, x
  <2>6. (h \o b) \o x = h \o added
    <3>1. h \in Seq(Messages) /\ b \in Seq(Messages) /\ x \in Seq(Messages)
      BY <2>2, <2>3, <2>4
    <3>2. (h \o b) \o x = h \o (b \o x)
      BY <3>1, ConcatAssociative
    <3> QED
      BY <3>2
  <2>7. added \in Seq(Says(t)) /\ added \in Seq(Messages) /\ added[1] = b[1]
    BY <2>2, <2>3
  <2>8. Linked(added)
    BY <2>2, <2>3, LinkedConcat
  <2> HIDE DEF added
  <2>9. Speaks(t, added)
    <3>1. added # <<>> => added[1].role # "tool"
      BY <2>2, <2>7
    <3> QED
      BY <2>5, <2>6, <2>7, <2>8, <3>1 DEF Speaks, h
  <2> QED
    BY <2>7, <2>9
<1> QED
  BY <1>1, <1>2

(* A request is a block, an end of what is saved and the prompt.           *)
Prompt(t) == Message("user", {t}, 0, 0)

LEMMA PromptParts ==
    ASSUME NEW t \in Turns
    PROVE  /\ Prompt(t) \in Says(t) /\ Prompt(t) \in Messages
           /\ Prompt(t).role = "user" /\ Prompt(t).turns = {t}
  BY TurnAssumption DEF Message, Messages, Says, OwnOnes, SpokenOnes, Prompt

Asks(t, lead, rest) ==
    /\ EndOf(rest, context.messages)
    /\ EndOf(rest, StateAs(using[t]).messages)
    /\ history' = [history EXCEPT ![t] = (lead \o rest) \o <<Prompt(t)>>]

LEMMA ReadParts ==
    ASSUME TypeInv, NEW t \in Turns, Read(t), ~BadWindow(using[t])
    PROVE  \E lead \in Seq(Blocks), rest \in Seq(Messages) :
             Asks(t, lead, rest) /\ Snapshot(using[t]) = lead \o rest
<1> DEFINE k == using[t]
<1>1. k \in Kinds
  BY DEF TypeInv, TypeOK
<1>2. PICK lead \in Seq(Blocks), rest \in Seq(Messages) :
        Snapshot(k) = lead \o rest /\ EndOf(rest, StateAs(k).messages)
  BY <1>1, SnapshotParts DEF TypeInv
<1>3. /\ StateAs(k).messages \in Seq(Messages) /\ context.messages \in Seq(Messages)
      /\ EndOf(StateAs(k).messages, context.messages)
  BY <1>1, StateAsType DEF TypeInv, TypeOK, States
<1>4. EndOf(rest, context.messages)
  <2> DEFINE s == StateAs(k).messages
             c == context.messages
  <2>1. s \in Seq(Messages) /\ c \in Seq(Messages) /\ EndOf(rest, s) /\ EndOf(s, c)
    BY <1>2, <1>3
  <2> HIDE DEF s, c
  <2>2. EndOf(rest, c)
    BY <2>1, EndOfTrans
  <2> QED
    BY <2>2 DEF c
<1>5. history' = [history EXCEPT ![t] = Append(Snapshot(k), Prompt(t))]
  BY DEF Read, Prompt
<1>6. Append(Snapshot(k), Prompt(t)) = (lead \o rest) \o <<Prompt(t)>>
  <2> DEFINE s == Snapshot(k)
             m == Prompt(t)
  <2>1. s \in Seq(Messages)
    BY <1>1, SnapshotType DEF TypeInv
  <2>2. m \in Messages
    BY PromptParts
  <2> HIDE DEF s, m
  <2>3. Append(s, m) = s \o <<m>>
    BY <2>1, <2>2, AppendIsConcat
  <2> QED
    BY <1>2, <2>3 DEF s, m
<1> HIDE DEF k
<1>7. Asks(t, lead, rest)
  BY <1>2, <1>4, <1>5, <1>6 DEF Asks, k
<1> QED
  BY <1>2, <1>7 DEF k

(* The turns of a sequence are those of its parts.                         *)
LEMMA TurnsInOf ==
    ASSUME NEW s \in Seq(Messages)
    PROVE  \A u : u \in TurnsIn(s) <=> \E i \in 1..Len(s) : u \in s[i].turns
  BY DEF TurnsIn, ToSet

LEMMA TurnsInType == ASSUME NEW s \in Seq(Messages) PROVE TurnsIn(s) \subseteq Turns
<1> SUFFICES ASSUME NEW u \in TurnsIn(s) PROVE u \in Turns
  OBVIOUS
<1>1. PICK i \in 1..Len(s) : u \in s[i].turns
  BY TurnsInOf
<1>2. s[i] \in Messages
  OBVIOUS
<1> QED
  BY <1>1, <1>2 DEF Messages

LEMMA TurnsInConcat ==
    ASSUME NEW s \in Seq(Messages), NEW t \in Seq(Messages)
    PROVE  TurnsIn(s \o t) = TurnsIn(s) \cup TurnsIn(t)
<1> DEFINE w == s \o t
<1>1. /\ w \in Seq(Messages) /\ Len(w) = Len(s) + Len(t)
      /\ Len(s) \in Nat /\ Len(t) \in Nat
      /\ \A i \in 1..Len(s) : w[i] = s[i]
      /\ \A i \in 1..Len(t) : w[Len(s) + i] = t[i]
  OBVIOUS
<1> HIDE DEF w
<1>2. ASSUME NEW u, u \in TurnsIn(w) PROVE u \in TurnsIn(s) \cup TurnsIn(t)
  <2>1. PICK i \in 1..Len(w) : u \in w[i].turns
    BY <1>1, <1>2, TurnsInOf
  <2>2. CASE i \in 1..Len(s)
    BY <1>1, <2>1, <2>2, TurnsInOf
  <2>3. CASE i - Len(s) \in 1..Len(t)
    <3>1. w[Len(s) + (i - Len(s))] = t[i - Len(s)] /\ Len(s) + (i - Len(s)) = i
      BY <1>1, <2>3
    <3> QED
      BY <2>1, <2>3, <3>1, TurnsInOf
  <2> QED
    BY <1>1, <2>1, <2>2, <2>3
<1>3. ASSUME NEW u, u \in TurnsIn(s) PROVE u \in TurnsIn(w)
  <2>1. PICK i \in 1..Len(s) : u \in s[i].turns
    BY <1>3, TurnsInOf
  <2>2. i \in 1..Len(w) /\ u \in w[i].turns
    BY <1>1, <2>1
  <2> QED
    BY <1>1, <2>2, TurnsInOf
<1>4. ASSUME NEW u, u \in TurnsIn(t) PROVE u \in TurnsIn(w)
  <2>1. PICK i \in 1..Len(t) : u \in t[i].turns
    BY <1>4, TurnsInOf
  <2>2. Len(s) + i \in 1..Len(w) /\ u \in w[Len(s) + i].turns
    BY <1>1, <2>1
  <2> QED
    BY <1>1, <2>2, TurnsInOf
<1>5. TurnsIn(w) = TurnsIn(s) \cup TurnsIn(t)
  BY <1>2, <1>3, <1>4
<1> QED
  BY <1>5 DEF w

(* What afterResponse may make of the messages of a turn.                  *)
Loses(t, s) == s.covered = {} /\ Len(s.messages) < Len(history[t])

MadeOf(t, s) ==
    /\ s \in States /\ s.kind = using[t] /\ CoversOnlyAsSummary(s)
    /\ EndOf(s.messages, history[t])
    /\ using[t] \in {"full", "summary"} /\ ~Loses(t, s) =>
         TurnsIn(history[t]) \subseteq Known(s)

LEMMA StateWith ==
    ASSUME TypeInv, NEW kind \in Kinds, NEW ms \in Seq(Messages)
    PROVE  LET s == [StateAs(kind) EXCEPT !.messages = ms]
           IN  /\ s \in States /\ s.kind = kind /\ CoversOnlyAsSummary(s)
               /\ s.messages = ms /\ s.covered = StateAs(kind).covered
<1>1. StateAs(kind) \in States /\ StateAs(kind).kind = kind
  BY StateAsType DEF TypeInv
<1>2. CoversOnlyAsSummary(StateAs(kind))
  BY EmptyStateType DEF StateAs, TypeInv, Uncovered, CoversOnlyAsSummary
<1> QED
  BY <1>1, <1>2 DEF States, CoversOnlyAsSummary

(* The messages a compression leaves, and those the summary is made of.    *)
LEMMA CompressionParts ==
    ASSUME TypeInv, NEW ms \in Seq(Messages), NeedsCompression(ms)
    PROVE  /\ Remaining(ms) \in Seq(Messages) /\ EndOf(Remaining(ms), ms)
           /\ TurnsIn(ms) = TurnsIn(SubSeq(ms, 1, ToCompress(ms))) \cup TurnsIn(Remaining(ms))
           /\ TurnsIn(SubSeq(ms, 1, ToCompress(ms))) \subseteq Turns
           /\ ms # <<>> => Len(Remaining(ms)) < Len(ms)
<1> DEFINE c == ToCompress(ms)
           n == Len(ms)
           a == SubSeq(ms, 1, c)
           b == SubSeq(ms, c + 1, n)
<1>1. params.size \in Int /\ params.extra \in Nat /\ n \in Nat
  BY DEF TypeInv, TypeOK, Params
<1>2. c \in 0..n /\ (ms # <<>> => c >= 1)
  BY <1>1 DEF NeedsCompression, ToCompress
<1>3. c + 1 \in 1..(n + 1) /\ Remaining(ms) = b
  BY <1>2 DEF Remaining
<1> HIDE DEF c
<1>4. b \in Seq(Messages) /\ EndOf(b, ms)
  <2> DEFINE k == c + 1
  <2>1. k \in 1..(Len(ms) + 1)
    BY <1>3
  <2> HIDE DEF k
  <2>2. SubSeq(ms, k, Len(ms)) \in Seq(Messages) /\ EndOf(SubSeq(ms, k, Len(ms)), ms)
    BY <2>1, RestIsEnd
  <2> QED
    BY <2>2 DEF k
<1>5. ms = a \o b
  <2>1. c \in (1 - 1)..Len(ms) /\ n \in c..Len(ms) /\ 1 \in 1..(Len(ms) + 1)
    BY <1>1, <1>2
  <2> HIDE DEF n
  <2>2. SubSeq(ms, 1, c) \o SubSeq(ms, c + 1, n) = SubSeq(ms, 1, n)
    BY <2>1, ConcatAdjacentSubSeq
  <2>3. SubSeq(ms, 1, n) = ms
    BY SubSeqFull DEF n
  <2> QED
    BY <2>2, <2>3
<1>6. a \in Seq(Messages)
  BY <1>2
<1>7. ms # <<>> => Len(b) < n
  BY <1>1, <1>2
<1> HIDE DEF a, b
<1>8. TurnsIn(ms) = TurnsIn(a) \cup TurnsIn(b)
  BY <1>4, <1>5, <1>6, TurnsInConcat
<1>9. TurnsIn(a) \subseteq Turns
  BY <1>6, TurnsInType
<1> QED
  BY <1>3, <1>4, <1>7, <1>8, <1>9 DEF a, c

Keeping(t) ==
    /\ pc' = [pc EXCEPT ![t] = "saving"] /\ UNCHANGED <<history, round, seen>>
    /\ \E s \in States : toSave' = [toSave EXCEPT ![t] = s] /\ MadeOf(t, s)

LEMMA AfterParts ==
    ASSUME TypeInv, NEW t \in Turns, AfterResponse(t)
    PROVE  End({t}, "thrown") \/ Keeping(t)
<1> DEFINE h == history[t]
           With(kind, ms) == [StateAs(kind) EXCEPT !.messages = ms]
<1>1. h \in Seq(Messages) /\ EndOf(h, h)
  BY EndOfRefl DEF TypeInv, TypeOK
<1>2. Kinds = {"full", "window", "summary", "facts"} /\ using[t] \in Kinds
  BY DEF Kinds, TypeInv, TypeOK
<1>3. ASSUME NEW kind \in Kinds, NEW ms \in Seq(Messages)
      PROVE  /\ With(kind, ms) \in States /\ With(kind, ms).kind = kind
             /\ CoversOnlyAsSummary(With(kind, ms)) /\ With(kind, ms).messages = ms
             /\ With(kind, ms).covered = StateAs(kind).covered
  BY <1>3, StateWith
<1>4. ASSUME NEW ms \in Seq(Messages), using[t] \in {"full", "summary"}, ms = h
      PROVE  MadeOf(t, With(using[t], ms))
  BY <1>1, <1>2, <1>3, <1>4 DEF MadeOf, Known
<1>5. ASSUME using[t] \in {"window", "facts"}, ~BadWindow(using[t])
      PROVE  MadeOf(t, Trimmed(using[t], h)) /\ Trimmed(using[t], h) \in States
  <2> DEFINE w == WindowOf(using[t])
             ms == LastOf(h, w)
  <2>1. w \in Nat
    BY <1>2, <1>5, WindowType DEF BadWindow, TypeInv
  <2> HIDE DEF w
  <2>2. ms \in Seq(Messages) /\ EndOf(ms, h)
    BY <1>1, <2>1, LastOfIsEnd
  <2>3. Trimmed(using[t], h) = With(using[t], ms)
    BY DEF Trimmed, w
  <2> HIDE DEF ms
  <2> QED
    BY <1>2, <1>3, <1>5, <2>2, <2>3 DEF MadeOf
<1>6. CASE AfterFull(t) /\ UNCHANGED <<history, round, seen>>
  <2>1. toSave' = [toSave EXCEPT ![t] = With("full", h)] /\ using[t] = "full"
    BY <1>6 DEF AfterFull
  <2>2. MadeOf(t, With("full", h)) /\ With("full", h) \in States
    BY <1>1, <1>2, <1>3, <1>4, <2>1
  <2> HIDE DEF With
  <2> QED
    BY <1>6, <2>1, <2>2 DEF AfterFull, Keeping
<1>7. CASE AfterShort(t) /\ UNCHANGED <<history, round, seen>>
  <2>1. toSave' = [toSave EXCEPT ![t] = With("summary", h)] /\ using[t] = "summary"
    BY <1>7 DEF AfterShort
  <2>2. MadeOf(t, With("summary", h)) /\ With("summary", h) \in States
    BY <1>1, <1>2, <1>3, <1>4, <2>1
  <2> HIDE DEF With
  <2> QED
    BY <1>7, <2>1, <2>2 DEF AfterShort, Keeping
<1>8. CASE AfterWindow(t) /\ UNCHANGED <<history, round, seen>>
  <2>1. /\ toSave' = [toSave EXCEPT ![t] = Trimmed("window", h)]
        /\ using[t] = "window" /\ ~BadWindow("window")
    BY <1>8 DEF AfterWindow
  <2>2. MadeOf(t, Trimmed("window", h)) /\ Trimmed("window", h) \in States
    BY <1>5, <2>1
  <2> QED
    BY <1>8, <2>1, <2>2 DEF AfterWindow, Keeping
<1>9. CASE Extract(t) /\ UNCHANGED <<history, round, seen>>
  <2>1. PICK found \in SUBSET FactNames :
          /\ toSave' = [toSave EXCEPT ![t] = [Trimmed("facts", h) EXCEPT !.facts = found]]
          /\ using[t] = "facts" /\ ~BadWindow("facts")
    BY <1>9 DEF Extract
  <2> DEFINE s == Trimmed("facts", h)
             new == [s EXCEPT !.facts = found]
  <2>2. MadeOf(t, s) /\ s \in States
    BY <1>5, <2>1
  <2> HIDE DEF s
  <2>3. /\ new \in States /\ new.kind = s.kind /\ new.messages = s.messages
        /\ new.covered = s.covered
    BY <2>2 DEF States
  <2> HIDE DEF new
  <2>4. MadeOf(t, new)
    BY <2>1, <2>2, <2>3 DEF MadeOf, CoversOnlyAsSummary
  <2> QED
    BY <1>9, <2>1, <2>3, <2>4 DEF Extract, Keeping, new, s
<1>10. CASE Compress(t) /\ UNCHANGED <<history, round, seen>>
  <2>1. PICK covered \in Summaries(h) :
          toSave' = [toSave EXCEPT ![t] =
            [StateAs("summary") EXCEPT !.covered = covered, !.messages = Remaining(h)]]
    BY <1>10 DEF Compress
  <2>2. using[t] = "summary" /\ NeedsCompression(h)
    BY <1>10 DEF Compress
  <2> DEFINE old == StateAs("summary")
             rest == Remaining(h)
             gone == TurnsIn(SubSeq(h, 1, ToCompress(h)))
             new == [old EXCEPT !.covered = covered, !.messages = rest]
  <2>3. /\ rest \in Seq(Messages) /\ EndOf(rest, h)
        /\ TurnsIn(h) = gone \cup TurnsIn(rest) /\ gone \subseteq Turns
        /\ h # <<>> => Len(rest) < Len(h)
    <3> HIDE DEF h
    <3> QED
      BY <1>1, <2>2, CompressionParts
  <2>4. old \in States /\ old.kind = "summary"
    BY <1>2, StateAsType DEF TypeInv
  <2>5. covered = old.covered \cup gone \/ covered = {}
    BY DEF Summaries
  <2>6. h = <<>> => TurnsIn(h) = {}
    BY DEF TurnsIn, ToSet
  <2>7. toSave' = [toSave EXCEPT ![t] = new]
    BY <2>1
  <2> HIDE DEF old, rest, gone
  <2>8. /\ new \in States /\ new.kind = "summary" /\ new.messages = rest
        /\ new.covered = covered
    BY <2>3, <2>4, <2>5 DEF States
  <2> HIDE DEF new
  <2>9. MadeOf(t, new)
    <3>1. ~Loses(t, new) => TurnsIn(h) \subseteq Known(new)
      BY <2>3, <2>5, <2>6, <2>8 DEF Loses, Known
    <3>2. CoversOnlyAsSummary(new)
      BY <2>8 DEF CoversOnlyAsSummary
    <3> QED
      BY <2>2, <2>3, <2>8, <3>1, <3>2 DEF MadeOf
  <2> QED
    BY <1>10, <2>7, <2>8, <2>9 DEF Compress, Keeping
<1>11. CASE CompressionFails(t) \/ WindowThrows(t)
  BY <1>11 DEF CompressionFails, WindowThrows
<1> QED
  BY <1>6, <1>7, <1>8, <1>9, <1>10, <1>11 DEF AfterResponse

(* What a migration saves is an end of what it read.                       *)
LEMMA InitialStateParts ==
    ASSUME TypeInv, setup.pc = "state"
    PROVE  LET s == InitialState(setup.target, setup.messages)
           IN  /\ s \in States /\ s.covered = {}
               /\ setup.messages \in Seq(Messages) /\ EndOf(s.messages, setup.messages)
<1> DEFINE p == setup.target
           ms == setup.messages
           kept == IF p.kind \in {"window", "facts"} THEN LastOf(ms, p.size) ELSE ms
           s == InitialState(p, ms)
<1>1. setup # NoSetup
  BY DEF NoSetup
<1>2. p \in Params /\ p.kind \in Kinds /\ ms \in Seq(Messages)
  BY <1>1, TurnAssumption DEF TypeInv, TypeOK, Params
<1>3. p.kind \in {"window", "facts"} => p.size \in Nat
  BY DEF TypeInv, CanMigrate
<1>4. kept \in Seq(Messages) /\ EndOf(kept, ms)
  <2> HIDE DEF p, ms
  <2>1. CASE p.kind \in {"window", "facts"}
    <3> DEFINE n == p.size
    <3>1. n \in Nat
      BY <1>3, <2>1
    <3> HIDE DEF n
    <3>2. LastOf(ms, n) \in Seq(Messages) /\ EndOf(LastOf(ms, n), ms)
      BY <1>2, <3>1, LastOfIsEnd
    <3> QED
      BY <2>1, <3>2 DEF n
  <2>2. CASE p.kind \notin {"window", "facts"}
    BY <1>2, <2>2, EndOfRefl
  <2> QED
    BY <2>1, <2>2
<1>5. EmptyState(p.kind) \in States /\ EmptyState(p.kind).covered = {}
  <2> DEFINE k == p.kind
  <2>1. k \in Kinds
    BY <1>2
  <2> HIDE DEF k
  <2>2. EmptyState(k) \in States /\ EmptyState(k).covered = {}
    BY <2>1, EmptyStateType
  <2> QED
    BY <2>2 DEF k
<1>6. s = [EmptyState(p.kind) EXCEPT !.messages = kept]
  BY DEF InitialState
<1> HIDE DEF p, ms, kept
<1>7. s \in States /\ s.covered = {} /\ s.messages = kept
  BY <1>4, <1>5, <1>6 DEF States
<1> QED
  BY <1>2, <1>4, <1>7 DEF p, ms

LEMMA OwnParts ==
    ASSUME TypeInv, NEW t \in Turns
    PROVE  /\ history[t] \in Seq(Messages) /\ Own(t) \in Seq(Messages)
           /\ Own(t) = Among(OwnOnes(t), history[t])
<1>1. history[t] \in Seq(Messages)
  BY DEF TypeInv, TypeOK
<1> QED
  BY <1>1, AmongType DEF Own, OwnOnes

LEMMA StepTyped ==
    ASSUME TypeInv, [Next]_vars
    PROVE  TypeInv'
<1> USE TurnAssumption
<1>1. ASSUME NEW t \in Turns, Begin(t) PROVE TypeInv'
  BY <1>1 DEF Begin, TypeInv, TypeOK, RoundsLeft, CanMigrate, Uncovered, CoversOnlyAsSummary
<1>2. ASSUME NEW t \in Turns, Read(t) PROVE TypeInv'
  <2>1. CASE BadWindow(using[t])
    <3>1. End({t}, "thrown")
      BY <1>2, <2>1 DEF Read
    <3>2. "thrown" \in Endings /\ {t} \in SUBSET Turns
      BY DEF Endings
    <3> QED
      BY <1>2, <3>1, <3>2, EndTyped DEF Read, TypeInv, TypeOK, CanMigrate, Uncovered
  <2>2. CASE ~BadWindow(using[t])
    <3>1. PICK lead \in Seq(Blocks), rest \in Seq(Messages) : Asks(t, lead, rest)
      BY <1>2, <2>2, ReadParts
    <3> DEFINE h == (lead \o rest) \o <<Prompt(t)>>
    <3>2. h \in Seq(Messages)
      <4>1. lead \in Seq(Messages) /\ Prompt(t) \in Messages
        BY PromptParts DEF Blocks
      <4>2. <<Prompt(t)>> \in Seq(Messages) /\ lead \o rest \in Seq(Messages)
        BY <4>1, ConcatProperties
      <4> QED
        BY <4>2, ConcatProperties
    <3>3. history' = [history EXCEPT ![t] = h]
      BY <3>1 DEF Asks
    <3> HIDE DEF h
    <3>4. StateAs(using[t]) \in States
      BY StateAsType DEF TypeInv, TypeOK
    <3>5. Known(StateAs(using[t])) \in SUBSET Turns
      <4> DEFINE s == StateAs(using[t])
      <4>1. s.messages \in Seq(Messages) /\ s.covered \in SUBSET Turns
        BY <3>4 DEF States
      <4>2. TurnsIn(s.messages) \subseteq Turns
        <5> DEFINE ms == s.messages
        <5>1. ms \in Seq(Messages)
          BY <4>1
        <5> HIDE DEF ms
        <5>2. TurnsIn(ms) \subseteq Turns
          BY <5>1, TurnsInType
        <5> QED
          BY <5>2 DEF ms
      <4> QED
        BY <4>1, <4>2 DEF Known
    <3>6. /\ pc' = [pc EXCEPT ![t] = "asking"]
          /\ seen' = [seen EXCEPT ![t] = Known(StateAs(using[t]))]
          /\ UNCHANGED <<round, toSave, calm, strategy, params, context, using, setup,
                         setups, log>>
      BY <1>2, <2>2 DEF Read
    <3>7. TypeOK'
      BY <3>2, <3>3, <3>5, <3>6 DEF TypeInv, TypeOK
    <3>8. RoundsLeft'
      BY <1>2, <3>6 DEF TypeInv, TypeOK, RoundsLeft, Read
    <3>9. CanMigrate' /\ Uncovered'
      BY <3>6 DEF TypeInv, CanMigrate, Uncovered, CoversOnlyAsSummary
    <3> QED
      BY <3>7, <3>8, <3>9 DEF TypeInv
  <2> QED
    BY <2>1, <2>2
<1>3. ASSUME NEW t \in Turns, Answer(t) \/ CallTools(t) PROVE TypeInv'
  <2>1. PICK added \in Seq(Messages) : Speaks(t, added)
    BY <1>3, AskingParts
  <2>2. history' \in [Turns -> Seq(Messages)]
    BY <2>1 DEF Speaks, TypeInv, TypeOK
  <2>3. /\ round' \in [Turns -> 0..MAX_TOOL_LOOPS] /\ RoundsLeft'
        /\ pc' \in [Turns -> {"new", "begun", "asking", "answered", "saving",
                              "done", "failed", "thrown", "stopped"}]
    <3>1. CASE Answer(t)
      BY <3>1 DEF Answer, TypeInv, TypeOK, RoundsLeft
    <3>2. CASE CallTools(t)
      <4>1. /\ pc' = [pc EXCEPT ![t] = IF LoopIsOver(t) THEN "answered" ELSE "asking"]
            /\ round' = [round EXCEPT ![t] = @ + 1]
            /\ pc[t] = "asking"
        BY <3>2 DEF CallTools
      <4>2. round[t] \in 0..MAX_TOOL_LOOPS /\ round[t] < MAX_TOOL_LOOPS
        BY <4>1 DEF TypeInv, TypeOK, RoundsLeft
      <4>3. LoopIsOver(t) \/ round[t] + 1 < MAX_TOOL_LOOPS
        BY <4>2 DEF LoopIsOver
      <4> QED
        BY <4>1, <4>2, <4>3 DEF TypeInv, TypeOK, RoundsLeft
    <3> QED
      BY <1>3, <3>1, <3>2
  <2>4. UNCHANGED <<calm, strategy, params, context, using, toSave, setup, setups, log, seen>>
    BY <1>3 DEF Answer, CallTools
  <2>5. CanMigrate' /\ Uncovered'
    BY <2>4 DEF TypeInv, CanMigrate, Uncovered, CoversOnlyAsSummary
  <2> QED
    BY <2>2, <2>3, <2>4, <2>5 DEF TypeInv, TypeOK
<1>4. ASSUME NEW t \in Turns, AfterResponse(t) PROVE TypeInv'
  <2>1. UNCHANGED <<calm, strategy, params, context, using, setup, setups, log>>
    BY <1>4 DEF AfterResponse
  <2>2. CASE End({t}, "thrown")
    <3>1. "thrown" \in Endings /\ {t} \in SUBSET Turns
      BY DEF Endings
    <3> QED
      BY <2>1, <2>2, <3>1, EndTyped DEF TypeInv, TypeOK, CanMigrate, Uncovered
  <2>3. CASE Keeping(t)
    <3>1. PICK s \in States : toSave' = [toSave EXCEPT ![t] = s] /\ MadeOf(t, s)
      BY <2>3 DEF Keeping
    <3>2. pc' = [pc EXCEPT ![t] = "saving"] /\ UNCHANGED <<history, round, seen>>
      BY <2>3 DEF Keeping
    <3>3. TypeOK' /\ RoundsLeft' /\ CanMigrate'
      BY <2>1, <3>1, <3>2 DEF TypeInv, TypeOK, RoundsLeft, CanMigrate
    <3>4. Uncovered'
      BY <2>1, <3>1 DEF TypeInv, TypeOK, Uncovered, MadeOf, CoversOnlyAsSummary
    <3> QED
      BY <3>3, <3>4 DEF TypeInv
  <2> QED
    BY <1>4, <2>2, <2>3, AfterParts
<1>5. ASSUME NEW t \in Turns, Save(t) PROVE TypeInv'
  <2>1. End({t}, "done") /\ "done" \in Endings /\ {t} \in SUBSET Turns
    BY <1>5 DEF Save, Endings
  <2>2. context' = toSave[t] /\ log' = log \o Own(t)
        /\ UNCHANGED <<calm, strategy, params, using, setup, setups>>
    BY <1>5 DEF Save
  <2>3. log' \in Seq(Messages)
    BY <2>2, OwnParts DEF TypeInv, TypeOK
  <2> QED
    BY <2>1, <2>2, <2>3, EndTyped
    DEF TypeInv, TypeOK, CanMigrate, Uncovered, CoversOnlyAsSummary
<1>6. ASSUME NEW t \in Turns, LlmFails(t) PROVE TypeInv'
  <2>1. End({t}, "failed") /\ "failed" \in Endings /\ {t} \in SUBSET Turns
    BY <1>6 DEF LlmFails, Endings
  <2> QED
    BY <1>6, <2>1, EndTyped DEF LlmFails, TypeInv, TypeOK, CanMigrate, Uncovered
<1>7. ASSUME NEW p \in Targets, Setup(p) PROVE TypeInv'
  <2>1. p \in Params /\ context.messages \in Seq(Messages)
    BY DEF TypeInv, TypeOK, States
  <2>2. <<>> \in Seq(Messages)
    OBVIOUS
  <2>3. /\ setup' \in [pc : {"agent", "params", "state"}, target : Targets,
                       migrate : BOOLEAN, messages : Seq(Messages)]
        /\ setup'.pc # "state"
    <3>1. CASE SameStrategy(p)
      BY <2>1, <2>2, <3>1 DEF SameStrategy
    <3>2. CASE OtherStrategy(p)
      BY <2>1, <3>2 DEF OtherStrategy
    <3> QED
      BY <1>7, <3>1, <3>2 DEF Setup
  <2>4. setups' \in Nat
    BY <1>7 DEF Setup, TypeInv, TypeOK
  <2> QED
    BY <1>7, <2>3, <2>4
    DEF Setup, TypeInv, TypeOK, RoundsLeft, CanMigrate, Uncovered, CoversOnlyAsSummary
<1>8. ASSUME UpdateAgent PROVE TypeInv'
  <2>1. setup # NoSetup
    BY <1>8 DEF UpdateAgent, NoSetup
  <2>2. setup.target \in Params
    BY <2>1 DEF TypeInv, TypeOK
  <2>3. strategy' \in Kinds
    BY <1>8, <2>2 DEF UpdateAgent, Params
  <2>4. /\ setup' \in [pc : {"agent", "params", "state"}, target : Targets,
                       migrate : BOOLEAN, messages : Seq(Messages)]
        /\ setup'.pc # "state"
    BY <1>8, <2>1 DEF UpdateAgent, TypeInv, TypeOK
  <2> QED
    BY <1>8, <2>3, <2>4
    DEF UpdateAgent, TypeInv, TypeOK, RoundsLeft, CanMigrate, Uncovered, CoversOnlyAsSummary
<1>9. ASSUME SaveParams PROVE TypeInv'
  <2>1. setup # NoSetup
    BY <1>9 DEF SaveParams, NoSetup
  <2>2. setup.target \in Params
    BY <2>1 DEF TypeInv, TypeOK
  <2>3. /\ setup' \in {NoSetup} \cup
             [pc : {"agent", "params", "state"}, target : Targets,
              migrate : BOOLEAN, messages : Seq(Messages)]
        /\ setup'.pc = "state" =>
             /\ setup'.target = setup.target
             /\ ~(setup.target.kind \in {"window", "facts"} /\ setup.target.size < 0)
    BY <1>9, <2>1 DEF SaveParams, TypeInv, TypeOK, NoSetup
  <2>4. CanMigrate'
    BY <2>2, <2>3 DEF CanMigrate, Params
  <2> QED
    BY <1>9, <2>2, <2>3, <2>4
    DEF SaveParams, TypeInv, TypeOK, RoundsLeft, Uncovered, CoversOnlyAsSummary
<1>10. ASSUME SaveState PROVE TypeInv'
  <2>1. context' \in States /\ context'.covered = {}
    BY <1>10, InitialStateParts DEF SaveState
  <2>2. setup' = NoSetup
    BY <1>10 DEF SaveState
  <2>3. TypeOK' /\ RoundsLeft' /\ CanMigrate'
    BY <1>10, <2>1, <2>2 DEF SaveState, TypeInv, TypeOK, RoundsLeft, CanMigrate, NoSetup
  <2>4. Uncovered'
    BY <1>10, <2>1 DEF SaveState, TypeInv, Uncovered, CoversOnlyAsSummary
  <2> QED
    BY <2>3, <2>4 DEF TypeInv
<1>11. ASSUME Stop PROVE TypeInv'
  <2>1. End(Running, "stopped") /\ "stopped" \in Endings /\ Running \in SUBSET Turns
    BY <1>11 DEF Stop, Endings, Running
  <2>2. setup' = NoSetup /\ UNCHANGED <<calm, strategy, params, context, using, setups, log>>
    BY <1>11 DEF Stop
  <2> QED
    BY <2>1, <2>2, EndTyped DEF TypeInv, TypeOK, CanMigrate, NoSetup, Uncovered
<1>12. CASE UNCHANGED vars
  BY <1>12
  DEF vars, TypeInv, TypeOK, RoundsLeft, CanMigrate, Uncovered, CoversOnlyAsSummary
<1> QED
  BY <1>1, <1>2, <1>3, <1>4, <1>5, <1>6, <1>7, <1>8, <1>9, <1>10, <1>11, <1>12
  DEF Next, Work

(* Everything an agent's turns and commands write has its type.            *)
THEOREM TurnTypeCorrect == Spec => []TypeInv
BY InitTyped, StepTyped, PTL DEF Spec

-----------------------------------------------------------------------------
(* RequestPaired.  What is spoken, wherever it is kept, is linked, and a   *)
(* turn that asks has at least its prompt.                                 *)
AllLinked ==
    /\ Linked(Spoken(context.messages))
    /\ \A t \in Turns : Linked(Spoken(history[t])) /\ Linked(Spoken(toSave[t].messages))
    /\ setup # NoSetup => Linked(Spoken(setup.messages))

Asked ==
    \A t \in Turns : pc[t] = "asking" =>
      \E i \in 1..Len(Spoken(history[t])) : Spoken(history[t])[i].role # "tool"

PairedInv == AllLinked /\ Asked

LEMMA SpokenType ==
    ASSUME NEW s \in Seq(Messages) PROVE Spoken(s) \in Seq(Messages)
  BY AmongType DEF Spoken

LEMMA SpokenEmpty == Spoken(<<>>) = <<>> /\ Linked(Spoken(<<>>))
  BY AmongEmpty, LinkedEmpty DEF Spoken

LEMMA SpokenEnd ==
    ASSUME NEW s \in Seq(Messages), NEW t \in Seq(Messages), EndOf(s, t)
    PROVE  EndOf(Spoken(s), Spoken(t)) /\ (Linked(Spoken(t)) => Linked(Spoken(s)))
<1> DEFINE a == Spoken(s)
           b == Spoken(t)
<1>1. a \in Seq(Messages) /\ b \in Seq(Messages)
  BY SpokenType
<1>2. EndOf(a, b)
  BY EndOfAmong DEF Spoken
<1> HIDE DEF a, b
<1>3. Linked(b) => Linked(a)
  BY <1>1, <1>2, LinkedEnd
<1> QED
  BY <1>2, <1>3 DEF a, b

LEMMA SpokenSaid ==
    ASSUME NEW t \in Turns, NEW h \in Seq(Messages),
           NEW added \in Seq(Messages), added \in Seq(Says(t))
    PROVE  Spoken(h \o added) = Spoken(h) \o added
<1>1. added \in Seq(SpokenOnes)
  BY DEF Says
<1>2. Among(SpokenOnes, added) = added
  BY <1>1, AmongAll
<1>3. Among(SpokenOnes, h \o added) = Among(SpokenOnes, h) \o Among(SpokenOnes, added)
  BY AmongConcat
<1> QED
  BY <1>2, <1>3 DEF Spoken, SpokenOnes

LEMMA SpokenRequest ==
    ASSUME NEW t \in Turns, NEW lead \in Seq(Blocks), NEW rest \in Seq(Messages)
    PROVE  /\ (lead \o rest) \o <<Prompt(t)>> \in Seq(Messages)
           /\ Spoken((lead \o rest) \o <<Prompt(t)>>) = Spoken(rest) \o <<Prompt(t)>>
<1> DEFINE h == lead \o rest
           added == <<Prompt(t)>>
<1>1. lead \in Seq(Messages) /\ Blocks \cap SpokenOnes = {}
  BY DEF Blocks, SpokenOnes
<1>2. Among(SpokenOnes, lead) = <<>>
  BY <1>1, AmongNone
<1>3. Among(SpokenOnes, h) = Among(SpokenOnes, lead) \o Among(SpokenOnes, rest)
  BY <1>1, AmongConcat
<1>4. Among(SpokenOnes, rest) \in Seq(Messages)
  BY AmongType
<1>5. Spoken(h) = Spoken(rest)
  <2>1. <<>> \o Among(SpokenOnes, rest) = Among(SpokenOnes, rest)
    BY <1>4, ConcatEmptySeq
  <2>2. Among(SpokenOnes, h) = Among(SpokenOnes, rest)
    BY <1>2, <1>3, <2>1
  <2> HIDE DEF h
  <2> QED
    BY <2>2 DEF Spoken, SpokenOnes
<1>6. h \in Seq(Messages)
  BY <1>1, ConcatProperties
<1>7. added \in Seq(Messages) /\ added \in Seq(Says(t))
  BY PromptParts
<1> HIDE DEF h, added
<1>8. h \o added \in Seq(Messages) /\ Spoken(h \o added) = Spoken(h) \o added
  BY <1>6, <1>7, SpokenSaid, ConcatProperties
<1> QED
  BY <1>5, <1>8 DEF h, added

LEMMA InitPaired == Init => PairedInv
  BY SpokenEmpty DEF Init, PairedInv, AllLinked, Asked, EmptyState

(* Ending turns leaves nothing in their hands.                             *)
LEMMA EndPaired ==
    ASSUME TypeInv, PairedInv, NEW T \in SUBSET Turns, NEW how \in Endings, End(T, how)
    PROVE  /\ \A t \in Turns : Linked(Spoken(history'[t])) /\ Linked(Spoken(toSave'[t].messages))
           /\ Asked'
<1>1. /\ history' = [t \in Turns |-> IF t \in T THEN <<>> ELSE history[t]]
      /\ toSave' = [t \in Turns |-> IF t \in T THEN EmptyState("full") ELSE toSave[t]]
      /\ pc' = [t \in Turns |-> IF t \in T THEN how ELSE pc[t]]
  BY DEF End
<1>2. EmptyState("full").messages = <<>> /\ how # "asking"
  BY DEF EmptyState, Endings
<1>3. \A t \in Turns : Linked(Spoken(history'[t]))
  BY <1>1, SpokenEmpty DEF PairedInv, AllLinked
<1>4. \A t \in Turns : Linked(Spoken(toSave'[t].messages))
  BY <1>1, <1>2, SpokenEmpty DEF PairedInv, AllLinked
<1>5. Asked'
  BY <1>1, <1>2 DEF PairedInv, Asked
<1> QED
  BY <1>3, <1>4, <1>5

LEMMA StepPaired ==
    ASSUME TypeInv, PairedInv, [Next]_vars
    PROVE  PairedInv'
<1>1. ASSUME NEW T \in SUBSET Turns, NEW how \in Endings, End(T, how),
             Linked(Spoken(context'.messages)), setup' = setup \/ setup' = NoSetup
      PROVE  PairedInv'
  BY <1>1, EndPaired DEF PairedInv, AllLinked
<1>2. \A t \in Turns : {t} \in SUBSET Turns /\ Running \in SUBSET Turns
  BY DEF Running
<1>3. "done" \in Endings /\ "failed" \in Endings /\ "thrown" \in Endings /\ "stopped" \in Endings
  BY DEF Endings
<1>4. ASSUME NEW t \in Turns, Begin(t) PROVE PairedInv'
  BY <1>4 DEF Begin, PairedInv, AllLinked, Asked, TypeInv, TypeOK
<1>5. ASSUME NEW t \in Turns, Read(t) PROVE PairedInv'
  <2>1. CASE BadWindow(using[t])
    <3>1. End({t}, "thrown") /\ context' = context /\ setup' = setup
      BY <1>5, <2>1 DEF Read
    <3>2. Linked(Spoken(context'.messages))
      BY <3>1 DEF PairedInv, AllLinked
    <3> QED
      BY <1>1, <1>2, <1>3, <3>1, <3>2
  <2>2. CASE ~BadWindow(using[t])
    <3>1. PICK lead \in Seq(Blocks), rest \in Seq(Messages) : Asks(t, lead, rest)
      BY <1>5, <2>2, ReadParts
    <3> DEFINE h == (lead \o rest) \o <<Prompt(t)>>
               spoken == Spoken(h)
               kept == Spoken(rest)
               c == context.messages
               m == Prompt(t)
    <3>2. spoken = kept \o <<m>>
      BY SpokenRequest
    <3>3. c \in Seq(Messages) /\ EndOf(rest, c) /\ Linked(Spoken(c))
      BY <3>1 DEF Asks, TypeInv, TypeOK, States, PairedInv, AllLinked
    <3>4. history' = [history EXCEPT ![t] = h]
      BY <3>1 DEF Asks
    <3>5. m \in Messages /\ m.role = "user"
      BY PromptParts
    <3> HIDE DEF c, h
    <3>6. kept \in Seq(Messages) /\ Linked(kept)
      BY <3>3, SpokenEnd, SpokenType
    <3> HIDE DEF kept, m
    <3>7. Linked(<<m>>) /\ <<m>> \in Seq(Messages) /\ <<m>>[1].role # "tool"
      BY <3>5, LinkedOne
    <3>8. Linked(spoken)
      <4> DEFINE b == <<m>>
      <4>1. b \in Seq(Messages) /\ Linked(b) /\ b[1].role # "tool"
        BY <3>7
      <4> HIDE DEF b
      <4>2. Linked(kept \o b)
        BY <3>6, <4>1, LinkedConcat
      <4> QED
        BY <3>2, <4>2 DEF b
    <3>9. \E i \in 1..Len(spoken) : spoken[i].role # "tool"
      <4>1. Len(spoken) = Len(kept) + 1 /\ spoken[Len(kept) + 1] = m /\ Len(kept) \in Nat
        BY <3>2, <3>5, <3>6
      <4> QED
        BY <3>5, <4>1
    <3>10. pc' = [pc EXCEPT ![t] = "asking"] /\ UNCHANGED <<context, setup, toSave>>
      BY <1>5, <2>2 DEF Read
    <3> HIDE DEF spoken
    <3>11. \A u \in Turns : Linked(Spoken(history'[u]))
      BY <3>4, <3>8 DEF PairedInv, AllLinked, TypeInv, TypeOK, spoken
    <3>12. Asked'
      BY <3>4, <3>9, <3>10 DEF PairedInv, Asked, TypeInv, TypeOK, spoken
    <3> QED
      BY <3>10, <3>11, <3>12 DEF PairedInv, AllLinked
  <2> QED
    BY <2>1, <2>2
<1>6. ASSUME NEW t \in Turns, Answer(t) \/ CallTools(t) PROVE PairedInv'
  <2>1. PICK added \in Seq(Messages) : Speaks(t, added)
    BY <1>6, AskingParts
  <2> DEFINE h == history[t]
             new == h \o added
             spoken == Spoken(new)
             before == Spoken(h)
  <2>2. h \in Seq(Messages) /\ Linked(before)
    BY DEF TypeInv, TypeOK, PairedInv, AllLinked
  <2>3. /\ added \in Seq(Says(t)) /\ Linked(added) /\ (added # <<>> => added[1].role # "tool")
        /\ history' = [history EXCEPT ![t] = new]
    BY <2>1 DEF Speaks
  <2>4. pc[t] = "asking" /\ \E i \in 1..Len(before) : before[i].role # "tool"
    BY <1>6 DEF Answer, CallTools, PairedInv, Asked
  <2> HIDE DEF h
  <2>5. before \in Seq(Messages) /\ spoken = before \o added
    BY <2>2, <2>3, SpokenType, SpokenSaid
  <2> HIDE DEF before
  <2>6. Linked(spoken)
    BY <2>2, <2>3, <2>5, LinkedConcat
  <2>7. \E i \in 1..Len(spoken) : spoken[i].role # "tool"
    <3>1. PICK i \in 1..Len(before) : before[i].role # "tool"
      BY <2>4
    <3>2. i \in 1..Len(spoken) /\ spoken[i] = before[i]
      BY <2>5
    <3> QED
      BY <3>1, <3>2
  <2>8. UNCHANGED <<context, setup, toSave>> /\ \A u \in Turns \ {t} : pc'[u] = pc[u]
    BY <1>6 DEF Answer, CallTools, TypeInv, TypeOK
  <2> HIDE DEF spoken, new
  <2>9. \A u \in Turns : Linked(Spoken(history'[u]))
    BY <2>3, <2>6 DEF PairedInv, AllLinked, TypeInv, TypeOK, spoken
  <2>10. Asked'
    BY <2>3, <2>7, <2>8 DEF PairedInv, Asked, TypeInv, TypeOK, spoken
  <2> QED
    BY <2>8, <2>9, <2>10 DEF PairedInv, AllLinked
<1>7. ASSUME NEW t \in Turns, AfterResponse(t) PROVE PairedInv'
  <2>1. context' = context /\ setup' = setup
    BY <1>7 DEF AfterResponse
  <2>2. CASE End({t}, "thrown")
    <3>1. Linked(Spoken(context'.messages))
      BY <2>1 DEF PairedInv, AllLinked
    <3> QED
      BY <1>1, <1>2, <1>3, <2>1, <2>2, <3>1
  <2>3. CASE Keeping(t)
    <3>1. PICK s \in States : toSave' = [toSave EXCEPT ![t] = s] /\ MadeOf(t, s)
      BY <2>3 DEF Keeping
    <3>2. pc' = [pc EXCEPT ![t] = "saving"] /\ history' = history
      BY <2>3 DEF Keeping
    <3> DEFINE h == history[t]
               ms == s.messages
    <3>3. /\ h \in Seq(Messages) /\ ms \in Seq(Messages) /\ EndOf(ms, h)
          /\ Linked(Spoken(h))
      BY <3>1 DEF MadeOf, States, TypeInv, TypeOK, PairedInv, AllLinked
    <3> HIDE DEF h, ms
    <3>4. Linked(Spoken(ms))
      BY <3>3, SpokenEnd
    <3>5. \A u \in Turns : Linked(Spoken(toSave'[u].messages))
      BY <3>1, <3>4 DEF PairedInv, AllLinked, TypeInv, TypeOK, ms
    <3>6. Asked'
      BY <3>2 DEF PairedInv, Asked, TypeInv, TypeOK
    <3> QED
      BY <2>1, <3>2, <3>5, <3>6 DEF PairedInv, AllLinked
  <2> QED
    BY <1>7, <2>2, <2>3, AfterParts
<1>8. ASSUME NEW t \in Turns, Save(t) PROVE PairedInv'
  <2>1. End({t}, "done") /\ context' = toSave[t] /\ setup' = setup
    BY <1>8 DEF Save
  <2>2. Linked(Spoken(context'.messages))
    BY <2>1 DEF PairedInv, AllLinked
  <2> QED
    BY <1>1, <1>2, <1>3, <2>1, <2>2
<1>9. ASSUME NEW t \in Turns, LlmFails(t) PROVE PairedInv'
  <2>1. End({t}, "failed") /\ context' = context /\ setup' = setup
    BY <1>9 DEF LlmFails
  <2>2. Linked(Spoken(context'.messages))
    BY <2>1 DEF PairedInv, AllLinked
  <2> QED
    BY <1>1, <1>2, <1>3, <2>1, <2>2
<1>10. ASSUME NEW p \in Targets, Setup(p) PROVE PairedInv'
  <2>1. setup'.messages = <<>> \/ setup'.messages = context.messages
    BY <1>10 DEF Setup, SameStrategy, OtherStrategy
  <2>2. UNCHANGED <<context, history, toSave, pc>>
    BY <1>10 DEF Setup
  <2> QED
    BY <2>1, <2>2, SpokenEmpty DEF PairedInv, AllLinked, Asked
<1>11. ASSUME UpdateAgent \/ SaveParams PROVE PairedInv'
  <2>1. setup # NoSetup
    BY <1>11 DEF UpdateAgent, SaveParams, NoSetup
  <2>2. setup' = NoSetup \/ setup'.messages = setup.messages
    BY <1>11, <2>1 DEF UpdateAgent, SaveParams, TypeInv, TypeOK
  <2>3. UNCHANGED <<context, history, toSave, pc>>
    BY <1>11 DEF UpdateAgent, SaveParams
  <2> QED
    BY <2>1, <2>2, <2>3 DEF PairedInv, AllLinked, Asked
<1>12. ASSUME SaveState PROVE PairedInv'
  <2>1. setup.pc = "state" /\ context' = InitialState(setup.target, setup.messages)
    BY <1>12 DEF SaveState
  <2>2. setup # NoSetup
    BY <2>1 DEF NoSetup
  <2> DEFINE ms == setup.messages
             new == context'.messages
  <2>3. new \in Seq(Messages) /\ ms \in Seq(Messages) /\ EndOf(new, ms)
    BY <2>1, InitialStateParts DEF States
  <2>4. Linked(Spoken(ms))
    BY <2>2 DEF PairedInv, AllLinked
  <2> HIDE DEF ms, new
  <2>5. Linked(Spoken(new))
    BY <2>3, <2>4, SpokenEnd
  <2>6. setup' = NoSetup /\ UNCHANGED <<history, toSave, pc>>
    BY <1>12 DEF SaveState
  <2> QED
    BY <2>5, <2>6 DEF PairedInv, AllLinked, Asked, new
<1>13. ASSUME Stop PROVE PairedInv'
  <2>1. End(Running, "stopped") /\ context' = context /\ setup' = NoSetup
    BY <1>13 DEF Stop
  <2>2. Linked(Spoken(context'.messages)) /\ Running \in SUBSET Turns
    BY <2>1 DEF PairedInv, AllLinked, Running
  <2> QED
    BY <1>1, <1>3, <2>1, <2>2
<1>14. CASE UNCHANGED vars
  BY <1>14 DEF vars, PairedInv, AllLinked, Asked
<1> QED
  BY <1>4, <1>5, <1>6, <1>7, <1>8, <1>9, <1>10, <1>11, <1>12, <1>13, <1>14
  DEF Next, Work

(* Every request respects the protocol of tool calls, however turns and    *)
(* changes of strategy overlap.                                            *)
THEOREM RequestsPaired == Spec => []RequestPaired
<1>1. ASSUME TypeInv, PairedInv PROVE RequestPaired
  <2> SUFFICES ASSUME NEW t \in Turns, pc[t] = "asking"
               PROVE  Paired(FromFirst(Spoken(history[t])))
    BY DEF RequestPaired
  <2> DEFINE s == Spoken(history[t])
  <2>1. s \in Seq(Messages) /\ Linked(s)
    BY <1>1, SpokenType DEF TypeInv, TypeOK, PairedInv, AllLinked
  <2>2. PICK p \in 1..Len(s) : s[p].role # "tool"
    BY <1>1 DEF PairedInv, Asked
  <2> HIDE DEF s
  <2>3. Paired(FromFirst(s))
    BY <2>1, <2>2, LinkedIsPaired
  <2> QED
    BY <2>3 DEF s
<1> QED
  BY <1>1, InitTyped, StepTyped, InitPaired, StepPaired, PTL DEF Spec

-----------------------------------------------------------------------------
(* HistoryIsTail.  One after another, there is at most one turn, or a      *)
(* command; what a turn says is found nowhere but with it until it is      *)
(* saved; and what is kept, wherever it is kept, is an end of what was     *)
(* saved and of what the turn itself adds to it.                           *)
Alone ==
    calm => /\ \A t, u \in Running : t = u
            /\ Running # {} => setup = NoSetup

Without(t, ms) == Among(OwnOnes(t), ms) = <<>>

Attributed ==
    \A t \in Turns : pc[t] # "done" =>
      /\ Without(t, context.messages)
      /\ setup # NoSetup => Without(t, setup.messages)
      /\ \A u \in Turns : u # t =>
           Without(t, history[u]) /\ Without(t, toSave[u].messages)

Reading == {t \in Turns : pc[t] \in {"asking", "answered", "saving"}}

EndsOfLog ==
    calm =>
      /\ EndOf(Spoken(context.messages), log)
      /\ setup # NoSetup => EndOf(Spoken(setup.messages), log)
      /\ \A t \in Reading : EndOf(Spoken(history[t]), log \o Own(t))
      /\ \A t \in Reading : pc[t] = "saving" =>
           EndOf(Spoken(toSave[t].messages), log \o Own(t))

TailInv == Alone /\ Attributed /\ EndsOfLog

LEMMA WithoutEmpty == \A t : Without(t, <<>>)
  BY AmongEmpty DEF Without

LEMMA WithoutEnd ==
    ASSUME NEW t, NEW r \in Seq(Messages), NEW s \in Seq(Messages), EndOf(r, s),
           Without(t, s)
    PROVE  Without(t, r)
<1> DEFINE a == Among(OwnOnes(t), r)
<1>1. a \in Seq(Messages)
  BY AmongType
<1>2. EndOf(a, <<>>)
  BY EndOfAmong DEF Without
<1> HIDE DEF a
<1>3. PICK u \in Seq(Messages) : <<>> = u \o a
  BY <1>2 DEF EndOf
<1>4. u \o a = <<>>
  BY <1>3
<1>5. a = <<>>
  BY <1>1, <1>4, ConcatEqualIffEmpty
<1> QED
  BY <1>5 DEF Without, a

(* What another turn says changes nothing, what the turn says is all its.  *)
LEMMA WithoutSaid ==
    ASSUME NEW t \in Turns, NEW u \in Turns, u # t, NEW h \in Seq(Messages),
           NEW added \in Seq(Messages), added \in Seq(Says(u)), Without(t, h)
    PROVE  Without(t, h \o added)
<1>1. Says(u) \cap OwnOnes(t) = {}
  BY DEF Says, OwnOnes
<1>2. Among(OwnOnes(t), added) = <<>>
  BY <1>1, AmongNone
<1>3. Among(OwnOnes(t), h \o added) = Among(OwnOnes(t), h) \o Among(OwnOnes(t), added)
  BY AmongConcat
<1>4. Among(OwnOnes(t), h \o added) = <<>> \o <<>>
  BY <1>2, <1>3 DEF Without
<1>5. <<>> \o <<>> = <<>>
  OBVIOUS
<1> QED
  BY <1>4, <1>5 DEF Without

LEMMA OwnSaid ==
    ASSUME NEW t \in Turns, NEW h \in Seq(Messages),
           NEW added \in Seq(Messages), added \in Seq(Says(t))
    PROVE  Among(OwnOnes(t), h \o added) = Among(OwnOnes(t), h) \o added
<1>1. added \in Seq(OwnOnes(t))
  BY DEF Says
<1>2. Among(OwnOnes(t), added) = added
  BY <1>1, AmongAll
<1>3. Among(OwnOnes(t), h \o added) = Among(OwnOnes(t), h) \o Among(OwnOnes(t), added)
  BY AmongConcat
<1> QED
  BY <1>2, <1>3

(* A block is nobody's.                                                    *)
LEMMA WithoutBlocks ==
    ASSUME NEW t \in Turns, NEW lead \in Seq(Blocks), NEW rest \in Seq(Messages),
           Without(t, rest)
    PROVE  lead \o rest \in Seq(Messages) /\ Without(t, lead \o rest)
<1>1. lead \in Seq(Messages)
  BY DEF Blocks
<1>2. Blocks \cap OwnOnes(t) = {}
  BY DEF Blocks, OwnOnes
<1>3. Among(OwnOnes(t), lead) = <<>>
  BY <1>2, AmongNone
<1>4. Among(OwnOnes(t), lead \o rest) = Among(OwnOnes(t), lead) \o Among(OwnOnes(t), rest)
  BY <1>1, AmongConcat
<1>5. Among(OwnOnes(t), lead \o rest) = <<>> \o <<>>
  BY <1>3, <1>4 DEF Without
<1>6. <<>> \o <<>> = <<>>
  OBVIOUS
<1>7. lead \o rest \in Seq(Messages)
  BY <1>1, ConcatProperties
<1> QED
  BY <1>5, <1>6, <1>7 DEF Without

LEMMA InitTail == Init => TailInv
<1> SUFFICES ASSUME Init PROVE TailInv
  OBVIOUS
<1>1. context.messages = <<>> /\ log = <<>> /\ setup = NoSetup /\ Running = {} /\ Reading = {}
  BY DEF Init, EmptyState, Running, Reading
<1>2. \A t \in Turns : history[t] = <<>> /\ toSave[t].messages = <<>>
  BY DEF Init, EmptyState
<1>3. EndOf(Spoken(context.messages), log)
  <2>1. <<>> \in Seq(Messages)
    OBVIOUS
  <2> QED
    BY <1>1, <2>1, SpokenEmpty, EndOfRefl
<1>4. Alone /\ EndsOfLog
  BY <1>1, <1>3 DEF Alone, EndsOfLog
<1>5. Attributed
  BY <1>1, <1>2, WithoutEmpty DEF Attributed
<1> QED
  BY <1>4, <1>5 DEF TailInv

(* Ending turns takes what they said with them.                            *)
LEMMA EndAttributed ==
    ASSUME TypeInv, TailInv, NEW T \in SUBSET Running, NEW how \in Endings, End(T, how),
           setup' = setup \/ setup' = NoSetup,
           \A t \in Turns : pc'[t] # "done" => Without(t, context'.messages)
    PROVE  Attributed'
<1>1. /\ history' = [t \in Turns |-> IF t \in T THEN <<>> ELSE history[t]]
      /\ toSave' = [t \in Turns |-> IF t \in T THEN EmptyState("full") ELSE toSave[t]]
      /\ pc' = [t \in Turns |-> IF t \in T THEN how ELSE pc[t]]
  BY DEF End
<1>2. EmptyState("full").messages = <<>>
  BY DEF EmptyState
<1>3. \A t \in Turns : pc'[t] # "done" => pc[t] # "done"
  BY <1>1 DEF Running
<1> SUFFICES ASSUME NEW t \in Turns, pc'[t] # "done"
             PROVE  /\ setup' # NoSetup => Without(t, setup'.messages)
                    /\ \A u \in Turns : u # t =>
                         Without(t, history'[u]) /\ Without(t, toSave'[u].messages)
  BY DEF Attributed, Without
<1>4. setup' # NoSetup => Without(t, setup'.messages)
  BY <1>3 DEF TailInv, Attributed
<1>5. ASSUME NEW u \in Turns, u # t
      PROVE  Without(t, history'[u]) /\ Without(t, toSave'[u].messages)
  BY <1>1, <1>2, <1>3, <1>5, WithoutEmpty DEF TailInv, Attributed
<1> QED
  BY <1>4, <1>5

LEMMA EndTail ==
    ASSUME TypeInv, TailInv, NEW T \in SUBSET Running, NEW how \in Endings, End(T, how),
           setup' = setup \/ setup' = NoSetup, UNCHANGED <<calm, context, log>>
    PROVE  TailInv'
<1>1. /\ history' = [t \in Turns |-> IF t \in T THEN <<>> ELSE history[t]]
      /\ toSave' = [t \in Turns |-> IF t \in T THEN EmptyState("full") ELSE toSave[t]]
      /\ pc' = [t \in Turns |-> IF t \in T THEN how ELSE pc[t]]
  BY DEF End
<1>2. Running' \subseteq Running /\ \A t \in Reading' : t \in Reading /\ t \notin T
  BY <1>1 DEF Running, Reading, Endings
<1>3. Alone'
  BY <1>2 DEF TailInv, Alone
<1>4. \A t \in Turns : pc'[t] # "done" => Without(t, context'.messages)
  BY <1>1 DEF Running, TailInv, Attributed
<1>5. Attributed'
  BY <1>4, EndAttributed
<1>6. \A t \in Reading' : /\ history'[t] = history[t] /\ toSave'[t] = toSave[t]
                         /\ pc'[t] = pc[t] /\ Own(t)' = Own(t)
  BY <1>1, <1>2 DEF Reading, Own
<1>7. EndsOfLog'
  BY <1>2, <1>6 DEF TailInv, EndsOfLog
<1> QED
  BY <1>3, <1>5, <1>7 DEF TailInv

LEMMA ReadTail ==
    ASSUME TypeInv, TailInv, NEW t \in Turns, Read(t), ~BadWindow(using[t])
    PROVE  TailInv'
<1>1. PICK lead \in Seq(Blocks), rest \in Seq(Messages) : Asks(t, lead, rest)
  BY ReadParts
<1> DEFINE before == lead \o rest
           added == <<Prompt(t)>>
           new == before \o added
           c == context.messages
<1>2. /\ history' = [history EXCEPT ![t] = new]
      /\ EndOf(rest, c) /\ c \in Seq(Messages)
  BY <1>1 DEF Asks, TypeInv, TypeOK, States
<1>3. /\ pc[t] = "begun" /\ pc' = [pc EXCEPT ![t] = "asking"]
      /\ UNCHANGED <<context, setup, toSave, log, calm>>
  BY DEF Read
<1>4. added \in Seq(Messages) /\ added \in Seq(Says(t))
  BY PromptParts
<1>5. new \in Seq(Messages) /\ Spoken(new) = Spoken(rest) \o added
  BY SpokenRequest
<1> HIDE DEF c, added
<1>6. before \in Seq(Messages)
  <2>1. lead \in Seq(Messages)
    BY DEF Blocks
  <2> QED
    BY <2>1, ConcatProperties
<1>7. ASSUME NEW u \in Turns, pc[u] # "done" PROVE Without(u, before)
  <2>1. Without(u, c)
    BY <1>7 DEF TailInv, Attributed, c
  <2>2. Without(u, rest)
    BY <1>2, <2>1, WithoutEnd
  <2> QED
    BY <2>2, WithoutBlocks
<1> HIDE DEF before
<1>8. ASSUME NEW u \in Turns, u # t, pc[u] # "done" PROVE Without(u, new)
  BY <1>4, <1>6, <1>7, <1>8, WithoutSaid
<1>9. Own(t)' = added
  <2>1. Among(OwnOnes(t), new) = Among(OwnOnes(t), before) \o added
    BY <1>4, <1>6, OwnSaid
  <2>2. Among(OwnOnes(t), before) = <<>>
    BY <1>3, <1>7 DEF Without
  <2>3. <<>> \o added = added
    BY <1>4, ConcatEmptySeq
  <2>4. history'[t] = new
    BY <1>2 DEF TypeInv, TypeOK
  <2> QED
    BY <2>1, <2>2, <2>3, <2>4 DEF Own, OwnOnes
<1>10. Running' = Running /\ t \in Running
  BY <1>3 DEF Running, TypeInv, TypeOK
<1>11. Alone'
  BY <1>3, <1>10 DEF TailInv, Alone
<1>12. Attributed'
  <2> SUFFICES ASSUME NEW u \in Turns, pc'[u] # "done"
               PROVE  /\ Without(u, context'.messages)
                      /\ setup' # NoSetup => Without(u, setup'.messages)
                      /\ \A v \in Turns : v # u =>
                           Without(u, history'[v]) /\ Without(u, toSave'[v].messages)
    BY DEF Attributed, Without
  <2>1. pc[u] # "done"
    BY <1>3 DEF TypeInv, TypeOK
  <2>2. \A v \in Turns : v # u => Without(u, history'[v])
    <3> HIDE DEF new
    <3> QED
      BY <1>2, <1>8, <2>1 DEF TypeInv, TypeOK, TailInv, Attributed
  <2> QED
    BY <1>3, <2>1, <2>2 DEF TailInv, Attributed
<1>13. EndsOfLog'
  <2> SUFFICES ASSUME calm PROVE EndsOfLog'
    BY <1>3 DEF EndsOfLog
  <2>1. \A u \in Reading' : u = t
    BY <1>3, <1>10 DEF TailInv, Alone, Reading, Running, TypeInv, TypeOK
  <2> DEFINE a == Spoken(rest)
             b == Spoken(c)
  <2>2. a \in Seq(Messages) /\ b \in Seq(Messages) /\ log \in Seq(Messages)
    BY <1>2, SpokenType DEF TypeInv, TypeOK
  <2>3. EndOf(a, b) /\ EndOf(b, log)
    BY <1>2, SpokenEnd DEF TailInv, EndsOfLog, c
  <2> HIDE DEF a, b
  <2>4. EndOf(a, log)
    BY <2>2, <2>3, EndOfTrans
  <2>5. EndOf(a \o added, log \o added)
    BY <1>4, <2>2, <2>4, EndOfConcat
  <2>6. EndOf(Spoken(history[t]'), log' \o Own(t)')
    <3>1. history'[t] = new
      BY <1>2 DEF TypeInv, TypeOK
    <3>2. log' \o Own(t)' = log \o added
      BY <1>3, <1>9
    <3>3. Spoken(history[t]') = a \o added
      BY <1>5, <3>1 DEF a
    <3> QED
      BY <2>5, <3>2, <3>3
  <2>7. pc'[t] # "saving"
    BY <1>3 DEF TypeInv, TypeOK
  <2> QED
    BY <1>3, <2>1, <2>6, <2>7 DEF TailInv, EndsOfLog
<1> QED
  BY <1>11, <1>12, <1>13 DEF TailInv

LEMMA SpeakTail ==
    ASSUME TypeInv, TailInv, NEW t \in Turns, Answer(t) \/ CallTools(t)
    PROVE  TailInv'
<1>1. PICK added \in Seq(Messages) : Speaks(t, added)
  BY AskingParts
<1> DEFINE h == history[t]
           new == h \o added
<1>2. /\ history' = [history EXCEPT ![t] = new]
      /\ added \in Seq(Says(t)) /\ h \in Seq(Messages)
  BY <1>1 DEF Speaks, TypeInv, TypeOK
<1>3. /\ pc[t] = "asking"
      /\ pc'[t] \in {"asking", "answered"} /\ \A u \in Turns : u # t => pc'[u] = pc[u]
      /\ UNCHANGED <<context, setup, toSave, log, calm>>
  BY DEF Answer, CallTools, TypeInv, TypeOK
<1>4. history'[t] = new /\ \A u \in Turns : u # t => history'[u] = history[u]
  BY <1>2 DEF TypeInv, TypeOK
<1>5. Running' = Running /\ Reading' = Reading /\ t \in Running
  BY <1>3 DEF Running, Reading
<1>6. Alone'
  BY <1>3, <1>5 DEF TailInv, Alone
<1>7. ASSUME NEW u \in Turns, u # t, pc[u] # "done" PROVE Without(u, new)
  <2>1. Without(u, h)
    BY <1>7 DEF TailInv, Attributed
  <2> HIDE DEF h
  <2> QED
    BY <1>2, <1>7, <2>1, WithoutSaid
<1>8. Attributed'
  <2> SUFFICES ASSUME NEW u \in Turns, pc'[u] # "done"
               PROVE  /\ Without(u, context'.messages)
                      /\ setup' # NoSetup => Without(u, setup'.messages)
                      /\ \A v \in Turns : v # u =>
                           Without(u, history'[v]) /\ Without(u, toSave'[v].messages)
    BY DEF Attributed, Without
  <2>1. pc[u] # "done"
    BY <1>3
  <2> HIDE DEF new
  <2>2. \A v \in Turns : v # u => Without(u, history'[v])
    BY <1>4, <1>7, <2>1 DEF TailInv, Attributed
  <2> QED
    BY <1>3, <2>1, <2>2 DEF TailInv, Attributed
<1>9. EndsOfLog'
  <2> SUFFICES ASSUME calm PROVE EndsOfLog'
    BY <1>3 DEF EndsOfLog
  <2>1. \A u \in Reading' : u = t
    BY <1>5 DEF TailInv, Alone, Reading, Running
  <2> DEFINE a == Spoken(h)
             b == log \o Own(t)
             own == Own(t)
  <2>2. a \in Seq(Messages) /\ own \in Seq(Messages) /\ log \in Seq(Messages)
    BY <1>2, SpokenType, OwnParts DEF TypeInv, TypeOK
  <2>3. b \in Seq(Messages) /\ b = log \o own
    BY <2>2, ConcatProperties
  <2>4. EndOf(a, b)
    BY <1>3 DEF TailInv, EndsOfLog, Reading
  <2>5. Own(t)' = own \o added
    <3>1. own = Among(OwnOnes(t), h)
      BY OwnParts
    <3>2. Own(t)' = Among(OwnOnes(t), new)
      BY <1>4 DEF Own, OwnOnes
    <3> HIDE DEF h, own
    <3>3. Among(OwnOnes(t), h \o added) = Among(OwnOnes(t), h) \o added
      BY <1>2, OwnSaid
    <3> QED
      BY <3>1, <3>2, <3>3
  <2>6. Spoken(history[t]') = a \o added
    <3> HIDE DEF h
    <3>1. Spoken(h \o added) = Spoken(h) \o added
      BY <1>2, SpokenSaid
    <3> QED
      BY <1>4, <3>1
  <2> HIDE DEF a, b, own
  <2>7. EndOf(a \o added, b \o added)
    BY <2>2, <2>3, <2>4, EndOfConcat
  <2>8. b \o added = log \o (own \o added)
    BY <2>2, <2>3, ConcatAssociative
  <2>9. EndOf(Spoken(history[t]'), log' \o Own(t)')
    BY <1>3, <2>5, <2>6, <2>7, <2>8
  <2> QED
    BY <1>3, <2>1, <2>9 DEF TailInv, EndsOfLog
<1> QED
  BY <1>6, <1>8, <1>9 DEF TailInv

LEMMA AfterTail ==
    ASSUME TypeInv, TailInv, NEW t \in Turns, AfterResponse(t)
    PROVE  TailInv'
<1>1. pc[t] = "answered" /\ UNCHANGED <<calm, context, setup, log>>
  BY DEF AfterResponse
<1>2. CASE End({t}, "thrown")
  <2>1. {t} \in SUBSET Running /\ "thrown" \in Endings
    BY <1>1 DEF Running, Endings
  <2> QED
    BY <1>1, <1>2, <2>1, EndTail
<1>3. CASE Keeping(t)
  <2>1. PICK s \in States : toSave' = [toSave EXCEPT ![t] = s] /\ MadeOf(t, s)
    BY <1>3 DEF Keeping
  <2>2. pc' = [pc EXCEPT ![t] = "saving"] /\ history' = history
    BY <1>3 DEF Keeping
  <2>3. toSave'[t] = s /\ \A u \in Turns : u # t => toSave'[u] = toSave[u]
    BY <2>1 DEF TypeInv, TypeOK
  <2>4. pc'[t] = "saving" /\ \A u \in Turns : u # t => pc'[u] = pc[u]
    BY <2>2 DEF TypeInv, TypeOK
  <2> DEFINE h == history[t]
             ms == s.messages
  <2>5. h \in Seq(Messages) /\ ms \in Seq(Messages) /\ EndOf(ms, h)
    BY <2>1 DEF MadeOf, States, TypeInv, TypeOK
  <2>6. Running' = Running /\ Reading' = Reading /\ t \in Reading
    BY <1>1, <2>4 DEF Running, Reading
  <2>7. Alone'
    BY <1>1, <2>6 DEF TailInv, Alone
  <2>8. ASSUME NEW u \in Turns, u # t, pc[u] # "done" PROVE Without(u, ms)
    <3>1. Without(u, h)
      BY <2>8 DEF TailInv, Attributed
    <3> HIDE DEF h, ms
    <3> QED
      BY <2>5, <3>1, WithoutEnd
  <2>9. Attributed'
    <3> SUFFICES ASSUME NEW u \in Turns, pc'[u] # "done"
                 PROVE  /\ Without(u, context'.messages)
                        /\ setup' # NoSetup => Without(u, setup'.messages)
                        /\ \A v \in Turns : v # u =>
                             Without(u, history'[v]) /\ Without(u, toSave'[v].messages)
      BY DEF Attributed, Without
    <3>1. pc[u] # "done"
      BY <1>1, <2>4
    <3>2. \A v \in Turns : v # u => Without(u, toSave'[v].messages)
      BY <2>3, <2>8, <3>1 DEF TailInv, Attributed
    <3> QED
      BY <1>1, <2>2, <3>1, <3>2 DEF TailInv, Attributed
  <2>10. EndsOfLog'
    <3> SUFFICES ASSUME calm PROVE EndsOfLog'
      BY <1>1 DEF EndsOfLog
    <3>1. \A u \in Reading' : u = t
      BY <2>6 DEF TailInv, Alone, Reading, Running
    <3> DEFINE a == Spoken(ms)
               b == Spoken(h)
               c == log \o Own(t)
    <3>2. log \in Seq(Messages) /\ Own(t) \in Seq(Messages)
      BY OwnParts DEF TypeInv, TypeOK
    <3>3. a \in Seq(Messages) /\ b \in Seq(Messages) /\ c \in Seq(Messages)
      BY <2>5, <3>2, SpokenType, ConcatProperties
    <3>4. EndOf(b, c)
      BY <2>6 DEF TailInv, EndsOfLog
    <3>5. EndOf(a, b)
      <4> HIDE DEF h, ms
      <4> QED
        BY <2>5, SpokenEnd
    <3>6. Own(t)' = Own(t)
      BY <2>2 DEF Own
    <3> HIDE DEF a, b, c
    <3>7. EndOf(a, c)
      BY <3>3, <3>4, <3>5, EndOfTrans
    <3>8. EndOf(Spoken(history[t]'), log' \o Own(t)')
      BY <1>1, <2>2, <3>4, <3>6 DEF b, c
    <3>9. EndOf(Spoken(toSave'[t].messages), log' \o Own(t)')
      BY <1>1, <2>3, <3>6, <3>7 DEF a, c
    <3> QED
      BY <1>1, <3>1, <3>8, <3>9 DEF TailInv, EndsOfLog
  <2> QED
    BY <2>7, <2>9, <2>10 DEF TailInv
<1> QED
  BY <1>2, <1>3, AfterParts

LEMMA SaveTail ==
    ASSUME TypeInv, TailInv, NEW t \in Turns, Save(t)
    PROVE  TailInv'
<1>1. /\ pc[t] = "saving" /\ context' = toSave[t] /\ log' = log \o Own(t)
      /\ End({t}, "done") /\ UNCHANGED <<calm, setup>>
  BY DEF Save
<1>2. {t} \in SUBSET Running /\ "done" \in Endings /\ t \in Running /\ t \in Reading
  BY <1>1 DEF Running, Endings, Reading
<1>3. pc' = [u \in Turns |-> IF u \in {t} THEN "done" ELSE pc[u]]
  BY <1>1 DEF End
<1>4. Running' = Running \ {t} /\ Reading' = Reading \ {t}
  BY <1>3 DEF Running, Reading
<1>5. Alone'
  BY <1>1, <1>4 DEF TailInv, Alone
<1>6. \A u \in Turns : pc'[u] # "done" => Without(u, context'.messages)
  <2> SUFFICES ASSUME NEW u \in Turns, pc'[u] # "done" PROVE Without(u, toSave[t].messages)
    BY <1>1
  <2>1. u # t /\ pc[u] # "done"
    BY <1>3
  <2> QED
    BY <2>1 DEF TailInv, Attributed
<1>7. Attributed'
  BY <1>1, <1>2, <1>6, EndAttributed
<1>8. EndsOfLog'
  <2> SUFFICES ASSUME calm PROVE EndsOfLog'
    BY <1>1 DEF EndsOfLog
  <2>1. Reading' = {} /\ setup = NoSetup
    BY <1>2, <1>4 DEF TailInv, Alone, Reading, Running
  <2>2. EndOf(Spoken(toSave[t].messages), log \o Own(t))
    BY <1>1, <1>2 DEF TailInv, EndsOfLog
  <2> QED
    BY <1>1, <2>1, <2>2 DEF EndsOfLog
<1> QED
  BY <1>5, <1>7, <1>8 DEF TailInv

LEMMA SetupTail ==
    ASSUME TypeInv, TailInv,
           (\E p \in Targets : Setup(p)) \/ UpdateAgent \/ SaveParams \/ SaveState
    PROVE  TailInv'
<1>1. UNCHANGED <<calm, pc, history, toSave, log>>
  BY DEF Setup, UpdateAgent, SaveParams, SaveState
<1>2. Running' = Running /\ Reading' = Reading /\ \A t \in Turns : Own(t)' = Own(t)
  BY <1>1 DEF Running, Reading, Own
<1>3. \/ /\ context' = context
         /\ \/ setup' = NoSetup \/ setup'.messages = <<>>
            \/ setup'.messages = context.messages
            \/ setup # NoSetup /\ setup'.messages = setup.messages
      \/ SaveState
  <2>1. CASE \E p \in Targets : Setup(p)
    BY <2>1 DEF Setup, SameStrategy, OtherStrategy
  <2>2. CASE UpdateAgent \/ SaveParams
    <3>1. setup # NoSetup
      BY <2>2 DEF UpdateAgent, SaveParams, NoSetup
    <3>2. setup' = NoSetup \/ setup'.messages = setup.messages
      BY <2>2, <3>1 DEF UpdateAgent, SaveParams, TypeInv, TypeOK
    <3> QED
      BY <2>2, <3>1, <3>2 DEF UpdateAgent, SaveParams
  <2>3. CASE SaveState
    BY <2>3 DEF SaveState, NoSetup
  <2> QED
    BY <2>1, <2>2, <2>3
<1>4. Alone'
  <2> SUFFICES ASSUME calm, Running # {} PROVE setup' = NoSetup
    BY <1>1, <1>2 DEF TailInv, Alone
  <2>1. setup = NoSetup
    BY DEF TailInv, Alone
  <2> QED
    BY <2>1 DEF Setup, MayStart, UpdateAgent, SaveParams, SaveState, NoSetup
<1>5. ASSUME calm, NEW t \in Reading'
      PROVE  /\ EndOf(Spoken(history[t]'), log' \o Own(t)')
             /\ pc'[t] = "saving" => EndOf(Spoken(toSave'[t].messages), log' \o Own(t)')
  <2>1. t \in Reading /\ t \in Turns /\ Own(t)' = Own(t)
    BY <1>2 DEF Reading
  <2>2. log' \o Own(t)' = log \o Own(t)
    BY <1>1, <2>1
  <2> QED
    BY <1>1, <1>5, <2>1, <2>2 DEF TailInv, EndsOfLog
<1>6. CASE ~SaveState
  <2>1. /\ context' = context
        /\ \/ setup' = NoSetup \/ setup'.messages = <<>>
           \/ setup'.messages = context.messages
           \/ setup # NoSetup /\ setup'.messages = setup.messages
    BY <1>3, <1>6
  <2>2. Attributed'
    BY <1>1, <2>1, WithoutEmpty DEF TailInv, Attributed
  <2>3. calm => EndOf(Spoken(<<>>), log)
    BY SpokenEmpty, EndOfRefl DEF TypeInv, TypeOK
  <2>4. EndsOfLog'
    BY <1>1, <1>5, <2>1, <2>3 DEF TailInv, EndsOfLog
  <2> QED
    BY <1>4, <2>2, <2>4 DEF TailInv
<1>7. CASE SaveState
  <2>1. /\ setup.pc = "state" /\ context' = InitialState(setup.target, setup.messages)
        /\ setup' = NoSetup
    BY <1>7 DEF SaveState
  <2>2. setup # NoSetup
    BY <2>1 DEF NoSetup
  <2> DEFINE ms == setup.messages
             new == context'.messages
  <2>3. new \in Seq(Messages) /\ ms \in Seq(Messages) /\ EndOf(new, ms)
    BY <2>1, InitialStateParts DEF States
  <2>4. \A t \in Turns : pc[t] # "done" => Without(t, new)
    <3> SUFFICES ASSUME NEW t \in Turns, pc[t] # "done" PROVE Without(t, new)
      OBVIOUS
    <3>1. Without(t, ms)
      BY <2>2 DEF TailInv, Attributed
    <3> HIDE DEF ms, new
    <3> QED
      BY <2>3, <3>1, WithoutEnd
  <2>5. Attributed'
    BY <1>1, <2>1, <2>4 DEF TailInv, Attributed
  <2>6. calm => EndOf(Spoken(new), log)
    <3> SUFFICES ASSUME calm PROVE EndOf(Spoken(new), log)
      OBVIOUS
    <3> DEFINE a == Spoken(new)
               b == Spoken(ms)
    <3>1. EndOf(b, log)
      BY <2>2 DEF TailInv, EndsOfLog
    <3>2. log \in Seq(Messages)
      BY DEF TypeInv, TypeOK
    <3> HIDE DEF ms, new
    <3>3. EndOf(a, b) /\ a \in Seq(Messages) /\ b \in Seq(Messages)
      BY <2>3, SpokenEnd, SpokenType
    <3> HIDE DEF a, b
    <3>4. EndOf(a, log)
      BY <3>1, <3>2, <3>3, EndOfTrans
    <3> QED
      BY <3>4 DEF a
  <2>7. EndsOfLog'
    BY <1>1, <1>5, <2>1, <2>6 DEF TailInv, EndsOfLog
  <2> QED
    BY <1>4, <2>5, <2>7 DEF TailInv
<1> QED
  BY <1>6, <1>7

LEMMA StepTail ==
    ASSUME TypeInv, TailInv, [Next]_vars
    PROVE  TailInv'
<1>1. ASSUME NEW t \in Turns, Begin(t) PROVE TailInv'
  <2>1. /\ pc[t] = "new" /\ pc' = [pc EXCEPT ![t] = "begun"] /\ MayStart
        /\ UNCHANGED <<calm, context, history, toSave, setup, log>>
    BY <1>1 DEF Begin
  <2>2. Running' = Running \cup {t} /\ Reading' = Reading
        /\ \A u \in Turns : pc'[u] # "done" => pc[u] # "done"
    BY <2>1 DEF Running, Reading, TypeInv, TypeOK
  <2>3. \A u \in Reading : pc'[u] = pc[u] /\ Own(u)' = Own(u)
    BY <2>1 DEF Reading, Own, TypeInv, TypeOK
  <2>4. Alone'
    BY <2>1, <2>2 DEF TailInv, Alone, MayStart
  <2>5. Attributed'
    BY <2>1, <2>2 DEF TailInv, Attributed
  <2>6. EndsOfLog'
    BY <2>1, <2>2, <2>3 DEF TailInv, EndsOfLog
  <2> QED
    BY <2>4, <2>5, <2>6 DEF TailInv
<1>2. ASSUME NEW t \in Turns, Read(t) PROVE TailInv'
  <2>1. CASE BadWindow(using[t])
    <3>1. End({t}, "thrown") /\ UNCHANGED <<calm, context, setup, log>> /\ pc[t] = "begun"
      BY <1>2, <2>1 DEF Read
    <3>2. {t} \in SUBSET Running /\ "thrown" \in Endings
      BY <3>1 DEF Running, Endings
    <3> QED
      BY <3>1, <3>2, EndTail
  <2> QED
    BY <1>2, <2>1, ReadTail
<1>3. ASSUME NEW t \in Turns, LlmFails(t) PROVE TailInv'
  <2>1. End({t}, "failed") /\ UNCHANGED <<calm, context, setup, log>> /\ pc[t] = "asking"
    BY <1>3 DEF LlmFails
  <2>2. {t} \in SUBSET Running /\ "failed" \in Endings
    BY <2>1 DEF Running, Endings
  <2> QED
    BY <2>1, <2>2, EndTail
<1>4. ASSUME Stop PROVE TailInv'
  <2>1. End(Running, "stopped") /\ UNCHANGED <<calm, context, log>> /\ setup' = NoSetup
    BY <1>4 DEF Stop
  <2>2. Running \in SUBSET Running /\ "stopped" \in Endings
    BY DEF Endings
  <2> QED
    BY <2>1, <2>2, EndTail
<1>5. CASE UNCHANGED vars
  BY <1>5 DEF vars, TailInv, Alone, Attributed, EndsOfLog, Running, Reading, Own, Without
<1> QED
  BY <1>1, <1>2, <1>3, <1>4, <1>5, SpeakTail, AfterTail, SaveTail, SetupTail
  DEF Next, Work

(* The end of a sequence is its suffix.                                    *)
LEMMA EndIsSuffix ==
    ASSUME NEW s \in Seq(Messages), NEW t \in Seq(Messages), EndOf(s, t)
    PROVE  IsSuffix(s, t)
<1>1. PICK u \in Seq(Messages) : t = u \o s
  BY DEF EndOf
<1> DEFINE n == Len(s)
           d == Len(u)
           r == Reverse(s)
           q == Reverse(t)
<1>2. /\ n \in Nat /\ d \in Nat /\ Len(t) = d + n
      /\ \A i \in 1..n : t[d + i] = s[i]
  BY <1>1
<1>3. /\ r \in Seq(Messages) /\ Len(r) = n
      /\ \A i \in 1..n : r[i] = s[n - i + 1]
  BY <1>2 DEF Reverse
<1>4. /\ q \in Seq(Messages) /\ Len(q) = d + n
      /\ \A i \in 1..(d + n) : q[i] = t[d + n - i + 1]
  BY <1>2 DEF Reverse
<1>5. IsSuffix(s, t) <=> IsPrefix(r, q)
  BY DEF IsSuffix
<1> HIDE DEF n, d, r, q
<1>6. \A i \in 1..n : r[i] = q[i]
  <2> TAKE i \in 1..n
  <2>1. n - i + 1 \in 1..n /\ d + (n - i + 1) = d + n - i + 1 /\ i \in 1..(d + n)
    BY <1>2
  <2> QED
    BY <1>2, <1>3, <1>4, <2>1
<1>7. SubSeq(r, 1, n) = SubSeq(q, 1, n)
  <2>1. SubSeq(r, 1, n) \in Seq(Messages) /\ Len(SubSeq(r, 1, n)) = n
        /\ \A i \in 1..n : SubSeq(r, 1, n)[i] = r[i]
    BY <1>2, <1>3
  <2>2. SubSeq(q, 1, n) \in Seq(Messages) /\ Len(SubSeq(q, 1, n)) = n
        /\ \A i \in 1..n : SubSeq(q, 1, n)[i] = q[i]
    BY <1>2, <1>4
  <2> DEFINE a == SubSeq(r, 1, n)
             b == SubSeq(q, 1, n)
  <2>3. a \in Seq(Messages) /\ b \in Seq(Messages) /\ Len(a) = Len(b)
        /\ \A i \in 1..Len(a) : a[i] = b[i]
    BY <1>6, <2>1, <2>2
  <2> HIDE DEF a, b
  <2>4. a = b
    BY <2>3, SeqEqual
  <2> QED
    BY <2>4 DEF a, b
<1>8. IsPrefix(r, q)
  BY <1>2, <1>3, <1>4, <1>7 DEF IsPrefix
<1> QED
  BY <1>5, <1>8

(* What is saved of the conversation is its end, complete and in order,    *)
(* when turns and commands run one after another.                          *)
THEOREM SavedIsTail == Spec => []HistoryIsTail
<1>1. ASSUME TypeInv, TailInv PROVE HistoryIsTail
  <2> SUFFICES ASSUME calm PROVE IsSuffix(Spoken(context.messages), log)
    BY DEF HistoryIsTail
  <2> DEFINE s == Spoken(context.messages)
  <2>1. s \in Seq(Messages) /\ log \in Seq(Messages)
    BY <1>1, SpokenType DEF TypeInv, TypeOK, States
  <2>2. EndOf(s, log)
    BY <1>1 DEF TailInv, EndsOfLog
  <2> HIDE DEF s
  <2>3. IsSuffix(s, log)
    BY <2>1, <2>2, EndIsSuffix
  <2> QED
    BY <2>3 DEF s
<1> QED
  BY <1>1, InitTyped, StepTyped, InitTail, StepTail, PTL DEF Spec

-----------------------------------------------------------------------------
(* SaveForgetsNothing.  A turn with full context or summaries has in its   *)
(* messages all that the state told of when it was read, and what it is to *)
(* save tells of all its messages; one after another, the state is still   *)
(* the one it read.                                                        *)
Told ==
    \A t \in Reading : using[t] \in {"full", "summary"} =>
      /\ seen[t] \cup {t} \subseteq TurnsIn(history[t])
      /\ pc[t] = "saving" /\ ~Loses(t, toSave[t]) =>
           TurnsIn(history[t]) \subseteq Known(toSave[t])
      /\ calm /\ using[t] = context.kind => Known(context) = seen[t]

LEMMA TurnsInOne ==
    ASSUME NEW m \in Messages
    PROVE  <<m>> \in Seq(Messages) /\ TurnsIn(<<m>>) = m.turns
<1>1. <<m>> \in Seq(Messages) /\ Len(<<m>>) = 1 /\ <<m>>[1] = m
  OBVIOUS
<1> DEFINE s == <<m>>
<1>2. s \in Seq(Messages) /\ Len(s) = 1 /\ s[1] = m
  BY <1>1
<1> HIDE DEF s
<1>3. \A u : u \in TurnsIn(s) <=> u \in m.turns
  BY <1>2, TurnsInOf
<1> QED
  BY <1>2, <1>3 DEF s

(* These two strategies send all the state tells of.                       *)
LEMMA SnapshotTells ==
    ASSUME TypeInv, NEW kind \in {"full", "summary"}
    PROVE  Snapshot(kind) \in Seq(Messages) /\ Known(StateAs(kind)) \subseteq TurnsIn(Snapshot(kind))
<1> DEFINE state == StateAs(kind)
           ms == state.messages
           covered == state.covered
           snapshot == Snapshot(kind)
<1>1. kind \in Kinds /\ ~BadWindow(kind)
  BY DEF Kinds, BadWindow
<1>2. ms \in Seq(Messages) /\ covered \in SUBSET Turns
  BY <1>1, StateAsType DEF TypeInv, States
<1>3. snapshot \in Seq(Messages)
  BY <1>1, SnapshotType DEF TypeInv
<1>4. Known(state) = TurnsIn(ms) \cup covered
  BY DEF Known
<1>5. CASE kind = "full"
  <2>1. snapshot = ms
    BY <1>5 DEF Snapshot
  <2>2. covered = {}
    BY <1>5, EmptyStateType DEF StateAs, TypeInv, Uncovered, CoversOnlyAsSummary, Kinds
  <2> QED
    BY <1>3, <1>4, <2>1, <2>2
<1>6. CASE kind = "summary" /\ covered = {}
  <2>1. snapshot = <<>> \o ms
    BY <1>6 DEF Snapshot
  <2>2. <<>> \o ms = ms
    BY <1>2, ConcatEmptySeq
  <2> QED
    BY <1>3, <1>4, <1>6, <2>1, <2>2
<1>7. CASE kind = "summary" /\ covered # {}
  <2> DEFINE m == Message("summary", covered, 0, 0)
             lead == <<m>>
  <2>1. snapshot = lead \o ms
    BY <1>7 DEF Snapshot
  <2>2. m \in Messages /\ m.turns = covered
    BY <1>2, TurnAssumption DEF Message, Messages
  <2> HIDE DEF m
  <2>3. lead \in Seq(Messages) /\ TurnsIn(lead) = covered
    BY <2>2, TurnsInOne
  <2> HIDE DEF lead, ms, covered
  <2>4. TurnsIn(lead \o ms) = TurnsIn(lead) \cup TurnsIn(ms)
    BY <1>2, <2>3, TurnsInConcat
  <2> QED
    BY <1>3, <1>4, <2>1, <2>3, <2>4
<1> QED
  BY <1>5, <1>6, <1>7

(* What ends tells no more; what goes on was not touched.                  *)
LEMMA EndTold ==
    ASSUME TypeInv, Told, NEW T \in SUBSET Running, NEW how \in Endings, End(T, how),
           UNCHANGED <<calm, context, using>>
    PROVE  Told'
<1>1. /\ history' = [t \in Turns |-> IF t \in T THEN <<>> ELSE history[t]]
      /\ toSave' = [t \in Turns |-> IF t \in T THEN EmptyState("full") ELSE toSave[t]]
      /\ pc' = [t \in Turns |-> IF t \in T THEN how ELSE pc[t]]
      /\ seen' = [t \in Turns |-> IF t \in T THEN {} ELSE seen[t]]
  BY DEF End
<1>2. \A t \in Reading' : t \in Reading /\ t \notin T
  BY <1>1 DEF Reading, Endings
<1>3. \A t \in Reading' : /\ history'[t] = history[t] /\ toSave'[t] = toSave[t]
                         /\ pc'[t] = pc[t] /\ seen'[t] = seen[t]
  BY <1>1, <1>2 DEF Reading
<1> QED
  BY <1>2, <1>3 DEF Told, Loses

LEMMA StepTold ==
    ASSUME TypeInv, TailInv, Told, [Next]_vars
    PROVE  Told'
<1>1. ASSUME NEW t \in Turns, Begin(t) PROVE Told'
  <2>1. /\ pc[t] = "new" /\ pc' = [pc EXCEPT ![t] = "begun"]
        /\ using' = [using EXCEPT ![t] = strategy]
        /\ UNCHANGED <<calm, context, history, toSave, seen>>
    BY <1>1 DEF Begin
  <2>2. \A u \in Reading' : u \in Reading /\ using'[u] = using[u] /\ pc'[u] = pc[u]
    BY <2>1 DEF Reading, TypeInv, TypeOK
  <2> QED
    BY <2>1, <2>2 DEF Told, Loses
<1>2. ASSUME NEW t \in Turns, Read(t) PROVE Told'
  <2>1. CASE BadWindow(using[t])
    <3>1. End({t}, "thrown") /\ UNCHANGED <<calm, context, using>> /\ pc[t] = "begun"
      BY <1>2, <2>1 DEF Read
    <3>2. {t} \in SUBSET Running /\ "thrown" \in Endings
      BY <3>1 DEF Running, Endings
    <3> QED
      BY <3>1, <3>2, EndTold
  <2>2. CASE ~BadWindow(using[t])
    <3> DEFINE k == using[t]
               snapshot == Snapshot(k)
               known == Known(StateAs(k))
    <3>1. /\ pc[t] = "begun" /\ pc' = [pc EXCEPT ![t] = "asking"]
          /\ history' = [history EXCEPT ![t] = Append(snapshot, Prompt(t))]
          /\ seen' = [seen EXCEPT ![t] = known]
          /\ UNCHANGED <<calm, context, using, toSave>>
      BY <1>2, <2>2 DEF Read, Prompt
    <3>2. \A u \in Turns : u # t => /\ history'[u] = history[u] /\ pc'[u] = pc[u]
                                   /\ seen'[u] = seen[u]
      BY <3>1 DEF TypeInv, TypeOK
    <3>3. pc'[t] = "asking" /\ history'[t] = Append(snapshot, Prompt(t)) /\ seen'[t] = known
      BY <3>1 DEF TypeInv, TypeOK
    <3>4. ASSUME k \in {"full", "summary"} PROVE known \cup {t} \subseteq TurnsIn(history'[t])
      <4> DEFINE m == Prompt(t)
                 last == <<m>>
      <4>1. m \in Messages /\ m.turns = {t}
        BY PromptParts
      <4>2. snapshot \in Seq(Messages) /\ known \subseteq TurnsIn(snapshot)
        BY <3>4, SnapshotTells
      <4> HIDE DEF m, snapshot, known
      <4>3. Append(snapshot, m) = snapshot \o last
        BY <4>1, <4>2, AppendIsConcat
      <4>4. last \in Seq(Messages) /\ TurnsIn(last) = {t}
        BY <4>1, TurnsInOne
      <4> HIDE DEF last
      <4>5. TurnsIn(snapshot \o last) = TurnsIn(snapshot) \cup TurnsIn(last)
        BY <4>2, <4>4, TurnsInConcat
      <4> QED
        BY <3>3, <4>2, <4>3, <4>4, <4>5 DEF m
    <3>5. k = context.kind => known = Known(context)
      BY DEF StateAs
    <3> SUFFICES ASSUME NEW u \in Reading', using'[u] \in {"full", "summary"}
                 PROVE  /\ seen'[u] \cup {u} \subseteq TurnsIn(history'[u])
                        /\ pc'[u] = "saving" /\ ~Loses(u, toSave[u])' =>
                             TurnsIn(history'[u]) \subseteq Known(toSave'[u])
                        /\ calm' /\ using'[u] = context'.kind => Known(context') = seen'[u]
      BY DEF Told, Loses
    <3>6. CASE u = t
      BY <3>1, <3>3, <3>4, <3>5, <3>6
    <3>7. CASE u # t
      <4>1. u \in Reading /\ u \in Turns
        BY <3>2, <3>7 DEF Reading
      <4> HIDE DEF k, snapshot, known
      <4> QED
        BY <3>1, <3>2, <3>7, <4>1 DEF Told, Loses
    <3> QED
      BY <3>6, <3>7
  <2> QED
    BY <2>1, <2>2
<1>3. ASSUME NEW t \in Turns, Answer(t) \/ CallTools(t) PROVE Told'
  <2>1. PICK added \in Seq(Messages) : Speaks(t, added)
    BY <1>3, AskingParts
  <2> DEFINE h == history[t]
             new == h \o added
  <2>2. h \in Seq(Messages) /\ history' = [history EXCEPT ![t] = new]
    BY <2>1 DEF Speaks, TypeInv, TypeOK
  <2>3. /\ pc[t] = "asking" /\ pc'[t] # "saving"
        /\ \A u \in Turns : u # t => pc'[u] = pc[u]
        /\ UNCHANGED <<calm, context, using, toSave, seen>>
    BY <1>3 DEF Answer, CallTools, TypeInv, TypeOK
  <2>4. history'[t] = new /\ \A u \in Turns : u # t => history'[u] = history[u]
    BY <2>2 DEF TypeInv, TypeOK
  <2> HIDE DEF h
  <2>5. TurnsIn(h) \subseteq TurnsIn(new)
    BY <2>2, TurnsInConcat
  <2>6. \A u \in Reading' : u \in Reading
    BY <2>3 DEF Reading
  <2> HIDE DEF new
  <2> SUFFICES ASSUME NEW u \in Reading', using'[u] \in {"full", "summary"}
               PROVE  /\ seen'[u] \cup {u} \subseteq TurnsIn(history'[u])
                      /\ pc'[u] = "saving" /\ ~Loses(u, toSave[u])' =>
                           TurnsIn(history'[u]) \subseteq Known(toSave'[u])
                      /\ calm' /\ using'[u] = context'.kind => Known(context') = seen'[u]
    BY DEF Told, Loses
  <2>7. u \in Reading /\ u \in Turns
    BY <2>6 DEF Reading
  <2>8. CASE u = t
    <3>1. seen[t] \cup {t} \subseteq TurnsIn(h)
      BY <2>3, <2>7, <2>8 DEF Told, h
    <3>2. calm /\ using[t] = context.kind => Known(context) = seen[t]
      BY <2>3, <2>7, <2>8 DEF Told
    <3> QED
      BY <2>3, <2>4, <2>5, <2>8, <3>1, <3>2
  <2>9. CASE u # t
    BY <2>3, <2>4, <2>7, <2>9 DEF Told, Loses
  <2> QED
    BY <2>8, <2>9
<1>4. ASSUME NEW t \in Turns, AfterResponse(t) PROVE Told'
  <2>1. pc[t] = "answered" /\ UNCHANGED <<calm, context, using>>
    BY <1>4 DEF AfterResponse
  <2>2. CASE End({t}, "thrown")
    <3>1. {t} \in SUBSET Running /\ "thrown" \in Endings
      BY <2>1 DEF Running, Endings
    <3> QED
      BY <2>1, <2>2, <3>1, EndTold
  <2>3. CASE Keeping(t)
    <3>1. PICK s \in States : toSave' = [toSave EXCEPT ![t] = s] /\ MadeOf(t, s)
      BY <2>3 DEF Keeping
    <3>2. pc' = [pc EXCEPT ![t] = "saving"] /\ UNCHANGED <<history, seen>>
      BY <2>3 DEF Keeping
    <3>3. toSave'[t] = s /\ \A u \in Turns : u # t => toSave'[u] = toSave[u] /\ pc'[u] = pc[u]
      BY <3>1, <3>2 DEF TypeInv, TypeOK
    <3>4. \A u \in Reading' : u \in Reading
      BY <2>1, <3>3 DEF Reading
    <3> SUFFICES ASSUME NEW u \in Reading', using'[u] \in {"full", "summary"}
                 PROVE  /\ seen'[u] \cup {u} \subseteq TurnsIn(history'[u])
                        /\ pc'[u] = "saving" /\ ~Loses(u, toSave[u])' =>
                             TurnsIn(history'[u]) \subseteq Known(toSave'[u])
                        /\ calm' /\ using'[u] = context'.kind => Known(context') = seen'[u]
      BY DEF Told, Loses
    <3>5. u \in Reading /\ u \in Turns
      BY <3>4 DEF Reading
    <3>6. CASE u = t
      <4>1. ~Loses(t, toSave[t])' => TurnsIn(history'[t]) \subseteq Known(toSave'[t])
        <5>1. Loses(t, toSave[t])' <=> Loses(t, s)
          BY <3>2, <3>3 DEF Loses
        <5> QED
          BY <2>1, <3>1, <3>2, <3>3, <3>6, <5>1 DEF MadeOf
      <4> QED
        BY <2>1, <3>2, <3>5, <3>6, <4>1 DEF Told
    <3>7. CASE u # t
      BY <2>1, <3>2, <3>3, <3>5, <3>7 DEF Told, Loses
    <3> QED
      BY <3>6, <3>7
  <2> QED
    BY <1>4, <2>2, <2>3, AfterParts
<1>5. ASSUME NEW t \in Turns, Save(t) PROVE Told'
  <2>1. pc[t] = "saving" /\ End({t}, "done") /\ UNCHANGED <<calm, using>>
    BY <1>5 DEF Save
  <2>2. /\ history' = [u \in Turns |-> IF u \in {t} THEN <<>> ELSE history[u]]
        /\ toSave' = [u \in Turns |-> IF u \in {t} THEN EmptyState("full") ELSE toSave[u]]
        /\ pc' = [u \in Turns |-> IF u \in {t} THEN "done" ELSE pc[u]]
        /\ seen' = [u \in Turns |-> IF u \in {t} THEN {} ELSE seen[u]]
    BY <2>1 DEF End
  <2>3. \A u \in Reading' : u \in Reading /\ u # t
    BY <2>2 DEF Reading
  <2>4. \A u \in Reading' : /\ history'[u] = history[u] /\ toSave'[u] = toSave[u]
                           /\ pc'[u] = pc[u] /\ seen'[u] = seen[u]
    BY <2>2, <2>3 DEF Reading
  <2>5. calm => Reading' = {}
    BY <2>1, <2>3 DEF TailInv, Alone, Reading, Running
  <2> QED
    BY <2>1, <2>3, <2>4, <2>5 DEF Told, Loses
<1>6. ASSUME NEW t \in Turns, LlmFails(t) PROVE Told'
  <2>1. End({t}, "failed") /\ UNCHANGED <<calm, context, using>> /\ pc[t] = "asking"
    BY <1>6 DEF LlmFails
  <2>2. {t} \in SUBSET Running /\ "failed" \in Endings
    BY <2>1 DEF Running, Endings
  <2> QED
    BY <2>1, <2>2, EndTold
<1>7. ASSUME (\E p \in Targets : Setup(p)) \/ UpdateAgent \/ SaveParams PROVE Told'
  <2>1. UNCHANGED <<calm, context, using, history, toSave, pc, seen>>
    BY <1>7 DEF Setup, UpdateAgent, SaveParams
  <2> QED
    BY <2>1 DEF Told, Reading, Loses
<1>8. ASSUME SaveState PROVE Told'
  <2>1. setup.pc = "state" /\ UNCHANGED <<calm, using, history, toSave, pc, seen>>
    BY <1>8 DEF SaveState
  <2>2. setup # NoSetup
    BY <2>1 DEF NoSetup
  <2>3. calm => Reading = {}
    BY <2>2 DEF TailInv, Alone, Reading, Running
  <2> QED
    BY <2>1, <2>3 DEF Told, Reading, Loses
<1>9. ASSUME Stop PROVE Told'
  <2>1. End(Running, "stopped") /\ UNCHANGED <<calm, context, using>>
    BY <1>9 DEF Stop
  <2>2. Running \in SUBSET Running /\ "stopped" \in Endings
    BY DEF Endings
  <2> QED
    BY <2>1, <2>2, EndTold
<1>10. CASE UNCHANGED vars
  BY <1>10 DEF vars, Told, Reading, Loses
<1> QED
  BY <1>1, <1>2, <1>3, <1>4, <1>5, <1>6, <1>7, <1>8, <1>9, <1>10 DEF Next, Work

(* A save of full context or summaries forgets nothing its turn was told.  *)
THEOREM SavesForgetNothing == Spec => SaveForgetsNothing
<1> DEFINE Forgets(t) ==
      Save(t) /\ using[t] \in {"full", "summary"} /\ ~BlankSummary(t) =>
        /\ seen[t] \cup {t} \subseteq Known(context')
        /\ calm /\ using[t] = context.kind => Known(context) \subseteq Known(context')
<1>1. Init => Told
  BY DEF Init, Told, Reading
<1>2. ASSUME TypeInv, Told, [Next]_vars PROVE [\A t \in Turns : Forgets(t)]_vars
  <2> SUFFICES ASSUME NEW t \in Turns, Save(t), using[t] \in {"full", "summary"},
                      ~BlankSummary(t)
               PROVE  /\ seen[t] \cup {t} \subseteq Known(context')
                      /\ calm /\ using[t] = context.kind =>
                           Known(context) \subseteq Known(context')
    OBVIOUS
  <2>1. pc[t] = "saving" /\ context' = toSave[t] /\ t \in Reading
    BY DEF Save, Reading
  <2>2. ~Loses(t, toSave[t])
    BY DEF Loses, BlankSummary
  <2> QED
    BY <1>2, <2>1, <2>2 DEF Told
<1> QED
  BY <1>1, <1>2, InitTyped, StepTyped, InitTail, StepTail, StepTold, PTL
  DEF Spec, SaveForgetsNothing
=============================================================================
