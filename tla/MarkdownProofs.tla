----------------------------- MODULE MarkdownProofs -----------------------------
(* What reading a document as Markdown does with its text: its blocks and  *)
(* its sections spell it, for any lines, and with recursive functions and  *)
(* induction over sequences what the proofs about chunks rest on.          *)
EXTENDS Acquisition, FiniteSetTheorems, SequenceTheorems, WellFoundedInduction, TLAPS

-----------------------------------------------------------------------------
(* A set of natural numbers has a least one.                               *)
LEMMA LeastNumber ==
  ASSUME NEW S, S \subseteq Nat, S # {}
  PROVE  \E i \in S : \A j \in S : i <= j
<1>1. PICK less : less = {pair \in Nat \X Nat : pair[1] < pair[2]}
  OBVIOUS
<1>2. IsWellFoundedOn(less, Nat)
  <2>1. less = OpToRel(<, Nat)
    BY <1>1 DEF OpToRel
  <2> QED BY <2>1, NatLessThanWellFounded
<1>3. PICK i \in S : \A j \in S : <<j, i>> \notin less
  BY <1>2, WFMin
<1>4. ASSUME NEW j \in S PROVE i <= j
  <2>1. i \in Nat /\ j \in Nat
    OBVIOUS
  <2>2. j < i => <<j, i>> \in less
    BY <1>1, <2>1
  <2> QED BY <1>3, <2>1, <2>2
<1> QED BY <1>4

(* What holds of 0, and of a number if of the one before, holds up to n.   *)
LEMMA UpTo ==
  ASSUME NEW n \in Nat, NEW T, 0 \in T, \A k \in 1 .. n : k - 1 \in T => k \in T
  PROVE  \A k \in 0 .. n : k \in T
<1>1. PICK S : S = {k \in 0 .. n : k \notin T}
  OBVIOUS
<1>2. SUFFICES ASSUME S # {} PROVE FALSE
  BY <1>1
<1>3. S \subseteq Nat
  BY <1>1
<1>4. PICK k \in S : \A j \in S : k <= j
  BY <1>2, <1>3, LeastNumber
<1>5. k \in 1 .. n /\ k \notin T
  BY <1>1
<1>6. k - 1 \in 0 .. n /\ k - 1 \notin S
  BY <1>3, <1>4, <1>5
<1> QED BY <1>1, <1>5, <1>6

(* A function by recursion: every value is a step on from the one before.  *)
Steps(f, n, S, a, move, m) ==
  f \in [0 .. n -> S] /\ f[0] = a /\ \A k \in 1 .. m : f[k] = move[<<f[k - 1], k>>]
Reaches(n, S, a, move, m) == \E f : Steps(f, n, S, a, move, m)

IsStep(move, n, S) == move \in [S \X (1 .. n) -> S]

LEMMA Recursion ==
  ASSUME NEW n \in Nat, NEW S, NEW a \in S, NEW move, IsStep(move, n, S)
  PROVE  Reaches(n, S, a, move, n)
<1>1. PICK T : T = {m \in 0 .. n : Reaches(n, S, a, move, m)}
  OBVIOUS
<1>2. 0 \in T
  <2>1. Steps([k \in 0 .. n |-> a], n, S, a, move, 0)
    BY DEF Steps
  <2> QED BY <1>1, <2>1 DEF Reaches
<1>3. ASSUME NEW m \in 1 .. n, m - 1 \in T PROVE m \in T
  <2>1. PICK f : Steps(f, n, S, a, move, m - 1)
    BY <1>1, <1>3 DEF Reaches
  <2>2. m - 1 \in 0 .. n /\ f[m - 1] \in S /\ move[<<f[m - 1], m>>] \in S
    BY <2>1 DEF Steps, IsStep
  <2>3. PICK g : g = [f EXCEPT ![m] = move[<<f[m - 1], m>>]]
    OBVIOUS
  <2>4. g \in [0 .. n -> S] /\ g[0] = a
    BY <2>1, <2>2, <2>3 DEF Steps
  <2>5. ASSUME NEW k \in 1 .. m PROVE g[k] = move[<<g[k - 1], k>>]
    <3>1. k - 1 \in 0 .. n /\ k - 1 # m /\ g[k - 1] = f[k - 1]
      BY <2>1, <2>3 DEF Steps
    <3>2. CASE k = m
      <4>1. g[m] = move[<<f[m - 1], m>>]
        BY <2>1, <2>3 DEF Steps
      <4> QED BY <3>1, <3>2, <4>1
    <3>3. CASE k # m
      <4>1. k \in 1 .. m - 1 /\ k \in 0 .. n /\ g[k] = f[k]
        BY <2>1, <2>3, <3>3 DEF Steps
      <4> QED BY <2>1, <3>1, <4>1 DEF Steps
    <3> QED BY <3>2, <3>3
  <2>6. Steps(g, n, S, a, move, m)
    BY <2>4, <2>5 DEF Steps
  <2> QED BY <1>1, <2>6 DEF Reaches
<1>4. n \in T
  BY <1>2, <1>3, UpTo
<1> QED BY <1>1, <1>4

(* The elements that were picked from the first k.                         *)
IsPicking(f, n, s, P) ==
  f = [k \in 0 .. n |-> IF k = 0 THEN <<>> ELSE IF k \in P THEN Append(f[k - 1], s[k]) ELSE f[k - 1]]

Picks(f, n, S, s, P) ==
  /\ f \in [0 .. n -> S] /\ f[0] = <<>>
  /\ \A k \in 1 .. n : f[k] = IF k \in P THEN Append(f[k - 1], s[k]) ELSE f[k - 1]

LEMMA PickingAt ==
  ASSUME NEW f, NEW n \in Nat, NEW s, NEW P, IsPicking(f, n, s, P)
  PROVE  /\ f[0] = <<>>
         /\ \A k \in 1 .. n : f[k] = IF k \in P THEN Append(f[k - 1], s[k]) ELSE f[k - 1]
<1>1. PICK h : h = [k \in 0 .. n |-> IF k = 0 THEN <<>> ELSE IF k \in P THEN Append(f[k - 1], s[k]) ELSE f[k - 1]]
  OBVIOUS
<1>2. f = h
  BY <1>1 DEF IsPicking
<1>3. \A k \in 1 .. n : h[k] = IF k \in P THEN Append(f[k - 1], s[k]) ELSE f[k - 1]
  BY <1>1
<1>4. h[0] = <<>>
  BY <1>1
<1> QED BY <1>2, <1>3, <1>4

LEMMA PickedIs ==
  ASSUME NEW E, NEW s \in Seq(E), NEW P
  PROVE  \E f : Picks(f, Len(s), Seq(E), s, P) /\ Chu!Picked(s, P) = f[Len(s)]
<1>1. PICK n \in Nat : n = Len(s)
  OBVIOUS
<1>2. PICK S, a : S = Seq(E) /\ a = <<>>
  OBVIOUS
<1>3. a \in S /\ \A v \in S : \A k \in 1 .. n : Append(v, s[k]) \in S
  BY <1>1, <1>2
<1>4. PICK move : move = [p \in S \X (1 .. n) |-> IF p[2] \in P THEN Append(p[1], s[p[2]]) ELSE p[1]]
  OBVIOUS
<1>5. \A v \in S : \A k \in 1 .. n : move[<<v, k>>] = IF k \in P THEN Append(v, s[k]) ELSE v
  BY <1>4
<1>6. IsStep(move, n, S)
  BY <1>3, <1>4 DEF IsStep
<1>7. PICK g : Steps(g, n, S, a, move, n)
  BY <1>3, <1>6, Recursion DEF Reaches
<1>8. IsPicking(g, n, s, P)
  <2>1. ASSUME NEW k \in 0 .. n
        PROVE  g[k] = IF k = 0 THEN <<>> ELSE IF k \in P THEN Append(g[k - 1], s[k]) ELSE g[k - 1]
    <3>1. CASE k = 0
      BY <1>2, <1>7, <3>1 DEF Steps
    <3>2. CASE k # 0
      <4>1. k \in 1 .. n /\ k - 1 \in 0 .. n /\ g[k - 1] \in S
        BY <1>7, <3>2 DEF Steps
      <4> QED BY <1>5, <1>7, <3>2, <4>1 DEF Steps
    <3> QED BY <3>1, <3>2
  <2> QED BY <1>7, <2>1 DEF IsPicking, Steps
<1>9. PICK f : f = CHOOSE h : IsPicking(h, n, s, P)
  OBVIOUS
<1>10. IsPicking(f, n, s, P)
  BY <1>8, <1>9
<1>11. Chu!Picked(s, P) = f[n]
  BY <1>1, <1>9 DEF Chu!Picked, IsPicking
<1>14. f[0] = <<>> /\ \A k \in 1 .. n : f[k] = IF k \in P THEN Append(f[k - 1], s[k]) ELSE f[k - 1]
  BY <1>10, PickingAt
<1>12. \A k \in 0 .. n : f[k] \in S
  <2>1. PICK T : T = {k \in 0 .. n : f[k] \in S}
    OBVIOUS
  <2>2. 0 \in T
    <3>1. f[0] = a
      BY <1>2, <1>14
    <3>2. 0 \in 0 .. n
      OBVIOUS
    <3> QED BY <1>3, <2>1, <3>1, <3>2
  <2>3. ASSUME NEW k \in 1 .. n, k - 1 \in T PROVE k \in T
    <3>1. f[k - 1] \in S /\ f[k] = IF k \in P THEN Append(f[k - 1], s[k]) ELSE f[k - 1]
      BY <1>14, <2>1, <2>3
    <3> QED BY <1>3, <2>1, <3>1
  <2> QED BY <2>1, <2>2, <2>3, UpTo
<1>13. f \in [0 .. n -> S]
  BY <1>10, <1>12 DEF IsPicking
<1>15. Picks(f, n, S, s, P)
  BY <1>13, <1>14 DEF Picks
<1> QED BY <1>1, <1>2, <1>11, <1>15

LEMMA PickedMore ==
  ASSUME NEW E, NEW s \in Seq(E), NEW x \in E, NEW P, NEW Q,
         \A k \in 1 .. Len(s) : k \in P <=> k \in Q
  PROVE  Chu!Picked(Append(s, x), Q)
           = IF Len(s) + 1 \in Q THEN Append(Chu!Picked(s, P), x) ELSE Chu!Picked(s, P)
<1>1. PICK n \in Nat : n = Len(s)
  OBVIOUS
<1>2. PICK t \in Seq(E) : t = Append(s, x)
  BY AppendProperties
<1>3. Len(t) = n + 1 /\ t[n + 1] = x /\ \A k \in 1 .. n : t[k] = s[k]
  BY <1>1, <1>2, AppendProperties
<1>4. PICK f : Picks(f, n, Seq(E), s, P) /\ Chu!Picked(s, P) = f[n]
  BY <1>1, PickedIs
<1>5. PICK g : Picks(g, n + 1, Seq(E), t, Q) /\ Chu!Picked(t, Q) = g[n + 1]
  BY <1>3, PickedIs
<1>6. \A k \in 0 .. n : g[k] = f[k]
  <2>1. PICK T : T = {k \in 0 .. n : g[k] = f[k]}
    OBVIOUS
  <2>2. 0 \in T
    BY <1>4, <1>5, <2>1 DEF Picks
  <2>3. ASSUME NEW k \in 1 .. n, k - 1 \in T PROVE k \in T
    <3>1. g[k - 1] = f[k - 1] /\ (k \in P <=> k \in Q) /\ t[k] = s[k]
      BY <1>1, <1>3, <2>1, <2>3
    <3>2. f[k] = IF k \in P THEN Append(f[k - 1], s[k]) ELSE f[k - 1]
      BY <1>4 DEF Picks
    <3>3. g[k] = IF k \in Q THEN Append(g[k - 1], t[k]) ELSE g[k - 1]
      BY <1>5 DEF Picks
    <3> QED BY <2>1, <3>1, <3>2, <3>3
  <2> QED BY <2>1, <2>2, <2>3, UpTo
<1>7. g[n + 1] = IF n + 1 \in Q THEN Append(g[n], x) ELSE g[n]
  <2>1. PICK m : m = n + 1
    OBVIOUS
  <2>2. m \in 1 .. m /\ m - 1 = n
    BY <2>1
  <2>3. g[m] = IF m \in Q THEN Append(g[m - 1], t[m]) ELSE g[m - 1]
    BY <1>5, <2>1, <2>2 DEF Picks
  <2> QED BY <1>3, <2>1, <2>2, <2>3
<1> QED BY <1>1, <1>2, <1>3, <1>4, <1>5, <1>6, <1>7

LEMMA PickedType ==
  ASSUME NEW E, NEW s \in Seq(E), NEW P
  PROVE  Chu!Picked(s, P) \in Seq(E)
<1>1. PICK n \in Nat : n = Len(s)
  OBVIOUS
<1>2. PICK f : Picks(f, n, Seq(E), s, P) /\ Chu!Picked(s, P) = f[n]
  BY <1>1, PickedIs
<1> QED BY <1>2 DEF Picks

(* What was picked is no longer, and still rises if it did.                *)
LEMMA PickedShort ==
  ASSUME NEW E, NEW s \in Seq(E), NEW P
  PROVE  Len(Chu!Picked(s, P)) <= Len(s)
<1>1. PICK n \in Nat : n = Len(s)
  OBVIOUS
<1>2. PICK f : Picks(f, n, Seq(E), s, P) /\ Chu!Picked(s, P) = f[n]
  BY <1>1, PickedIs
<1>3. PICK T : T = {k \in 0 .. n : Len(f[k]) <= k}
  OBVIOUS
<1>4. 0 \in T
  BY <1>2, <1>3 DEF Picks
<1>5. ASSUME NEW k \in 1 .. n, k - 1 \in T PROVE k \in T
  <2>1. k - 1 \in 0 .. n /\ f[k - 1] \in Seq(E) /\ s[k] \in E /\ Len(f[k - 1]) <= k - 1
    BY <1>1, <1>2, <1>3, <1>5 DEF Picks
  <2>2. Len(Append(f[k - 1], s[k])) = Len(f[k - 1]) + 1 /\ Len(f[k - 1]) \in Nat
    BY <2>1, AppendProperties
  <2>3. f[k] = IF k \in P THEN Append(f[k - 1], s[k]) ELSE f[k - 1]
    BY <1>2 DEF Picks
  <2>4. PICK a \in Nat : a = Len(f[k - 1]) /\ a <= k - 1
    BY <2>1, <2>2
  <2>5. Len(f[k]) = a + 1 \/ Len(f[k]) = a
    BY <2>2, <2>3, <2>4
  <2>6. Len(f[k]) <= k
    BY <2>4, <2>5
  <2> QED BY <1>3, <2>6
<1>6. \A k \in 0 .. n : k \in T
  BY <1>4, <1>5, UpTo
<1> QED BY <1>1, <1>2, <1>3, <1>6

LEMMA PickedNone ==
  ASSUME NEW P
  PROVE  Chu!Picked(<<>>, P) = <<>>
<1>1. PICK s \in Seq({0}) : s = <<>>
  BY EmptySeq
<1>2. Len(s) = 0
  BY <1>1
<1>3. PICK f : Picks(f, 0, Seq({0}), s, P) /\ Chu!Picked(s, P) = f[0]
  BY <1>2, PickedIs
<1> QED BY <1>1, <1>3 DEF Picks

-----------------------------------------------------------------------------
(* Induction over sequences, the last element taken away.                  *)
LEMMA BySequence ==
  ASSUME NEW E, NEW T, <<>> \in T, \A s \in Seq(E) : \A x \in E : s \in T => Append(s, x) \in T
  PROVE  \A s \in Seq(E) : s \in T
<1>1. SUFFICES ASSUME NEW s \in Seq(E) PROVE s \in T
  OBVIOUS
<1>2. PICK n \in Nat : n = Len(s)
  OBVIOUS
<1>3. PICK U : U = {k \in 0 .. n : \A t \in Seq(E) : Len(t) = k => t \in T}
  OBVIOUS
<1>4. 0 \in U
  <2>1. ASSUME NEW t \in Seq(E), Len(t) = 0 PROVE t \in T
    BY <2>1, EmptySeq
  <2> QED BY <1>3, <2>1
<1>5. ASSUME NEW k \in 1 .. n, k - 1 \in U PROVE k \in U
  <2>1. ASSUME NEW t \in Seq(E), Len(t) = k PROVE t \in T
    <3>1. t # <<>>
      BY <2>1
    <3>2. PICK r \in Seq(E), x \in E : t = Append(r, x)
      BY <3>1, SequenceEmptyOrAppend
    <3>3. Len(r) = k - 1
      BY <2>1, <3>2
    <3>4. r \in T
      BY <1>3, <1>5, <3>3
    <3> QED BY <3>2, <3>4
  <2> QED BY <1>3, <2>1
<1>6. n \in U
  BY <1>4, <1>5, UpTo
<1> QED BY <1>2, <1>3, <1>6

(* A function on sequences that spells every element.                      *)
Spells(h, E, F, u) ==
  /\ u \in [E -> Seq(F)] /\ h \in [Seq(E) -> Seq(F)] /\ h[<<>>] = <<>>
  /\ \A s \in Seq(E) : \A x \in E : h[Append(s, x)] = h[s] \o u[x]

SpelledApart(h, E) == \A s, t \in Seq(E) : h[s \o t] = h[s] \o h[t]

LEMMA SpellsBoth ==
  ASSUME NEW E, NEW F, NEW u, NEW h, Spells(h, E, F, u)
  PROVE  SpelledApart(h, E)
<1> SUFFICES ASSUME NEW s \in Seq(E), NEW t \in Seq(E)
             PROVE  h[s \o t] = h[s] \o h[t]
  BY DEF SpelledApart
<1>1. PICK T : T = {r \in Seq(E) : h[s \o r] = h[s] \o h[r]}
  OBVIOUS
<1>2. <<>> \in T
  <2>1. s \o <<>> = s /\ h[s] \in Seq(F)
    BY ConcatEmptySeq DEF Spells
  <2>2. h[s] \o <<>> = h[s]
    BY <2>1, ConcatEmptySeq
  <2> QED BY <1>1, <2>1, <2>2, EmptySeq DEF Spells
<1>3. ASSUME NEW r \in Seq(E), NEW x \in E, r \in T PROVE Append(r, x) \in T
  <2>1. Append(r, x) \in Seq(E) /\ s \o r \in Seq(E) /\ s \o Append(r, x) = Append(s \o r, x)
    <3>1. <<x>> \in Seq(E) /\ Append(r, x) = r \o <<x>> /\ Append(r, x) \in Seq(E)
      BY AppendIsConcat, AppendProperties
    <3>2. s \o r \in Seq(E)
      BY ConcatProperties
    <3>3. Append(s \o r, x) = (s \o r) \o <<x>>
      BY <3>2, AppendIsConcat
    <3>4. (s \o r) \o <<x>> = s \o (r \o <<x>>)
      BY <3>1, ConcatAssociative
    <3> QED BY <3>1, <3>2, <3>3, <3>4
  <2>2. h[s] \in Seq(F) /\ h[r] \in Seq(F) /\ u[x] \in Seq(F)
    BY DEF Spells
  <2>3. h[Append(s \o r, x)] = h[s \o r] \o u[x] /\ h[Append(r, x)] = h[r] \o u[x]
    BY <2>1 DEF Spells
  <2>4. h[s \o r] = h[s] \o h[r]
    BY <1>1, <1>3
  <2>5. (h[s] \o h[r]) \o u[x] = h[s] \o (h[r] \o u[x])
    <3>1. PICK a, b, c : a = h[s] /\ b = h[r] /\ c = u[x]
      OBVIOUS
    <3>2. a \in Seq(F) /\ b \in Seq(F) /\ c \in Seq(F)
      BY <2>2, <3>1
    <3>3. (a \o b) \o c = a \o (b \o c)
      BY <3>2, ConcatAssociative
    <3> QED BY <3>1, <3>3
  <2> QED BY <1>1, <2>1, <2>3, <2>4, <2>5
<1>4. t \in T
  BY <1>2, <1>3, BySequence
<1> QED BY <1>1, <1>4

SpelledAlike(h, g, E) == \A s \in Seq(E) : h[s] = g[s]

LEMMA SpellsSame ==
  ASSUME NEW E, NEW F, NEW u, NEW h, NEW g, Spells(h, E, F, u), Spells(g, E, F, u)
  PROVE  SpelledAlike(h, g, E)
<1> SUFFICES ASSUME NEW s \in Seq(E) PROVE h[s] = g[s]
  BY DEF SpelledAlike
<1>1. PICK T : T = {r \in Seq(E) : h[r] = g[r]}
  OBVIOUS
<1>2. <<>> \in T
  BY <1>1, EmptySeq DEF Spells
<1>3. ASSUME NEW r \in Seq(E), NEW x \in E, r \in T PROVE Append(r, x) \in T
  <2>1. Append(r, x) \in Seq(E) /\ h[r] = g[r]
    BY <1>1, <1>3, AppendProperties
  <2>2. h[Append(r, x)] = h[r] \o u[x] /\ g[Append(r, x)] = g[r] \o u[x]
    BY DEF Spells
  <2> QED BY <1>1, <2>1, <2>2
<1>4. s \in T
  BY <1>2, <1>3, BySequence
<1> QED BY <1>1, <1>4

-----------------------------------------------------------------------------
(* Joining sequences.                                                      *)
IsFlattening(f, n, ss) == f = [i \in 1 .. n |-> IF i = 1 THEN ss[i] ELSE f[i - 1] \o ss[i]]
Flattens(f, n, S, ss) ==
  /\ f[1] = ss[1] /\ \A k \in 1 .. n : f[k] \in S
  /\ \A k \in 2 .. n : f[k] = f[k - 1] \o ss[k]

GoesOn(f, n, ss) == f[1] = ss[1] /\ \A k \in 2 .. n : f[k] = f[k - 1] \o ss[k]

LEMMA FlatteningAt ==
  ASSUME NEW f, NEW n, n \in Nat \ {0}, NEW ss, IsFlattening(f, n, ss)
  PROVE  GoesOn(f, n, ss)
<1>1. PICK h : h = [i \in 1 .. n |-> IF i = 1 THEN ss[i] ELSE f[i - 1] \o ss[i]]
  OBVIOUS
<1>2. f = h
  BY <1>1 DEF IsFlattening
<1>3. h[1] = ss[1]
  BY <1>1
<1>4. ASSUME NEW k \in 2 .. n PROVE h[k] = f[k - 1] \o ss[k]
  <2>1. k \in 1 .. n /\ k # 1
    OBVIOUS
  <2> QED BY <1>1, <2>1
<1> QED BY <1>2, <1>3, <1>4 DEF GoesOn

LEMMA FlattenIs ==
  ASSUME NEW F, NEW ss \in Seq(Seq(F)), NEW n \in Nat \ {0}, n = Len(ss)
  PROVE  \E f : Flattens(f, n, Seq(F), ss) /\ Chu!FlattenSeq(ss) = f[n]
<1>1. PICK S, a : S = Seq(F) /\ a = <<>>
  OBVIOUS
<1>2. \A k \in 1 .. n : ss[k] \in S
  BY <1>1
<1>3. a \in S /\ \A v \in S : \A w \in S : v \o w \in S /\ a \o v = v
  BY <1>1, EmptySeq, ConcatProperties, ConcatEmptySeq
<1>4. PICK move : move = [p \in S \X (1 .. n) |-> p[1] \o ss[p[2]]]
  OBVIOUS
<1>5. \A v \in S : \A k \in 1 .. n : move[<<v, k>>] = v \o ss[k]
  BY <1>4
<1>6. IsStep(move, n, S)
  BY <1>2, <1>3, <1>4 DEF IsStep
<1>7. PICK g : Steps(g, n, S, a, move, n)
  BY <1>3, <1>6, Recursion DEF Reaches
<1>8. PICK h : h = [k \in 1 .. n |-> g[k]]
  OBVIOUS
<1>9. IsFlattening(h, n, ss)
  <2>1. ASSUME NEW k \in 1 .. n PROVE h[k] = IF k = 1 THEN ss[k] ELSE h[k - 1] \o ss[k]
    <3>1. k - 1 \in 0 .. n /\ g[k - 1] \in S /\ h[k] = g[k] /\ g[k] = move[<<g[k - 1], k>>]
      <4>1. k - 1 \in 0 .. n /\ k \in 1 .. n
        OBVIOUS
      <4> QED BY <1>7, <1>8, <4>1 DEF Steps
    <3>2. h[k] = g[k - 1] \o ss[k]
      BY <1>5, <3>1
    <3>3. CASE k = 1
      <4>1. g[k - 1] = a
        BY <1>7, <3>3 DEF Steps
      <4> QED BY <1>2, <1>3, <3>2, <3>3, <4>1
    <3>4. CASE k # 1
      <4>1. h[k - 1] = g[k - 1]
        BY <1>8, <3>4
      <4> QED BY <3>2, <3>4, <4>1
    <3> QED BY <3>3, <3>4
  <2>2. h = [k \in 1 .. n |-> h[k]]
    BY <1>8
  <2> QED BY <2>1, <2>2 DEF IsFlattening
<1>10. PICK f : f = CHOOSE k : IsFlattening(k, n, ss)
  OBVIOUS
<1>11. IsFlattening(f, n, ss)
  BY <1>9, <1>10
<1>12. Chu!FlattenSeq(ss) = f[n]
  BY <1>10 DEF Chu!FlattenSeq, IsFlattening
<1>13. f[1] = ss[1] /\ \A k \in 2 .. n : f[k] = f[k - 1] \o ss[k]
  <2>1. GoesOn(f, n, ss)
    BY <1>11, FlatteningAt
  <2> QED BY <2>1 DEF GoesOn
<1>14. \A k \in 1 .. n : f[k] \in S
  <2>1. PICK T : T = {0} \cup {k \in 1 .. n : f[k] \in S}
    OBVIOUS
  <2>2. ASSUME NEW k \in 1 .. n, k - 1 \in T PROVE k \in T
    <3>1. CASE k = 1
      BY <1>2, <1>13, <2>1, <3>1
    <3>2. CASE k # 1
      <4>1. k \in 2 .. n /\ k - 1 # 0 /\ f[k - 1] \in S
        BY <2>1, <2>2, <3>2
      <4> QED BY <1>2, <1>3, <1>13, <2>1, <4>1
    <3> QED BY <3>1, <3>2
  <2>3. \A k \in 0 .. n : k \in T
    BY <2>1, <2>2, UpTo
  <2> QED BY <2>1, <2>3
<1>15. Flattens(f, n, S, ss)
  BY <1>13, <1>14 DEF Flattens
<1> QED BY <1>1, <1>12, <1>15

LEMMA FlattenMore ==
  ASSUME NEW F, NEW ss \in Seq(Seq(F)), NEW s \in Seq(F)
  PROVE  Chu!FlattenSeq(ss) \in Seq(F) /\ Chu!FlattenSeq(Append(ss, s)) = Chu!FlattenSeq(ss) \o s
<1>1. PICK n \in Nat : n = Len(ss)
  OBVIOUS
<1>2. PICK tt \in Seq(Seq(F)) : tt = Append(ss, s)
  BY AppendProperties
<1>3. Len(tt) = n + 1 /\ tt[n + 1] = s /\ \A k \in 1 .. n : tt[k] = ss[k]
  BY <1>1, <1>2, AppendProperties
<1>4. PICK m : m = n + 1
  OBVIOUS
<1>5. m \in Nat \ {0} /\ m = Len(tt)
  BY <1>3, <1>4
<1>6. PICK g : Flattens(g, m, Seq(F), tt) /\ Chu!FlattenSeq(tt) = g[m]
  BY <1>5, FlattenIs
<1>7. CASE n = 0
  <2>1. ss = <<>> /\ Chu!FlattenSeq(ss) = <<>>
    BY <1>1, <1>7, EmptySeq DEF Chu!FlattenSeq
  <2>2. g[m] = s
    BY <1>3, <1>4, <1>6, <1>7 DEF Flattens
  <2>3. <<>> \o s = s
    BY ConcatEmptySeq
  <2> QED BY <1>2, <1>6, <2>1, <2>2, <2>3, EmptySeq
<1>8. CASE n # 0
  <2>1. n \in Nat \ {0}
    BY <1>8
  <2>2. PICK f : Flattens(f, n, Seq(F), ss) /\ Chu!FlattenSeq(ss) = f[n]
    BY <1>1, <2>1, FlattenIs
  <2>3. \A k \in 1 .. n : g[k] = f[k]
    <3>1. PICK T : T = {0} \cup {k \in 1 .. n : g[k] = f[k]}
      OBVIOUS
    <3>2. ASSUME NEW k \in 1 .. n, k - 1 \in T PROVE k \in T
      <4>0. tt[k] = ss[k] /\ k \in 1 .. m
        BY <1>3, <1>4
      <4>1. CASE k = 1
        BY <1>6, <2>2, <3>1, <4>0, <4>1 DEF Flattens
      <4>2. CASE k # 1
        <5>1. k \in 2 .. n /\ k \in 2 .. m /\ g[k - 1] = f[k - 1]
          BY <1>4, <3>1, <3>2, <4>2
        <5>2. g[k] = g[k - 1] \o tt[k] /\ f[k] = f[k - 1] \o ss[k]
          BY <1>6, <2>2, <5>1 DEF Flattens
        <5> QED BY <3>1, <4>0, <5>1, <5>2
      <4> QED BY <4>1, <4>2
    <3>3. \A k \in 0 .. n : k \in T
      BY <3>1, <3>2, UpTo
    <3> QED BY <3>1, <3>3
  <2>4. m \in 2 .. m /\ m - 1 = n
    BY <1>4, <2>1
  <2>5. g[m] = g[n] \o tt[m]
    BY <1>6, <2>4 DEF Flattens
  <2>6. f[n] \in Seq(F)
    BY <2>1, <2>2 DEF Flattens
  <2>7. g[n] = f[n]
    BY <2>1, <2>3
  <2> QED BY <1>2, <1>3, <1>4, <1>6, <2>2, <2>5, <2>6, <2>7
<1> QED BY <1>7, <1>8

-----------------------------------------------------------------------------
(* A recursive function stays in a set that its steps do not leave.        *)
Within(f, n, S) == \A k \in 0 .. n : f[k] \in S
Follows(f, n, S, a, move) == f[0] = a /\ \A k \in 1 .. n : f[k - 1] \in S => f[k] = move[<<f[k - 1], k>>]

LEMMA StaysWithin ==
  ASSUME NEW n \in Nat, NEW S, NEW a \in S, NEW move, IsStep(move, n, S), NEW f, Follows(f, n, S, a, move)
  PROVE  Within(f, n, S)
<1>1. PICK T : T = {k \in 0 .. n : f[k] \in S}
  OBVIOUS
<1>2. 0 \in T
  <2>1. 0 \in 0 .. n /\ f[0] = a
    BY DEF Follows
  <2> QED BY <1>1, <2>1
<1>3. ASSUME NEW k \in 1 .. n, k - 1 \in T PROVE k \in T
  <2>1. f[k - 1] \in S
    BY <1>1, <1>3
  <2>2. f[k] = move[<<f[k - 1], k>>]
    BY <2>1 DEF Follows
  <2>3. move[<<f[k - 1], k>>] \in S
    BY <2>1 DEF IsStep
  <2> QED BY <1>1, <2>2, <2>3
<1>4. \A k \in 0 .. n : k \in T
  BY <1>2, <1>3, UpTo
<1> QED BY <1>1, <1>4 DEF Within

-----------------------------------------------------------------------------
(* The texts of headings; a blank line has none.                          *)
Names == STRING \cup {""}
Line == [kind : Chu!Kinds, level : 0 .. MaxLevel, text : Names, id : Nat]
Token == Nat \X Nat
Tokens == Seq(Token)

-----------------------------------------------------------------------------
(* The body tokens of a text are those of its parts.                       *)
BodyOf == [s \in Tokens |-> Chu!Body(s)]
BodyToken == [x \in Token |-> IF x[1] > 0 THEN <<x>> ELSE <<>>]

LEMMA BodySpells == Spells(BodyOf, Token, Token, BodyToken)
<1>1. \A x \in Token : <<x>> \in Seq(Token) /\ <<>> \in Seq(Token)
  BY EmptySeq
<1>2. BodyToken \in [Token -> Seq(Token)]
  BY <1>1 DEF BodyToken
<1>3. BodyOf \in [Seq(Token) -> Seq(Token)]
  BY PickedType DEF BodyOf, Chu!Body, Tokens
<1>4. BodyOf[<<>>] = <<>>
  BY PickedNone, EmptySeq DEF BodyOf, Chu!Body, Tokens
<1>5. ASSUME NEW s \in Seq(Token), NEW x \in Token
      PROVE  BodyOf[Append(s, x)] = BodyOf[s] \o BodyToken[x]
  <2>1. PICK n \in Nat : n = Len(s)
    OBVIOUS
  <2>2. PICK t \in Seq(Token) : t = Append(s, x)
    BY AppendProperties
  <2>3. Len(t) = n + 1 /\ t[n + 1] = x /\ \A k \in 1 .. n : t[k] = s[k]
    BY <2>1, <2>2, AppendProperties
  <2>4. DOMAIN s = 1 .. n /\ DOMAIN t = 1 .. n + 1
    BY <2>1, <2>3
  <2>5. PICK P, Q : P = {i \in DOMAIN s : s[i][1] > 0} /\ Q = {i \in DOMAIN t : t[i][1] > 0}
    OBVIOUS
  <2>6. \A k \in 1 .. Len(s) : k \in P <=> k \in Q
    BY <2>1, <2>3, <2>4, <2>5
  <2>7. n + 1 \in Q <=> x[1] > 0
    BY <2>3, <2>4, <2>5
  <2>8. Chu!Picked(t, Q) = IF n + 1 \in Q THEN Append(Chu!Picked(s, P), x) ELSE Chu!Picked(s, P)
    BY <2>1, <2>2, <2>6, PickedMore
  <2>9. BodyOf[t] = Chu!Picked(t, Q) /\ BodyOf[s] = Chu!Picked(s, P) /\ Chu!Picked(s, P) \in Seq(Token)
    BY <2>5, PickedType DEF BodyOf, Chu!Body, Tokens
  <2>10. Append(BodyOf[s], x) = BodyOf[s] \o <<x>> /\ BodyOf[s] \o <<>> = BodyOf[s]
    BY <1>3, AppendIsConcat, ConcatEmptySeq
  <2> QED BY <2>2, <2>7, <2>8, <2>9, <2>10 DEF BodyToken
<1> QED BY <1>2, <1>3, <1>4, <1>5 DEF Spells

LEMMA BodyType ==
  ASSUME NEW s \in Tokens
  PROVE  Chu!Body(s) \in Tokens
BY PickedType DEF Chu!Body, Tokens

LEMMA BodyBoth ==
  ASSUME NEW s \in Tokens, NEW t \in Tokens
  PROVE  s \o t \in Tokens /\ Chu!Body(s \o t) = Chu!Body(s) \o Chu!Body(t)
<1>1. s \o t \in Tokens
  BY ConcatProperties DEF Tokens
<1>2. BodyOf[s \o t] = BodyOf[s] \o BodyOf[t]
  <2>1. s \in Seq(Token) /\ t \in Seq(Token)
    BY DEF Tokens
  <2>2. PICK h, u : h = BodyOf /\ u = BodyToken
    OBVIOUS
  <2>3. Spells(h, Token, Token, u)
    BY <2>2, BodySpells
  <2>4. SpelledApart(h, Token)
    BY <2>3, SpellsBoth
  <2> QED BY <2>1, <2>2, <2>4 DEF SpelledApart
<1> QED BY <1>1, <1>2 DEF BodyOf

LEMMA BodyNone ==
  ASSUME NEW s \in Tokens, \A i \in 1 .. Len(s) : s[i][1] = 0
  PROVE  Chu!Body(s) = <<>>
<1>1. PICK n \in Nat : n = Len(s)
  BY DEF Tokens
<1>2. PICK P : P = {i \in DOMAIN s : s[i][1] > 0}
  OBVIOUS
<1>3. PICK f : Picks(f, n, Tokens, s, P) /\ Chu!Picked(s, P) = f[n]
  BY <1>1, PickedIs DEF Tokens
<1>4. \A k \in 1 .. n : k \notin P
  BY <1>1, <1>2 DEF Tokens
<1>5. PICK T : T = {k \in 0 .. n : f[k] = <<>>}
  OBVIOUS
<1>6. 0 \in T
  BY <1>3, <1>5 DEF Picks
<1>7. \A k \in 1 .. n : k - 1 \in T => k \in T
  BY <1>3, <1>4, <1>5 DEF Picks
<1>8. n \in T
  <2>1. \A k \in 0 .. n : k \in T
    BY <1>6, <1>7, UpTo
  <2> QED BY <2>1
<1> QED BY <1>2, <1>3, <1>5, <1>8 DEF Chu!Body

LEMMA EmptyTokens == <<>> \in Tokens /\ Chu!Body(<<>>) = <<>>
BY EmptySeq, PickedNone DEF Tokens, Chu!Body

LEMMA SepTokens == <<Chu!Sep>> \in Tokens /\ Chu!Body(<<Chu!Sep>>) = <<>>
<1>1. PICK s : s = <<Chu!Sep>>
  OBVIOUS
<1>2. s \in Tokens /\ Len(s) = 1 /\ s[1] = <<0, 0>>
  BY <1>1 DEF Tokens, Token, Chu!Sep
<1> QED BY <1>1, <1>2, BodyNone

LEMMA PrefixTokens ==
  ASSUME NEW path \in Seq(Names)
  PROVE  /\ Chu!Prefix(path) \in Tokens /\ Chu!Body(Chu!Prefix(path)) = <<>>
         /\ Len(Chu!Prefix(path)) = Len(path)
<1>1. PICK n \in Nat : n = Len(path)
  OBVIOUS
<1>2. PICK s : s = [k \in 1 .. n |-> <<0, k>>]
  OBVIOUS
<1>3. \A k \in 1 .. n : s[k] \in Token /\ s[k] = <<0, k>>
  BY <1>2 DEF Token
<1>4. s \in [1 .. n -> Token]
  BY <1>2, <1>3
<1>5. s \in Tokens /\ Len(s) = n
  BY <1>4 DEF Tokens
<1>6. Chu!Prefix(path) = s
  BY <1>1, <1>2 DEF Chu!Prefix
<1> QED BY <1>1, <1>3, <1>5, <1>6, BodyNone

-----------------------------------------------------------------------------
(* Texts joined by a separator.                                            *)
Joined(v, t, sep) == IF v = <<>> THEN t ELSE v \o sep \o t
IsJoining(f, n, ts, sep) ==
  f = [k \in 0 .. n |-> IF k = 0 THEN <<>> ELSE IF f[k - 1] = <<>> THEN ts[k] ELSE f[k - 1] \o sep \o ts[k]]
Joins(f, n, ts, sep) ==
  /\ \A k \in 0 .. n : f[k] \in Tokens
  /\ f[0] = <<>> /\ \A k \in 1 .. n : f[k] = Joined(f[k - 1], ts[k], sep)

LEMMA JoinedType ==
  ASSUME NEW v \in Tokens, NEW t \in Tokens, NEW sep \in Tokens
  PROVE  Joined(v, t, sep) \in Tokens
BY ConcatProperties DEF Joined, Tokens

LEMMA JoiningAt ==
  ASSUME NEW f, NEW n \in Nat, NEW ts, NEW sep, IsJoining(f, n, ts, sep)
  PROVE  f[0] = <<>> /\ \A k \in 1 .. n : f[k] = Joined(f[k - 1], ts[k], sep)
<1>1. PICK h : h = [k \in 0 .. n |-> IF k = 0 THEN <<>> ELSE Joined(f[k - 1], ts[k], sep)]
  OBVIOUS
<1>2. f = h
  BY <1>1 DEF IsJoining, Joined
<1>3. h[0] = <<>>
  BY <1>1
<1>4. ASSUME NEW k \in 1 .. n PROVE h[k] = Joined(f[k - 1], ts[k], sep)
  <2>1. k \in 0 .. n /\ k # 0
    OBVIOUS
  <2> QED BY <1>1, <2>1
<1> QED BY <1>2, <1>3, <1>4

LEMMA JoinIs ==
  ASSUME NEW ts \in Seq(Tokens), NEW sep \in Tokens, NEW n \in Nat, n = Len(ts)
  PROVE  \E f : Joins(f, n, ts, sep) /\ Chu!Join(ts, sep) = f[n]
<1>1. PICK a : a = <<>>
  OBVIOUS
<1>2. a \in Tokens /\ \A k \in 1 .. n : ts[k] \in Tokens
  BY <1>1, EmptyTokens
<1>3. PICK move : move = [p \in Tokens \X (1 .. n) |-> Joined(p[1], ts[p[2]], sep)]
  OBVIOUS
<1>4. \A v \in Tokens : \A k \in 1 .. n : move[<<v, k>>] = Joined(v, ts[k], sep)
  BY <1>3
<1>5. IsStep(move, n, Tokens)
  BY <1>2, <1>3, JoinedType DEF IsStep
<1>6. PICK g : Steps(g, n, Tokens, a, move, n)
  BY <1>2, <1>5, Recursion DEF Reaches
<1>7. IsJoining(g, n, ts, sep)
  <2>1. ASSUME NEW k \in 0 .. n
        PROVE  g[k] = IF k = 0 THEN <<>> ELSE Joined(g[k - 1], ts[k], sep)
    <3>1. CASE k = 0
      BY <1>1, <1>6, <3>1 DEF Steps
    <3>2. CASE k # 0
      <4>1. k \in 1 .. n /\ k - 1 \in 0 .. n /\ g[k - 1] \in Tokens
        BY <1>6, <3>2 DEF Steps
      <4> QED BY <1>4, <1>6, <3>2, <4>1 DEF Steps
    <3> QED BY <3>1, <3>2
  <2> QED BY <1>6, <2>1 DEF IsJoining, Steps, Joined
<1>8. PICK f : f = CHOOSE h : IsJoining(h, n, ts, sep)
  OBVIOUS
<1>9. IsJoining(f, n, ts, sep)
  BY <1>7, <1>8
<1>10. Chu!Join(ts, sep) = f[n]
  BY <1>8 DEF Chu!Join, IsJoining
<1>11. f[0] = <<>> /\ \A k \in 1 .. n : f[k] = Joined(f[k - 1], ts[k], sep)
  BY <1>9, JoiningAt
<1>12. Within(f, n, Tokens)
  <2>1. Follows(f, n, Tokens, a, move)
    BY <1>1, <1>4, <1>11 DEF Follows
  <2> QED BY <1>2, <1>5, <2>1, StaysWithin
<1> QED BY <1>10, <1>11, <1>12 DEF Joins, Within

LEMMA JoinType ==
  ASSUME NEW ts \in Seq(Tokens), NEW sep \in Tokens
  PROVE  Chu!Join(ts, sep) \in Tokens
<1>1. PICK n \in Nat : n = Len(ts)
  OBVIOUS
<1>2. PICK f : Joins(f, n, ts, sep) /\ Chu!Join(ts, sep) = f[n]
  BY <1>1, JoinIs
<1> QED BY <1>2 DEF Joins

LEMMA JoinMore ==
  ASSUME NEW ts \in Seq(Tokens), NEW t \in Tokens, NEW sep \in Tokens
  PROVE  Chu!Join(Append(ts, t), sep) = Joined(Chu!Join(ts, sep), t, sep)
<1>1. PICK n \in Nat : n = Len(ts)
  OBVIOUS
<1>2. PICK us \in Seq(Tokens) : us = Append(ts, t)
  BY AppendProperties
<1>3. Len(us) = n + 1 /\ us[n + 1] = t /\ \A k \in 1 .. n : us[k] = ts[k]
  BY <1>1, <1>2, AppendProperties
<1>4. PICK m \in Nat : m = n + 1
  OBVIOUS
<1>5. PICK f : Joins(f, n, ts, sep) /\ Chu!Join(ts, sep) = f[n]
  BY <1>1, JoinIs
<1>6. PICK g : Joins(g, m, us, sep) /\ Chu!Join(us, sep) = g[m]
  BY <1>3, <1>4, JoinIs
<1>7. g[n] = f[n]
  <2>1. PICK T : T = {k \in 0 .. n : g[k] = f[k]}
    OBVIOUS
  <2>2. 0 \in T
    BY <1>5, <1>6, <2>1 DEF Joins
  <2>3. ASSUME NEW k \in 1 .. n, k - 1 \in T PROVE k \in T
    <3>1. k \in 1 .. m /\ us[k] = ts[k] /\ g[k - 1] = f[k - 1]
      BY <1>3, <1>4, <2>1, <2>3
    <3>2. g[k] = Joined(g[k - 1], us[k], sep) /\ f[k] = Joined(f[k - 1], ts[k], sep)
      BY <1>5, <1>6, <3>1 DEF Joins
    <3> QED BY <2>1, <3>1, <3>2
  <2>4. \A k \in 0 .. n : k \in T
    BY <2>2, <2>3, UpTo
  <2> QED BY <2>1, <2>4
<1>8. m \in 1 .. m /\ m - 1 = n
  BY <1>4
<1>9. g[m] = Joined(g[n], us[m], sep)
  BY <1>6, <1>8 DEF Joins
<1> QED BY <1>2, <1>3, <1>4, <1>5, <1>6, <1>7, <1>9

LEMMA JoinNone ==
  ASSUME NEW sep \in Tokens
  PROVE  Chu!Join(<<>>, sep) = <<>>
<1>1. PICK ts \in Seq(Tokens) : ts = <<>>
  BY EmptySeq
<1>2. PICK n \in Nat : n = 0
  OBVIOUS
<1>3. n = Len(ts)
  BY <1>1, <1>2
<1>4. PICK f : Joins(f, n, ts, sep) /\ Chu!Join(ts, sep) = f[n]
  BY <1>3, JoinIs
<1> QED BY <1>1, <1>2, <1>4 DEF Joins

(* A separator without body tokens does not show.                          *)
LEMMA JoinBody ==
  ASSUME NEW ts \in Seq(Tokens), NEW t \in Tokens, NEW sep \in Tokens, Chu!Body(sep) = <<>>
  PROVE  Chu!Body(Chu!Join(Append(ts, t), sep)) = Chu!Body(Chu!Join(ts, sep)) \o Chu!Body(t)
<1>1. PICK v \in Tokens : v = Chu!Join(ts, sep)
  BY JoinType
<1>2. PICK a, b : a = Chu!Body(v) /\ b = Chu!Body(t)
  OBVIOUS
<1>3. a \in Tokens /\ b \in Tokens
  BY <1>2, BodyType
<1>4. CASE v = <<>>
  <2>1. Joined(v, t, sep) = t /\ a = <<>>
    BY <1>2, <1>4, EmptyTokens DEF Joined
  <2>2. <<>> \o b = b
    BY <1>3, ConcatEmptySeq DEF Tokens
  <2> QED BY <1>1, <1>2, <2>1, <2>2, JoinMore
<1>5. CASE v # <<>>
  <2>1. Joined(v, t, sep) = (v \o sep) \o t
    BY <1>5 DEF Joined
  <2>2. v \o sep \in Tokens /\ Chu!Body(v \o sep) = a \o <<>>
    BY <1>2, BodyBoth
  <2>3. a \o <<>> = a
    BY <1>3, ConcatEmptySeq DEF Tokens
  <2>4. Chu!Body((v \o sep) \o t) = a \o b
    <3>1. PICK w \in Tokens : w = v \o sep
      BY <2>2
    <3>2. Chu!Body(w \o t) = Chu!Body(w) \o Chu!Body(t)
      BY BodyBoth
    <3> QED BY <1>2, <2>2, <2>3, <3>1, <3>2
  <2> QED BY <1>1, <1>2, <2>1, <2>4, JoinMore
<1> QED BY <1>4, <1>5

-----------------------------------------------------------------------------
(* The text of some lines: that of every line, blank lines left out.       *)
LEMMA KindsAre ==
  /\ Chu!Kinds = {"fence", "heading", "row", "item", "quote", "text", "long", "indent", "noise", "footer", "blank"}
  /\ DOMAIN Chu!BlockOf = Chu!Kinds \ {"blank"}
BY DEF Chu!Kinds, Chu!BlockOf

LEMMA LineTokensType ==
  ASSUME NEW l \in Line
  PROVE  Chu!LineTokens(l) \in Tokens
<1>1. l.id \in Nat /\ l.kind \in Chu!Kinds
  BY DEF Line
<1>2. CASE l.kind = "heading"
  <2>1. <<l.id, 1>> \in Token
    BY <1>1 DEF Token
  <2> QED BY <1>2, <2>1 DEF Chu!LineTokens, Tokens
<1>3. CASE l.kind # "heading"
  <2>1. PICK w \in Nat : w = Weight[l.kind]
    BY <1>1, <1>3, ChunkingAssumption
  <2>2. \A k \in 1 .. w : <<l.id, k>> \in Token
    BY <1>1 DEF Token
  <2> QED BY <1>3, <2>1, <2>2 DEF Chu!LineTokens, Tokens
<1> QED BY <1>2, <1>3

TextBody == [lines \in Seq(Line) |-> Chu!Body(Chu!Text(lines))]
LineBody == [l \in Line |-> IF l.kind = "blank" THEN <<>> ELSE Chu!Body(Chu!LineTokens(l))]

LEMMA NotBlankMore ==
  ASSUME NEW lines \in Seq(Line), NEW l \in Line
  PROVE  Chu!NotBlank(Append(lines, l))
           = IF l.kind # "blank" THEN Append(Chu!NotBlank(lines), l) ELSE Chu!NotBlank(lines)
<1>1. PICK n \in Nat : n = Len(lines)
  OBVIOUS
<1>2. PICK t \in Seq(Line) : t = Append(lines, l)
  BY AppendProperties
<1>3. Len(t) = n + 1 /\ t[n + 1] = l /\ \A k \in 1 .. n : t[k] = lines[k]
  BY <1>1, <1>2, AppendProperties
<1>4. DOMAIN lines = 1 .. n /\ DOMAIN t = 1 .. n + 1
  BY <1>1, <1>3
<1>5. PICK P, Q : P = {i \in DOMAIN lines : lines[i].kind # "blank"} /\ Q = {i \in DOMAIN t : t[i].kind # "blank"}
  OBVIOUS
<1>6. \A k \in 1 .. Len(lines) : k \in P <=> k \in Q
  BY <1>1, <1>3, <1>4, <1>5
<1>7. n + 1 \in Q <=> l.kind # "blank"
  BY <1>3, <1>4, <1>5
<1>8. Chu!Picked(t, Q) = IF n + 1 \in Q THEN Append(Chu!Picked(lines, P), l) ELSE Chu!Picked(lines, P)
  BY <1>1, <1>2, <1>6, PickedMore
<1> QED BY <1>2, <1>5, <1>7, <1>8 DEF Chu!NotBlank

LEMMA NotBlankType ==
  ASSUME NEW lines \in Seq(Line)
  PROVE  Chu!NotBlank(lines) \in Seq(Line)
BY PickedType DEF Chu!NotBlank

LineTexts(body) == [i \in DOMAIN body |-> Chu!LineTokens(body[i])]

LEMMA LineTextsMore ==
  ASSUME NEW body \in Seq(Line)
  PROVE  /\ LineTexts(body) \in Seq(Tokens)
         /\ \A l \in Line : LineTexts(Append(body, l)) = Append(LineTexts(body), Chu!LineTokens(l))
<1>1. PICK n \in Nat : n = Len(body)
  OBVIOUS
<1>2. \A k \in 1 .. n : Chu!LineTokens(body[k]) \in Tokens
  BY <1>1, LineTokensType
<1>3. PICK s : s = LineTexts(body)
  OBVIOUS
<1>4. s \in Seq(Tokens) /\ Len(s) = n /\ \A k \in 1 .. n : s[k] = Chu!LineTokens(body[k])
  BY <1>1, <1>2, <1>3 DEF LineTexts
<1>5. ASSUME NEW l \in Line
      PROVE  LineTexts(Append(body, l)) = Append(s, Chu!LineTokens(l))
  <2>1. PICK t \in Seq(Line) : t = Append(body, l)
    BY AppendProperties
  <2>2. Len(t) = n + 1 /\ t[n + 1] = l /\ \A k \in 1 .. n : t[k] = body[k]
    BY <1>1, <2>1, AppendProperties
  <2>3. PICK r, x : r = LineTexts(t) /\ x = Chu!LineTokens(l)
    OBVIOUS
  <2>4. x \in Tokens
    BY <2>3, LineTokensType
  <2>5. DOMAIN t = 1 .. n + 1
    BY <2>2
  <2>6. r = [k \in 1 .. n + 1 |-> Chu!LineTokens(t[k])]
    BY <2>3, <2>5 DEF LineTexts
  <2>7. \A k \in 1 .. n + 1 : r[k] = IF k = n + 1 THEN x ELSE s[k]
    BY <1>4, <2>2, <2>3, <2>6
  <2>8. PICK q \in Seq(Tokens) : q = Append(s, x)
    BY <1>4, <2>4, AppendProperties
  <2>9. Len(q) = n + 1 /\ q[n + 1] = x /\ \A k \in 1 .. n : q[k] = s[k]
    BY <1>4, <2>4, <2>8, AppendProperties
  <2>10. q = [k \in 1 .. n + 1 |-> q[k]]
    BY <2>9
  <2>11. \A k \in 1 .. n + 1 : r[k] = q[k]
    BY <2>7, <2>9
  <2>12. r = q
    BY <2>6, <2>10, <2>11
  <2> QED BY <2>1, <2>3, <2>8, <2>12
<1> QED BY <1>3, <1>4, <1>5

LEMMA TextType ==
  ASSUME NEW lines \in Seq(Line)
  PROVE  Chu!Text(lines) \in Tokens
<1>1. PICK body \in Seq(Line) : body = Chu!NotBlank(lines)
  BY NotBlankType
<1>2. Chu!Text(lines) = Chu!Join(LineTexts(body), <<Chu!Sep>>)
  BY <1>1 DEF Chu!Text, LineTexts
<1> QED BY <1>2, LineTextsMore, SepTokens, JoinType

LEMMA TextSpells == Spells(TextBody, Line, Token, LineBody)
<1>1. LineBody \in [Line -> Seq(Token)]
  BY LineTokensType, BodyType, EmptyTokens DEF LineBody, Tokens
<1>2. TextBody \in [Seq(Line) -> Seq(Token)]
  BY TextType, BodyType DEF TextBody, Tokens
<1>3. TextBody[<<>>] = <<>>
  <2>1. Chu!NotBlank(<<>>) = <<>>
    BY PickedNone DEF Chu!NotBlank
  <2>2. LineTexts(<<>>) = <<>>
    BY DEF LineTexts
  <2>3. Chu!Text(<<>>) = <<>>
    BY <2>1, <2>2, SepTokens, JoinNone DEF Chu!Text, LineTexts
  <2> QED BY <2>3, EmptyTokens, EmptySeq DEF TextBody
<1>4. ASSUME NEW lines \in Seq(Line), NEW l \in Line
      PROVE  TextBody[Append(lines, l)] = TextBody[lines] \o LineBody[l]
  <2>1. PICK t \in Seq(Line) : t = Append(lines, l)
    BY AppendProperties
  <2>2. PICK b \in Seq(Line) : b = Chu!NotBlank(lines)
    BY NotBlankType
  <2>3. PICK sep : sep = <<Chu!Sep>>
    OBVIOUS
  <2>4. sep \in Tokens /\ Chu!Body(sep) = <<>>
    BY <2>3, SepTokens
  <2>5. Chu!Text(lines) = Chu!Join(LineTexts(b), sep)
    BY <2>2, <2>3 DEF Chu!Text, LineTexts
  <2>6. PICK r \in Seq(Tokens) : r = LineTexts(b)
    BY LineTextsMore
  <2>7. CASE l.kind = "blank"
    <3>1. Chu!NotBlank(t) = b
      BY <2>1, <2>2, <2>7, NotBlankMore
    <3>2. Chu!Text(t) = Chu!Text(lines)
      BY <2>2, <3>1 DEF Chu!Text
    <3>3. TextBody[lines] \o <<>> = TextBody[lines]
      BY <1>2, ConcatEmptySeq
    <3> QED BY <2>1, <2>7, <3>2, <3>3 DEF TextBody, LineBody
  <2>8. CASE l.kind # "blank"
    <3>1. PICK x \in Tokens : x = Chu!LineTokens(l)
      BY LineTokensType
    <3>2. PICK c : c = Append(b, l)
      OBVIOUS
    <3>3. Chu!NotBlank(t) = c
      BY <2>1, <2>2, <2>8, <3>2, NotBlankMore
    <3>4. Chu!Text(t) = Chu!Join(LineTexts(c), sep)
      BY <2>3, <3>3 DEF Chu!Text, LineTexts
    <3>5. LineTexts(c) = Append(r, x)
      BY <2>6, <3>1, <3>2, LineTextsMore
    <3>6. Chu!Body(Chu!Join(Append(r, x), sep)) = Chu!Body(Chu!Join(r, sep)) \o Chu!Body(x)
      BY <2>4, JoinBody
    <3>7. TextBody[t] = Chu!Body(Chu!Text(t)) /\ TextBody[lines] = Chu!Body(Chu!Text(lines))
      BY DEF TextBody
    <3>8. LineBody[l] = Chu!Body(x)
      BY <2>8, <3>1 DEF LineBody
    <3> QED BY <2>1, <2>5, <2>6, <3>4, <3>5, <3>6, <3>7, <3>8
  <2> QED BY <2>7, <2>8
<1> QED BY <1>1, <1>2, <1>3, <1>4 DEF Spells

-----------------------------------------------------------------------------
(* Each element spelled out, one after the other.                          *)
Spell(s, u) == Chu!FlattenSeq([i \in DOMAIN s |-> u[s[i]]])
SpellOf(E, u) == [s \in Seq(E) |-> Spell(s, u)]

LEMMA SpellOfSpells ==
  ASSUME NEW E, NEW F, NEW u \in [E -> Seq(F)]
  PROVE  Spells(SpellOf(E, u), E, F, u)
<1>1. PICK Word : Word = Seq(F)
  OBVIOUS
<1>2. ASSUME NEW s \in Seq(E)
      PROVE  /\ [i \in DOMAIN s |-> u[s[i]]] \in Seq(Word)
             /\ Spell(s, u) \in Word
             /\ \A x \in E : Spell(Append(s, x), u) = Spell(s, u) \o u[x]
  <2>1. PICK n \in Nat : n = Len(s)
    OBVIOUS
  <2>2. \A k \in 1 .. n : u[s[k]] \in Word
    BY <1>1, <2>1
  <2>3. PICK w : w = [i \in DOMAIN s |-> u[s[i]]]
    OBVIOUS
  <2>4. w \in Seq(Word) /\ Len(w) = n /\ \A k \in 1 .. n : w[k] = u[s[k]]
    BY <2>1, <2>2, <2>3
  <2>5. Spell(s, u) \in Word
    BY <1>1, <2>3, <2>4, FlattenMore, EmptySeq DEF Spell
  <2>6. ASSUME NEW x \in E PROVE Spell(Append(s, x), u) = Spell(s, u) \o u[x]
    <3>1. PICK t \in Seq(E) : t = Append(s, x)
      BY AppendProperties
    <3>2. Len(t) = n + 1 /\ t[n + 1] = x /\ \A k \in 1 .. n : t[k] = s[k]
      BY <2>1, <3>1, AppendProperties
    <3>3. PICK v \in Word : v = u[x]
      BY <1>1
    <3>4. PICK r : r = [i \in DOMAIN t |-> u[t[i]]]
      OBVIOUS
    <3>5. DOMAIN t = 1 .. n + 1
      BY <3>2
    <3>6. r = [k \in 1 .. n + 1 |-> u[t[k]]]
      BY <3>4, <3>5
    <3>7. \A k \in 1 .. n + 1 : r[k] = IF k = n + 1 THEN v ELSE w[k]
      <4>1. SUFFICES ASSUME NEW k \in 1 .. n + 1 PROVE r[k] = IF k = n + 1 THEN v ELSE w[k]
        OBVIOUS
      <4>2. r[k] = u[t[k]]
        BY <3>6
      <4>3. k # n + 1 => k \in 1 .. n
        BY <4>1
      <4> QED BY <2>4, <3>2, <3>3, <4>2, <4>3
    <3>8. PICK q \in Seq(Word) : q = Append(w, v)
      BY <2>4, AppendProperties
    <3>9. Len(q) = n + 1 /\ q[n + 1] = v /\ \A k \in 1 .. n : q[k] = w[k]
      BY <2>4, <3>8, AppendProperties
    <3>10. q = [k \in 1 .. n + 1 |-> q[k]]
      BY <3>9
    <3>11. \A k \in 1 .. n + 1 : r[k] = q[k]
      BY <3>7, <3>9
    <3>12. r = Append(w, v)
      BY <3>6, <3>8, <3>10, <3>11
    <3>13. Chu!FlattenSeq(Append(w, v)) = Chu!FlattenSeq(w) \o v
      BY <1>1, <2>4, FlattenMore
    <3> QED BY <2>3, <3>1, <3>3, <3>4, <3>12, <3>13 DEF Spell
  <2> QED BY <2>3, <2>4, <2>5, <2>6
<1>3. Spell(<<>>, u) = <<>>
  <2>1. [i \in DOMAIN <<>> |-> u[<<>>[i]]] = <<>>
    OBVIOUS
  <2> QED BY <2>1 DEF Spell, Chu!FlattenSeq
<1>4. SpellOf(E, u) \in [Seq(E) -> Seq(F)]
  BY <1>1, <1>2 DEF SpellOf
<1>5. SpellOf(E, u)[<<>>] = <<>>
  BY <1>3, EmptySeq DEF SpellOf
<1>6. ASSUME NEW s \in Seq(E), NEW x \in E
      PROVE  SpellOf(E, u)[Append(s, x)] = SpellOf(E, u)[s] \o u[x]
  BY <1>2, AppendProperties DEF SpellOf
<1> QED BY <1>4, <1>5, <1>6 DEF Spells

(* What spelling a longer sequence means.                                  *)
Spelled(E, F, u) ==
  /\ Spell(<<>>, u) = <<>>
  /\ \A s \in Seq(E) : Spell(s, u) \in Seq(F)
  /\ \A s \in Seq(E) : \A x \in E : Spell(Append(s, x), u) = Spell(s, u) \o u[x]
  /\ \A s, t \in Seq(E) : Spell(s \o t, u) = Spell(s, u) \o Spell(t, u)

LEMMA SpellIs ==
  ASSUME NEW E, NEW F, NEW u, u \in [E -> Seq(F)]
  PROVE  Spelled(E, F, u)
<1>1. PICK h : h = SpellOf(E, u)
  OBVIOUS
<1>2. Spells(h, E, F, u)
  BY <1>1, SpellOfSpells
<1>3. SpelledApart(h, E)
  BY <1>2, SpellsBoth
<1>4. \A s \in Seq(E) : h[s] = Spell(s, u)
  BY <1>1 DEF SpellOf
<1>5. Spell(<<>>, u) = <<>>
  BY <1>2, <1>4, EmptySeq DEF Spells
<1>6. ASSUME NEW s \in Seq(E), NEW x \in E PROVE Spell(Append(s, x), u) = Spell(s, u) \o u[x]
  <2>1. Append(s, x) \in Seq(E)
    BY AppendProperties
  <2> QED BY <1>2, <1>4, <2>1 DEF Spells
<1>7. ASSUME NEW s \in Seq(E), NEW t \in Seq(E) PROVE Spell(s \o t, u) = Spell(s, u) \o Spell(t, u)
  <2>1. s \o t \in Seq(E)
    BY ConcatProperties
  <2> QED BY <1>3, <1>4, <2>1 DEF SpelledApart
<1>8. \A s \in Seq(E) : Spell(s, u) \in Seq(F)
  BY <1>2, <1>4 DEF Spells
<1> QED BY <1>5, <1>6, <1>7, <1>8 DEF Spelled

(* Whatever is spelled by u is spelled so by Spell.                        *)
LEMMA SpellsAsSpell ==
  ASSUME NEW E, NEW F, NEW u, NEW h, Spells(h, E, F, u)
  PROVE  \A s \in Seq(E) : h[s] = Spell(s, u)
<1>1. PICK g : g = SpellOf(E, u)
  OBVIOUS
<1>2. Spells(g, E, F, u)
  <2>1. u \in [E -> Seq(F)]
    BY DEF Spells
  <2> QED BY <1>1, <2>1, SpellOfSpells
<1>3. SpelledAlike(h, g, E)
  BY <1>2, SpellsSame
<1> QED BY <1>1, <1>3 DEF SpelledAlike, SpellOf

LEMMA TextBoth ==
  ASSUME NEW r \in Seq(Line), NEW s \in Seq(Line)
  PROVE  /\ r \o s \in Seq(Line) /\ TextBody[r \o s] = TextBody[r] \o TextBody[s]
         /\ TextBody[r] \in Tokens
<1>1. r \o s \in Seq(Line)
  BY ConcatProperties
<1>2. PICK h, u : h = TextBody /\ u = LineBody
  OBVIOUS
<1>3. Spells(h, Line, Token, u)
  BY <1>2, TextSpells
<1>4. SpelledApart(h, Line)
  BY <1>3, SpellsBoth
<1>5. h[r] \in Tokens
  BY <1>3 DEF Spells, Tokens
<1> QED BY <1>1, <1>2, <1>4, <1>5 DEF SpelledApart

-----------------------------------------------------------------------------
(* What grows by the word of each element is the spelling of all of them.  *)
Grows(v, n, s, u) == v[0] = <<>> /\ \A k \in 1 .. n : v[k] = v[k - 1] \o u[s[k]]

LEMMA GrowsToSpell ==
  ASSUME NEW E, NEW F, NEW u, u \in [E -> Seq(F)], NEW s, s \in Seq(E), NEW n, n = Len(s),
         NEW v, Grows(v, n, s, u)
  PROVE  v[n] = Spell(s, u)
<1>1. n \in Nat /\ \A k \in 1 .. n : s[k] \in E
  OBVIOUS
<1>2. Spelled(E, F, u)
  BY SpellIs
<1>3. PICK p : p = [k \in 0 .. n |-> SubSeq(s, 1, k)]
  OBVIOUS
<1>4. p[0] = <<>>
  BY <1>1, <1>3, SubSeqEmpty
<1>5. ASSUME NEW k \in 1 .. n
      PROVE  p[k - 1] \in Seq(E) /\ p[k] = Append(p[k - 1], s[k])
  <2>1. k - 1 \in 0 .. n /\ 1 \in 1 .. Len(s) /\ k \in 1 .. Len(s)
    BY <1>1
  <2>2. SubSeq(s, 1, k) = SubSeq(s, 1, k - 1) \o <<s[k]>>
    BY <2>1, SubSeqRecursiveSecond
  <2>3. SubSeq(s, 1, k - 1) \in Seq(E)
    <3>1. \A i \in 1 .. k - 1 : s[i] \in E
      BY <1>1
    <3> QED BY <2>1, <3>1, SubSeqProperties
  <2>4. PICK q \in Seq(E), x \in E : q = SubSeq(s, 1, k - 1) /\ x = s[k]
    BY <1>1, <2>3
  <2>5. Append(q, x) = q \o <<x>>
    BY AppendIsConcat
  <2>6. p[k] = SubSeq(s, 1, k) /\ p[k - 1] = SubSeq(s, 1, k - 1)
    <3>1. k \in 0 .. n
      BY <1>1
    <3> QED BY <1>3, <2>1, <3>1
  <2> QED BY <2>2, <2>4, <2>5, <2>6
<1>6. p[n] = s
  BY <1>1, <1>3, SubSeqFull
<1>7. PICK T : T = {k \in 0 .. n : v[k] = Spell(p[k], u)}
  OBVIOUS
<1>8. 0 \in T
  BY <1>1, <1>2, <1>4, <1>7 DEF Grows, Spelled
<1>9. ASSUME NEW k \in 1 .. n, k - 1 \in T PROVE k \in T
  <2>1. v[k - 1] = Spell(p[k - 1], u) /\ v[k] = v[k - 1] \o u[s[k]]
    BY <1>7, <1>9 DEF Grows
  <2>2. Spell(p[k], u) = Spell(p[k - 1], u) \o u[s[k]]
    BY <1>1, <1>2, <1>5 DEF Spelled
  <2>3. k \in 0 .. n
    BY <1>1
  <2> QED BY <1>7, <2>1, <2>2, <2>3
<1>10. \A k \in 0 .. n : k \in T
  BY <1>1, <1>8, <1>9, UpTo
<1> QED BY <1>1, <1>6, <1>7, <1>10

-----------------------------------------------------------------------------
(* The blocks of a text.                                                   *)
Types == {"code", "heading", "table", "list", "quote", "paragraph"}
Block == [type : Types, lines : Seq(Line) \ {<<>>}]
BlockText == [b \in Block |-> TextBody[b.lines]]
BlockLines == [b \in Block |-> b.lines]

LEMMA BlockWords ==
  /\ BlockText \in [Block -> Seq(Token)] /\ BlockLines \in [Block -> Seq(Line)]
  /\ Spelled(Block, Token, BlockText) /\ Spelled(Block, Line, BlockLines)
<1>1. BlockText \in [Block -> Seq(Token)] /\ BlockLines \in [Block -> Seq(Line)]
  BY TextBoth DEF BlockText, BlockLines, Block, Tokens
<1> QED BY <1>1, SpellIs

Reading == {s \in [blocks : Seq(Block), open : Types \cup {"none"}] : s.open # "none" => s.blocks # <<>>}
Extended(blocks, l) == [blocks EXCEPT ![Len(blocks)].lines = Append(@, l)]
ReadLine(s, l) ==
  CASE s.open = "code" ->
         [blocks |-> Extended(s.blocks, l), open |-> IF l.kind = "fence" THEN "none" ELSE "code"]
    [] s.open # "code" /\ l.kind = "blank" -> [s EXCEPT !.open = "none"]
    [] s.open # "code" /\ l.kind \in Chu!Continues[s.open] -> [s EXCEPT !.blocks = Extended(@, l)]
    [] OTHER -> [blocks |-> Append(s.blocks, [type |-> Chu!BlockOf[l.kind], lines |-> <<l>>]),
                 open |-> Chu!BlockOf[l.kind]]

LEMMA ExtendedIs ==
  ASSUME NEW blocks \in Seq(Block), blocks # <<>>, NEW l \in Line
  PROVE  /\ Extended(blocks, l) \in Seq(Block) /\ Extended(blocks, l) # <<>>
         /\ Spell(Extended(blocks, l), BlockText) = Spell(blocks, BlockText) \o LineBody[l]
<1>1. PICK r \in Seq(Block), b \in Block : blocks = Append(r, b)
  BY SequenceEmptyOrAppend
<1>2. PICK n \in Nat : n = Len(r)
  OBVIOUS
<1>3. b.lines \in Seq(Line) /\ b.type \in Types
  BY DEF Block
<1>4. PICK c : c = [b EXCEPT !.lines = Append(b.lines, l)]
  OBVIOUS
<1>5. c \in Block /\ c.lines = Append(b.lines, l)
  <2>1. Append(b.lines, l) \in Seq(Line) /\ Append(b.lines, l) # <<>>
    BY <1>3, AppendProperties
  <2> QED BY <1>3, <1>4, <2>1 DEF Block
<1>6. Len(blocks) = n + 1 /\ blocks[n + 1] = b /\ \A k \in 1 .. n : blocks[k] = r[k]
  BY <1>1, <1>2, AppendProperties
<1>7. PICK e : e = Extended(blocks, l)
  OBVIOUS
<1>8. e = [blocks EXCEPT ![n + 1] = c]
  BY <1>4, <1>6, <1>7 DEF Extended
<1>9. PICK q \in Seq(Block) : q = Append(r, c)
  BY <1>5, AppendProperties
<1>10. Len(q) = n + 1 /\ q[n + 1] = c /\ (\A k \in 1 .. n : q[k] = r[k]) /\ q # <<>>
  BY <1>2, <1>5, <1>9, AppendProperties
<1>11. e = q
  <2>1. e \in Seq(Block) /\ Len(e) = n + 1 /\ \A k \in 1 .. n + 1 : e[k] = IF k = n + 1 THEN c ELSE blocks[k]
    BY <1>5, <1>6, <1>8, ExceptSeq
  <2>2. \A k \in 1 .. Len(e) : e[k] = q[k]
    BY <1>6, <1>10, <2>1
  <2> QED BY <1>10, <2>1, <2>2, SeqEqual
<1>12. Spell(e, BlockText) = Spell(r, BlockText) \o BlockText[c]
  BY <1>5, <1>9, <1>11, BlockWords DEF Spelled
<1>13. Spell(blocks, BlockText) = Spell(r, BlockText) \o BlockText[b]
  BY <1>1, BlockWords DEF Spelled
<1>14. BlockText[c] = BlockText[b] \o LineBody[l]
  <2>1. TextBody[Append(b.lines, l)] = TextBody[b.lines] \o LineBody[l]
    BY <1>3, TextSpells DEF Spells
  <2> QED BY <1>5, <2>1 DEF BlockText
<1>15. PICK x, y, z : x = Spell(r, BlockText) /\ y = BlockText[b] /\ z = LineBody[l]
  OBVIOUS
<1>16. x \in Seq(Token) /\ y \in Seq(Token) /\ z \in Seq(Token)
  BY <1>15, BlockWords, TextSpells DEF Spelled, Spells
<1>17. (x \o y) \o z = x \o (y \o z)
  BY <1>16, ConcatAssociative
<1> QED BY <1>7, <1>9, <1>10, <1>11, <1>12, <1>13, <1>14, <1>15, <1>17

LEMMA ReadLineIs ==
  ASSUME NEW s \in Reading, NEW l \in Line
  PROVE  /\ ReadLine(s, l) \in Reading
         /\ Spell(ReadLine(s, l).blocks, BlockText) = Spell(s.blocks, BlockText) \o LineBody[l]
<1>1. s.blocks \in Seq(Block) /\ s.open \in Types \cup {"none"} /\ (s.open # "none" => s.blocks # <<>>)
  BY DEF Reading
<1>2. s = [blocks |-> s.blocks, open |-> s.open]
  BY DEF Reading
<1>3. PICK r : r = ReadLine(s, l)
  OBVIOUS
<1>4. l.kind \in Chu!Kinds
  BY DEF Line
<1>5. CASE s.open = "code"
  <2>1. r = [blocks |-> Extended(s.blocks, l), open |-> IF l.kind = "fence" THEN "none" ELSE "code"]
    BY <1>3, <1>5 DEF ReadLine
  <2>2. s.blocks # <<>>
    BY <1>1, <1>5
  <2>3. PICK e : e = Extended(s.blocks, l)
    OBVIOUS
  <2>4. e \in Seq(Block) /\ e # <<>> /\ Spell(e, BlockText) = Spell(s.blocks, BlockText) \o LineBody[l]
    BY <1>1, <2>2, <2>3, ExtendedIs
  <2>5. r \in Reading /\ r.blocks = e
    BY <2>1, <2>3, <2>4 DEF Reading, Types
  <2> QED BY <1>3, <2>4, <2>5
<1>6. CASE s.open # "code" /\ l.kind = "blank"
  <2>1. r = [blocks |-> s.blocks, open |-> "none"]
    <3>1. l.kind \notin Chu!Continues[s.open]
      BY <1>1, <1>6 DEF Chu!Continues, Chu!Prose, Types
    <3>2. r = [s EXCEPT !.open = "none"]
      BY <1>3, <1>6, <3>1 DEF ReadLine
    <3> QED BY <1>2, <3>2
  <2>2. LineBody[l] = <<>>
    BY <1>6 DEF LineBody
  <2>3. Spell(s.blocks, BlockText) \o <<>> = Spell(s.blocks, BlockText)
    BY <1>1, BlockWords, ConcatEmptySeq DEF Spelled
  <2> QED BY <1>1, <1>3, <2>1, <2>2, <2>3 DEF Reading
<1>7. CASE s.open # "code" /\ l.kind # "blank" /\ l.kind \in Chu!Continues[s.open]
  <2>1. r = [blocks |-> Extended(s.blocks, l), open |-> s.open]
    BY <1>2, <1>3, <1>7 DEF ReadLine
  <2>2. s.blocks # <<>>
    <3>1. s.open # "none"
      BY <1>7 DEF Chu!Continues
    <3> QED BY <1>1, <3>1
  <2>3. PICK e : e = Extended(s.blocks, l)
    OBVIOUS
  <2>4. e \in Seq(Block) /\ e # <<>> /\ Spell(e, BlockText) = Spell(s.blocks, BlockText) \o LineBody[l]
    BY <1>1, <2>2, <2>3, ExtendedIs
  <2>5. r \in Reading /\ r.blocks = e
    BY <1>1, <2>1, <2>3, <2>4 DEF Reading
  <2> QED BY <1>3, <2>4, <2>5
<1>8. CASE s.open # "code" /\ l.kind # "blank" /\ l.kind \notin Chu!Continues[s.open]
  <2>1. PICK t \in Types : t = Chu!BlockOf[l.kind]
    <3>1. l.kind \in {"fence", "heading", "row", "item", "quote", "text", "long", "indent", "noise", "footer"}
      BY <1>4, <1>8, KindsAre
    <3> QED BY <3>1 DEF Chu!BlockOf, Types
  <2>2. PICK b : b = [type |-> t, lines |-> <<l>>]
    OBVIOUS
  <2>3. r = [blocks |-> Append(s.blocks, b), open |-> t]
    BY <1>3, <1>8, <2>1, <2>2 DEF ReadLine
  <2>4. <<l>> \in Seq(Line) /\ <<l>> # <<>> /\ <<l>> = Append(<<>>, l)
    OBVIOUS
  <2>5. b \in Block
    BY <2>2, <2>4 DEF Block
  <2>6. Append(s.blocks, b) \in Seq(Block) /\ Append(s.blocks, b) # <<>>
    BY <1>1, <2>5, AppendProperties
  <2>7. r \in Reading
    BY <2>3, <2>6 DEF Reading
  <2>8. BlockText[b] = LineBody[l]
    <3>1. TextBody[Append(<<>>, l)] = TextBody[<<>>] \o LineBody[l] /\ TextBody[<<>>] = <<>> /\ LineBody[l] \in Seq(Token)
      BY TextSpells, EmptySeq DEF Spells
    <3>2. <<>> \o LineBody[l] = LineBody[l]
      BY <3>1, ConcatEmptySeq
    <3> QED BY <2>2, <2>4, <2>5, <3>1, <3>2 DEF BlockText
  <2>9. Spell(Append(s.blocks, b), BlockText) = Spell(s.blocks, BlockText) \o BlockText[b]
    BY <1>1, <2>5, BlockWords DEF Spelled
  <2>10. r.blocks = Append(s.blocks, b)
    BY <2>3
  <2> QED BY <1>3, <2>7, <2>8, <2>9, <2>10
<1> QED BY <1>5, <1>6, <1>7, <1>8

NothingRead == [blocks |-> <<>>, open |-> "none"]
IsReading(f, n, lines) ==
  f = [k \in 0 .. n |-> IF k = 0 THEN NothingRead ELSE ReadLine(f[k - 1], lines[k])]

LEMMA ReadingAt ==
  ASSUME NEW f, NEW n \in Nat, NEW lines, IsReading(f, n, lines)
  PROVE  f[0] = NothingRead /\ \A k \in 1 .. n : f[k] = ReadLine(f[k - 1], lines[k])
<1>1. PICK h : h = [k \in 0 .. n |-> IF k = 0 THEN NothingRead ELSE ReadLine(f[k - 1], lines[k])]
  OBVIOUS
<1>2. f = h
  BY <1>1 DEF IsReading
<1>3. h[0] = NothingRead
  BY <1>1
<1>4. ASSUME NEW k \in 1 .. n PROVE h[k] = ReadLine(f[k - 1], lines[k])
  <2>1. k \in 0 .. n /\ k # 0
    OBVIOUS
  <2> QED BY <1>1, <2>1
<1> QED BY <1>2, <1>3, <1>4

(* Blocks lose no line that is not blank.                                  *)
LEMMA BlocksAre ==
  ASSUME NEW lines \in Seq(Line)
  PROVE  /\ Chu!ParseMarkdownBlocks(lines) \in Seq(Block)
         /\ Spell(Chu!ParseMarkdownBlocks(lines), BlockText) = TextBody[lines]
<1>1. PICK n \in Nat : n = Len(lines)
  OBVIOUS
<1>2. PICK a : a = NothingRead
  OBVIOUS
<1>3. a \in Reading /\ \A k \in 1 .. n : lines[k] \in Line
  BY <1>1, <1>2, EmptySeq DEF Reading, NothingRead
<1>4. PICK move : move = [p \in Reading \X (1 .. n) |-> ReadLine(p[1], lines[p[2]])]
  OBVIOUS
<1>5. \A v \in Reading : \A k \in 1 .. n : move[<<v, k>>] = ReadLine(v, lines[k])
  BY <1>4
<1>6. IsStep(move, n, Reading)
  BY <1>3, <1>4, ReadLineIs DEF IsStep
<1>7. PICK g : Steps(g, n, Reading, a, move, n)
  BY <1>3, <1>6, Recursion DEF Reaches
<1>8. IsReading(g, n, lines)
  <2>1. ASSUME NEW k \in 0 .. n
        PROVE  g[k] = IF k = 0 THEN NothingRead ELSE ReadLine(g[k - 1], lines[k])
    <3>1. CASE k = 0
      BY <1>2, <1>7, <3>1 DEF Steps
    <3>2. CASE k # 0
      <4>1. k \in 1 .. n /\ k - 1 \in 0 .. n /\ g[k - 1] \in Reading
        BY <1>7, <3>2 DEF Steps
      <4> QED BY <1>5, <1>7, <3>2, <4>1 DEF Steps
    <3> QED BY <3>1, <3>2
  <2> QED BY <1>7, <2>1 DEF IsReading, Steps
<1>9. PICK f : f = CHOOSE h : IsReading(h, n, lines)
  OBVIOUS
<1>10. IsReading(f, n, lines)
  BY <1>8, <1>9
<1>11. Chu!ParseMarkdownBlocks(lines) = f[n].blocks
  BY <1>1, <1>9 DEF Chu!ParseMarkdownBlocks, IsReading, ReadLine, Extended, NothingRead
<1>12. f[0] = NothingRead /\ \A k \in 1 .. n : f[k] = ReadLine(f[k - 1], lines[k])
  BY <1>10, ReadingAt
<1>13. Within(f, n, Reading)
  <2>1. Follows(f, n, Reading, a, move)
    BY <1>2, <1>5, <1>12 DEF Follows
  <2> QED BY <1>3, <1>6, <2>1, StaysWithin
<1>14. PICK v : v = [k \in 0 .. n |-> Spell(f[k].blocks, BlockText)]
  OBVIOUS
<1>15. Grows(v, n, lines, LineBody)
  <2>1. v[0] = <<>>
    BY <1>12, <1>14, BlockWords DEF NothingRead, Spelled
  <2>2. ASSUME NEW k \in 1 .. n PROVE v[k] = v[k - 1] \o LineBody[lines[k]]
    <3>1. k - 1 \in 0 .. n /\ k \in 0 .. n /\ f[k - 1] \in Reading
      BY <1>13 DEF Within
    <3>2. v[k] = Spell(f[k].blocks, BlockText) /\ v[k - 1] = Spell(f[k - 1].blocks, BlockText)
      BY <1>14, <3>1
    <3>3. Spell(ReadLine(f[k - 1], lines[k]).blocks, BlockText) = Spell(f[k - 1].blocks, BlockText) \o LineBody[lines[k]]
      BY <1>3, <3>1, ReadLineIs
    <3> QED BY <1>12, <3>2, <3>3
  <2> QED BY <2>1, <2>2 DEF Grows
<1>16. v[n] = Spell(lines, LineBody)
  <2>1. LineBody \in [Line -> Seq(Token)]
    BY TextSpells DEF Spells
  <2> QED BY <1>1, <1>15, <2>1, GrowsToSpell
<1>17. TextBody[lines] = Spell(lines, LineBody)
  BY TextSpells, SpellsAsSpell
<1>18. f[n] \in Reading
  BY <1>13 DEF Within
<1> QED BY <1>11, <1>14, <1>16, <1>17, <1>18 DEF Reading

-----------------------------------------------------------------------------
(* What is spelled by parts is spelled by what the parts spell.            *)
WordsOf(u, E, h, w) == u = [x \in E |-> h[w[x]]]

LEMMA SpellOfParts ==
  ASSUME NEW E, NEW F, NEW G, NEW w, NEW h, Spells(h, F, G, w),
         NEW parts_, parts_ \in [E -> Seq(F)], NEW s, s \in Seq(E),
         NEW u, WordsOf(u, E, h, parts_)
  PROVE  Spell(s, parts_) \in Seq(F) /\ h[Spell(s, parts_)] = Spell(s, u)
<1>1. Spelled(E, F, parts_)
  BY SpellIs
<1>2. h \in [Seq(F) -> Seq(G)] /\ h[<<>>] = <<>> /\ SpelledApart(h, F)
  <2>1. SpelledApart(h, F)
    BY SpellsBoth
  <2> QED BY <2>1 DEF Spells
<1>3. u \in [E -> Seq(G)]
  BY <1>2 DEF WordsOf
<1>4. PICK g : g = [r \in Seq(E) |-> h[Spell(r, parts_)]]
  OBVIOUS
<1>5. g \in [Seq(E) -> Seq(G)]
  BY <1>1, <1>2, <1>4 DEF Spelled
<1>6. g[<<>>] = <<>>
  BY <1>1, <1>2, <1>4, EmptySeq DEF Spelled
<1>7. ASSUME NEW r \in Seq(E), NEW x \in E PROVE g[Append(r, x)] = g[r] \o u[x]
  <2>1. Append(r, x) \in Seq(E)
    BY AppendProperties
  <2>2. PICK a \in Seq(F), b \in Seq(F) : a = Spell(r, parts_) /\ b = parts_[x]
    BY <1>1 DEF Spelled
  <2>3. Spell(Append(r, x), parts_) = a \o b
    BY <1>1, <2>2 DEF Spelled
  <2>4. h[a \o b] = h[a] \o h[b]
    BY <1>2 DEF SpelledApart
  <2> QED BY <1>4, <2>1, <2>2, <2>3, <2>4 DEF WordsOf
<1>8. Spells(g, E, G, u)
  BY <1>3, <1>5, <1>6, <1>7 DEF Spells
<1>9. g[s] = Spell(s, u)
  BY <1>8, SpellsAsSpell
<1> QED BY <1>1, <1>4, <1>9 DEF Spelled

(* Spelling the same words.                                                *)
LEMMA SpellSameWords ==
  ASSUME NEW E, NEW s \in Seq(E), NEW u, NEW w, \A x \in E : u[x] = w[x]
  PROVE  Spell(s, u) = Spell(s, w)
<1>1. [i \in DOMAIN s |-> u[s[i]]] = [i \in DOMAIN s |-> w[s[i]]]
  OBVIOUS
<1> QED BY <1>1 DEF Spell

-----------------------------------------------------------------------------
(* The blocks other than headings.                                         *)
Bodies(bs) == Chu!Picked(bs, {i \in DOMAIN bs : bs[i].type # "heading"})
OnlyBody == [b \in Block |-> IF b.type = "heading" THEN <<>> ELSE <<b>>]
BodiesOf == [bs \in Seq(Block) |-> Bodies(bs)]

LEMMA BodiesMore ==
  ASSUME NEW bs \in Seq(Block), NEW b \in Block
  PROVE  /\ Bodies(bs) \in Seq(Block)
         /\ Bodies(Append(bs, b)) = IF b.type = "heading" THEN Bodies(bs) ELSE Append(Bodies(bs), b)
<1>1. PICK n \in Nat : n = Len(bs)
  OBVIOUS
<1>2. PICK t \in Seq(Block) : t = Append(bs, b)
  BY AppendProperties
<1>3. Len(t) = n + 1 /\ t[n + 1] = b /\ \A k \in 1 .. n : t[k] = bs[k]
  BY <1>1, <1>2, AppendProperties
<1>4. DOMAIN bs = 1 .. n /\ DOMAIN t = 1 .. n + 1
  BY <1>1, <1>3
<1>5. PICK P, Q : P = {i \in DOMAIN bs : bs[i].type # "heading"} /\ Q = {i \in DOMAIN t : t[i].type # "heading"}
  OBVIOUS
<1>6. \A k \in 1 .. Len(bs) : k \in P <=> k \in Q
  BY <1>1, <1>3, <1>4, <1>5
<1>7. n + 1 \in Q <=> b.type # "heading"
  BY <1>3, <1>4, <1>5
<1>8. Chu!Picked(t, Q) = IF n + 1 \in Q THEN Append(Chu!Picked(bs, P), b) ELSE Chu!Picked(bs, P)
  BY <1>1, <1>2, <1>6, PickedMore
<1>9. Bodies(t) = Chu!Picked(t, Q) /\ Bodies(bs) = Chu!Picked(bs, P) /\ Chu!Picked(bs, P) \in Seq(Block)
  BY <1>5, PickedType DEF Bodies
<1> QED BY <1>2, <1>7, <1>8, <1>9

LEMMA BodiesSpell == Spells(BodiesOf, Block, Block, OnlyBody)
<1>1. OnlyBody \in [Block -> Seq(Block)]
  <2>1. \A b \in Block : <<b>> \in Seq(Block) /\ <<>> \in Seq(Block)
    BY EmptySeq
  <2> QED BY <2>1 DEF OnlyBody
<1>2. BodiesOf \in [Seq(Block) -> Seq(Block)]
  BY PickedType DEF BodiesOf, Bodies
<1>3. BodiesOf[<<>>] = <<>>
  BY PickedNone, EmptySeq DEF BodiesOf, Bodies
<1>4. ASSUME NEW bs \in Seq(Block), NEW b \in Block
      PROVE  BodiesOf[Append(bs, b)] = BodiesOf[bs] \o OnlyBody[b]
  <2>1. PICK t \in Seq(Block), r \in Seq(Block) : t = Append(bs, b) /\ r = Bodies(bs)
    BY BodiesMore, AppendProperties
  <2>2. Bodies(t) = IF b.type = "heading" THEN r ELSE Append(r, b)
    BY <2>1, BodiesMore
  <2>3. r \o <<>> = r /\ r \o <<b>> = Append(r, b)
    BY ConcatEmptySeq, AppendIsConcat
  <2> QED BY <2>1, <2>2, <2>3 DEF BodiesOf, OnlyBody
<1> QED BY <1>1, <1>2, <1>3, <1>4 DEF Spells

LEMMA BodiesAre ==
  ASSUME NEW bs \in Seq(Block)
  PROVE  Bodies(bs) \in Seq(Block) /\ Bodies(bs) = Spell(bs, OnlyBody)
<1>1. BodiesOf[bs] = Spell(bs, OnlyBody)
  BY BodiesSpell, SpellsAsSpell
<1> QED BY <1>1, BodiesMore, BodiesSpell DEF BodiesOf, Spells

(* What the property reads of a text.                                      *)
LEMMA BodyLinesAre ==
  ASSUME NEW lines \in Seq(Line), NEW all, all = Chu!ParseMarkdownBlocks(lines)
  PROVE  Chu!Body(Chu!Text(Chu!BodyLines(lines)))
           = IF Bodies(all) = <<>> THEN TextBody[lines] ELSE Spell(Bodies(all), BlockText)
<1>1. all \in Seq(Block) /\ Spell(all, BlockText) = TextBody[lines]
  BY BlocksAre
<1>2. PICK bs \in Seq(Block) : bs = IF Bodies(all) = <<>> THEN all ELSE Bodies(all)
  BY <1>1, BodiesAre
<1>3. Chu!BodyLines(lines) = Chu!FlattenSeq([i \in DOMAIN bs |-> bs[i].lines])
  BY <1>2 DEF Chu!BodyLines, Bodies
<1>4. [i \in DOMAIN bs |-> bs[i].lines] = [i \in DOMAIN bs |-> BlockLines[bs[i]]]
  BY DEF BlockLines
<1>5. Chu!BodyLines(lines) = Spell(bs, BlockLines)
  BY <1>3, <1>4 DEF Spell
<1>6. BlockText = [b \in Block |-> TextBody[BlockLines[b]]]
  BY DEF BlockText, BlockLines
<1>7. Spell(bs, BlockLines) \in Seq(Line) /\ TextBody[Spell(bs, BlockLines)] = Spell(bs, BlockText)
  <2>1. PICK w, u, h, g : w = BlockLines /\ u = BlockText /\ h = TextBody /\ g = LineBody
    OBVIOUS
  <2>2. w \in [Block -> Seq(Line)] /\ WordsOf(u, Block, h, w) /\ Spells(h, Line, Token, g)
    BY <1>6, <2>1, BlockWords, TextSpells DEF WordsOf
  <2>3. Spell(bs, w) \in Seq(Line) /\ h[Spell(bs, w)] = Spell(bs, u)
    BY <2>2, SpellOfParts
  <2> QED BY <2>1, <2>3
<1>8. Chu!Body(Chu!Text(Chu!BodyLines(lines))) = Spell(bs, BlockText)
  BY <1>5, <1>7 DEF TextBody
<1> QED BY <1>1, <1>2, <1>8

(* A text without its blank lines has the same body.                       *)
LEMMA NotBlankBody ==
  ASSUME NEW lines \in Seq(Line)
  PROVE  Chu!NotBlank(lines) \in Seq(Line) /\ TextBody[Chu!NotBlank(lines)] = TextBody[lines]
<1>1. PICK h, u, g : h = TextBody /\ u = LineBody /\ g = [s \in Seq(Line) |-> TextBody[Chu!NotBlank(s)]]
  OBVIOUS
<1>2. Spells(h, Line, Token, u)
  BY <1>1, TextSpells
<1>3. Spells(g, Line, Token, u)
  <2>1. u \in [Line -> Seq(Token)]
    BY <1>2 DEF Spells
  <2>2. g \in [Seq(Line) -> Seq(Token)]
    BY <1>1, <1>2, NotBlankType DEF Spells
  <2>3. g[<<>>] = <<>>
    <3>1. Chu!NotBlank(<<>>) = <<>>
      BY PickedNone DEF Chu!NotBlank
    <3> QED BY <1>1, <1>2, <3>1, EmptySeq DEF Spells
  <2>4. ASSUME NEW s \in Seq(Line), NEW l \in Line PROVE g[Append(s, l)] = g[s] \o u[l]
    <3>1. PICK t \in Seq(Line), r \in Seq(Line) : t = Append(s, l) /\ r = Chu!NotBlank(s)
      BY AppendProperties, NotBlankType
    <3>2. g[t] = h[Chu!NotBlank(t)] /\ g[s] = h[r]
      BY <1>1, <3>1
    <3>3. CASE l.kind = "blank"
      <4>1. Chu!NotBlank(t) = r
        BY <3>1, <3>3, NotBlankMore
      <4>2. u[l] = <<>>
        BY <1>1, <3>3 DEF LineBody
      <4>3. h[r] \o <<>> = h[r]
        BY <1>2, ConcatEmptySeq DEF Spells
      <4> QED BY <3>1, <3>2, <4>1, <4>2, <4>3
    <3>4. CASE l.kind # "blank"
      <4>1. Chu!NotBlank(t) = Append(r, l)
        BY <3>1, <3>4, NotBlankMore
      <4>2. h[Append(r, l)] = h[r] \o u[l]
        BY <1>2 DEF Spells
      <4> QED BY <3>1, <3>2, <4>1, <4>2
    <3> QED BY <3>3, <3>4
  <2> QED BY <2>1, <2>2, <2>3, <2>4 DEF Spells
<1>4. g[lines] = h[lines]
  BY <1>2, <1>3, SpellsSame DEF SpelledAlike
<1> QED BY <1>1, <1>4, NotBlankType

-----------------------------------------------------------------------------
(* A reading of a sequence, one state after each of its elements.          *)
IsRead(move, S, E) == move \in [S \X E -> S]
Run(f, n, S, a, s, move) ==
  f \in [0 .. n -> S] /\ f[0] = a /\ \A k \in 1 .. n : f[k] = move[<<f[k - 1], s[k]>>]
Runs(n, S, a, s, move) == \E f : Run(f, n, S, a, s, move)
RunsOn(f, n, S, a, s, move) ==
  f[0] = a /\ \A k \in 1 .. n : f[k - 1] \in S => f[k] = move[<<f[k - 1], s[k]>>]

LEMMA RunExists ==
  ASSUME NEW E, NEW S, NEW a \in S, NEW move, IsRead(move, S, E), NEW s \in Seq(E), NEW n, n = Len(s)
  PROVE  Runs(n, S, a, s, move)
<1>1. n \in Nat /\ \A k \in 1 .. n : s[k] \in E
  OBVIOUS
<1>2. PICK on : on = [p \in S \X (1 .. n) |-> move[<<p[1], s[p[2]]>>]]
  OBVIOUS
<1>3. \A v \in S : \A k \in 1 .. n : on[<<v, k>>] = move[<<v, s[k]>>]
  BY <1>2
<1>4. IsStep(on, n, S)
  BY <1>1, <1>2 DEF IsStep, IsRead
<1>5. PICK g : Steps(g, n, S, a, on, n)
  BY <1>1, <1>4, Recursion DEF Reaches
<1>6. ASSUME NEW k \in 1 .. n PROVE g[k] = move[<<g[k - 1], s[k]>>]
  <2>1. k - 1 \in 0 .. n /\ g[k - 1] \in S
    BY <1>5 DEF Steps
  <2> QED BY <1>3, <1>5, <2>1 DEF Steps
<1>7. Run(g, n, S, a, s, move)
  BY <1>5, <1>6 DEF Run, Steps
<1> QED BY <1>7 DEF Runs

LEMMA RunStays ==
  ASSUME NEW E, NEW S, NEW a \in S, NEW move, IsRead(move, S, E), NEW s \in Seq(E), NEW n, n = Len(s),
         NEW f, RunsOn(f, n, S, a, s, move)
  PROVE  Within(f, n, S)
<1>1. n \in Nat /\ \A k \in 1 .. n : s[k] \in E
  OBVIOUS
<1>2. PICK T : T = {k \in 0 .. n : f[k] \in S}
  OBVIOUS
<1>3. 0 \in T
  <2>1. 0 \in 0 .. n /\ f[0] = a
    BY <1>1 DEF RunsOn
  <2> QED BY <1>2, <2>1
<1>4. ASSUME NEW k \in 1 .. n, k - 1 \in T PROVE k \in T
  <2>1. f[k - 1] \in S /\ k \in 0 .. n
    BY <1>1, <1>2, <1>4
  <2>2. f[k] = move[<<f[k - 1], s[k]>>]
    BY <2>1 DEF RunsOn
  <2>3. move[<<f[k - 1], s[k]>>] \in S
    BY <1>1, <2>1 DEF IsRead
  <2> QED BY <1>2, <2>1, <2>2, <2>3
<1>5. \A k \in 0 .. n : k \in T
  BY <1>1, <1>3, <1>4, UpTo
<1> QED BY <1>2, <1>5 DEF Within

-----------------------------------------------------------------------------
(* The headings above a block have rising levels, so a heading path is no  *)
(* longer than there are levels.                                           *)
Rising(s) == \A i \in 1 .. Len(s), j \in 1 .. Len(s) : i < j => s[i].level < s[j].level
Stack == {s \in Seq(Line) : Rising(s)}
Path == {p \in Seq(Names) : Len(p) <= MaxLevel + 2}

LEMMA PushIs ==
  ASSUME NEW stack \in Stack, NEW l \in Line
  PROVE  Chu!PushHeading(stack, l) \in Stack
<1>1. PICK P : P = {i \in DOMAIN stack : stack[i].level < l.level}
  OBVIOUS
<1>2. PICK n \in Nat : n = Len(stack) /\ DOMAIN stack = 1 .. n
  BY DEF Stack
<1>3. stack \in Seq(Line) /\ \A i \in 1 .. n, j \in 1 .. n : i < j => stack[i].level < stack[j].level
  BY <1>2 DEF Stack, Rising
<1>4. PICK f : Picks(f, n, Seq(Line), stack, P) /\ Chu!Picked(stack, P) = f[n]
  BY <1>2, <1>3, PickedIs
<1>5. \A x \in Line : x.level \in Nat
  BY ChunkingAssumption DEF Line
<1>6. PICK T : T = {k \in 0 .. n :
                      /\ Rising(f[k])
                      /\ \A i \in 1 .. Len(f[k]) :
                           /\ f[k][i].level < l.level
                           /\ \A j \in k + 1 .. n : f[k][i].level < stack[j].level}
  OBVIOUS
<1>7. 0 \in T
  BY <1>4, <1>6 DEF Picks, Rising
<1>8. ASSUME NEW k \in 1 .. n, k - 1 \in T PROVE k \in T
  <2>1. PICK g \in Seq(Line), m \in Nat, x \in Line : g = f[k - 1] /\ m = Len(g) /\ x = stack[k]
    <3>1. k - 1 \in 0 .. n
      OBVIOUS
    <3>2. f[k - 1] \in Seq(Line)
      BY <1>4, <3>1 DEF Picks
    <3>3. stack[k] \in Line
      BY <1>2, <1>3
    <3> QED BY <3>2, <3>3
  <2>2. /\ \A i \in 1 .. m, j \in 1 .. m : i < j => g[i].level < g[j].level
        /\ \A i \in 1 .. m : g[i].level < l.level /\ \A j \in k .. n : g[i].level < stack[j].level
    BY <1>6, <1>8, <2>1 DEF Rising
  <2>3. CASE k \notin P
    <3>1. f[k] = g
      BY <1>4, <2>1, <2>3 DEF Picks
    <3>2. \A j \in k + 1 .. n : j \in k .. n
      OBVIOUS
    <3> QED BY <1>6, <2>1, <2>2, <3>1, <3>2 DEF Rising
  <2>4. CASE k \in P
    <3>1. PICK h \in Seq(Line) : h = Append(g, x) /\ f[k] = h
      BY <1>4, <2>1, <2>4, AppendProperties DEF Picks
    <3>2. Len(h) = m + 1 /\ h[m + 1] = x /\ \A i \in 1 .. m : h[i] = g[i]
      BY <2>1, <3>1, AppendProperties
    <3>3. x.level < l.level /\ \A j \in k + 1 .. n : x.level < stack[j].level
      <4>1. x.level < l.level
        BY <1>1, <2>1, <2>4
      <4>2. \A j \in k + 1 .. n : j \in 1 .. n /\ k < j
        OBVIOUS
      <4> QED BY <1>3, <2>1, <4>1, <4>2
    <3>4. \A i \in 1 .. m : g[i].level < x.level
      BY <2>1, <2>2
    <3>5. ASSUME NEW i \in 1 .. m + 1, NEW j \in 1 .. m + 1, i < j PROVE h[i].level < h[j].level
      <4>1. i \in 1 .. m /\ h[i] = g[i]
        BY <3>2, <3>5
      <4>2. CASE j = m + 1
        BY <3>2, <3>4, <4>1, <4>2
      <4>3. CASE j # m + 1
        <5>1. j \in 1 .. m /\ h[j] = g[j]
          BY <3>2, <4>3
        <5> QED BY <2>2, <3>5, <4>1, <5>1
      <4> QED BY <4>2, <4>3
    <3>6. ASSUME NEW i \in 1 .. m + 1
          PROVE  h[i].level < l.level /\ \A j \in k + 1 .. n : h[i].level < stack[j].level
      <4>1. CASE i = m + 1
        BY <3>2, <3>3, <4>1
      <4>2. CASE i # m + 1
        <5>1. i \in 1 .. m /\ h[i] = g[i] /\ \A j \in k + 1 .. n : j \in k .. n
          BY <3>2, <4>2
        <5> QED BY <2>2, <5>1
      <4> QED BY <4>1, <4>2
    <3>7. Rising(h)
      BY <3>2, <3>5 DEF Rising
    <3>8. \A i \in 1 .. Len(h) : /\ h[i].level < l.level
                                /\ \A j \in k + 1 .. n : h[i].level < stack[j].level
      BY <3>2, <3>6
    <3>9. /\ Rising(f[k])
          /\ \A i \in 1 .. Len(f[k]) : /\ f[k][i].level < l.level
                                        /\ \A j \in k + 1 .. n : f[k][i].level < stack[j].level
      BY <3>1, <3>7, <3>8
    <3>10. k \in 0 .. n
      OBVIOUS
    <3> QED BY <1>6, <3>9, <3>10
  <2> QED BY <2>3, <2>4
<1>9. n \in T
  BY <1>7, <1>8, UpTo
<1>10. PICK g \in Seq(Line), m \in Nat : g = f[n] /\ m = Len(g)
  BY <1>4 DEF Picks
<1>11. PICK h \in Seq(Line) : h = Append(g, l)
  BY <1>10, AppendProperties
<1>12. Len(h) = m + 1 /\ h[m + 1] = l /\ \A i \in 1 .. m : h[i] = g[i]
  BY <1>10, <1>11, AppendProperties
<1>13. /\ \A i \in 1 .. m, j \in 1 .. m : i < j => g[i].level < g[j].level
       /\ \A i \in 1 .. m : g[i].level < l.level
  BY <1>6, <1>9, <1>10 DEF Rising
<1>14. ASSUME NEW i \in 1 .. m + 1, NEW j \in 1 .. m + 1, i < j PROVE h[i].level < h[j].level
  <2>1. i \in 1 .. m /\ h[i] = g[i]
    BY <1>12, <1>14
  <2>2. CASE j = m + 1
    BY <1>12, <1>13, <2>1, <2>2
  <2>3. CASE j # m + 1
    <3>1. j \in 1 .. m /\ h[j] = g[j]
      BY <1>12, <2>3
    <3> QED BY <1>13, <1>14, <2>1, <3>1
  <2> QED BY <2>2, <2>3
<1>15. Chu!PushHeading(stack, l) = h
  BY <1>1, <1>4, <1>10, <1>11 DEF Chu!PushHeading
<1> QED BY <1>11, <1>12, <1>14, <1>15 DEF Stack, Rising

(* The k-th heading has k - 1 levels below it.                             *)
LEMMA StackShort ==
  ASSUME NEW stack \in Stack
  PROVE  Len(stack) <= MaxLevel + 1
<1>1. PICK n \in Nat : n = Len(stack)
  BY DEF Stack
<1>2. \A i \in 1 .. n, j \in 1 .. n : i < j => stack[i].level < stack[j].level
  BY <1>1 DEF Stack, Rising
<1>3. \A i \in 1 .. n : stack[i].level \in Nat /\ stack[i].level <= MaxLevel
  <2>1. \A i \in 1 .. n : stack[i] \in Line
    BY <1>1 DEF Stack
  <2>2. \A l \in Line : l.level \in Nat /\ l.level <= MaxLevel
    BY ChunkingAssumption DEF Line
  <2> QED BY <2>1, <2>2
<1>4. PICK T : T = {k \in 0 .. n : k = 0 \/ stack[k].level >= k - 1}
  OBVIOUS
<1>5. 0 \in T
  BY <1>4
<1>6. ASSUME NEW k \in 1 .. n, k - 1 \in T PROVE k \in T
  <2>1. CASE k = 1
    BY <1>3, <1>4, <2>1
  <2>2. CASE k # 1
    <3>1. PICK j \in 1 .. n : j = k - 1 /\ j < k /\ j # 0
      BY <2>2
    <3>2. PICK a \in Nat, b \in Nat : a = stack[j].level /\ b = stack[k].level
      BY <1>3, <3>1
    <3>3. a < b /\ a >= j - 1
      BY <1>2, <1>4, <1>6, <3>1, <3>2
    <3>4. b >= k - 1
      BY <3>1, <3>2, <3>3
    <3> QED BY <1>4, <3>2, <3>4
  <2> QED BY <2>1, <2>2
<1>7. n \in T
  BY <1>5, <1>6, UpTo
<1>8. CASE n = 0
  BY <1>1, <1>8, ChunkingAssumption
<1>9. CASE n # 0
  <2>1. PICK b \in Nat : b = stack[n].level /\ b <= MaxLevel /\ b >= n - 1
    BY <1>3, <1>4, <1>7, <1>9
  <2> QED BY <1>1, <2>1, ChunkingAssumption
<1> QED BY <1>8, <1>9

LEMMA PathIs ==
  ASSUME NEW name \in Names, NEW stack \in Stack
  PROVE  Chu!HeadingPath(name, stack) \in Path
<1>1. PICK t : t = [i \in DOMAIN stack |-> stack[i].text]
  OBVIOUS
<1>2. t \in Seq(Names) /\ Len(t) = Len(stack)
  <2>1. PICK n \in Nat : n = Len(stack)
    BY DEF Stack
  <2>2. \A k \in 1 .. n : stack[k].text \in Names
    <3>1. \A k \in 1 .. n : stack[k] \in Line
      BY <2>1 DEF Stack
    <3>2. \A l \in Line : l.text \in Names
      BY DEF Line
    <3> QED BY <3>1, <3>2
  <2>3. DOMAIN stack = 1 .. n
    BY <2>1 DEF Stack
  <2> QED BY <1>1, <2>2, <2>3
<1>3. PICK d \in Seq(Names) : d = <<name>> /\ Len(d) = 1
  <2>1. <<name>> \in Seq(Names)
    OBVIOUS
  <2>2. Len(<<name>>) = 1
    OBVIOUS
  <2> QED BY <2>1, <2>2
<1>4. PICK p \in Seq(Names) : p = <<name>> \o t /\ Len(p) = 1 + Len(t)
  <2>1. d \o t \in Seq(Names) /\ Len(d \o t) = Len(d) + Len(t)
    BY <1>2, <1>3, ConcatProperties
  <2> QED BY <1>3, <2>1
<1>5. PICK P : P = {i \in DOMAIN p :
                      Chu!Key(p[i]) = "" \/ \A j \in 1 .. i - 1 : Chu!Key(p[j]) # Chu!Key(p[i])}
  OBVIOUS
<1>6. PICK q \in Seq(Names) : q = Chu!Picked(p, P) /\ Len(q) <= Len(p)
  BY PickedType, PickedShort
<1>7. Len(q) <= MaxLevel + 2
  <2>1. PICK m \in Nat : m = Len(stack) /\ m <= MaxLevel + 1
    BY StackShort DEF Stack
  <2>2. Len(q) \in Nat /\ Len(p) = 1 + m
    BY <1>2, <1>4, <2>1
  <2> QED BY <1>6, <2>1, <2>2, ChunkingAssumption
<1> QED BY <1>1, <1>4, <1>5, <1>6, <1>7 DEF Chu!HeadingPath, Chu!DedupeHeadingPath, Path

LEMMA EmptyPath == <<>> \in Path /\ <<>> \in Stack
<1>1. Len(<<>>) = 0 /\ <<>> \in Seq(Names) /\ <<>> \in Seq(Line) /\ MaxLevel \in Nat
  BY EmptySeq, ChunkingAssumption
<1> QED BY <1>1 DEF Path, Stack, Rising

LEMMA RootPath ==
  ASSUME NEW name \in Names
  PROVE  <<name>> \in Path /\ <<>> \in Path /\ <<>> \in Stack
<1>1. <<name>> \in Seq(Names) /\ Len(<<name>>) = 1 /\ MaxLevel \in Nat
  <2>0. MaxLevel \in Nat
    BY ChunkingAssumption
  <2> QED BY <2>0
<1>2. Len(<<>>) = 0 /\ <<>> \in Seq(Names) /\ <<>> \in Seq(Line)
  BY EmptySeq
<1> QED BY <1>1, <1>2 DEF Path, Stack, Rising

-----------------------------------------------------------------------------
(* Blocks with their heading paths.                                        *)
Semantic == [type : Types, lines : Seq(Line) \ {<<>>}, path : Path]
Plain == [b \in Semantic |-> IF b.type = "heading" THEN <<>> ELSE <<[type |-> b.type, lines |-> b.lines]>>]

LEMMA Words ==
  /\ Plain \in [Semantic -> Seq(Block)] /\ OnlyBody \in [Block -> Seq(Block)]
  /\ Spelled(Semantic, Block, Plain) /\ Spelled(Block, Block, OnlyBody)
<1>1. Plain \in [Semantic -> Seq(Block)]
  <2>1. ASSUME NEW b \in Semantic PROVE Plain[b] \in Seq(Block)
    <3>1. PICK c : c = [type |-> b.type, lines |-> b.lines]
      OBVIOUS
    <3>2. c \in Block
      BY <3>1 DEF Semantic, Block
    <3>3. <<c>> \in Seq(Block) /\ <<>> \in Seq(Block)
      BY <3>2, EmptySeq
    <3> QED BY <3>1, <3>3 DEF Plain
  <2>2. Plain = [b \in Semantic |-> Plain[b]]
    BY DEF Plain
  <2> QED BY <2>1, <2>2
<1>2. OnlyBody \in [Block -> Seq(Block)]
  BY BodiesSpell DEF Spells
<1> QED BY <1>1, <1>2, SpellIs

Annotating == [stack : Stack, blocks : Seq(Semantic)]
Annotate(name, s, b) ==
  LET stack == CASE b.type # "heading" -> s.stack
                 [] b.type = "heading" /\ Chu!IsTitle(name, b.lines[1]) -> <<>>
                 [] OTHER -> Chu!PushHeading(s.stack, b.lines[1])
      block == [type |-> b.type, lines |-> b.lines, path |-> Chu!HeadingPath(name, stack)]
  IN [stack |-> stack,
      blocks |-> IF Chu!IsTitle(name, b.lines[1]) /\ b.type = "heading" THEN s.blocks ELSE Append(s.blocks, block)]

LEMMA AnnotateIs ==
  ASSUME NEW name \in Names, NEW s \in Annotating, NEW b \in Block
  PROVE  /\ Annotate(name, s, b) \in Annotating
         /\ Spell(Annotate(name, s, b).blocks, Plain) = Spell(s.blocks, Plain) \o OnlyBody[b]
<1>1. s.stack \in Stack /\ s.blocks \in Seq(Semantic)
  BY DEF Annotating
<1>2. b.type \in Types /\ b.lines \in Seq(Line) /\ b.lines # <<>> /\ b.lines[1] \in Line
  BY DEF Block
<1>3. PICK stack : stack = CASE b.type # "heading" -> s.stack
                              [] b.type = "heading" /\ Chu!IsTitle(name, b.lines[1]) -> <<>>
                              [] OTHER -> Chu!PushHeading(s.stack, b.lines[1])
  OBVIOUS
<1>4. stack \in Stack
  <2>1. CASE b.type # "heading"
    BY <1>1, <1>3, <2>1
  <2>2. CASE b.type = "heading" /\ Chu!IsTitle(name, b.lines[1])
    BY <1>3, <2>2, RootPath
  <2>3. CASE b.type = "heading" /\ ~Chu!IsTitle(name, b.lines[1])
    <3>1. stack = Chu!PushHeading(s.stack, b.lines[1])
      BY <1>3, <2>3
    <3> QED BY <1>1, <1>2, <3>1, PushIs
  <2> QED BY <2>1, <2>2, <2>3
<1>5. PICK path \in Path : path = Chu!HeadingPath(name, stack)
  BY <1>4, PathIs
<1>6. PICK c : c = [type |-> b.type, lines |-> b.lines, path |-> path]
  OBVIOUS
<1>7. c \in Semantic
  BY <1>2, <1>6 DEF Semantic
<1>8. PICK r : r = Annotate(name, s, b)
  OBVIOUS
<1>9. r = [stack |-> stack,
           blocks |-> IF Chu!IsTitle(name, b.lines[1]) /\ b.type = "heading" THEN s.blocks ELSE Append(s.blocks, c)]
  BY <1>3, <1>5, <1>6, <1>8 DEF Annotate
<1>10. Spell(s.blocks, Plain) \in Seq(Block)
  BY <1>1, Words DEF Spelled
<1>11. CASE Chu!IsTitle(name, b.lines[1]) /\ b.type = "heading"
  <2>1. r = [stack |-> stack, blocks |-> s.blocks]
    BY <1>9, <1>11
  <2>2. OnlyBody[b] = <<>>
    BY <1>11 DEF OnlyBody
  <2>3. Spell(s.blocks, Plain) \o <<>> = Spell(s.blocks, Plain)
    BY <1>10, ConcatEmptySeq
  <2> QED BY <1>1, <1>4, <1>8, <2>1, <2>2, <2>3 DEF Annotating
<1>12. CASE ~(Chu!IsTitle(name, b.lines[1]) /\ b.type = "heading")
  <2>1. r = [stack |-> stack, blocks |-> Append(s.blocks, c)]
    BY <1>9, <1>12
  <2>2. Append(s.blocks, c) \in Seq(Semantic)
    BY <1>1, <1>7, AppendProperties
  <2>3. b = [type |-> b.type, lines |-> b.lines]
    BY DEF Block
  <2>4. Plain[c] = OnlyBody[b]
    BY <1>6, <1>7, <2>3 DEF Plain, OnlyBody
  <2>5. Spell(Append(s.blocks, c), Plain) = Spell(s.blocks, Plain) \o Plain[c]
    BY <1>1, <1>7, Words DEF Spelled
  <2> QED BY <1>4, <1>8, <2>1, <2>2, <2>4, <2>5 DEF Annotating
<1> QED BY <1>11, <1>12

NothingAnnotated == [stack |-> <<>>, blocks |-> <<>>]
IsAnnotating(name, f, n, all) ==
  f = [k \in 0 .. n |-> IF k = 0 THEN NothingAnnotated ELSE Annotate(name, f[k - 1], all[k])]

LEMMA AnnotatingAt ==
  ASSUME NEW name, NEW f, NEW n \in Nat, NEW all, IsAnnotating(name, f, n, all)
  PROVE  f[0] = NothingAnnotated /\ \A k \in 1 .. n : f[k] = Annotate(name, f[k - 1], all[k])
<1>1. PICK h : h = [k \in 0 .. n |-> IF k = 0 THEN NothingAnnotated ELSE Annotate(name, f[k - 1], all[k])]
  OBVIOUS
<1>2. f = h
  BY <1>1 DEF IsAnnotating
<1>3. h[0] = NothingAnnotated
  BY <1>1
<1>4. ASSUME NEW k \in 1 .. n PROVE h[k] = Annotate(name, f[k - 1], all[k])
  <2>1. k \in 0 .. n /\ k # 0
    OBVIOUS
  <2> QED BY <1>1, <2>1
<1> QED BY <1>2, <1>3, <1>4

LEMMA SemanticAre ==
  ASSUME NEW name \in Names, NEW lines \in Seq(Line)
  PROVE  /\ Chu!ExtractSemanticBlocks(name, lines) \in Seq(Semantic)
         /\ Spell(Chu!ExtractSemanticBlocks(name, lines), Plain) = Bodies(Chu!ParseMarkdownBlocks(lines))
<1>1. PICK all \in Seq(Block) : all = Chu!ParseMarkdownBlocks(lines)
  BY BlocksAre
<1>0. PICK a : a = NothingAnnotated
  OBVIOUS
<1>2. PICK n \in Nat : n = Len(all) /\ a = NothingAnnotated
  BY <1>0
<1>3. a \in Annotating /\ a.blocks = <<>>
  BY <1>2, RootPath, EmptySeq DEF Annotating, NothingAnnotated
<1>4. PICK move : move = [p \in Annotating \X Block |-> Annotate(name, p[1], p[2])]
  OBVIOUS
<1>5. \A v \in Annotating : \A b \in Block : move[<<v, b>>] = Annotate(name, v, b)
  BY <1>4
<1>6. IsRead(move, Annotating, Block)
  BY <1>4, AnnotateIs DEF IsRead
<1>7. \A k \in 1 .. n : all[k] \in Block
  BY <1>2
<1>8. PICK g : Run(g, n, Annotating, a, all, move)
  BY <1>2, <1>3, <1>6, RunExists DEF Runs
<1>9. IsAnnotating(name, g, n, all)
  <2>1. ASSUME NEW k \in 0 .. n
        PROVE  g[k] = IF k = 0 THEN NothingAnnotated ELSE Annotate(name, g[k - 1], all[k])
    <3>1. CASE k = 0
      BY <1>2, <1>8, <3>1 DEF Run
    <3>2. CASE k # 0
      <4>1. k \in 1 .. n /\ k - 1 \in 0 .. n /\ g[k - 1] \in Annotating
        BY <1>8, <3>2 DEF Run
      <4> QED BY <1>5, <1>7, <1>8, <3>2, <4>1 DEF Run
    <3> QED BY <3>1, <3>2
  <2> QED BY <1>8, <2>1 DEF IsAnnotating, Run
<1>10. PICK f : f = CHOOSE h : IsAnnotating(name, h, n, all)
  OBVIOUS
<1>11. IsAnnotating(name, f, n, all)
  BY <1>9, <1>10
<1>12. Chu!ExtractSemanticBlocks(name, lines) = f[n].blocks
  BY <1>1, <1>2, <1>10 DEF Chu!ExtractSemanticBlocks, IsAnnotating, Annotate, NothingAnnotated
<1>13. f[0] = a /\ \A k \in 1 .. n : f[k] = Annotate(name, f[k - 1], all[k])
  <2>1. n \in Nat
    BY <1>2
  <2>2. f[0] = NothingAnnotated /\ \A k \in 1 .. n : f[k] = Annotate(name, f[k - 1], all[k])
    BY <1>11, <2>1, AnnotatingAt
  <2> QED BY <1>2, <2>2
<1>14. Within(f, n, Annotating)
  <2>1. RunsOn(f, n, Annotating, a, all, move)
    BY <1>5, <1>7, <1>13 DEF RunsOn
  <2> QED BY <1>2, <1>3, <1>6, <2>1, RunStays
<1>15. PICK v : v = [k \in 0 .. n |-> Spell(f[k].blocks, Plain)]
  OBVIOUS
<1>16. Grows(v, n, all, OnlyBody)
  <2>1. v[0] = <<>>
    BY <1>3, <1>13, <1>15, Words DEF Spelled
  <2>2. ASSUME NEW k \in 1 .. n PROVE v[k] = v[k - 1] \o OnlyBody[all[k]]
    <3>1. k - 1 \in 0 .. n /\ k \in 0 .. n /\ f[k - 1] \in Annotating
      BY <1>14 DEF Within
    <3>2. v[k] = Spell(f[k].blocks, Plain) /\ v[k - 1] = Spell(f[k - 1].blocks, Plain)
      BY <1>15, <3>1
    <3>3. Spell(Annotate(name, f[k - 1], all[k]).blocks, Plain) = Spell(f[k - 1].blocks, Plain) \o OnlyBody[all[k]]
      BY <1>7, <3>1, AnnotateIs
    <3> QED BY <1>13, <3>2, <3>3
  <2> QED BY <2>1, <2>2 DEF Grows
<1>17. v[n] = Spell(all, OnlyBody)
  <2>1. OnlyBody \in [Block -> Seq(Block)]
    BY Words
  <2> QED BY <1>2, <1>16, <2>1, GrowsToSpell
<1>18. f[n] \in Annotating
  BY <1>14 DEF Within
<1> QED BY <1>1, <1>12, <1>15, <1>17, <1>18, BodiesAre DEF Annotating

-----------------------------------------------------------------------------
(* Sections, and the blocks they hold.                                     *)
FullSection == [path : Path, blocks : Seq(Block) \ {<<>>}]
SectionBlocks == [s \in FullSection |-> s.blocks]
Held(s) == Spell(s.sections, SectionBlocks) \o s.blocks

LEMMA SectionWords ==
  SectionBlocks \in [FullSection -> Seq(Block)] /\ Spelled(FullSection, Block, SectionBlocks)
<1>1. SectionBlocks \in [FullSection -> Seq(Block)]
  BY DEF SectionBlocks, FullSection
<1> QED BY <1>1, SpellIs

LEMMA NoSection ==
  ASSUME NEW sections \in Seq(FullSection), Spell(sections, SectionBlocks) = <<>>
  PROVE  sections = <<>>
<1> SUFFICES ASSUME sections # <<>> PROVE FALSE
  OBVIOUS
<1>1. PICK r \in Seq(FullSection), x \in FullSection : sections = Append(r, x)
  BY SequenceEmptyOrAppend
<1>2. PICK a \in Seq(Block), b \in Seq(Block) : a = Spell(r, SectionBlocks) /\ b = x.blocks /\ b # <<>>
  BY SectionWords DEF Spelled, FullSection
<1>3. Spell(sections, SectionBlocks) = a \o b
  BY <1>1, <1>2, SectionWords DEF Spelled, SectionBlocks
<1>4. PICK c : c = a \o b
  OBVIOUS
<1>5. c = <<>>
  BY <1>3, <1>4
<1>6. Len(c) = Len(a) + Len(b) /\ Len(a) \in Nat /\ Len(b) \in Nat \ {0}
  BY <1>2, <1>4, ConcatProperties, EmptySeq
<1> QED BY <1>5, <1>6

LEMMA FinalizeIs ==
  ASSUME NEW sections \in Seq(FullSection), NEW path \in Path, NEW blocks \in Seq(Block)
  PROVE  /\ Chu!Finalize(sections, path, blocks) \in Seq(FullSection)
         /\ Spell(Chu!Finalize(sections, path, blocks), SectionBlocks) = Spell(sections, SectionBlocks) \o blocks
<1>1. CASE blocks = <<>>
  <2>1. Spell(sections, SectionBlocks) \o <<>> = Spell(sections, SectionBlocks)
    BY SectionWords, ConcatEmptySeq DEF Spelled
  <2> QED BY <1>1, <2>1 DEF Chu!Finalize
<1>2. CASE blocks # <<>>
  <2>1. PICK x : x = [path |-> path, blocks |-> blocks]
    OBVIOUS
  <2>2. x \in FullSection /\ SectionBlocks[x] = blocks
    BY <1>2, <2>1 DEF FullSection, SectionBlocks
  <2>3. Chu!Finalize(sections, path, blocks) = Append(sections, x)
    BY <1>2, <2>1 DEF Chu!Finalize
  <2>4. Append(sections, x) \in Seq(FullSection)
    BY <2>2, AppendProperties
  <2>5. Spell(Append(sections, x), SectionBlocks) = Spell(sections, SectionBlocks) \o SectionBlocks[x]
    BY <2>2, SectionWords DEF Spelled
  <2> QED BY <2>2, <2>3, <2>4, <2>5
<1> QED BY <1>1, <1>2

(* What is held grows with a block that is not a heading.                  *)
LEMMA HeldMore ==
  ASSUME NEW sections \in Seq(FullSection), NEW blocks \in Seq(Block), NEW b \in Block
  PROVE  /\ Append(blocks, b) \in Seq(Block)
         /\ Spell(sections, SectionBlocks) \o Append(blocks, b)
              = (Spell(sections, SectionBlocks) \o blocks) \o <<b>>
<1>1. PICK x \in Seq(Block) : x = Spell(sections, SectionBlocks)
  BY SectionWords DEF Spelled
<1>2. <<b>> \in Seq(Block) /\ Append(blocks, b) = blocks \o <<b>> /\ Append(blocks, b) \in Seq(Block)
  BY AppendProperties, AppendIsConcat
<1>3. (x \o blocks) \o <<b>> = x \o (blocks \o <<b>>)
  BY <1>2, ConcatAssociative
<1> QED BY <1>1, <1>2, <1>3

-----------------------------------------------------------------------------
(* The sections of a text.                                                 *)
Sectioning == [sections : Seq(FullSection), stack : Stack, path : Path, blocks : Seq(Block)]
NoneRead(name) == [sections |-> <<>>, stack |-> <<>>, path |-> <<name>>, blocks |-> <<>>]
ReadSection(name, s, b) ==
  CASE b.type # "heading" -> [s EXCEPT !.blocks = Append(@, b)]
    [] b.type = "heading" /\ Chu!IsH1Of(name, b.lines[1]) ->
         [sections |-> Chu!Finalize(s.sections, s.path, s.blocks), stack |-> <<>>,
          path |-> <<name>>, blocks |-> <<>>]
    [] OTHER ->
         LET stack == Chu!PushHeading(s.stack, b.lines[1])
         IN [sections |-> Chu!Finalize(s.sections, s.path, s.blocks), stack |-> stack,
             path |-> Chu!HeadingPath(name, stack), blocks |-> <<>>]

LEMMA ReadSectionIs ==
  ASSUME NEW name \in Names, NEW s \in Sectioning, NEW b \in Block
  PROVE  /\ ReadSection(name, s, b) \in Sectioning
         /\ Held(ReadSection(name, s, b)) = Held(s) \o OnlyBody[b]
<1>1. /\ s.sections \in Seq(FullSection) /\ s.stack \in Stack /\ s.path \in Path /\ s.blocks \in Seq(Block)
      /\ s = [sections |-> s.sections, stack |-> s.stack, path |-> s.path, blocks |-> s.blocks]
  BY DEF Sectioning
<1>2. b.lines[1] \in Line
  BY DEF Block
<1>3. PICK r : r = ReadSection(name, s, b)
  OBVIOUS
<1>4. Spell(s.sections, SectionBlocks) \in Seq(Block) /\ Held(s) \in Seq(Block)
  BY <1>1, SectionWords, ConcatProperties DEF Spelled, Held
<1>5. CASE b.type # "heading"
  <2>1. r = [s EXCEPT !.blocks = Append(s.blocks, b)]
    BY <1>3, <1>5 DEF ReadSection
  <2>2. r = [sections |-> s.sections, stack |-> s.stack, path |-> s.path, blocks |-> Append(s.blocks, b)]
    BY <1>1, <2>1
  <2>3. r \in Sectioning /\ Held(r) = Held(s) \o <<b>>
    BY <1>1, <2>2, HeldMore DEF Sectioning, Held
  <2> QED BY <1>3, <1>5, <2>3 DEF OnlyBody
<1>6. CASE b.type = "heading"
  <2>1. PICK stack \in Stack, path \in Path :
          r = [sections |-> Chu!Finalize(s.sections, s.path, s.blocks), stack |-> stack, path |-> path,
               blocks |-> <<>>]
    <3>1. CASE Chu!IsH1Of(name, b.lines[1])
      <4>1. r = [sections |-> Chu!Finalize(s.sections, s.path, s.blocks), stack |-> <<>>,
                 path |-> <<name>>, blocks |-> <<>>]
        BY <1>3, <1>6, <3>1 DEF ReadSection
      <4> QED BY <4>1, RootPath
    <3>2. CASE ~Chu!IsH1Of(name, b.lines[1])
      <4>1. PICK stack : stack = Chu!PushHeading(s.stack, b.lines[1])
        OBVIOUS
      <4>2. r = [sections |-> Chu!Finalize(s.sections, s.path, s.blocks), stack |-> stack,
                 path |-> Chu!HeadingPath(name, stack), blocks |-> <<>>]
        BY <1>3, <1>6, <3>2, <4>1 DEF ReadSection
      <4>3. stack \in Stack
        BY <1>1, <1>2, <4>1, PushIs
      <4> QED BY <4>2, <4>3, PathIs
    <3> QED BY <3>1, <3>2
  <2>2. PICK sections \in Seq(FullSection) :
          sections = Chu!Finalize(s.sections, s.path, s.blocks) /\ Spell(sections, SectionBlocks) = Held(s)
    BY <1>1, FinalizeIs DEF Held
  <2>3. r \in Sectioning
    BY <2>1, <2>2, EmptySeq DEF Sectioning
  <2>4. Held(r) = Held(s) \o <<>>
    BY <2>1, <2>2 DEF Held
  <2> QED BY <1>3, <1>6, <2>3, <2>4 DEF OnlyBody
<1> QED BY <1>5, <1>6

IsSectioning(name, f, n, all) == f = [k \in 0 .. n |-> IF k = 0 THEN NoneRead(name) ELSE ReadSection(name, f[k - 1], all[k])]

LEMMA SectioningAt ==
  ASSUME NEW name, NEW f, NEW n \in Nat, NEW all, IsSectioning(name, f, n, all)
  PROVE  f[0] = NoneRead(name) /\ \A k \in 1 .. n : f[k] = ReadSection(name, f[k - 1], all[k])
<1>1. PICK h : h = [k \in 0 .. n |-> IF k = 0 THEN NoneRead(name) ELSE ReadSection(name, f[k - 1], all[k])]
  OBVIOUS
<1>2. f = h
  BY <1>1 DEF IsSectioning
<1>3. h[0] = NoneRead(name)
  BY <1>1
<1>4. ASSUME NEW k \in 1 .. n PROVE h[k] = ReadSection(name, f[k - 1], all[k])
  <2>1. k \in 0 .. n /\ k # 0
    OBVIOUS
  <2> QED BY <1>1, <2>1
<1> QED BY <1>2, <1>3, <1>4

(* A block that holds the lines of a text, blank ones left out.            *)
InOne(name, lines) == [path |-> <<name>>, blocks |-> <<[type |-> "paragraph", lines |-> Chu!NotBlank(lines)]>>]

SectionsIn(name, all) ==
  LET end == (CHOOSE f : IsSectioning(name, f, Len(all), all))[Len(all)]
  IN  Chu!Finalize(end.sections, end.path, end.blocks)

LEMMA SectionsAre ==
  ASSUME NEW name \in Names, NEW lines \in Seq(Line), NEW all, all = Chu!ParseMarkdownBlocks(lines)
  PROVE  \E sections \in Seq(FullSection) :
           /\ Spell(sections, SectionBlocks) = Bodies(all)
           /\ Chu!ParseSections(name, lines) = IF sections = <<>> THEN <<InOne(name, lines)>> ELSE sections
<1>1. all \in Seq(Block)
  BY BlocksAre
<1>0. PICK a : a = NoneRead(name)
  OBVIOUS
<1>2. PICK n \in Nat : n = Len(all) /\ a = NoneRead(name)
  BY <1>0, <1>1
<1>3. a \in Sectioning /\ Held(a) = <<>>
  <2>1. a \in Sectioning
    BY <1>2, RootPath, EmptySeq DEF Sectioning, NoneRead
  <2>2. Spell(<<>>, SectionBlocks) = <<>>
    BY SectionWords DEF Spelled
  <2>3. <<>> \o <<>> = <<>>
    OBVIOUS
  <2> QED BY <1>2, <2>1, <2>2, <2>3 DEF Held, NoneRead
<1>4. PICK on : on = [p \in Sectioning \X Block |-> ReadSection(name, p[1], p[2])]
  OBVIOUS
<1>5. \A v \in Sectioning : \A b \in Block : on[<<v, b>>] = ReadSection(name, v, b)
  BY <1>4
<1>6. IsRead(on, Sectioning, Block)
  BY <1>4, ReadSectionIs DEF IsRead
<1>7. \A k \in 1 .. n : all[k] \in Block
  BY <1>1, <1>2
<1>8. PICK g : Run(g, n, Sectioning, a, all, on)
  BY <1>1, <1>2, <1>3, <1>6, RunExists DEF Runs
<1>9. IsSectioning(name, g, n, all)
  <2>1. ASSUME NEW k \in 0 .. n
        PROVE  g[k] = IF k = 0 THEN NoneRead(name) ELSE ReadSection(name, g[k - 1], all[k])
    <3>1. CASE k = 0
      BY <1>2, <1>8, <3>1 DEF Run
    <3>2. CASE k # 0
      <4>1. k \in 1 .. n /\ k - 1 \in 0 .. n /\ g[k - 1] \in Sectioning
        BY <1>8, <3>2 DEF Run
      <4> QED BY <1>5, <1>7, <1>8, <3>2, <4>1 DEF Run
    <3> QED BY <3>1, <3>2
  <2> QED BY <1>8, <2>1 DEF IsSectioning, Run
<1>10. PICK f : f = CHOOSE h : IsSectioning(name, h, n, all)
  OBVIOUS
<1>11. IsSectioning(name, f, n, all)
  BY <1>9, <1>10
<1>12. PICK end, sections : end = f[n] /\ sections = Chu!Finalize(end.sections, end.path, end.blocks)
  OBVIOUS
<1>13. Chu!ParseSections(name, lines) = IF sections = <<>> THEN <<InOne(name, lines)>> ELSE sections
  <2>1. PICK r : r = SectionsIn(name, Chu!ParseMarkdownBlocks(lines))
    OBVIOUS
  <2>2. Chu!ParseSections(name, lines) = IF r = <<>> THEN <<InOne(name, lines)>> ELSE r
    <3>1. Chu!ParseSections(name, lines) = IF SectionsIn(name, Chu!ParseMarkdownBlocks(lines)) = <<>> THEN <<InOne(name, lines)>> ELSE SectionsIn(name, Chu!ParseMarkdownBlocks(lines))
      BY DEF Chu!ParseSections, SectionsIn, IsSectioning, ReadSection, NoneRead, InOne
    <3> QED BY <2>1, <3>1
  <2>3. r = sections
    BY <1>2, <1>10, <1>12, <2>1 DEF SectionsIn
  <2> QED BY <2>2, <2>3
<1>14. f[0] = a /\ \A k \in 1 .. n : f[k] = ReadSection(name, f[k - 1], all[k])
  BY <1>2, <1>11, SectioningAt
<1>15. Within(f, n, Sectioning)
  <2>1. RunsOn(f, n, Sectioning, a, all, on)
    BY <1>5, <1>7, <1>14 DEF RunsOn
  <2> QED BY <1>1, <1>2, <1>3, <1>6, <2>1, RunStays
<1>16. PICK v : v = [k \in 0 .. n |-> Held(f[k])]
  OBVIOUS
<1>17. Grows(v, n, all, OnlyBody)
  <2>1. v[0] = <<>>
    BY <1>3, <1>14, <1>16
  <2>2. ASSUME NEW k \in 1 .. n PROVE v[k] = v[k - 1] \o OnlyBody[all[k]]
    <3>1. k - 1 \in 0 .. n /\ k \in 0 .. n /\ f[k - 1] \in Sectioning
      BY <1>15 DEF Within
    <3>2. v[k] = Held(f[k]) /\ v[k - 1] = Held(f[k - 1])
      BY <1>16, <3>1
    <3>3. Held(ReadSection(name, f[k - 1], all[k])) = Held(f[k - 1]) \o OnlyBody[all[k]]
      BY <1>7, <3>1, ReadSectionIs
    <3> QED BY <1>14, <3>2, <3>3
  <2> QED BY <2>1, <2>2 DEF Grows
<1>18. v[n] = Bodies(all)
  <2>1. OnlyBody \in [Block -> Seq(Block)]
    BY Words
  <2>2. v[n] = Spell(all, OnlyBody)
    BY <1>1, <1>2, <1>17, <2>1, GrowsToSpell
  <2> QED BY <1>1, <2>2, BodiesAre
<1>19. end \in Sectioning
  BY <1>12, <1>15 DEF Within
<1>20. sections \in Seq(FullSection) /\ Spell(sections, SectionBlocks) = Held(end)
  BY <1>12, <1>19, FinalizeIs DEF Sectioning, Held
<1>21. v[n] = Held(end)
  BY <1>12, <1>16
<1> QED BY <1>13, <1>18, <1>20, <1>21

-----------------------------------------------------------------------------
(* Blocks grouped by their paths.                                          *)
Grouping == [sections : Seq(FullSection), path : Path, blocks : Seq(Block)]
NoneGrouped == [sections |-> <<>>, path |-> <<>>, blocks |-> <<>>]
ReadGroup(s, b) ==
  LET sections == IF s.path = b.path THEN s.sections ELSE Chu!Finalize(s.sections, s.path, s.blocks)
      open == IF s.path = b.path THEN s.blocks ELSE <<>>
  IN [sections |-> sections, path |-> b.path,
      blocks |-> IF b.type = "heading" THEN open ELSE Append(open, [type |-> b.type, lines |-> b.lines])]

LEMMA ReadGroupIs ==
  ASSUME NEW s \in Grouping, NEW b \in Semantic
  PROVE  /\ ReadGroup(s, b) \in Grouping
         /\ Held(ReadGroup(s, b)) = Held(s) \o Plain[b]
<1>1. s.sections \in Seq(FullSection) /\ s.path \in Path /\ s.blocks \in Seq(Block)
  BY DEF Grouping
<1>2. b.path \in Path
  BY DEF Semantic
<1>3. PICK sections, open :
        /\ sections = IF s.path = b.path THEN s.sections ELSE Chu!Finalize(s.sections, s.path, s.blocks)
        /\ open = IF s.path = b.path THEN s.blocks ELSE <<>>
  OBVIOUS
<1>4. /\ sections \in Seq(FullSection) /\ open \in Seq(Block)
      /\ Spell(sections, SectionBlocks) \o open = Held(s) /\ Held(s) \in Seq(Block)
  <2>1. PICK x \in Seq(Block) : x = Spell(s.sections, SectionBlocks)
    BY <1>1, SectionWords DEF Spelled
  <2>2. Held(s) = x \o s.blocks /\ x \o s.blocks \in Seq(Block)
    BY <1>1, <2>1, ConcatProperties DEF Held
  <2>3. CASE s.path = b.path
    BY <1>1, <1>3, <2>1, <2>2, <2>3
  <2>4. CASE s.path # b.path
    <3>1. sections = Chu!Finalize(s.sections, s.path, s.blocks) /\ open = <<>>
      BY <1>3, <2>4
    <3>2. sections \in Seq(FullSection) /\ Spell(sections, SectionBlocks) = Held(s)
      BY <1>1, <2>1, <2>2, <3>1, FinalizeIs
    <3>3. PICK y \in Seq(Block) : y = Held(s)
      BY <2>2
    <3>4. y \o <<>> = y
      BY ConcatEmptySeq
    <3> QED BY <3>1, <3>2, <3>3, <3>4, EmptySeq
  <2> QED BY <2>3, <2>4
<1>5. PICK c : c = [type |-> b.type, lines |-> b.lines]
  OBVIOUS
<1>6. c \in Block
  BY <1>5 DEF Semantic, Block
<1>7. PICK r : r = ReadGroup(s, b)
  OBVIOUS
<1>8. r = [sections |-> sections, path |-> b.path, blocks |-> IF b.type = "heading" THEN open ELSE Append(open, c)]
  BY <1>3, <1>5, <1>7 DEF ReadGroup
<1>9. CASE b.type = "heading"
  <2>1. r = [sections |-> sections, path |-> b.path, blocks |-> open]
    BY <1>8, <1>9
  <2>2. r \in Grouping /\ Held(r) = Held(s)
    BY <1>2, <1>4, <2>1 DEF Grouping, Held
  <2>3. Plain[b] = <<>>
    BY <1>9 DEF Plain
  <2>4. PICK y \in Seq(Block) : y = Held(s)
    BY <1>4
  <2>5. y \o <<>> = y
    BY ConcatEmptySeq
  <2> QED BY <1>7, <2>2, <2>3, <2>4, <2>5
<1>10. CASE b.type # "heading"
  <2>1. r = [sections |-> sections, path |-> b.path, blocks |-> Append(open, c)]
    BY <1>8, <1>10
  <2>2. Append(open, c) \in Seq(Block) /\ Held(r) = Held(s) \o <<c>>
    BY <1>4, <1>6, <2>1, HeldMore DEF Held
  <2>3. r \in Grouping
    BY <1>2, <1>4, <2>1, <2>2 DEF Grouping
  <2>4. Plain[b] = <<c>>
    BY <1>5, <1>10 DEF Plain
  <2> QED BY <1>7, <2>2, <2>3, <2>4
<1> QED BY <1>9, <1>10

IsGrouping(f, n, all) == f = [k \in 0 .. n |-> IF k = 0 THEN NoneGrouped ELSE ReadGroup(f[k - 1], all[k])]

LEMMA GroupingAt ==
  ASSUME NEW f, NEW n \in Nat, NEW all, IsGrouping(f, n, all)
  PROVE  f[0] = NoneGrouped /\ \A k \in 1 .. n : f[k] = ReadGroup(f[k - 1], all[k])
<1>1. PICK h : h = [k \in 0 .. n |-> IF k = 0 THEN NoneGrouped ELSE ReadGroup(f[k - 1], all[k])]
  OBVIOUS
<1>2. f = h
  BY <1>1 DEF IsGrouping
<1>3. h[0] = NoneGrouped
  BY <1>1
<1>4. ASSUME NEW k \in 1 .. n PROVE h[k] = ReadGroup(f[k - 1], all[k])
  <2>1. k \in 0 .. n /\ k # 0
    OBVIOUS
  <2> QED BY <1>1, <2>1
<1> QED BY <1>2, <1>3, <1>4

GroupsIn(all) ==
  LET end == (CHOOSE f : IsGrouping(f, Len(all), all))[Len(all)]
  IN  Chu!Finalize(end.sections, end.path, end.blocks)

LEMMA SemanticSectionsAre ==
  ASSUME NEW all \in Seq(Semantic)
  PROVE  /\ Chu!ParseSemanticSections(all) \in Seq(FullSection)
         /\ Spell(Chu!ParseSemanticSections(all), SectionBlocks) = Spell(all, Plain)
<1>0. PICK a : a = NoneGrouped
  OBVIOUS
<1>1. PICK n \in Nat : n = Len(all) /\ a = NoneGrouped
  BY <1>0
<1>2. a \in Grouping /\ Held(a) = <<>>
  <2>1. a \in Grouping
    BY <1>1, EmptyPath, EmptySeq DEF Grouping, NoneGrouped
  <2>2. Spell(<<>>, SectionBlocks) = <<>>
    BY SectionWords DEF Spelled
  <2>3. <<>> \o <<>> = <<>>
    OBVIOUS
  <2> QED BY <1>1, <2>1, <2>2, <2>3 DEF Held, NoneGrouped
<1>3. PICK on : on = [p \in Grouping \X Semantic |-> ReadGroup(p[1], p[2])]
  OBVIOUS
<1>4. \A v \in Grouping : \A b \in Semantic : on[<<v, b>>] = ReadGroup(v, b)
  BY <1>3
<1>5. IsRead(on, Grouping, Semantic)
  BY <1>3, ReadGroupIs DEF IsRead
<1>6. \A k \in 1 .. n : all[k] \in Semantic
  BY <1>1
<1>7. PICK g : Run(g, n, Grouping, a, all, on)
  BY <1>1, <1>2, <1>5, RunExists DEF Runs
<1>8. IsGrouping(g, n, all)
  <2>1. ASSUME NEW k \in 0 .. n
        PROVE  g[k] = IF k = 0 THEN NoneGrouped ELSE ReadGroup(g[k - 1], all[k])
    <3>1. CASE k = 0
      BY <1>1, <1>7, <3>1 DEF Run
    <3>2. CASE k # 0
      <4>1. k \in 1 .. n /\ k - 1 \in 0 .. n /\ g[k - 1] \in Grouping
        BY <1>7, <3>2 DEF Run
      <4> QED BY <1>4, <1>6, <1>7, <3>2, <4>1 DEF Run
    <3> QED BY <3>1, <3>2
  <2> QED BY <1>7, <2>1 DEF IsGrouping, Run
<1>9. PICK f : f = CHOOSE h : IsGrouping(h, n, all)
  OBVIOUS
<1>10. IsGrouping(f, n, all)
  BY <1>8, <1>9
<1>11. PICK end, sections : end = f[n] /\ sections = Chu!Finalize(end.sections, end.path, end.blocks)
  OBVIOUS
<1>12. Chu!ParseSemanticSections(all) = sections
  <2>1. Chu!ParseSemanticSections(all) = GroupsIn(all)
    BY DEF Chu!ParseSemanticSections, GroupsIn, IsGrouping, ReadGroup, NoneGrouped
  <2>2. GroupsIn(all) = sections
    BY <1>1, <1>9, <1>11 DEF GroupsIn
  <2> QED BY <2>1, <2>2
<1>13. f[0] = a /\ \A k \in 1 .. n : f[k] = ReadGroup(f[k - 1], all[k])
  BY <1>1, <1>10, GroupingAt
<1>14. Within(f, n, Grouping)
  <2>1. RunsOn(f, n, Grouping, a, all, on)
    BY <1>4, <1>6, <1>13 DEF RunsOn
  <2> QED BY <1>1, <1>2, <1>5, <2>1, RunStays
<1>15. PICK v : v = [k \in 0 .. n |-> Held(f[k])]
  OBVIOUS
<1>16. Grows(v, n, all, Plain)
  <2>1. v[0] = <<>>
    BY <1>2, <1>13, <1>15
  <2>2. ASSUME NEW k \in 1 .. n PROVE v[k] = v[k - 1] \o Plain[all[k]]
    <3>1. k - 1 \in 0 .. n /\ k \in 0 .. n /\ f[k - 1] \in Grouping
      BY <1>14 DEF Within
    <3>2. v[k] = Held(f[k]) /\ v[k - 1] = Held(f[k - 1])
      BY <1>15, <3>1
    <3>3. Held(ReadGroup(f[k - 1], all[k])) = Held(f[k - 1]) \o Plain[all[k]]
      BY <1>6, <3>1, ReadGroupIs
    <3> QED BY <1>13, <3>2, <3>3
  <2> QED BY <2>1, <2>2 DEF Grows
<1>17. v[n] = Spell(all, Plain)
  <2>1. Plain \in [Semantic -> Seq(Block)]
    BY Words
  <2> QED BY <1>1, <1>16, <2>1, GrowsToSpell
<1>18. end \in Grouping
  BY <1>11, <1>14 DEF Within
<1>19. sections \in Seq(FullSection) /\ Spell(sections, SectionBlocks) = Held(end)
  BY <1>11, <1>18, FinalizeIs DEF Grouping, Held
<1>20. v[n] = Held(end)
  BY <1>11, <1>15
<1> QED BY <1>12, <1>17, <1>19, <1>20

-----------------------------------------------------------------------------
(* The sections of a document, and their text.                             *)
Part == [type : Types, lines : Seq(Line)]
Section == [path : Path, blocks : Seq(Part)]
PartText == [b \in Part |-> TextBody[b.lines]]
SectionText == [s \in Section |-> Spell(s.blocks, PartText)]
Parsed == {d \in [title : Names, content : Seq(Line), semantic : Seq(Semantic)] :
             d.semantic = <<>> \/ d.semantic = Chu!ExtractSemanticBlocks(d.title, d.content)}

LEMMA PartWords ==
  /\ PartText \in [Part -> Seq(Token)] /\ SectionText \in [Section -> Seq(Token)]
  /\ Spelled(Part, Token, PartText) /\ Spelled(Section, Token, SectionText)
<1>1. PartText \in [Part -> Seq(Token)]
  BY TextBoth DEF PartText, Part, Tokens
<1>2. Spelled(Part, Token, PartText)
  BY <1>1, SpellIs
<1>3. SectionText \in [Section -> Seq(Token)]
  BY <1>2 DEF SectionText, Section, Spelled
<1> QED BY <1>1, <1>2, <1>3, SpellIs

LEMMA BlockIsPart == Block \subseteq Part /\ FullSection \subseteq Section
<1>1. Block \subseteq Part
  BY DEF Block, Part
<1>2. Seq(Block) \subseteq Seq(Part)
  BY <1>1
<1> QED BY <1>1, <1>2 DEF FullSection, Section

LEMMA FullSectionText ==
  ASSUME NEW sections \in Seq(FullSection)
  PROVE  /\ sections \in Seq(Section)
         /\ Spell(sections, SectionText) = Spell(Spell(sections, SectionBlocks), BlockText)
<1>1. PICK h, u : h = SpellOf(Block, BlockText) /\ u = [x \in FullSection |-> h[SectionBlocks[x]]]
  OBVIOUS
<1>2. PICK w, y : w = SectionBlocks /\ y = BlockText
  OBVIOUS
<1>3. Spells(h, Block, Token, y) /\ w \in [FullSection -> Seq(Block)] /\ WordsOf(u, FullSection, h, w)
  <2>1. y \in [Block -> Seq(Token)]
    BY <1>2, BlockWords
  <2> QED BY <1>1, <1>2, <2>1, SpellOfSpells, SectionWords DEF WordsOf
<1>4. Spell(sections, w) \in Seq(Block) /\ h[Spell(sections, w)] = Spell(sections, u)
  BY <1>3, SpellOfParts
<1>5. \A x \in FullSection : u[x] = SectionText[x]
  <2>1. ASSUME NEW x \in FullSection PROVE u[x] = SectionText[x]
    <3>1. x \in Section /\ x.blocks \in Seq(Block)
      BY BlockIsPart DEF FullSection
    <3>2. u[x] = Spell(x.blocks, BlockText)
      BY <1>1, <3>1 DEF SectionBlocks, SpellOf
    <3>3. \A b \in Block : BlockText[b] = PartText[b]
      BY BlockIsPart DEF BlockText, PartText
    <3>4. Spell(x.blocks, BlockText) = Spell(x.blocks, PartText)
      BY <3>1, <3>3, SpellSameWords
    <3> QED BY <3>1, <3>2, <3>4 DEF SectionText
  <2> QED BY <2>1
<1>6. Spell(sections, u) = Spell(sections, SectionText)
  BY <1>5, SpellSameWords
<1>7. Seq(FullSection) \subseteq Seq(Section)
  BY BlockIsPart
<1> QED BY <1>1, <1>2, <1>4, <1>6, <1>7 DEF SpellOf

LEMMA WholeText ==
  ASSUME NEW name \in Names, NEW lines \in Seq(Line)
  PROVE  /\ <<InOne(name, lines)>> \in Seq(Section)
         /\ Spell(<<InOne(name, lines)>>, SectionText) = TextBody[lines]
<1>1. PICK b, s : b = [type |-> "paragraph", lines |-> Chu!NotBlank(lines)] /\ s = [path |-> <<name>>, blocks |-> <<b>>]
  OBVIOUS
<1>2. s = InOne(name, lines)
  BY <1>1 DEF InOne
<1>3. b \in Part /\ PartText[b] = TextBody[lines]
  BY <1>1, NotBlankBody DEF Part, PartText, Types
<1>4. <<b>> \in Seq(Part)
  BY <1>3
<1>5. s \in Section
  BY <1>1, <1>4, RootPath DEF Section
<1>6. Spell(<<b>>, PartText) = PartText[b]
  <2>1. <<>> \in Seq(Part) /\ Append(<<>>, b) = <<b>> /\ Spell(<<>>, PartText) = <<>>
    BY <1>3, EmptySeq, PartWords DEF Spelled
  <2>2. Spell(<<b>>, PartText) = <<>> \o PartText[b]
    BY <1>3, <2>1, PartWords DEF Spelled
  <2>3. PartText[b] \in Seq(Token)
    BY <1>3, PartWords
  <2> QED BY <2>2, <2>3, ConcatEmptySeq
<1>7. Spell(<<s>>, SectionText) = SectionText[s]
  <2>1. <<>> \in Seq(Section) /\ Append(<<>>, s) = <<s>> /\ Spell(<<>>, SectionText) = <<>>
    BY <1>5, EmptySeq, PartWords DEF Spelled
  <2>2. Spell(<<s>>, SectionText) = <<>> \o SectionText[s]
    BY <1>5, <2>1, PartWords DEF Spelled
  <2>3. SectionText[s] \in Seq(Token)
    BY <1>5, PartWords
  <2> QED BY <2>2, <2>3, ConcatEmptySeq
<1>8. SectionText[s] = Spell(<<b>>, PartText)
  BY <1>1, <1>5 DEF SectionText
<1>9. <<s>> \in Seq(Section)
  BY <1>5
<1> QED BY <1>2, <1>3, <1>6, <1>7, <1>8, <1>9

(* Sections lose no text.                                                  *)
LEMMA SectionsKeepText ==
  ASSUME NEW d \in Parsed
  PROVE  /\ Chu!SectionsOf(d) \in Seq(Section)
         /\ Spell(Chu!SectionsOf(d), SectionText) = Chu!Body(Chu!Text(Chu!BodyLines(d.content)))
<1>1. PICK name \in Names, lines \in Seq(Line) : name = d.title /\ lines = d.content
  BY DEF Parsed
<1>2. PICK all \in Seq(Block) : all = Chu!ParseMarkdownBlocks(lines)
  BY BlocksAre
<1>3. PICK bs \in Seq(Block) : bs = Bodies(all)
  BY BodiesAre
<1>4. Chu!Body(Chu!Text(Chu!BodyLines(lines))) = IF bs = <<>> THEN TextBody[lines] ELSE Spell(bs, BlockText)
  BY <1>2, <1>3, BodyLinesAre
<1>5. PICK g \in Seq(FullSection) :
        g = Chu!ParseSemanticSections(d.semantic) /\ Spell(g, SectionBlocks) = Spell(d.semantic, Plain)
  BY SemanticSectionsAre DEF Parsed
<1>6. CASE g # <<>>
  <2>1. Chu!SectionsOf(d) = g
    BY <1>5, <1>6 DEF Chu!SectionsOf
  <2>2. Spell(g, SectionBlocks) # <<>>
    BY <1>6, NoSection
  <2>3. d.semantic # <<>>
    BY <1>5, <2>2, Words DEF Spelled
  <2>4. Spell(d.semantic, Plain) = bs
    BY <1>1, <1>2, <1>3, <2>3, SemanticAre DEF Parsed
  <2>5. g \in Seq(Section) /\ Spell(g, SectionText) = Spell(bs, BlockText)
    BY <1>5, <2>4, FullSectionText
  <2> QED BY <1>1, <1>4, <1>5, <2>1, <2>2, <2>4, <2>5
<1>7. CASE g = <<>>
  <2>1. Chu!SectionsOf(d) = Chu!ParseSections(name, lines)
    BY <1>1, <1>5, <1>7 DEF Chu!SectionsOf
  <2>2. PICK sections \in Seq(FullSection) :
          /\ Spell(sections, SectionBlocks) = bs
          /\ Chu!ParseSections(name, lines) = IF sections = <<>> THEN <<InOne(name, lines)>> ELSE sections
    BY <1>2, <1>3, SectionsAre
  <2>3. CASE sections = <<>>
    <3>1. bs = <<>>
      BY <2>2, <2>3, SectionWords DEF Spelled
    <3> QED BY <1>1, <1>4, <2>1, <2>2, <2>3, <3>1, WholeText
  <2>4. CASE sections # <<>>
    <3>1. bs # <<>>
      BY <2>2, <2>4, NoSection
    <3>2. sections \in Seq(Section) /\ Spell(sections, SectionText) = Spell(bs, BlockText)
      BY <2>2, FullSectionText
    <3> QED BY <1>1, <1>4, <2>1, <2>2, <2>4, <3>1, <3>2
  <2> QED BY <2>3, <2>4
<1> QED BY <1>6, <1>7

=================================================================================
