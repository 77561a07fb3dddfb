----------------------------- MODULE ChunkingProofs -----------------------------
(* The chunks of a document: type correctness, that no text is lost but for *)
(* the characters that a forced cut divides, that every child has a parent *)
(* it stands in, and that a cleaned article stays as it is when its title  *)
(* is a name and no footer, for any file, any weights and any limits that  *)
(* ParentsAssumption allows.                                               *)
EXTENDS MarkdownProofs

-----------------------------------------------------------------------------
(* Chunks, and the body tokens of their texts.  A parent has room for a    *)
(* chunk and the overlap on both sides.                                    *)
Short(text) == Len(text) + 2 * Overlap <= TargetParent
(* A token of a chunk, spoilt perhaps if it is a part of a character.      *)
Mark == {t \in Nat \X Int : t[2] < 0 => Chu!Whole(t) \in DOMAIN PartOf}
Marks == Seq(Mark)
Chunk == {c \in [path : Path, text : Marks] : Short(c.text)}
ChunkBody == [c \in Chunk |-> Chu!Body(Chu!Repaired(c.text))]

LEMMA WholeIs ==
  ASSUME NEW t \in Mark
  PROVE  Chu!Whole(t) \in Token
BY DEF Mark, Token, Chu!Whole, Chu!Spoilt

LEMMA TokenMark ==
  ASSUME NEW t \in Token
  PROVE  /\ t \in Mark /\ Chu!Whole(t) = t
         /\ t \in DOMAIN PartOf => Chu!Spoilt(t) \in Mark /\ Chu!Whole(Chu!Spoilt(t)) = t
<1>1. PICK a \in Nat, k \in Nat : t = <<a, k>>
  BY DEF Token
<1>2. t[2] = k /\ Chu!Whole(t) = t /\ t \in Nat \X Int
  BY <1>1 DEF Chu!Whole
<1>3. t \in Mark
  BY <1>2 DEF Mark
<1>4. PICK u : u = <<a, -k>>
  OBVIOUS
<1>5. u = Chu!Spoilt(t) /\ u[1] = a /\ u[2] = -k /\ u \in Nat \X Int
  BY <1>1, <1>4 DEF Chu!Spoilt
<1>6. Chu!Whole(u) = t
  <2>1. CASE k = 0
    BY <1>1, <1>4, <1>5, <2>1 DEF Chu!Whole
  <2>2. CASE k # 0
    <3>1. u[2] < 0 /\ -u[2] = k
      BY <1>5, <2>2
    <3> QED BY <1>1, <1>5, <3>1 DEF Chu!Whole, Chu!Spoilt
  <2> QED BY <2>1, <2>2
<1> QED BY <1>2, <1>3, <1>5, <1>6 DEF Mark

LEMMA RepairedIs ==
  ASSUME NEW text \in Marks
  PROVE  /\ Chu!Repaired(text) \in Tokens /\ Len(Chu!Repaired(text)) = Len(text)
         /\ \A i \in 1 .. Len(text) : Chu!Repaired(text)[i] = Chu!Whole(text[i])
<1>1. PICK n \in Nat : n = Len(text) /\ DOMAIN text = 1 .. n /\ \A i \in 1 .. n : text[i] \in Mark
  BY DEF Marks
<1>2. PICK r : r = Chu!Repaired(text)
  OBVIOUS
<1>3. r = [i \in 1 .. n |-> Chu!Whole(text[i])]
  BY <1>1, <1>2 DEF Chu!Repaired
<1>4. \A i \in 1 .. n : Chu!Whole(text[i]) \in Token
  BY <1>1, WholeIs
<1>5. r \in Seq(Token) /\ Len(r) = n
  BY <1>3, <1>4
<1> QED BY <1>1, <1>2, <1>3, <1>5 DEF Tokens

LEMMA RepairedWhole ==
  ASSUME NEW text \in Tokens
  PROVE  text \in Marks /\ Chu!Repaired(text) = text
<1>1. PICK n \in Nat : n = Len(text) /\ DOMAIN text = 1 .. n /\ \A i \in 1 .. n : text[i] \in Token
  BY DEF Tokens
<1>2. \A i \in 1 .. n : text[i] \in Mark /\ Chu!Whole(text[i]) = text[i]
  BY <1>1, TokenMark
<1>3. text \in Seq(Token) /\ text \in Seq(Mark)
  BY <1>1, <1>2 DEF Tokens
<1>4. PICK r \in Seq(Token) : r = Chu!Repaired(text) /\ Len(r) = n /\ \A i \in 1 .. n : r[i] = Chu!Whole(text[i])
  BY <1>1, <1>3, RepairedIs DEF Tokens, Marks
<1>5. r = text
  BY <1>1, <1>2, <1>3, <1>4, SeqEqual
<1> QED BY <1>3, <1>4, <1>5 DEF Marks

LEMMA RepairedBoth ==
  ASSUME NEW x \in Marks, NEW y \in Marks
  PROVE  x \o y \in Marks /\ Chu!Repaired(x \o y) = Chu!Repaired(x) \o Chu!Repaired(y)
<1>1. PICK m \in Nat, n \in Nat : m = Len(x) /\ n = Len(y) /\ x \in Seq(Mark) /\ y \in Seq(Mark)
  BY DEF Marks
<1>2. PICK z \in Seq(Mark) : z = x \o y /\ Len(z) = m + n
                              /\ \A i \in 1 .. m + n : z[i] = IF i <= m THEN x[i] ELSE y[i - m]
  <2>1. PICK z \in Seq(Mark) : z = x \o y
    BY <1>1, ConcatProperties
  <2>2. Len(z) = m + n /\ \A i \in 1 .. Len(z) : z[i] = IF i <= m THEN x[i] ELSE y[i - m]
    BY <1>1, <2>1, ConcatProperties
  <2> QED BY <2>1, <2>2
<1>3. PICK rx \in Seq(Token) : rx = Chu!Repaired(x) /\ Len(rx) = m /\ \A i \in 1 .. m : rx[i] = Chu!Whole(x[i])
  BY <1>1, RepairedIs DEF Tokens
<1>4. PICK ry \in Seq(Token) : ry = Chu!Repaired(y) /\ Len(ry) = n /\ \A i \in 1 .. n : ry[i] = Chu!Whole(y[i])
  BY <1>1, RepairedIs DEF Tokens
<1>5. PICK rz \in Seq(Token) :
        rz = Chu!Repaired(z) /\ Len(rz) = m + n /\ \A i \in 1 .. m + n : rz[i] = Chu!Whole(z[i])
  BY <1>2, RepairedIs DEF Tokens, Marks
<1>6. PICK w \in Seq(Token) : w = rx \o ry /\ Len(w) = m + n
                               /\ \A i \in 1 .. m + n : w[i] = IF i <= m THEN rx[i] ELSE ry[i - m]
  <2>1. PICK w \in Seq(Token) : w = rx \o ry
    BY <1>3, <1>4, ConcatProperties
  <2>2. Len(w) = m + n /\ \A i \in 1 .. Len(w) : w[i] = IF i <= m THEN rx[i] ELSE ry[i - m]
    <3>1. Len(rx) = m /\ Len(ry) = n
      BY <1>3, <1>4
    <3>2. Len(rx \o ry) = m + n
      BY <3>1, ConcatProperties
    <3>3. \A i \in 1 .. Len(rx) + Len(ry) : (rx \o ry)[i] = IF i <= Len(rx) THEN rx[i] ELSE ry[i - Len(rx)]
      BY ConcatProperties
    <3> QED BY <2>1, <3>1, <3>2, <3>3
  <2> QED BY <2>1, <2>2
<1>7. ASSUME NEW i \in 1 .. m + n PROVE rz[i] = w[i]
  <2>1. CASE i <= m
    <3>1. i \in 1 .. m
      BY <2>1
    <3>2. z[i] = x[i] /\ w[i] = rx[i]
      BY <1>2, <1>6, <2>1
    <3> QED BY <1>3, <1>5, <3>1, <3>2
  <2>2. CASE ~(i <= m)
    <3>1. PICK j \in 1 .. n : j = i - m
      BY <2>2
    <3>2. z[i] = y[j] /\ w[i] = ry[j]
      BY <1>2, <1>6, <2>2, <3>1
    <3> QED BY <1>4, <1>5, <3>1, <3>2
  <2> QED BY <2>1, <2>2
<1>8. rz = w
  BY <1>5, <1>6, <1>7, SeqEqual
<1> QED BY <1>2, <1>3, <1>4, <1>5, <1>6, <1>8 DEF Marks

(* Repairing brings back the text that was cut.                            *)
LEMMA DecodedIs ==
  ASSUME NEW text \in Tokens, NEW budget
  PROVE  /\ Chu!Decoded(text, budget) \in Marks /\ Len(Chu!Decoded(text, budget)) = Len(text)
         /\ Chu!Repaired(Chu!Decoded(text, budget)) = text
<1>1. PICK n \in Nat : n = Len(text) /\ DOMAIN text = 1 .. n /\ \A i \in 1 .. n : text[i] \in Token
  BY DEF Tokens
<1>2. PICK d : d = Chu!Decoded(text, budget)
  OBVIOUS
<1>3. /\ d = [i \in 1 .. n |-> d[i]]
      /\ \A i \in 1 .. n : d[i] = text[i] \/ (d[i] = Chu!Spoilt(text[i]) /\ text[i] \in DOMAIN PartOf)
  <2>1. DOMAIN d = DOMAIN text /\ d = [i \in DOMAIN text |-> d[i]]
    BY <1>2 DEF Chu!Decoded
  <2>2. ASSUME NEW i \in DOMAIN text
        PROVE  d[i] = text[i] \/ (d[i] = Chu!Spoilt(text[i]) /\ text[i] \in DOMAIN PartOf)
    BY <1>2 DEF Chu!Decoded
  <2> QED BY <1>1, <2>1, <2>2
<1>4. ASSUME NEW i \in 1 .. n PROVE d[i] \in Mark /\ Chu!Whole(d[i]) = text[i]
  BY <1>1, <1>3, TokenMark
<1>5. d \in Seq(Mark) /\ Len(d) = n
  BY <1>3, <1>4
<1>6. PICK r \in Seq(Token) : r = Chu!Repaired(d) /\ Len(r) = n /\ \A i \in 1 .. n : r[i] = Chu!Whole(d[i])
  BY <1>5, RepairedIs DEF Tokens, Marks
<1>7. r = text
  <2>1. text \in Seq(Token)
    BY DEF Tokens
  <2> QED BY <1>1, <1>4, <1>6, <2>1, SeqEqual
<1> QED BY <1>1, <1>2, <1>5, <1>6, <1>7 DEF Marks

LEMMA RepairedPart ==
  ASSUME NEW text \in Marks, NEW a \in Nat, NEW b \in Nat, a <= b, b <= Len(text)
  PROVE  /\ SubSeq(text, a + 1, b) \in Marks
         /\ Chu!Repaired(SubSeq(text, a + 1, b)) = SubSeq(Chu!Repaired(text), a + 1, b)
<1>1. PICK n \in Nat : n = Len(text) /\ text \in Seq(Mark)
  BY DEF Marks
<1>2. PICK x : x = SubSeq(text, a + 1, b)
  OBVIOUS
<1>3. x \in Seq(Mark) /\ Len(x) = b - a /\ \A i \in 1 .. b - a : x[i] = text[a + i]
  BY <1>1, <1>2
<1>4. PICK r \in Seq(Token) : r = Chu!Repaired(text) /\ Len(r) = n /\ \A i \in 1 .. n : r[i] = Chu!Whole(text[i])
  BY <1>1, RepairedIs DEF Tokens
<1>5. PICK y : y = SubSeq(r, a + 1, b)
  OBVIOUS
<1>6. y \in Seq(Token) /\ Len(y) = b - a /\ \A i \in 1 .. b - a : y[i] = r[a + i]
  BY <1>1, <1>4, <1>5
<1>7. PICK z \in Seq(Token) : z = Chu!Repaired(x) /\ Len(z) = b - a /\ \A i \in 1 .. b - a : z[i] = Chu!Whole(x[i])
  BY <1>3, RepairedIs DEF Tokens, Marks
<1>8. PICK m \in Nat : m = b - a
  OBVIOUS
<1>9. ASSUME NEW i \in 1 .. m PROVE z[i] = y[i]
  <2>1. a + i \in 1 .. n
    BY <1>1, <1>8
  <2> QED BY <1>3, <1>4, <1>6, <1>7, <1>8, <2>1
<1>10. z = y
  BY <1>6, <1>7, <1>8, <1>9, SeqEqual
<1> QED BY <1>2, <1>3, <1>4, <1>5, <1>7, <1>10 DEF Marks

LEMMA ChunkWords ==
  ChunkBody \in [Chunk -> Seq(Token)] /\ Spelled(Chunk, Token, ChunkBody)
<1>1. ChunkBody \in [Chunk -> Seq(Token)]
  BY RepairedIs, BodyType DEF ChunkBody, Chunk, Tokens
<1> QED BY <1>1, SpellIs

LEMMA ContentIs ==
  ASSUME NEW path \in Path, NEW body \in Tokens
  PROVE  /\ Chu!Content(path, body) \in Tokens
         /\ Chu!Body(Chu!Content(path, body)) = Chu!Body(body)
         /\ Len(Chu!Content(path, body)) = Len(path) + 1 + Len(body)
<1>1. PICK p \in Tokens, s \in Tokens :
        /\ p = Chu!Prefix(path) /\ Chu!Body(p) = <<>> /\ s = <<Chu!Sep>> /\ Chu!Body(s) = <<>>
        /\ Len(p) = Len(path)
  BY PrefixTokens, SepTokens DEF Path
<1>2. PICK q \in Tokens : q = p \o s /\ Chu!Body(q) = <<>>
  <2>1. p \o s \in Tokens /\ Chu!Body(p \o s) = <<>> \o <<>>
    BY <1>1, BodyBoth
  <2>2. <<>> \o <<>> = <<>>
    OBVIOUS
  <2> QED BY <2>1, <2>2
<1>3. q \o body \in Tokens /\ Chu!Body(q \o body) = Chu!Body(q) \o Chu!Body(body)
  BY BodyBoth
<1>4. <<>> \o Chu!Body(body) = Chu!Body(body)
  BY BodyType, ConcatEmptySeq DEF Tokens
<1>5. Len(q \o body) = Len(path) + 1 + Len(body)
  <2>1. Len(s) = 1
    BY <1>1
  <2>2. Len(q) = Len(p) + Len(s)
    BY <1>2, ConcatProperties DEF Tokens
  <2>3. Len(q \o body) = Len(q) + Len(body)
    BY ConcatProperties DEF Tokens
  <2> QED BY <1>1, <2>1, <2>2, <2>3
<1>6. Chu!Content(path, body) = q \o body
  BY <1>1, <1>2 DEF Chu!Content
<1> QED BY <1>2, <1>3, <1>4, <1>5, <1>6

LEMMA MarkedContent ==
  ASSUME NEW path \in Path, NEW body \in Marks
  PROVE  /\ Chu!Content(path, body) \in Marks
         /\ Chu!Repaired(Chu!Content(path, body)) = Chu!Content(path, Chu!Repaired(body))
         /\ Len(Chu!Content(path, body)) = Len(path) + 1 + Len(body)
<1>1. PICK p \in Tokens, s \in Tokens :
        p = Chu!Prefix(path) /\ s = <<Chu!Sep>> /\ Len(p) = Len(path) /\ Len(s) = 1
  BY PrefixTokens, SepTokens DEF Path
<1>2. PICK q \in Tokens : q = p \o s /\ Len(q) = Len(path) + 1
  <2>1. p \o s \in Tokens
    BY BodyBoth
  <2>2. Len(p \o s) = Len(p) + Len(s)
    BY ConcatProperties DEF Tokens
  <2> QED BY <1>1, <2>1, <2>2
<1>3. q \in Marks /\ Chu!Repaired(q) = q
  BY RepairedWhole
<1>4. q \o body \in Marks /\ Chu!Repaired(q \o body) = q \o Chu!Repaired(body)
  BY <1>3, RepairedBoth
<1>5. Len(q \o body) = Len(q) + Len(body)
  BY <1>3, ConcatProperties DEF Marks
<1> QED BY <1>1, <1>2, <1>4, <1>5 DEF Chu!Content

LEMMA ChunkIs ==
  ASSUME NEW path \in Path, NEW body \in Marks, Short(Chu!Content(path, body))
  PROVE  /\ Chu!Chunk(path, body) \in Chunk
         /\ ChunkBody[Chu!Chunk(path, body)] = Chu!Body(Chu!Repaired(body))
<1>1. PICK r \in Tokens : r = Chu!Repaired(body)
  BY RepairedIs
<1>2. PICK t \in Marks : t = Chu!Content(path, body) /\ Chu!Repaired(t) = Chu!Content(path, r) /\ Short(t)
  BY <1>1, MarkedContent
<1>3. Chu!Body(Chu!Repaired(t)) = Chu!Body(r)
  BY <1>2, ContentIs
<1>4. PICK c : c = Chu!Chunk(path, body)
  OBVIOUS
<1>5. c = [path |-> path, text |-> t]
  BY <1>2, <1>4 DEF Chu!Chunk
<1>6. c \in Chunk
  BY <1>2, <1>5 DEF Chunk
<1> QED BY <1>1, <1>3, <1>4, <1>5, <1>6 DEF ChunkBody

LEMMA FitsShort ==
  ASSUME NEW path \in Path, NEW body \in Tokens, Chu!Fits(path, body)
  PROVE  Short(Chu!Content(path, body))
<1>1. PICK m \in Nat : m = Len(Chu!Content(path, body)) /\ m <= MaxChild
  BY ContentIs DEF Chu!Fits, Tokens
<1>2. MaxChild \in Nat
  BY ChunkingAssumption
<1> QED BY <1>1, <1>2, ParentsAssumption DEF Short

LEMMA OneSpells ==
  ASSUME NEW E, NEW F, NEW u, u \in [E -> Seq(F)], NEW x \in E
  PROVE  <<x>> \in Seq(E) /\ Spell(<<x>>, u) = u[x]
<1>1. Spelled(E, F, u)
  BY SpellIs
<1>2. <<>> \in Seq(E) /\ Append(<<>>, x) = <<x>> /\ <<x>> \in Seq(E)
  BY EmptySeq
<1>3. Spell(Append(<<>>, x), u) = Spell(<<>>, u) \o u[x]
  BY <1>1, <1>2 DEF Spelled
<1>4. Spell(<<>>, u) = <<>>
  BY <1>1 DEF Spelled
<1>5. <<>> \o u[x] = u[x]
  BY ConcatEmptySeq
<1> QED BY <1>2, <1>3, <1>4, <1>5

Regroups(x, y, z) == (x \o y) \o z = x \o (y \o z)

LEMMA Regrouping ==
  ASSUME NEW F, NEW x \in Seq(F), NEW y \in Seq(F), NEW z \in Seq(F)
  PROVE  Regroups(x, y, z)
BY ConcatAssociative DEF Regroups

-----------------------------------------------------------------------------
(* Numbers.                                                                *)
LEMMA Quotient ==
  ASSUME NEW a \in Nat, NEW b \in Nat \ {0}
  PROVE  a \div b \in Nat /\ (a \div b) * b <= a /\ a < (a \div b) * b + b
OBVIOUS

LEMMA Multiples ==
  ASSUME NEW a \in Nat, NEW b \in Nat, NEW c \in Nat, a <= b
  PROVE  a * c \in Nat /\ b * c \in Nat /\ a * c <= b * c /\ (a + 1) * c = a * c + c
OBVIOUS

LEMMA LesserOf ==
  ASSUME NEW a \in Nat, NEW b \in Nat
  PROVE  Chu!Min({a, b}) = IF a <= b THEN a ELSE b
<1>1. PICK m : m = IF a <= b THEN a ELSE b
  OBVIOUS
<1>2. m \in {a, b} /\ \A y \in {a, b} : m <= y
  BY <1>1
<1>3. \A x \in {a, b} : (\A y \in {a, b} : x <= y) => x = m
  BY <1>1
<1>4. (CHOOSE x \in {a, b} : \A y \in {a, b} : x <= y) = m
  BY <1>2, <1>3
<1> QED BY <1>1, <1>4 DEF Chu!Min

LEMMA GreaterOf ==
  ASSUME NEW a \in Int, NEW b \in Int
  PROVE  Chu!Max({a, b}) = IF a >= b THEN a ELSE b
<1>1. PICK m : m = IF a >= b THEN a ELSE b
  OBVIOUS
<1>2. m \in {a, b} /\ \A y \in {a, b} : m >= y
  BY <1>1
<1>3. \A x \in {a, b} : (\A y \in {a, b} : x >= y) => x = m
  BY <1>1
<1>4. (CHOOSE x \in {a, b} : \A y \in {a, b} : x >= y) = m
  BY <1>2, <1>3
<1> QED BY <1>1, <1>4 DEF Chu!Max

(* A sequence is cut where one part ends and the next one starts.          *)
LEMMA CutAt ==
  ASSUME NEW E, NEW s \in Seq(E), NEW a \in Nat, NEW b \in Nat, a <= b, b <= Len(s)
  PROVE  /\ SubSeq(s, 1, a) \in Seq(E) /\ SubSeq(s, a + 1, b) \in Seq(E)
         /\ SubSeq(s, 1, b) = SubSeq(s, 1, a) \o SubSeq(s, a + 1, b)
<1>1. PICK x, y, z : x = SubSeq(s, 1, a) /\ y = SubSeq(s, a + 1, b) /\ z = SubSeq(s, 1, b)
  OBVIOUS
<1>2. x \in Seq(E) /\ Len(x) = a /\ \A i \in 1 .. a : x[i] = s[i]
  BY <1>1
<1>3. y \in Seq(E) /\ Len(y) = b - a /\ \A i \in 1 .. b - a : y[i] = s[a + i]
  BY <1>1
<1>4. z \in Seq(E) /\ Len(z) = b /\ \A i \in 1 .. b : z[i] = s[i]
  BY <1>1
<1>5. PICK w \in Seq(E) : w = x \o y
  BY <1>2, <1>3, ConcatProperties
<1>6. Len(w) = b /\ \A i \in 1 .. b : w[i] = s[i]
  <2>1. Len(w) = a + (b - a) /\ \A i \in 1 .. Len(w) : w[i] = IF i <= a THEN x[i] ELSE y[i - a]
    BY <1>2, <1>3, <1>5, ConcatProperties
  <2>2. ASSUME NEW i \in 1 .. b PROVE w[i] = s[i]
    <3>1. CASE i <= a
      BY <1>2, <2>1, <3>1
    <3>2. CASE i > a
      <4>1. PICK j \in 1 .. b - a : j = i - a
        BY <3>2
      <4>2. w[i] = y[j] /\ a + j = i
        BY <2>1, <3>2, <4>1
      <4> QED BY <1>3, <4>2
    <3> QED BY <3>1, <3>2
  <2> QED BY <2>1, <2>2
<1>7. w = z
  BY <1>4, <1>6, SeqEqual
<1> QED BY <1>1, <1>2, <1>3, <1>5, <1>7

-----------------------------------------------------------------------------
(* A text that is cut by force keeps its tokens, but for those it spoils.  *)
LEMMA ForceSplitIs ==
  ASSUME NEW path \in Path, NEW body \in Tokens
  PROVE  /\ Chu!ForceSplit(path, body) \in Seq(Chunk)
         /\ Spell(Chu!ForceSplit(path, body), ChunkBody) = Chu!Body(body)
<1>1. PICK n \in Nat : n = Len(body)
  BY DEF Tokens
<1>2. PICK B : B = Chu!Max({LeastBudget, MaxChild - Len(Chu!Prefix(path)) - 1})
  OBVIOUS
<1>3. B \in Nat \ {0} /\ Len(path) + 1 + B + 2 * Overlap <= TargetParent
  <2>1. PICK m \in Nat : m = Len(Chu!Prefix(path)) /\ m = Len(path) /\ m <= MaxLevel + 2
    BY PrefixTokens DEF Path
  <2>2. PICK c \in Int : c = MaxChild - m - 1
    BY ChunkingAssumption
  <2>3. LeastBudget \in Nat \ {0} /\ B = Chu!Max({LeastBudget, c})
    BY <1>2, <2>1, <2>2, ChunkingAssumption
  <2>4. B = IF LeastBudget >= c THEN LeastBudget ELSE c
    BY <2>3, GreaterOf
  <2>5. MaxChild \in Nat /\ MaxLevel \in Nat
    BY ChunkingAssumption
  <2>6. m + 1 + B + 2 * Overlap <= TargetParent
    <3>1. CASE B = LeastBudget
      BY <2>1, <2>3, <2>5, <3>1, ParentsAssumption
    <3>2. CASE B = c
      BY <2>1, <2>2, <2>5, <3>2, ParentsAssumption
    <3> QED BY <2>4, <3>1, <3>2
  <2> QED BY <2>1, <2>3, <2>4, <2>6
<1>4. PICK p : p = (n + B - 1) \div B
  OBVIOUS
<1>5. p \in Nat /\ p * B <= n + B - 1 /\ n + B - 1 < p * B + B
  <2>1. PICK a \in Nat : a = n + B - 1
    BY <1>3
  <2> QED BY <1>3, <1>4, <2>1, Quotient
<1>6. ASSUME NEW k \in 1 .. p
      PROVE  /\ (k - 1) * B \in Nat /\ (k - 1) * B < n /\ k * B \in Nat /\ k * B = (k - 1) * B + B
  <2>1. PICK j \in Nat, q \in Nat : j = k - 1 /\ q = p - 1 /\ j <= q
    BY <1>5
  <2>2. j * B \in Nat /\ q * B \in Nat /\ j * B <= q * B /\ (j + 1) * B = j * B + B
    BY <1>3, <2>1, Multiples
  <2>3. (q + 1) * B = q * B + B
    BY <1>3, <2>1, Multiples
  <2>4. j + 1 = k /\ q + 1 = p
    BY <1>5, <2>1
  <2>5. PICK x \in Nat, y \in Nat : x = j * B /\ y = q * B
    BY <2>2
  <2>6. x <= y /\ p * B = y + B /\ k * B = x + B
    BY <2>2, <2>3, <2>4, <2>5
  <2> QED BY <1>1, <1>3, <1>5, <2>1, <2>5, <2>6
<1>7. PICK cut : cut = [k \in 0 .. p |-> IF k * B <= n THEN k * B ELSE n]
  OBVIOUS
<1>8. cut[0] = 0 /\ cut[p] = n
  <2>1. 0 * B = 0 /\ p * B >= n
    BY <1>1, <1>3, <1>5
  <2>2. PICK y \in Nat : y = p * B
    BY <1>3, <1>5
  <2>3. cut[0] = 0
    <3>1. 0 \in 0 .. p
      BY <1>5
    <3>2. cut[0] = IF 0 * B <= n THEN 0 * B ELSE n
      BY <1>7, <3>1
    <3> QED BY <1>1, <2>1, <3>2
  <2>4. cut[p] = n
    <3>1. p \in 0 .. p
      BY <1>5
    <3>2. cut[p] = IF y <= n THEN y ELSE n
      BY <1>7, <2>2, <3>1
    <3> QED BY <1>1, <2>1, <2>2, <3>2
  <2> QED BY <2>3, <2>4
<1>9. ASSUME NEW k \in 1 .. p
      PROVE  /\ k - 1 \in 0 .. p /\ k \in 0 .. p
             /\ cut[k - 1] \in Nat /\ cut[k] \in Nat /\ cut[k - 1] <= cut[k] /\ cut[k] <= n
             /\ (k - 1) * B + 1 = cut[k - 1] + 1 /\ Chu!Min({k * B, n}) = cut[k]
             /\ cut[k] - cut[k - 1] <= B
  <2>1. PICK x \in Nat, y \in Nat : x = (k - 1) * B /\ y = k * B /\ x < n /\ y = x + B
    BY <1>6
  <2>2. k - 1 \in 0 .. p /\ k \in 0 .. p
    BY <1>5
  <2>3. cut[k - 1] = (IF x <= n THEN x ELSE n) /\ cut[k] = (IF y <= n THEN y ELSE n)
    BY <1>7, <2>1, <2>2
  <2>4. Chu!Min({y, n}) = IF y <= n THEN y ELSE n
    BY <2>1, LesserOf
  <2> QED BY <1>1, <1>3, <2>1, <2>2, <2>3, <2>4
<1>10. PICK s : s = Chu!ForceSplit(path, body)
  OBVIOUS
<1>18. PICK d \in Marks : d = Chu!Decoded(body, B) /\ Len(d) = n /\ Chu!Repaired(d) = body
  BY <1>1, DecodedIs
<1>11. s = [i \in 1 .. p |-> Chu!Chunk(path, SubSeq(d, (i - 1) * B + 1, Chu!Min({i * B, n})))]
  BY <1>1, <1>2, <1>4, <1>10, <1>18 DEF Chu!ForceSplit
<1>12. ASSUME NEW k \in 1 .. p
       PROVE  /\ s[k] = Chu!Chunk(path, SubSeq(d, cut[k - 1] + 1, cut[k]))
              /\ SubSeq(d, cut[k - 1] + 1, cut[k]) \in Marks
              /\ Short(Chu!Content(path, SubSeq(d, cut[k - 1] + 1, cut[k])))
  <2>1. PICK a \in Nat, b \in Nat : a = cut[k - 1] /\ b = cut[k] /\ a <= b /\ b <= Len(d)
    BY <1>9, <1>18
  <2>2. SubSeq(d, a + 1, b) \in Marks
    BY <2>1, RepairedPart
  <2>3. s[k] = Chu!Chunk(path, SubSeq(d, (k - 1) * B + 1, Chu!Min({k * B, n})))
    BY <1>11
  <2>4. PICK y \in Marks : y = SubSeq(d, a + 1, b) /\ Len(y) = b - a
    <3>1. SubSeq(d, a + 1, b) \in Seq(Mark) /\ d \in Seq(Mark)
      BY <2>2 DEF Marks
    <3>2. Len(SubSeq(d, a + 1, b)) = b - a
      BY <2>1, <3>1
    <3> QED BY <2>2, <3>2
  <2>5. b - a <= B
    BY <1>9, <2>1
  <2>6. Short(Chu!Content(path, y))
    <3>1. PICK m \in Nat : m = Len(path)
      BY DEF Path
    <3>2. Len(Chu!Content(path, y)) = m + 1 + (b - a)
      BY <2>4, <3>1, MarkedContent
    <3>3. m + 1 + B + 2 * Overlap <= TargetParent
      BY <1>3, <3>1
    <3>4. PICK e \in Nat, o \in Nat : e = b - a /\ e <= B /\ o = 2 * Overlap
      BY <2>1, <2>5, ParentsAssumption
    <3>5. m + 1 + e + o <= TargetParent
      BY <1>3, <3>3, <3>4, ParentsAssumption
    <3> QED BY <3>2, <3>4, <3>5 DEF Short
  <2> QED BY <1>9, <2>1, <2>2, <2>3, <2>4, <2>6
<1>13. s \in Seq(Chunk) /\ Len(s) = p
  <2>1. \A k \in 1 .. p : s[k] \in Chunk
    BY <1>12, ChunkIs
  <2>2. s = [i \in 1 .. p |-> s[i]]
    BY <1>11
  <2>3. s \in [1 .. p -> Chunk]
    BY <2>1, <2>2
  <2> QED BY <1>5, <2>3
<1>14. PICK v : v = [k \in 0 .. p |-> Chu!Body(SubSeq(body, 1, cut[k]))]
  OBVIOUS
<1>15. Grows(v, p, s, ChunkBody)
  <2>1. v[0] = <<>>
    <3>1. 0 \in 0 .. p
      BY <1>5
    <3>2. SubSeq(body, 1, 0) = <<>>
      BY SubSeqEmpty DEF Tokens
    <3> QED BY <1>8, <1>14, <3>1, <3>2, EmptyTokens
  <2>2. ASSUME NEW k \in 1 .. p PROVE v[k] = v[k - 1] \o ChunkBody[s[k]]
    <3>1. PICK a \in Nat, b \in Nat : a = cut[k - 1] /\ b = cut[k] /\ a <= b /\ b <= Len(body)
      BY <1>1, <1>9
    <3>2. PICK x \in Tokens, y \in Tokens :
            x = SubSeq(body, 1, a) /\ y = SubSeq(body, a + 1, b) /\ SubSeq(body, 1, b) = x \o y
      <4>1. SubSeq(body, 1, a) \in Seq(Token) /\ SubSeq(body, a + 1, b) \in Seq(Token)
            /\ SubSeq(body, 1, b) = SubSeq(body, 1, a) \o SubSeq(body, a + 1, b)
        <5>1. body \in Seq(Token)
          BY DEF Tokens
        <5> QED BY <3>1, <5>1, CutAt
      <4> QED BY <4>1 DEF Tokens
    <3>3. Chu!Body(x \o y) = Chu!Body(x) \o Chu!Body(y)
      BY BodyBoth
    <3>4. ChunkBody[s[k]] = Chu!Body(y)
      <4>1. PICK z \in Marks : z = SubSeq(d, a + 1, b) /\ s[k] = Chu!Chunk(path, z) /\ Short(Chu!Content(path, z))
        BY <1>12, <3>1
      <4>2. Chu!Repaired(z) = y
        <5>1. a <= b /\ b <= Len(d)
          BY <1>1, <1>18, <3>1
        <5>2. Chu!Repaired(SubSeq(d, a + 1, b)) = SubSeq(Chu!Repaired(d), a + 1, b)
          BY <5>1, RepairedPart
        <5> QED BY <1>18, <3>2, <4>1, <5>2
      <4> QED BY <4>1, <4>2, ChunkIs
    <3>5. v[k] = Chu!Body(x \o y) /\ v[k - 1] = Chu!Body(x)
      BY <1>9, <1>14, <3>1, <3>2
    <3> QED BY <3>3, <3>4, <3>5
  <2> QED BY <2>1, <2>2 DEF Grows
<1>16. v[p] = Spell(s, ChunkBody)
  <2>1. ChunkBody \in [Chunk -> Seq(Token)]
    BY ChunkWords
  <2> QED BY <1>13, <1>15, <2>1, GrowsToSpell
<1>17. v[p] = Chu!Body(body)
  <2>1. p \in 0 .. p
    BY <1>5
  <2>2. SubSeq(body, 1, n) = body
    BY <1>1, SubSeqFull DEF Tokens
  <2> QED BY <1>8, <1>14, <2>1, <2>2
<1> QED BY <1>10, <1>13, <1>16, <1>17

-----------------------------------------------------------------------------
(* Texts are collected while they fit into a chunk.                        *)
Gap == {sep \in Tokens : Chu!Body(sep) = <<>>}
Collecting(path, sep) ==
  {s \in [chunks : Seq(Chunk), current : Seq(Tokens)] :
     s.current = <<>> \/ Chu!Fits(path, Chu!Join(s.current, sep))}
Collected(s, sep) == Spell(s.chunks, ChunkBody) \o Chu!Body(Chu!Join(s.current, sep))
Flushed(s, path, sep) == s.chunks \o Chu!RawChunk(path, s.current, sep)

More(s, unit) == [chunks |-> s.chunks, current |-> Append(s.current, unit)]
Cut(s, path, sep, more) == [chunks |-> Flushed(s, path, sep) \o more, current |-> <<>>]
Start(s, path, sep, unit) == [chunks |-> Flushed(s, path, sep), current |-> <<unit>>]

LEMMA CollectedType ==
  ASSUME NEW path \in Path, NEW sep \in Gap, NEW s \in Collecting(path, sep)
  PROVE  /\ s.chunks \in Seq(Chunk) /\ s.current \in Seq(Tokens)
         /\ Spell(s.chunks, ChunkBody) \in Seq(Token)
         /\ Chu!Join(s.current, sep) \in Tokens
         /\ Chu!Body(Chu!Join(s.current, sep)) \in Seq(Token)
         /\ Collected(s, sep) \in Seq(Token)
<1>1. s.chunks \in Seq(Chunk) /\ s.current \in Seq(Tokens) /\ sep \in Tokens
  BY DEF Collecting, Gap
<1>2. Spell(s.chunks, ChunkBody) \in Seq(Token)
  BY <1>1, ChunkWords DEF Spelled
<1>3. PICK t \in Tokens : t = Chu!Join(s.current, sep)
  BY <1>1, JoinType
<1>4. Chu!Body(t) \in Seq(Token)
  BY BodyType DEF Tokens
<1> QED BY <1>1, <1>2, <1>3, <1>4, ConcatProperties DEF Collected

LEMMA CollectMore ==
  ASSUME NEW path \in Path, NEW sep \in Gap, NEW s \in Collecting(path, sep), NEW unit \in Tokens,
         Chu!Fits(path, Chu!Join(Append(s.current, unit), sep))
  PROVE  /\ More(s, unit) \in Collecting(path, sep)
         /\ Collected(More(s, unit), sep) = Collected(s, sep) \o Chu!Body(unit)
<1>0. PICK r : r = More(s, unit)
  OBVIOUS
<1>1. s.chunks \in Seq(Chunk) /\ s.current \in Seq(Tokens) /\ sep \in Tokens /\ Chu!Body(sep) = <<>>
  BY CollectedType DEF Gap
<1>2. Append(s.current, unit) \in Seq(Tokens)
  BY <1>1, AppendProperties
<1>3. r \in Collecting(path, sep) /\ r.chunks = s.chunks /\ r.current = Append(s.current, unit)
  BY <1>0, <1>1, <1>2 DEF Collecting, More
<1>4. Chu!Body(Chu!Join(Append(s.current, unit), sep)) = Chu!Body(Chu!Join(s.current, sep)) \o Chu!Body(unit)
  BY <1>1, JoinBody
<1>5. PICK x \in Seq(Token), y \in Seq(Token), z \in Seq(Token) :
        x = Spell(s.chunks, ChunkBody) /\ y = Chu!Body(Chu!Join(s.current, sep)) /\ z = Chu!Body(unit)
  BY CollectedType, BodyType DEF Tokens
<1>6. (x \o y) \o z = x \o (y \o z)
  <2>1. x \in Seq(Token) /\ y \in Seq(Token) /\ z \in Seq(Token)
    OBVIOUS
  <2>2. Regroups(x, y, z)
    BY <2>1, Regrouping
  <2> QED BY <2>2 DEF Regroups
<1>7. Collected(s, sep) = x \o y
  BY <1>5 DEF Collected
<1>8. Collected(r, sep) = x \o (y \o z)
  BY <1>3, <1>4, <1>5 DEF Collected
<1> QED BY <1>0, <1>3, <1>5, <1>6, <1>7, <1>8

LEMMA FlushedIs ==
  ASSUME NEW path \in Path, NEW sep \in Gap, NEW s \in Collecting(path, sep)
  PROVE  /\ Flushed(s, path, sep) \in Seq(Chunk)
         /\ Spell(Flushed(s, path, sep), ChunkBody) = Collected(s, sep)
<1>1. s.chunks \in Seq(Chunk) /\ s.current \in Seq(Tokens) /\ sep \in Tokens
  BY CollectedType DEF Gap
<1>2. PICK t \in Tokens : t = Chu!Join(s.current, sep)
  BY CollectedType
<1>3. PICK raw : raw = Chu!RawChunk(path, s.current, sep)
  OBVIOUS
<1>4. raw \in Seq(Chunk) /\ Spell(raw, ChunkBody) = Chu!Body(t)
  <2>1. CASE s.current = <<>>
    <3>1. raw = <<>>
      BY <1>3, <2>1 DEF Chu!RawChunk
    <3>2. t = <<>>
      BY <1>1, <1>2, <2>1, JoinNone
    <3> QED BY <3>1, <3>2, EmptyTokens, EmptySeq, ChunkWords DEF Spelled
  <2>2. CASE s.current # <<>>
    <3>1. Chu!Fits(path, t)
      BY <1>2, <2>2 DEF Collecting
    <3>2. PICK c \in Chunk : c = Chu!Chunk(path, t) /\ ChunkBody[c] = Chu!Body(t)
      BY <3>1, FitsShort, RepairedWhole, ChunkIs
    <3>3. raw = <<c>>
      BY <1>2, <1>3, <2>2, <3>1, <3>2 DEF Chu!RawChunk
    <3>4. <<c>> \in Seq(Chunk) /\ Spell(<<c>>, ChunkBody) = ChunkBody[c]
      <4>1. ChunkBody \in [Chunk -> Seq(Token)]
        BY ChunkWords
      <4> QED BY <4>1, OneSpells
    <3> QED BY <3>2, <3>3, <3>4
  <2> QED BY <2>1, <2>2
<1>5. s.chunks \o raw \in Seq(Chunk)
  BY <1>1, <1>4, ConcatProperties
<1>6. Spell(s.chunks \o raw, ChunkBody) = Spell(s.chunks, ChunkBody) \o Spell(raw, ChunkBody)
  BY <1>1, <1>4, ChunkWords DEF Spelled
<1>7. Flushed(s, path, sep) = s.chunks \o raw
  BY <1>3 DEF Flushed
<1>8. Collected(s, sep) = Spell(s.chunks, ChunkBody) \o Chu!Body(t)
  BY <1>2 DEF Collected
<1> QED BY <1>4, <1>5, <1>6, <1>7, <1>8

LEMMA CollectCut ==
  ASSUME NEW path \in Path, NEW sep \in Gap, NEW s \in Collecting(path, sep), NEW more \in Seq(Chunk)
  PROVE  /\ Cut(s, path, sep, more) \in Collecting(path, sep)
         /\ Collected(Cut(s, path, sep, more), sep) = Collected(s, sep) \o Spell(more, ChunkBody)
<1>0. PICK r : r = Cut(s, path, sep, more)
  OBVIOUS
<1>1. PICK f \in Seq(Chunk) : f = Flushed(s, path, sep) /\ Spell(f, ChunkBody) = Collected(s, sep)
  BY FlushedIs
<1>2. f \o more \in Seq(Chunk) /\ <<>> \in Seq(Tokens)
  BY ConcatProperties, EmptySeq
<1>3. r \in Collecting(path, sep) /\ r.chunks = f \o more /\ r.current = <<>>
  BY <1>0, <1>1, <1>2 DEF Collecting, Cut
<1>4. Spell(f \o more, ChunkBody) = Spell(f, ChunkBody) \o Spell(more, ChunkBody)
  BY ChunkWords DEF Spelled
<1>5. Chu!Body(Chu!Join(<<>>, sep)) = <<>>
  BY JoinNone, EmptyTokens DEF Gap
<1>6. Spell(f \o more, ChunkBody) \o <<>> = Spell(f \o more, ChunkBody)
  BY <1>2, ChunkWords, ConcatEmptySeq DEF Spelled
<1> QED BY <1>0, <1>1, <1>3, <1>4, <1>5, <1>6 DEF Collected

LEMMA CollectStart ==
  ASSUME NEW path \in Path, NEW sep \in Gap, NEW s \in Collecting(path, sep), NEW unit \in Tokens,
         Chu!Fits(path, unit)
  PROVE  /\ Start(s, path, sep, unit) \in Collecting(path, sep)
         /\ Collected(Start(s, path, sep, unit), sep) = Collected(s, sep) \o Chu!Body(unit)
<1>0. PICK r : r = Start(s, path, sep, unit)
  OBVIOUS
<1>1. PICK f \in Seq(Chunk) : f = Flushed(s, path, sep) /\ Spell(f, ChunkBody) = Collected(s, sep)
  BY FlushedIs
<1>2. <<unit>> \in Seq(Tokens)
  OBVIOUS
<1>3. Chu!Join(<<unit>>, sep) = unit
  <2>1. <<>> \in Seq(Tokens) /\ Append(<<>>, unit) = <<unit>> /\ sep \in Tokens
    BY EmptySeq DEF Gap
  <2>2. Chu!Join(Append(<<>>, unit), sep) = Joined(Chu!Join(<<>>, sep), unit, sep)
    BY <2>1, JoinMore
  <2>3. Chu!Join(<<>>, sep) = <<>>
    BY <2>1, JoinNone
  <2> QED BY <2>1, <2>2, <2>3 DEF Joined
<1>4. r \in Collecting(path, sep) /\ r.chunks = f /\ r.current = <<unit>>
  BY <1>0, <1>1, <1>2, <1>3 DEF Collecting, Start
<1> QED BY <1>0, <1>1, <1>3, <1>4 DEF Collected

(* What fits together fits alone.                                          *)
LEMMA FitsAlone ==
  ASSUME NEW path \in Path, NEW sep \in Gap, NEW current \in Seq(Tokens), NEW unit \in Tokens,
         Chu!Fits(path, Chu!Join(Append(current, unit), sep))
  PROVE  Chu!Fits(path, unit)
<1>1. PICK v \in Tokens : v = Chu!Join(current, sep)
  BY JoinType DEF Gap
<1>2. PICK w : w = Chu!Join(Append(current, unit), sep)
  OBVIOUS
<1>3. w = Joined(v, unit, sep)
  BY <1>1, <1>2, JoinMore DEF Gap
<1>4. w \in Tokens /\ Len(w) >= Len(unit)
  <2>1. CASE v = <<>>
    BY <1>3, <2>1 DEF Joined, Tokens
  <2>2. CASE v # <<>>
    <3>1. PICK x \in Seq(Token) : x = v \o sep
      BY ConcatProperties DEF Tokens, Gap
    <3>2. w = x \o unit
      BY <1>3, <2>2, <3>1 DEF Joined
    <3>3. Len(w) = Len(x) + Len(unit) /\ Len(x) \in Nat /\ Len(unit) \in Nat /\ w \in Seq(Token)
      BY <3>2, ConcatProperties DEF Tokens
    <3> QED BY <3>3 DEF Tokens
  <2> QED BY <2>1, <2>2
<1>5. PICK q \in Tokens : q = Chu!Prefix(path) \o <<Chu!Sep>>
  BY PrefixTokens, SepTokens, ConcatProperties DEF Path, Tokens
<1>6. Len(Chu!Content(path, w)) = Len(q) + Len(w) /\ Len(Chu!Content(path, unit)) = Len(q) + Len(unit)
  BY <1>4, <1>5, ConcatProperties DEF Chu!Content, Tokens
<1>7. Len(q) \in Nat /\ Len(w) \in Nat /\ Len(unit) \in Nat /\ MaxChild \in Nat
  BY <1>4, ChunkingAssumption DEF Tokens
<1> QED BY <1>2, <1>4, <1>6, <1>7 DEF Chu!Fits

-----------------------------------------------------------------------------
(* The lines that are not blank.                                           *)
Ink == {l \in Line : l.kind # "blank"}
UnitBody == [l \in Ink |-> Chu!Body(Chu!LineTokens(l))]

LEMMA NotBlankIsInk ==
  ASSUME NEW lines \in Seq(Line)
  PROVE  Chu!NotBlank(lines) \in Seq(Ink)
<1>1. PICK T : T = {s \in Seq(Line) : Chu!NotBlank(s) \in Seq(Ink)}
  OBVIOUS
<1>2. <<>> \in T
  <2>1. Chu!NotBlank(<<>>) = <<>>
    BY PickedNone DEF Chu!NotBlank
  <2> QED BY <1>1, <2>1, EmptySeq
<1>3. ASSUME NEW s \in Seq(Line), NEW l \in Line, s \in T PROVE Append(s, l) \in T
  <2>1. PICK r \in Seq(Ink) : r = Chu!NotBlank(s)
    BY <1>1, <1>3
  <2>2. Append(s, l) \in Seq(Line)
    BY AppendProperties
  <2>3. CASE l.kind = "blank"
    <3>1. Chu!NotBlank(Append(s, l)) = r
      BY <2>1, <2>3, NotBlankMore
    <3> QED BY <1>1, <2>2, <3>1
  <2>4. CASE l.kind # "blank"
    <3>1. Chu!NotBlank(Append(s, l)) = Append(r, l)
      BY <2>1, <2>4, NotBlankMore
    <3>2. l \in Ink
      BY <2>4 DEF Ink
    <3>3. Append(r, l) \in Seq(Ink)
      BY <3>2, AppendProperties
    <3> QED BY <1>1, <2>2, <3>1, <3>3
  <2> QED BY <2>3, <2>4
<1>4. \A s \in Seq(Line) : s \in T
  BY <1>2, <1>3, BySequence
<1> QED BY <1>1, <1>4

LEMMA UnitsAre ==
  ASSUME NEW lines \in Seq(Line)
  PROVE  /\ Chu!NotBlank(lines) \in Seq(Ink) /\ UnitBody \in [Ink -> Seq(Token)]
         /\ Spell(Chu!NotBlank(lines), UnitBody) = TextBody[lines]
<1>1. UnitBody \in [Ink -> Seq(Token)]
  BY LineTokensType, BodyType DEF UnitBody, Ink, Tokens
<1>2. PICK b \in Seq(Ink) : b = Chu!NotBlank(lines)
  BY NotBlankIsInk
<1>3. b \in Seq(Line)
  BY <1>2, NotBlankType
<1>4. \A l \in Ink : UnitBody[l] = LineBody[l]
  BY DEF UnitBody, LineBody, Ink
<1>5. Spell(b, UnitBody) = Spell(b, LineBody)
  BY <1>4, SpellSameWords
<1>6. TextBody[b] = Spell(b, LineBody)
  BY <1>3, TextSpells, SpellsAsSpell
<1>7. TextBody[b] = TextBody[lines]
  BY <1>2, NotBlankBody
<1> QED BY <1>1, <1>2, <1>5, <1>6, <1>7

-----------------------------------------------------------------------------
(* A block that is cut between its lines.                                  *)
GapOf(block) == IF block.type \in {"table", "list", "code"} THEN <<Chu!Sep>> ELSE <<>>
NoneCollected == [chunks |-> <<>>, current |-> <<>>]
AddLine(path, sep, s, l) ==
  LET unit == Chu!LineTokens(l)
      flushed == s.chunks \o Chu!RawChunk(path, s.current, sep)
  IN CASE Chu!Fits(path, Chu!Join(Append(s.current, unit), sep)) -> [s EXCEPT !.current = Append(@, unit)]
       [] ~Chu!Fits(path, unit) -> [chunks |-> flushed \o Chu!ForceSplit(path, unit), current |-> <<>>]
       [] OTHER -> [chunks |-> flushed, current |-> <<unit>>]

LEMMA GapIs == ASSUME NEW block PROVE GapOf(block) \in Gap
<1>1. <<Chu!Sep>> \in Gap /\ <<>> \in Gap
  BY SepTokens, EmptyTokens DEF Gap
<1> QED BY <1>1 DEF GapOf

LEMMA NoneCollectedIs ==
  ASSUME NEW path \in Path, NEW sep \in Gap
  PROVE  NoneCollected \in Collecting(path, sep) /\ Collected(NoneCollected, sep) = <<>>
<1>1. Chu!Join(<<>>, sep) = <<>>
  BY JoinNone DEF Gap
<1>2. Spell(<<>>, ChunkBody) = <<>>
  BY ChunkWords DEF Spelled
<1>3. <<>> \o <<>> = <<>>
  OBVIOUS
<1> QED BY <1>1, <1>2, <1>3, EmptySeq, EmptyTokens DEF NoneCollected, Collecting, Collected

LEMMA AddLineIs ==
  ASSUME NEW path \in Path, NEW sep \in Gap, NEW s \in Collecting(path, sep), NEW l \in Ink
  PROVE  /\ AddLine(path, sep, s, l) \in Collecting(path, sep)
         /\ Collected(AddLine(path, sep, s, l), sep) = Collected(s, sep) \o UnitBody[l]
<1>1. PICK unit \in Tokens : unit = Chu!LineTokens(l) /\ UnitBody[l] = Chu!Body(unit)
  BY LineTokensType DEF Ink, UnitBody
<1>2. PICK r, f : r = AddLine(path, sep, s, l) /\ f = Flushed(s, path, sep)
  OBVIOUS
<1>3. s = [chunks |-> s.chunks, current |-> s.current]
  BY DEF Collecting
<1>4. CASE Chu!Fits(path, Chu!Join(Append(s.current, unit), sep))
  <2>0. Chu!Fits(path, unit)
    BY <1>4, CollectedType, FitsAlone
  <2>1. r = [s EXCEPT !.current = Append(s.current, unit)]
    BY <1>1, <1>2, <1>4, <2>0 DEF AddLine
  <2>2. r = More(s, unit)
    BY <1>3, <2>1 DEF More
  <2>3. More(s, unit) \in Collecting(path, sep) /\ Collected(More(s, unit), sep) = Collected(s, sep) \o Chu!Body(unit)
    BY <1>4, CollectMore
  <2> QED BY <1>1, <1>2, <2>2, <2>3
<1>5. CASE ~Chu!Fits(path, Chu!Join(Append(s.current, unit), sep)) /\ ~Chu!Fits(path, unit)
  <2>1. PICK more \in Seq(Chunk) : more = Chu!ForceSplit(path, unit) /\ Spell(more, ChunkBody) = Chu!Body(unit)
    BY ForceSplitIs
  <2>2. r = Cut(s, path, sep, more)
    BY <1>1, <1>2, <1>5, <2>1 DEF AddLine, Flushed, Cut
  <2>3. /\ Cut(s, path, sep, more) \in Collecting(path, sep)
        /\ Collected(Cut(s, path, sep, more), sep) = Collected(s, sep) \o Spell(more, ChunkBody)
    BY CollectCut
  <2> QED BY <1>1, <1>2, <2>1, <2>2, <2>3
<1>6. CASE ~Chu!Fits(path, Chu!Join(Append(s.current, unit), sep)) /\ Chu!Fits(path, unit)
  <2>1. r = Start(s, path, sep, unit)
    BY <1>1, <1>2, <1>6 DEF AddLine, Flushed, Start
  <2> QED BY <1>1, <1>2, <1>6, <2>1, CollectStart
<1> QED BY <1>4, <1>5, <1>6

IsAddingLines(f, n, path, sep, all) ==
  f = [k \in 0 .. n |-> IF k = 0 THEN NoneCollected ELSE AddLine(path, sep, f[k - 1], all[k])]

LEMMA AddingLinesAt ==
  ASSUME NEW f, NEW n \in Nat, NEW path, NEW sep, NEW all, IsAddingLines(f, n, path, sep, all)
  PROVE  f[0] = NoneCollected /\ \A k \in 1 .. n : f[k] = AddLine(path, sep, f[k - 1], all[k])
<1>1. PICK h : h = [k \in 0 .. n |-> IF k = 0 THEN NoneCollected ELSE AddLine(path, sep, f[k - 1], all[k])]
  OBVIOUS
<1>2. f = h
  BY <1>1 DEF IsAddingLines
<1>3. h[0] = NoneCollected
  BY <1>1
<1>4. ASSUME NEW k \in 1 .. n PROVE h[k] = AddLine(path, sep, f[k - 1], all[k])
  <2>1. k \in 0 .. n /\ k # 0
    OBVIOUS
  <2> QED BY <1>1, <2>1
<1> QED BY <1>2, <1>3, <1>4

LinesIn(path, sep, all) ==
  LET end == (CHOOSE f : IsAddingLines(f, Len(all), path, sep, all))[Len(all)]
  IN  end.chunks \o Chu!RawChunk(path, end.current, sep)

(* A block that is too long loses nothing.                                 *)
LEMMA SplitIs ==
  ASSUME NEW path \in Path, NEW block \in Part
  PROVE  /\ Chu!SplitOversizedBlock(path, block) \in Seq(Chunk)
         /\ Spell(Chu!SplitOversizedBlock(path, block), ChunkBody) = PartText[block]
<1>1. PICK all \in Seq(Ink) :
        /\ all = Chu!NotBlank(block.lines) /\ UnitBody \in [Ink -> Seq(Token)]
        /\ Spell(all, UnitBody) = PartText[block]
  BY UnitsAre DEF Part, PartText
<1>22. PICK n \in Nat : n = Len(all)
  OBVIOUS
<1>23. PICK sep \in Gap : sep = GapOf(block)
  BY GapIs
<1>24. PICK a : a = NoneCollected
  OBVIOUS
<1>2. n = Len(all) /\ a = NoneCollected /\ sep = GapOf(block)
  BY <1>22, <1>23, <1>24
<1>3. PICK S : S = Collecting(path, sep)
  OBVIOUS
<1>4. a \in S /\ Collected(a, sep) = <<>>
  BY <1>2, <1>3, NoneCollectedIs
<1>5. PICK on : on = [p \in S \X Ink |-> AddLine(path, sep, p[1], p[2])]
  OBVIOUS
<1>6. \A v \in S : \A l \in Ink : on[<<v, l>>] = AddLine(path, sep, v, l)
  BY <1>5
<1>7. IsRead(on, S, Ink)
  BY <1>3, <1>5, AddLineIs DEF IsRead
<1>8. \A k \in 1 .. n : all[k] \in Ink
  BY <1>2
<1>9. PICK g : Run(g, n, S, a, all, on)
  BY <1>2, <1>4, <1>7, RunExists DEF Runs
<1>10. IsAddingLines(g, n, path, sep, all)
  <2>1. ASSUME NEW k \in 0 .. n
        PROVE  g[k] = IF k = 0 THEN NoneCollected ELSE AddLine(path, sep, g[k - 1], all[k])
    <3>1. CASE k = 0
      BY <1>2, <1>9, <3>1 DEF Run
    <3>2. CASE k # 0
      <4>1. k \in 1 .. n /\ k - 1 \in 0 .. n /\ g[k - 1] \in S
        BY <1>9, <3>2 DEF Run
      <4> QED BY <1>6, <1>8, <1>9, <3>2, <4>1 DEF Run
    <3> QED BY <3>1, <3>2
  <2> QED BY <1>9, <2>1 DEF IsAddingLines, Run
<1>11. PICK f : f = CHOOSE h : IsAddingLines(h, n, path, sep, all)
  OBVIOUS
<1>12. IsAddingLines(f, n, path, sep, all)
  BY <1>10, <1>11
<1>13. PICK end, r : end = f[n] /\ r = Flushed(end, path, sep)
  OBVIOUS
<1>14. Chu!SplitOversizedBlock(path, block) = r
  <2>1. Chu!SplitOversizedBlock(path, block) = LinesIn(path, GapOf(block), Chu!NotBlank(block.lines))
    BY DEF Chu!SplitOversizedBlock, LinesIn, IsAddingLines, AddLine, NoneCollected, GapOf
  <2>2. LinesIn(path, sep, all) = r
    BY <1>2, <1>11, <1>13 DEF LinesIn, Flushed
  <2> QED BY <1>1, <1>2, <2>1, <2>2
<1>15. f[0] = a /\ \A k \in 1 .. n : f[k] = AddLine(path, sep, f[k - 1], all[k])
  BY <1>2, <1>12, AddingLinesAt
<1>16. Within(f, n, S)
  <2>1. RunsOn(f, n, S, a, all, on)
    BY <1>6, <1>8, <1>15 DEF RunsOn
  <2> QED BY <1>2, <1>4, <1>7, <2>1, RunStays
<1>17. PICK v : v = [k \in 0 .. n |-> Collected(f[k], sep)]
  OBVIOUS
<1>18. Grows(v, n, all, UnitBody)
  <2>1. v[0] = <<>>
    BY <1>4, <1>15, <1>17
  <2>2. ASSUME NEW k \in 1 .. n PROVE v[k] = v[k - 1] \o UnitBody[all[k]]
    <3>1. k - 1 \in 0 .. n /\ k \in 0 .. n /\ f[k - 1] \in S
      BY <1>16 DEF Within
    <3>2. v[k] = Collected(f[k], sep) /\ v[k - 1] = Collected(f[k - 1], sep)
      BY <1>17, <3>1
    <3>3. Collected(AddLine(path, sep, f[k - 1], all[k]), sep) = Collected(f[k - 1], sep) \o UnitBody[all[k]]
      BY <1>3, <1>8, <3>1, AddLineIs
    <3> QED BY <1>15, <3>2, <3>3
  <2> QED BY <2>1, <2>2 DEF Grows
<1>19. v[n] = Spell(all, UnitBody)
  BY <1>1, <1>2, <1>18, GrowsToSpell
<1>20. end \in S /\ v[n] = Collected(end, sep)
  BY <1>13, <1>16, <1>17 DEF Within
<1>21. r \in Seq(Chunk) /\ Spell(r, ChunkBody) = Collected(end, sep)
  BY <1>3, <1>13, <1>20, FlushedIs
<1> QED BY <1>1, <1>14, <1>19, <1>20, <1>21

-----------------------------------------------------------------------------
(* The chunks of a section.                                                *)
AddBlock(path, s, b) ==
  LET text == Chu!Text(b.lines)
      size == Len(Chu!Content(path, Chu!Join(Append(s.current, text), <<Chu!Sep>>)))
      flushed == s.chunks \o Chu!RawChunk(path, s.current, <<Chu!Sep>>)
  IN CASE size <= MaxChild /\ (size <= SoftChild \/ s.current = <<>>) -> [s EXCEPT !.current = Append(@, text)]
       [] ~Chu!Fits(path, text) ->
            [chunks |-> flushed \o Chu!SplitOversizedBlock(path, b), current |-> <<>>]
       [] OTHER -> [chunks |-> flushed, current |-> <<text>>]

LEMMA AddBlockIs ==
  ASSUME NEW path \in Path, NEW sep, sep = <<Chu!Sep>>, NEW s \in Collecting(path, sep), NEW b \in Part
  PROVE  /\ AddBlock(path, s, b) \in Collecting(path, sep)
         /\ Collected(AddBlock(path, s, b), sep) = Collected(s, sep) \o PartText[b]
<1>1. PICK unit \in Tokens : unit = Chu!Text(b.lines) /\ PartText[b] = Chu!Body(unit)
  BY TextType DEF Part, PartText, TextBody
<1>2. PICK r, f, joined : r = AddBlock(path, s, b) /\ f = Flushed(s, path, sep)
                           /\ joined = Chu!Join(Append(s.current, unit), sep)
  OBVIOUS
<1>3. s = [chunks |-> s.chunks, current |-> s.current]
  BY DEF Collecting
<1>4. sep \in Gap
  BY SepTokens DEF Gap
<1>5. PICK fits : fits = (Len(Chu!Content(path, joined)) <= MaxChild
                           /\ (Len(Chu!Content(path, joined)) <= SoftChild \/ s.current = <<>>))
  OBVIOUS
<1>6. r = CASE fits -> [s EXCEPT !.current = Append(@, unit)]
            [] ~Chu!Fits(path, unit) ->
                 [chunks |-> f \o Chu!SplitOversizedBlock(path, b), current |-> <<>>]
            [] OTHER -> [chunks |-> f, current |-> <<unit>>]
  BY <1>1, <1>2, <1>5 DEF AddBlock, Flushed
<1>7. CASE fits
  <2>3. Chu!Fits(path, joined)
    BY <1>5, <1>7 DEF Chu!Fits
  <2>4. Chu!Fits(path, unit)
    BY <1>2, <1>4, <2>3, CollectedType, FitsAlone
  <2>1. r = [s EXCEPT !.current = Append(s.current, unit)]
    BY <1>6, <1>7, <2>4
  <2>2. r = More(s, unit)
    BY <1>3, <2>1 DEF More
  <2>5. More(s, unit) \in Collecting(path, sep) /\ Collected(More(s, unit), sep) = Collected(s, sep) \o Chu!Body(unit)
    BY <1>2, <1>4, <2>3, CollectMore
  <2> QED BY <1>1, <1>2, <2>2, <2>5
<1>8. CASE ~fits /\ ~Chu!Fits(path, unit)
  <2>1. PICK more \in Seq(Chunk) : more = Chu!SplitOversizedBlock(path, b) /\ Spell(more, ChunkBody) = PartText[b]
    BY SplitIs
  <2>2. r = Cut(s, path, sep, more)
    BY <1>2, <1>6, <1>8, <2>1 DEF Cut
  <2>3. /\ Cut(s, path, sep, more) \in Collecting(path, sep)
        /\ Collected(Cut(s, path, sep, more), sep) = Collected(s, sep) \o Spell(more, ChunkBody)
    BY <1>4, CollectCut
  <2> QED BY <1>1, <1>2, <2>1, <2>2, <2>3
<1>9. CASE ~fits /\ Chu!Fits(path, unit)
  <2>1. r = Start(s, path, sep, unit)
    BY <1>2, <1>6, <1>9 DEF Start
  <2>2. /\ Start(s, path, sep, unit) \in Collecting(path, sep)
        /\ Collected(Start(s, path, sep, unit), sep) = Collected(s, sep) \o Chu!Body(unit)
    BY <1>4, <1>9, CollectStart
  <2> QED BY <1>1, <1>2, <2>1, <2>2
<1> QED BY <1>7, <1>8, <1>9

IsAddingBlocks(f, n, path, all) ==
  f = [k \in 0 .. n |-> IF k = 0 THEN NoneCollected ELSE AddBlock(path, f[k - 1], all[k])]

LEMMA AddingBlocksAt ==
  ASSUME NEW f, NEW n \in Nat, NEW path, NEW all, IsAddingBlocks(f, n, path, all)
  PROVE  f[0] = NoneCollected /\ \A k \in 1 .. n : f[k] = AddBlock(path, f[k - 1], all[k])
<1>1. PICK h : h = [k \in 0 .. n |-> IF k = 0 THEN NoneCollected ELSE AddBlock(path, f[k - 1], all[k])]
  OBVIOUS
<1>2. f = h
  BY <1>1 DEF IsAddingBlocks
<1>3. h[0] = NoneCollected
  BY <1>1
<1>4. ASSUME NEW k \in 1 .. n PROVE h[k] = AddBlock(path, f[k - 1], all[k])
  <2>1. k \in 0 .. n /\ k # 0
    OBVIOUS
  <2> QED BY <1>1, <2>1
<1> QED BY <1>2, <1>3, <1>4

BlocksIn(path, all) ==
  LET end == (CHOOSE f : IsAddingBlocks(f, Len(all), path, all))[Len(all)]
  IN  end.chunks \o Chu!RawChunk(path, end.current, <<Chu!Sep>>)

(* The chunks of a section hold its text.                                  *)
LEMMA ChunkSectionIs ==
  ASSUME NEW section \in Section
  PROVE  /\ Chu!ChunkSection(section) \in Seq(Chunk)
         /\ Spell(Chu!ChunkSection(section), ChunkBody) = SectionText[section]
<1>1. PICK path \in Path, all \in Seq(Part) : path = section.path /\ all = section.blocks
  BY DEF Section
<1>22. PICK n \in Nat : n = Len(all)
  OBVIOUS
<1>23. PICK a, sep : a = NoneCollected /\ sep = <<Chu!Sep>>
  OBVIOUS
<1>2. n = Len(all) /\ a = NoneCollected /\ sep = <<Chu!Sep>>
  BY <1>22, <1>23
<1>3. PICK S : S = Collecting(path, sep)
  OBVIOUS
<1>4. a \in S /\ Collected(a, sep) = <<>> /\ sep \in Gap
  BY <1>2, <1>3, NoneCollectedIs, SepTokens DEF Gap
<1>5. PICK on : on = [p \in S \X Part |-> AddBlock(path, p[1], p[2])]
  OBVIOUS
<1>6. \A v \in S : \A b \in Part : on[<<v, b>>] = AddBlock(path, v, b)
  BY <1>5
<1>7. IsRead(on, S, Part)
  BY <1>2, <1>3, <1>5, AddBlockIs DEF IsRead
<1>8. \A k \in 1 .. n : all[k] \in Part
  BY <1>2
<1>9. PICK g : Run(g, n, S, a, all, on)
  BY <1>2, <1>4, <1>7, RunExists DEF Runs
<1>10. IsAddingBlocks(g, n, path, all)
  <2>1. ASSUME NEW k \in 0 .. n
        PROVE  g[k] = IF k = 0 THEN NoneCollected ELSE AddBlock(path, g[k - 1], all[k])
    <3>1. CASE k = 0
      BY <1>2, <1>9, <3>1 DEF Run
    <3>2. CASE k # 0
      <4>1. k \in 1 .. n /\ k - 1 \in 0 .. n /\ g[k - 1] \in S
        BY <1>9, <3>2 DEF Run
      <4> QED BY <1>6, <1>8, <1>9, <3>2, <4>1 DEF Run
    <3> QED BY <3>1, <3>2
  <2> QED BY <1>9, <2>1 DEF IsAddingBlocks, Run
<1>11. PICK f : f = CHOOSE h : IsAddingBlocks(h, n, path, all)
  OBVIOUS
<1>12. IsAddingBlocks(f, n, path, all)
  BY <1>10, <1>11
<1>13. PICK end, r : end = f[n] /\ r = Flushed(end, path, sep)
  OBVIOUS
<1>14. Chu!ChunkSection(section) = r
  <2>1. Chu!ChunkSection(section) = BlocksIn(section.path, section.blocks)
    BY DEF Chu!ChunkSection, BlocksIn, IsAddingBlocks, AddBlock, NoneCollected
  <2>2. BlocksIn(path, all) = r
    BY <1>2, <1>11, <1>13 DEF BlocksIn, Flushed
  <2> QED BY <1>1, <2>1, <2>2
<1>15. f[0] = a /\ \A k \in 1 .. n : f[k] = AddBlock(path, f[k - 1], all[k])
  BY <1>2, <1>12, AddingBlocksAt
<1>16. Within(f, n, S)
  <2>1. RunsOn(f, n, S, a, all, on)
    BY <1>6, <1>8, <1>15 DEF RunsOn
  <2> QED BY <1>2, <1>4, <1>7, <2>1, RunStays
<1>17. PICK v : v = [k \in 0 .. n |-> Collected(f[k], sep)]
  OBVIOUS
<1>18. Grows(v, n, all, PartText)
  <2>1. v[0] = <<>>
    BY <1>4, <1>15, <1>17
  <2>2. ASSUME NEW k \in 1 .. n PROVE v[k] = v[k - 1] \o PartText[all[k]]
    <3>1. k - 1 \in 0 .. n /\ k \in 0 .. n /\ f[k - 1] \in S
      BY <1>16 DEF Within
    <3>2. v[k] = Collected(f[k], sep) /\ v[k - 1] = Collected(f[k - 1], sep)
      BY <1>17, <3>1
    <3>3. Collected(AddBlock(path, f[k - 1], all[k]), sep) = Collected(f[k - 1], sep) \o PartText[all[k]]
      BY <1>2, <1>3, <1>8, <3>1, AddBlockIs
    <3> QED BY <1>15, <3>2, <3>3
  <2> QED BY <2>1, <2>2 DEF Grows
<1>19. v[n] = Spell(all, PartText)
  BY <1>2, <1>18, PartWords, GrowsToSpell
<1>20. end \in S /\ v[n] = Collected(end, sep)
  BY <1>13, <1>16, <1>17 DEF Within
<1>21. r \in Seq(Chunk) /\ Spell(r, ChunkBody) = Collected(end, sep)
  BY <1>3, <1>4, <1>13, <1>20, FlushedIs
<1> QED BY <1>1, <1>14, <1>19, <1>20, <1>21 DEF SectionText

-----------------------------------------------------------------------------
(* Tiny chunks join the chunk before them.                                 *)
Merge(merged, c) ==
  IF /\ merged # <<>> /\ Len(c.text) < Tiny /\ c.path = Chu!Last(merged).path
     /\ Len(Chu!Last(merged).text) + Len(c.text) <= MaxChild
  THEN Append(Chu!Front(merged), [path |-> c.path, text |-> Chu!Last(merged).text \o <<Chu!Sep>> \o c.text])
  ELSE Append(merged, c)

LEMMA MergeIs ==
  ASSUME NEW merged \in Seq(Chunk), NEW c \in Chunk
  PROVE  /\ Merge(merged, c) \in Seq(Chunk)
         /\ Spell(Merge(merged, c), ChunkBody) = Spell(merged, ChunkBody) \o ChunkBody[c]
<1>1. CASE Merge(merged, c) = Append(merged, c)
  BY <1>1, AppendProperties, ChunkWords DEF Spelled
<1>2. CASE Merge(merged, c) # Append(merged, c)
  <2>1. merged # <<>>
    BY <1>2 DEF Merge
  <2>2. PICK r \in Seq(Chunk), x \in Chunk : merged = Append(r, x)
    BY <2>1, SequenceEmptyOrAppend
  <2>3. Chu!Last(merged) = x /\ Chu!Front(merged) = r
    <3>1. PICK n \in Nat : n = Len(r)
      OBVIOUS
    <3>2. Len(merged) = n + 1 /\ merged[n + 1] = x /\ \A k \in 1 .. n : merged[k] = r[k]
      BY <2>2, <3>1, AppendProperties
    <3>3. Chu!Last(merged) = x
      BY <3>2 DEF Chu!Last
    <3>4. PICK f : f = SubSeq(merged, 1, n)
      OBVIOUS
    <3>5. f \in Seq(Chunk) /\ Len(f) = n /\ \A k \in 1 .. n : f[k] = merged[k]
      BY <3>2, <3>4
    <3>6. f = r
      BY <3>1, <3>2, <3>5, SeqEqual
    <3>7. Chu!Front(merged) = SubSeq(merged, 1, n)
      BY <3>2 DEF Chu!Front
    <3> QED BY <3>3, <3>4, <3>6, <3>7
  <2>4. PICK a \in Marks, b \in Marks, s \in Marks :
          a = x.text /\ b = c.text /\ s = <<Chu!Sep>> /\ Len(s) = 1
          /\ Chu!Repaired(s) = s /\ s \in Tokens /\ Chu!Body(s) = <<>>
    BY SepTokens, RepairedWhole DEF Chunk
  <2>5. PICK y : y = [path |-> c.path, text |-> (a \o s) \o b]
    OBVIOUS
  <2>6. Merge(merged, c) = Append(r, y)
    BY <1>2, <2>3, <2>4, <2>5 DEF Merge
  <2>7. PICK ra \in Tokens, rb \in Tokens : ra = Chu!Repaired(a) /\ rb = Chu!Repaired(b)
    BY RepairedIs
  <2>8. (a \o s) \o b \in Marks /\ a \o s \in Marks /\ Chu!Repaired((a \o s) \o b) = (ra \o s) \o rb
    <3>1. PICK as \in Marks : as = a \o s /\ Chu!Repaired(as) = ra \o s
      <4>1. a \o s \in Marks /\ Chu!Repaired(a \o s) = Chu!Repaired(a) \o Chu!Repaired(s)
        BY RepairedBoth
      <4>2. Chu!Repaired(a) = ra /\ Chu!Repaired(s) = s
        BY <2>4, <2>7
      <4> QED BY <4>1, <4>2
    <3>2. as \o b \in Marks /\ Chu!Repaired(as \o b) = Chu!Repaired(as) \o Chu!Repaired(b)
      BY RepairedBoth
    <3> QED BY <2>7, <3>1, <3>2
  <2>9. y \in Chunk
    <3>1. Len(a) + Len(b) <= MaxChild
      BY <1>2, <2>3, <2>4 DEF Merge
    <3>2. Len(a \o s) = Len(a) + 1
      BY <2>4, ConcatProperties DEF Marks
    <3>3. Len((a \o s) \o b) = Len(a \o s) + Len(b)
      BY <2>8, ConcatProperties DEF Marks
    <3>4. Len(a) \in Nat /\ Len(b) \in Nat /\ MaxChild \in Nat
      BY ChunkingAssumption DEF Marks
    <3>5. Short((a \o s) \o b)
      BY <3>1, <3>2, <3>3, <3>4, ParentsAssumption DEF Short
    <3>6. c.path \in Path
      BY DEF Chunk
    <3> QED BY <2>5, <2>8, <3>5, <3>6 DEF Chunk
  <2>10. PICK p \in Seq(Token), q \in Seq(Token), z \in Seq(Token) :
           p = Spell(r, ChunkBody) /\ q = ChunkBody[x] /\ z = ChunkBody[c]
    BY ChunkWords DEF Spelled
  <2>11. q = Chu!Body(ra) /\ z = Chu!Body(rb)
    BY <2>4, <2>7, <2>10 DEF ChunkBody
  <2>12. ChunkBody[y] = q \o z
    <3>1. ChunkBody[y] = Chu!Body((ra \o s) \o rb)
      BY <2>5, <2>8, <2>9 DEF ChunkBody
    <3>2. ra \o s \in Tokens /\ Chu!Body(ra \o s) = q \o <<>>
      <4>1. s \in Tokens /\ Chu!Body(s) = <<>> /\ Chu!Body(ra) = q
        BY <2>4, <2>11
      <4>2. ra \o s \in Tokens /\ Chu!Body(ra \o s) = Chu!Body(ra) \o Chu!Body(s)
        BY <4>1, BodyBoth
      <4> QED BY <4>1, <4>2
    <3>3. Chu!Body((ra \o s) \o rb) = Chu!Body(ra \o s) \o z
      BY <2>11, <3>2, BodyBoth
    <3>4. q \o <<>> = q
      BY ConcatEmptySeq
    <3> QED BY <3>1, <3>2, <3>3, <3>4
  <2>13. Spell(merged, ChunkBody) = p \o q
    BY <2>2, <2>10, ChunkWords DEF Spelled
  <2>14. Spell(Append(r, y), ChunkBody) = p \o (q \o z)
    BY <2>9, <2>10, <2>12, ChunkWords DEF Spelled
  <2>15. Regroups(p, q, z)
    BY Regrouping
  <2>16. Append(r, y) \in Seq(Chunk)
    BY <2>9, AppendProperties
  <2> QED BY <2>6, <2>10, <2>13, <2>14, <2>15, <2>16 DEF Regroups
<1> QED BY <1>1, <1>2

IsMerging(f, n, all) == f = [k \in 0 .. n |-> IF k = 0 THEN <<>> ELSE Merge(f[k - 1], all[k])]

LEMMA MergingAt ==
  ASSUME NEW f, NEW n \in Nat, NEW all, IsMerging(f, n, all)
  PROVE  f[0] = <<>> /\ \A k \in 1 .. n : f[k] = Merge(f[k - 1], all[k])
<1>1. PICK h : h = [k \in 0 .. n |-> IF k = 0 THEN <<>> ELSE Merge(f[k - 1], all[k])]
  OBVIOUS
<1>2. f = h
  BY <1>1 DEF IsMerging
<1>3. h[0] = <<>>
  BY <1>1
<1>4. ASSUME NEW k \in 1 .. n PROVE h[k] = Merge(f[k - 1], all[k])
  <2>1. k \in 0 .. n /\ k # 0
    OBVIOUS
  <2> QED BY <1>1, <2>1
<1> QED BY <1>2, <1>3, <1>4

LEMMA MergedKeep ==
  ASSUME NEW all \in Seq(Chunk)
  PROVE  /\ Chu!MergeTinyChunks(all) \in Seq(Chunk)
         /\ Spell(Chu!MergeTinyChunks(all), ChunkBody) = Spell(all, ChunkBody)
<1>1. PICK n \in Nat : n = Len(all)
  OBVIOUS
<1>2. PICK S, a : S = Seq(Chunk) /\ a = <<>>
  OBVIOUS
<1>3. a \in S /\ Spell(a, ChunkBody) = <<>>
  BY <1>2, EmptySeq, ChunkWords DEF Spelled
<1>4. PICK on : on = [p \in S \X Chunk |-> Merge(p[1], p[2])]
  OBVIOUS
<1>5. \A v \in S : \A c \in Chunk : on[<<v, c>>] = Merge(v, c)
  BY <1>4
<1>6. IsRead(on, S, Chunk)
  BY <1>2, <1>4, MergeIs DEF IsRead
<1>7. \A k \in 1 .. n : all[k] \in Chunk
  BY <1>1
<1>8. PICK g : Run(g, n, S, a, all, on)
  BY <1>1, <1>3, <1>6, RunExists DEF Runs
<1>9. IsMerging(g, n, all)
  <2>1. ASSUME NEW k \in 0 .. n
        PROVE  g[k] = IF k = 0 THEN <<>> ELSE Merge(g[k - 1], all[k])
    <3>1. CASE k = 0
      BY <1>2, <1>8, <3>1 DEF Run
    <3>2. CASE k # 0
      <4>1. k \in 1 .. n /\ k - 1 \in 0 .. n /\ g[k - 1] \in S
        BY <1>8, <3>2 DEF Run
      <4> QED BY <1>5, <1>7, <1>8, <3>2, <4>1 DEF Run
    <3> QED BY <3>1, <3>2
  <2> QED BY <1>8, <2>1 DEF IsMerging, Run
<1>10. PICK f : f = CHOOSE h : IsMerging(h, n, all)
  OBVIOUS
<1>11. IsMerging(f, n, all)
  BY <1>9, <1>10
<1>12. Chu!MergeTinyChunks(all) = f[n]
  BY <1>1, <1>10 DEF Chu!MergeTinyChunks, IsMerging, Merge
<1>13. f[0] = a /\ \A k \in 1 .. n : f[k] = Merge(f[k - 1], all[k])
  BY <1>2, <1>11, MergingAt
<1>14. Within(f, n, S)
  <2>1. RunsOn(f, n, S, a, all, on)
    BY <1>5, <1>7, <1>13 DEF RunsOn
  <2> QED BY <1>1, <1>3, <1>6, <2>1, RunStays
<1>15. PICK v : v = [k \in 0 .. n |-> Spell(f[k], ChunkBody)]
  OBVIOUS
<1>16. Grows(v, n, all, ChunkBody)
  <2>1. v[0] = <<>>
    BY <1>3, <1>13, <1>15
  <2>2. ASSUME NEW k \in 1 .. n PROVE v[k] = v[k - 1] \o ChunkBody[all[k]]
    <3>1. k - 1 \in 0 .. n /\ k \in 0 .. n /\ f[k - 1] \in Seq(Chunk)
      BY <1>2, <1>14 DEF Within
    <3>2. v[k] = Spell(f[k], ChunkBody) /\ v[k - 1] = Spell(f[k - 1], ChunkBody)
      BY <1>15, <3>1
    <3>3. Spell(Merge(f[k - 1], all[k]), ChunkBody) = Spell(f[k - 1], ChunkBody) \o ChunkBody[all[k]]
      BY <1>7, <3>1, MergeIs
    <3> QED BY <1>13, <3>2, <3>3
  <2> QED BY <2>1, <2>2 DEF Grows
<1>17. v[n] = Spell(all, ChunkBody)
  <2>1. ChunkBody \in [Chunk -> Seq(Token)]
    BY ChunkWords
  <2> QED BY <1>1, <1>16, <2>1, GrowsToSpell
<1>18. f[n] \in Seq(Chunk)
  BY <1>2, <1>14 DEF Within
<1>19. v[n] = Spell(f[n], ChunkBody)
  BY <1>15
<1> QED BY <1>12, <1>17, <1>18, <1>19

-----------------------------------------------------------------------------
(* The children of a document hold its text.                               *)
SectionChunks == [s \in Section |-> Chu!ChunkSection(s)]

LEMMA ChildrenKeepText ==
  ASSUME NEW d \in Parsed
  PROVE  /\ Chu!ChildChunks(d) \in Seq(Chunk)
         /\ Spell(Chu!ChildChunks(d), ChunkBody) = Chu!Body(Chu!Text(Chu!BodyLines(d.content)))
<1>1. PICK sections \in Seq(Section) :
        /\ sections = Chu!SectionsOf(d)
        /\ Spell(sections, SectionText) = Chu!Body(Chu!Text(Chu!BodyLines(d.content)))
  BY SectionsKeepText
<1>2. PICK h, w, u, y :
        /\ h = SpellOf(Chunk, ChunkBody) /\ w = SectionChunks
        /\ u = [x \in Section |-> h[SectionChunks[x]]] /\ y = ChunkBody
  OBVIOUS
<1>3. Spells(h, Chunk, Token, y) /\ w \in [Section -> Seq(Chunk)] /\ WordsOf(u, Section, h, w)
  <2>1. y \in [Chunk -> Seq(Token)]
    BY <1>2, ChunkWords
  <2>2. Spells(h, Chunk, Token, y)
    BY <1>2, <2>1, SpellOfSpells
  <2> QED BY <1>2, <2>2, ChunkSectionIs DEF WordsOf, SectionChunks
<1>4. PICK all \in Seq(Chunk) : all = Spell(sections, w) /\ h[all] = Spell(sections, u)
  BY <1>3, SpellOfParts
<1>5. \A x \in Section : u[x] = SectionText[x]
  <2>1. ASSUME NEW x \in Section PROVE u[x] = SectionText[x]
    <3>1. Chu!ChunkSection(x) \in Seq(Chunk) /\ Spell(Chu!ChunkSection(x), ChunkBody) = SectionText[x]
      BY ChunkSectionIs
    <3>2. u[x] = h[Chu!ChunkSection(x)]
      BY <1>2 DEF SectionChunks
    <3> QED BY <1>2, <3>1, <3>2 DEF SpellOf
  <2> QED BY <2>1
<1>6. Spell(sections, u) = Spell(sections, SectionText)
  BY <1>5, SpellSameWords
<1>7. Spell(all, ChunkBody) = Spell(sections, SectionText)
  BY <1>2, <1>4, <1>6 DEF SpellOf
<1>8. Chu!ChildChunks(d) = Chu!MergeTinyChunks(all)
  <2>1. [i \in DOMAIN sections |-> Chu!ChunkSection(sections[i])] = [i \in DOMAIN sections |-> w[sections[i]]]
    BY <1>2 DEF SectionChunks
  <2>2. all = Chu!FlattenSeq([i \in DOMAIN sections |-> Chu!ChunkSection(sections[i])])
    BY <1>4, <2>1 DEF Spell
  <2> QED BY <1>1, <2>2 DEF Chu!ChildChunks
<1> QED BY <1>1, <1>7, <1>8, MergedKeep

-----------------------------------------------------------------------------
(* The tokens of the first n children.                                     *)
IsSumming(f, n, kids) == f = [k \in 0 .. n |-> IF k = 0 THEN 0 ELSE f[k - 1] + Len(kids[k].text)]
Sums(f, n, kids) ==
  f \in [0 .. n -> Nat] /\ f[0] = 0 /\ \A k \in 1 .. n : f[k] = f[k - 1] + Len(kids[k].text)

LEMMA SummingAt ==
  ASSUME NEW f, NEW n \in Nat, NEW kids, IsSumming(f, n, kids)
  PROVE  f[0] = 0 /\ \A k \in 1 .. n : f[k] = f[k - 1] + Len(kids[k].text)
<1>1. PICK h : h = [k \in 0 .. n |-> IF k = 0 THEN 0 ELSE f[k - 1] + Len(kids[k].text)]
  OBVIOUS
<1>2. f = h
  BY <1>1 DEF IsSumming
<1>3. h[0] = 0
  BY <1>1
<1>4. ASSUME NEW k \in 1 .. n PROVE h[k] = f[k - 1] + Len(kids[k].text)
  <2>1. k \in 0 .. n /\ k # 0
    OBVIOUS
  <2> QED BY <1>1, <2>1
<1> QED BY <1>2, <1>3, <1>4

LEMMA KidText ==
  ASSUME NEW c \in Chunk
  PROVE  Len(c.text) \in Nat /\ Len(c.text) + 2 * Overlap <= TargetParent
BY DEF Chunk, Short, Marks

LEMMA SumsAre ==
  ASSUME NEW kids \in Seq(Chunk)
  PROVE  Sums(Chu!TokensUpTo(kids), Len(kids), kids)
<1>1. PICK n \in Nat : n = Len(kids)
  OBVIOUS
<1>2. \A k \in 1 .. n : Len(kids[k].text) \in Nat
  BY <1>1, KidText
<1>3. PICK on : on = [p \in Nat \X (1 .. n) |-> p[1] + Len(kids[p[2]].text)]
  OBVIOUS
<1>4. \A v \in Nat : \A k \in 1 .. n : on[<<v, k>>] = v + Len(kids[k].text)
  BY <1>3
<1>5. IsStep(on, n, Nat)
  BY <1>2, <1>3 DEF IsStep
<1>6. PICK g : Steps(g, n, Nat, 0, on, n)
  BY <1>5, Recursion DEF Reaches
<1>7. IsSumming(g, n, kids)
  <2>1. ASSUME NEW k \in 0 .. n
        PROVE  g[k] = IF k = 0 THEN 0 ELSE g[k - 1] + Len(kids[k].text)
    <3>1. CASE k = 0
      BY <1>6, <3>1 DEF Steps
    <3>2. CASE k # 0
      <4>1. k \in 1 .. n /\ k - 1 \in 0 .. n /\ g[k - 1] \in Nat
        BY <1>6, <3>2 DEF Steps
      <4> QED BY <1>4, <1>6, <3>2, <4>1 DEF Steps
    <3> QED BY <3>1, <3>2
  <2> QED BY <1>6, <2>1 DEF IsSumming, Steps
<1>8. PICK f : f = CHOOSE h : IsSumming(h, n, kids)
  OBVIOUS
<1>9. IsSumming(f, n, kids)
  BY <1>7, <1>8
<1>10. Chu!TokensUpTo(kids) = f
  BY <1>1, <1>8 DEF Chu!TokensUpTo, IsSumming
<1>11. f[0] = 0 /\ \A k \in 1 .. n : f[k] = f[k - 1] + Len(kids[k].text)
  BY <1>9, SummingAt
<1>12. PICK T : T = {k \in 0 .. n : f[k] \in Nat}
  OBVIOUS
<1>13. ASSUME NEW k \in 1 .. n, k - 1 \in T PROVE k \in T
  <2>1. f[k - 1] \in Nat /\ k \in 0 .. n
    BY <1>12, <1>13
  <2> QED BY <1>2, <1>11, <1>12, <2>1
<1>14. 0 \in T
  BY <1>11, <1>12
<1>15. \A k \in 0 .. n : k \in T
  BY <1>13, <1>14, UpTo
<1>16. f \in [0 .. n -> Nat]
  <2>1. f = [k \in 0 .. n |-> f[k]]
    BY <1>9 DEF IsSumming
  <2> QED BY <1>12, <1>15, <2>1
<1> QED BY <1>1, <1>10, <1>11, <1>16 DEF Sums

(* A set of numbers up to a bound has a greatest one.                      *)
LEMMA GreatestNumber ==
  ASSUME NEW n \in Nat, NEW S, S \subseteq 0 .. n, S # {}
  PROVE  \E i \in S : \A j \in S : j <= i
<1>1. PICK R : R = {n - i : i \in S}
  OBVIOUS
<1>2. \A i \in S : i \in 0 .. n /\ n - i \in Nat /\ n - i \in R
  BY <1>1
<1>3. R \subseteq Nat /\ R # {}
  BY <1>1, <1>2
<1>4. PICK r \in R : \A j \in R : r <= j
  BY <1>3, LeastNumber
<1>5. PICK i \in S : r = n - i
  BY <1>1
<1>6. ASSUME NEW j \in S PROVE j <= i
  <2>1. n - i <= n - j
    BY <1>2, <1>4, <1>5
  <2> QED BY <1>2, <2>1
<1> QED BY <1>6

LEMMA MaxOf ==
  ASSUME NEW S, NEW m \in S, S \subseteq Int, \A j \in S : j <= m
  PROVE  Chu!Max(S) = m
<1>1. \A x \in S : (\A y \in S : x >= y) => x = m
  OBVIOUS
<1>2. \A y \in S : m >= y
  OBVIOUS
<1>3. (CHOOSE x \in S : \A y \in S : x >= y) = m
  BY <1>1, <1>2
<1> QED BY <1>3 DEF Chu!Max

LEMMA MinOf ==
  ASSUME NEW S, NEW m \in S, S \subseteq Int, \A j \in S : m <= j
  PROVE  Chu!Min(S) = m
<1>1. \A x \in S : (\A y \in S : x <= y) => x = m
  OBVIOUS
<1>2. (CHOOSE x \in S : \A y \in S : x <= y) = m
  BY <1>1
<1> QED BY <1>2 DEF Chu!Min

-----------------------------------------------------------------------------
(* A group ends where the target is reached, and the next one starts there *)
(* or behind it.                                                           *)
End(kids, i) == Chu!GroupEnd(kids, i)
After(kids, i) == Chu!NextStart(kids, i, Chu!GroupEnd(kids, i))

LEMMA EndIs ==
  ASSUME NEW kids \in Seq(Chunk), NEW i \in 1 .. Len(kids)
  PROVE  /\ End(kids, i) \in i .. Len(kids)
         /\ End(kids, i) = i \/ Chu!Tokens(kids, i, End(kids, i)) <= TargetParent
         /\ \A j \in i .. Len(kids) : Chu!Tokens(kids, i, j) <= TargetParent => j <= End(kids, i)
<1>1. PICK n \in Nat : n = Len(kids)
  OBVIOUS
<1>2. PICK S : S = {i} \cup {j \in i .. n : Chu!Tokens(kids, i, j) <= TargetParent}
  OBVIOUS
<1>3. i \in 1 .. n /\ S \subseteq i .. n /\ S \subseteq 0 .. n /\ i \in S
  BY <1>1, <1>2
<1>4. PICK m \in S : \A j \in S : j <= m
  BY <1>3, GreatestNumber
<1>5. Chu!Max(S) = m
  <2>1. S \subseteq Int
    BY <1>3
  <2> QED BY <1>4, <2>1, MaxOf
<1>6. End(kids, i) = m
  BY <1>1, <1>2, <1>5 DEF End, Chu!GroupEnd
<1>7. m \in i .. n /\ (m = i \/ Chu!Tokens(kids, i, m) <= TargetParent)
  BY <1>2, <1>3
<1>8. \A j \in i .. n : Chu!Tokens(kids, i, j) <= TargetParent => j <= m
  BY <1>2, <1>4
<1> QED BY <1>1, <1>6, <1>7, <1>8

LEMMA AfterIs ==
  ASSUME NEW kids \in Seq(Chunk), NEW i \in 1 .. Len(kids), End(kids, i) # Len(kids)
  PROVE  /\ After(kids, i) \in i + 1 .. Len(kids)
         /\ After(kids, i) \in {End(kids, i), End(kids, i) + 1}
         /\ End(kids, i) + 1 \in After(kids, i) .. End(kids, After(kids, i))
<1>0. PICK n \in Nat : n = Len(kids)
  OBVIOUS
<1>1. PICK e \in i .. n : n = Len(kids) /\ e = End(kids, i)
  BY <1>0, EndIs
<1>2. i \in 1 .. n /\ e \in 1 .. n /\ e < n /\ e + 1 \in 1 .. n
  BY <1>1
<1>3. CASE e > i /\ Len(kids[e].text) <= 2 * Overlap
  <2>1. After(kids, i) = e
    BY <1>1, <1>3 DEF After, End, Chu!NextStart
  <2>2. PICK a \in Nat, b \in Nat :
          /\ a = Len(kids[e].text) /\ b = Len(kids[e + 1].text)
          /\ a <= 2 * Overlap /\ b + 2 * Overlap <= TargetParent
    <3>1. kids[e] \in Chunk /\ kids[e + 1] \in Chunk
      BY <1>1, <1>2
    <3> QED BY <1>3, <3>1, KidText
  <2>3. PICK f : f = Chu!TokensUpTo(kids)
    OBVIOUS
  <2>4. Sums(f, n, kids)
    BY <1>1, <2>3, SumsAre
  <2>5. PICK x \in Nat : x = f[e - 1] /\ f[e] = x + a /\ f[e + 1] = x + a + b
    <3>1. f[e - 1] \in Nat
      BY <1>2, <2>4 DEF Sums
    <3>2. f[e] = f[e - 1] + Len(kids[e].text)
      BY <1>2, <2>4 DEF Sums
    <3>3. f[e + 1] = f[(e + 1) - 1] + Len(kids[e + 1].text)
      BY <1>2, <2>4 DEF Sums
    <3>4. (e + 1) - 1 = e
      BY <1>2
    <3> QED BY <2>2, <3>1, <3>2, <3>3, <3>4
  <2>6. Chu!Tokens(kids, e, e + 1) = (x + a + b) - x
    BY <2>3, <2>5 DEF Chu!Tokens
  <2>7. (x + a + b) - x <= TargetParent
    <3>1. PICK o \in Nat : o = 2 * Overlap
      BY ParentsAssumption
    <3>2. a <= o /\ b + o <= TargetParent
      BY <2>2, <3>1
    <3> QED BY <3>2, ParentsAssumption
  <2>8. End(kids, e) \in e .. n /\ e + 1 <= End(kids, e)
    <3>1. e \in 1 .. Len(kids) /\ e + 1 \in e .. Len(kids)
      BY <1>1, <1>2
    <3> QED BY <1>1, <2>6, <2>7, <3>1, EndIs
  <2> QED BY <1>1, <1>2, <1>3, <2>1, <2>8
<1>4. CASE ~(e > i /\ Len(kids[e].text) <= 2 * Overlap)
  <2>1. After(kids, i) = e + 1
    BY <1>1, <1>4 DEF After, End, Chu!NextStart
  <2>2. End(kids, e + 1) \in e + 1 .. n
    BY <1>1, <1>2, EndIs
  <2> QED BY <1>1, <1>2, <2>1, <2>2
<1> QED BY <1>3, <1>4

-----------------------------------------------------------------------------
(* The groups from child i on: g[p] runs from h[p] to its end.             *)
Grouped(g, h, kids, i) ==
  /\ h \in Seq(1 .. Len(kids)) /\ Len(h) # 0 /\ h[1] = i
  /\ \A p \in 1 .. Len(h) - 1 : End(kids, h[p]) # Len(kids) /\ h[p + 1] = After(kids, h[p])
  /\ End(kids, h[Len(h)]) = Len(kids)
  /\ g = [p \in 1 .. Len(h) |-> h[p] .. End(kids, h[p])]

GroupsFrom(f, kids, i) ==
  <<i .. End(kids, i)>> \o (IF End(kids, i) = Len(kids) THEN <<>> ELSE f[After(kids, i)])
IsDividing(f, kids) == f = [j \in 1 .. Len(kids) |-> GroupsFrom(f, kids, j)]

LEMMA DividingAt ==
  ASSUME NEW f, NEW kids, IsDividing(f, kids)
  PROVE  \A i \in 1 .. Len(kids) : f[i] = GroupsFrom(f, kids, i)
<1>1. PICK h : h = [j \in 1 .. Len(kids) |-> GroupsFrom(f, kids, j)]
  OBVIOUS
<1>2. \A i \in 1 .. Len(kids) : h[i] = GroupsFrom(f, kids, i)
  BY <1>1
<1>3. f = h
  BY <1>1 DEF IsDividing
<1> QED BY <1>2, <1>3

(* Groups of groups: a group before the groups that follow it.             *)
LEMMA LastGrouped ==
  ASSUME NEW kids \in Seq(Chunk), NEW i \in 1 .. Len(kids), End(kids, i) = Len(kids)
  PROVE  Grouped(<<i .. End(kids, i)>>, <<i>>, kids, i)
<1>1. PICK h : h = <<i>>
  OBVIOUS
<1>2. h \in Seq(1 .. Len(kids)) /\ Len(h) = 1 /\ h[1] = i
  BY <1>1
<1>3. <<i .. End(kids, i)>> = [p \in 1 .. 1 |-> h[p] .. End(kids, h[p])]
  <2>1. PICK g : g = <<i .. End(kids, i)>>
    OBVIOUS
  <2>2. g = [p \in 1 .. 1 |-> g[p]] /\ g[1] = i .. End(kids, i)
    BY <2>1
  <2>3. \A p \in 1 .. 1 : g[p] = h[p] .. End(kids, h[p])
    BY <1>2, <2>2
  <2> QED BY <2>1, <2>2, <2>3
<1> QED BY <1>1, <1>2, <1>3 DEF Grouped

LEMMA MoreGrouped ==
  ASSUME NEW kids \in Seq(Chunk), NEW i \in 1 .. Len(kids), End(kids, i) # Len(kids),
         NEW g, NEW h, Grouped(g, h, kids, After(kids, i))
  PROVE  Grouped(<<i .. End(kids, i)>> \o g, <<i>> \o h, kids, i)
<1>0. PICK N : N = 1 .. Len(kids)
  OBVIOUS
<1>1. PICK n \in Nat : N = 1 .. Len(kids) /\ n = Len(h)
  BY <1>0 DEF Grouped
<1>2. h \in Seq(N) /\ n # 0 /\ h[1] = After(kids, i) /\ <<i>> \in Seq(N) /\ End(kids, h[n]) = Len(kids)
      /\ g = [p \in 1 .. n |-> h[p] .. End(kids, h[p])]
  BY <1>1 DEF Grouped
<1>3. PICK w \in Seq(N) : w = <<i>> \o h
  BY <1>2, ConcatProperties
<1>4. Len(w) = n + 1 /\ w[1] = i /\ \A p \in 1 .. n : w[p + 1] = h[p]
  <2>1. Len(<<i>>) = 1
    OBVIOUS
  <2>2. Len(w) = 1 + n /\ \A p \in 1 .. Len(w) : w[p] = IF p <= 1 THEN <<i>>[p] ELSE h[p - 1]
    BY <1>1, <1>2, <1>3, <2>1, ConcatProperties
  <2>3. w[1] = i
    BY <1>1, <2>2
  <2>4. ASSUME NEW p \in 1 .. n PROVE w[p + 1] = h[p]
    <3>1. p + 1 \in 1 .. Len(w) /\ ~(p + 1 <= 1) /\ (p + 1) - 1 = p
      BY <1>1, <2>2
    <3> QED BY <2>2, <3>1
  <2> QED BY <1>1, <2>2, <2>3, <2>4
<1>5. ASSUME NEW p \in 1 .. n
      PROVE  End(kids, w[p]) # Len(kids) /\ w[p + 1] = After(kids, w[p])
  <2>1. CASE p = 1
    BY <1>1, <1>2, <1>4, <2>1
  <2>2. CASE p # 1
    <3>1. PICK q \in 1 .. n - 1 : q = p - 1
      BY <1>1, <2>2
    <3>2. q \in 1 .. n /\ q + 1 = p
      BY <1>1, <3>1
    <3>3. w[p] = h[q] /\ w[p + 1] = h[p]
      BY <1>4, <3>2
    <3>4. End(kids, h[q]) # Len(kids) /\ h[q + 1] = After(kids, h[q])
      BY <1>1, <3>1 DEF Grouped
    <3> QED BY <3>2, <3>3, <3>4
  <2> QED BY <2>1, <2>2
<1>6. End(kids, w[n + 1]) = Len(kids)
  <2>1. w[n + 1] = h[n]
    BY <1>1, <1>2, <1>4
  <2> QED BY <1>2, <2>1
<1>7. PICK S : S = {h[p] .. End(kids, h[p]) : p \in 1 .. n} \cup {i .. End(kids, i)}
  OBVIOUS
<1>8. PICK one \in Seq(S) : one = <<i .. End(kids, i)>> /\ Len(one) = 1 /\ one[1] = i .. End(kids, i)
  <2>1. <<i .. End(kids, i)>> \in Seq(S)
    BY <1>7
  <2>2. Len(<<i .. End(kids, i)>>) = 1 /\ <<i .. End(kids, i)>>[1] = i .. End(kids, i)
    OBVIOUS
  <2> QED BY <2>1, <2>2
<1>9. g \in Seq(S) /\ Len(g) = n
  <2>1. g \in [1 .. n -> S]
    BY <1>2, <1>7
  <2> QED BY <1>1, <2>1
<1>10. PICK v \in Seq(S) : v = one \o g
  BY <1>8, <1>9, ConcatProperties
<1>11. Len(v) = n + 1 /\ \A p \in 1 .. n + 1 : v[p] = IF p <= 1 THEN one[p] ELSE g[p - 1]
  <2>1. Len(v) = 1 + n /\ \A p \in 1 .. Len(v) : v[p] = IF p <= 1 THEN one[p] ELSE g[p - 1]
    BY <1>8, <1>9, <1>10, ConcatProperties
  <2> QED BY <1>1, <2>1
<1>12. ASSUME NEW p \in 1 .. n + 1 PROVE v[p] = w[p] .. End(kids, w[p])
  <2>1. CASE p = 1
    BY <1>4, <1>8, <1>11, <2>1
  <2>2. CASE p # 1
    <3>1. PICK q \in 1 .. n : q = p - 1
      BY <1>1, <2>2
    <3>2. q + 1 = p /\ ~(p <= 1)
      BY <1>1, <2>2, <3>1
    <3>3. w[p] = h[q] /\ v[p] = g[q]
      BY <1>4, <1>11, <3>1, <3>2
    <3>4. g[q] = h[q] .. End(kids, h[q])
      BY <1>2
    <3> QED BY <3>3, <3>4
  <2> QED BY <2>1, <2>2
<1>13. v = [p \in 1 .. n + 1 |-> w[p] .. End(kids, w[p])]
  <2>1. v = [p \in 1 .. n + 1 |-> v[p]]
    BY <1>1, <1>11
  <2> QED BY <1>12, <2>1
<1>14. w[1] = i /\ Len(w) # 0 /\ \A p \in 1 .. Len(w) - 1 :
         End(kids, w[p]) # Len(kids) /\ w[p + 1] = After(kids, w[p])
  BY <1>1, <1>4, <1>5
<1>15. Grouped(v, w, kids, i)
  BY <1>1, <1>3, <1>4, <1>6, <1>13, <1>14 DEF Grouped
<1> QED BY <1>3, <1>8, <1>10, <1>15

(* There is such a function, as the next group starts later.               *)
LEMMA DividingIs ==
  ASSUME NEW kids \in Seq(Chunk)
  PROVE  \E f : IsDividing(f, kids)
<1>1. PICK n \in Nat : n = Len(kids)
  OBVIOUS
<1>2. PICK T : T = {m \in 0 .. n : \E f : \A i \in n - m + 1 .. n : f[i] = GroupsFrom(f, kids, i)}
  OBVIOUS
<1>3. 0 \in T
  <2>1. \A i \in n - 0 + 1 .. n : FALSE
    BY <1>1
  <2> QED BY <1>1, <1>2, <2>1
<1>4. ASSUME NEW m \in 1 .. n, m - 1 \in T PROVE m \in T
  <2>1. PICK i \in 1 .. n : i = n - m + 1
    <3>1. n - m + 1 \in 1 .. n
      OBVIOUS
    <3> QED BY <3>1
  <2>2. n - (m - 1) + 1 = i + 1 /\ m \in 0 .. n
    BY <1>1, <2>1
  <2>3. PICK f : \A j \in i + 1 .. n : f[j] = GroupsFrom(f, kids, j)
    BY <1>2, <1>4, <2>2
  <2>4. PICK g : g = [j \in 1 .. n |-> IF j = i THEN GroupsFrom(f, kids, i) ELSE f[j]]
    OBVIOUS
  <2>5. \A j \in i + 1 .. n : g[j] = f[j]
    BY <1>1, <2>4
  <2>6. ASSUME NEW j \in i .. n PROVE GroupsFrom(g, kids, j) = GroupsFrom(f, kids, j)
    <3>1. j \in 1 .. n
      BY <1>1
    <3>2. CASE End(kids, j) = Len(kids)
      BY <3>2 DEF GroupsFrom
    <3>3. CASE End(kids, j) # Len(kids)
      <4>1. After(kids, j) \in j + 1 .. n
        BY <1>1, <3>1, <3>3, AfterIs
      <4>2. After(kids, j) \in i + 1 .. n
        BY <1>1, <4>1
      <4>3. g[After(kids, j)] = f[After(kids, j)]
        BY <2>5, <4>2
      <4> QED BY <3>3, <4>3 DEF GroupsFrom
    <3> QED BY <3>2, <3>3
  <2>7. ASSUME NEW j \in i .. n PROVE g[j] = GroupsFrom(g, kids, j)
    <3>1. CASE j = i
      <4>1. g[j] = GroupsFrom(f, kids, j)
        BY <2>4, <3>1
      <4> QED BY <2>6, <4>1
    <3>2. CASE j # i
      <4>1. j \in i + 1 .. n
        BY <1>1, <3>2
      <4>2. g[j] = f[j] /\ f[j] = GroupsFrom(f, kids, j)
        BY <2>3, <2>5, <4>1
      <4> QED BY <2>6, <4>2
    <3> QED BY <3>1, <3>2
  <2> QED BY <1>2, <2>1, <2>2, <2>7
<1>5. n \in T
  <2>1. \A m \in 0 .. n : m \in T
    BY <1>3, <1>4, UpTo
  <2> QED BY <1>1, <2>1
<1>6. PICK f : \A i \in 1 .. n : f[i] = GroupsFrom(f, kids, i)
  <2>1. n - n + 1 = 1
    BY <1>1
  <2> QED BY <1>2, <1>5, <2>1
<1>7. PICK g : g = [i \in 1 .. n |-> GroupsFrom(f, kids, i)]
  OBVIOUS
<1>8. \A i \in 1 .. n : g[i] = f[i]
  BY <1>6, <1>7
<1>9. ASSUME NEW i \in 1 .. n PROVE GroupsFrom(f, kids, i) = GroupsFrom(g, kids, i)
  <2>1. CASE End(kids, i) = Len(kids)
    BY <2>1 DEF GroupsFrom
  <2>2. CASE End(kids, i) # Len(kids)
    <3>1. After(kids, i) \in i + 1 .. n
      BY <1>1, <2>2, AfterIs
    <3>2. After(kids, i) \in 1 .. n
      BY <1>1, <3>1
    <3>3. g[After(kids, i)] = f[After(kids, i)]
      BY <1>8, <3>2
    <3> QED BY <2>2, <3>3 DEF GroupsFrom
  <2> QED BY <2>1, <2>2
<1>10. g = [i \in 1 .. n |-> GroupsFrom(g, kids, i)]
  BY <1>7, <1>9
<1> QED BY <1>1, <1>10 DEF IsDividing

LEMMA DividingGroups ==
  ASSUME NEW kids \in Seq(Chunk), NEW f, IsDividing(f, kids)
  PROVE  \A i \in 1 .. Len(kids) : \E h : Grouped(f[i], h, kids, i)
<1>1. PICK n \in Nat : n = Len(kids)
  OBVIOUS
<1>2. PICK T : T = {m \in 0 .. n : \A i \in n - m + 1 .. n : \E h : Grouped(f[i], h, kids, i)}
  OBVIOUS
<1>3. 0 \in T
  <2>1. \A i \in n - 0 + 1 .. n : FALSE
    BY <1>1
  <2> QED BY <1>1, <1>2, <2>1
<1>4. ASSUME NEW m \in 1 .. n, m - 1 \in T PROVE m \in T
  <2>1. PICK i \in 1 .. n : i = n - m + 1
    <3>1. n - m + 1 \in 1 .. n
      OBVIOUS
    <3> QED BY <3>1
  <2>2. n - (m - 1) + 1 = i + 1 /\ m \in 0 .. n
    BY <1>1, <2>1
  <2>3. \A j \in i + 1 .. n : \E h : Grouped(f[j], h, kids, j)
    BY <1>2, <1>4, <2>2
  <2>4. \E h : Grouped(f[i], h, kids, i)
    <3>1. f[i] = GroupsFrom(f, kids, i)
      <4>1. i \in 1 .. Len(kids)
        BY <1>1
      <4> QED BY <4>1, DividingAt
    <3>2. CASE End(kids, i) = Len(kids)
      <4>1. PICK g : g = <<i .. End(kids, i)>> /\ Grouped(g, <<i>>, kids, i)
        BY <1>1, <3>2, LastGrouped
      <4>2. f[i] = g
        <5>1. g \in Seq({i .. End(kids, i)})
          BY <4>1
        <5>2. g \o <<>> = g
          BY <5>1, ConcatEmptySeq
        <5> QED BY <3>1, <3>2, <4>1, <5>2 DEF GroupsFrom
      <4> QED BY <4>1, <4>2
    <3>3. CASE End(kids, i) # Len(kids)
      <4>1. After(kids, i) \in i + 1 .. n
        BY <1>1, <3>3, AfterIs
      <4>2. PICK h : Grouped(f[After(kids, i)], h, kids, After(kids, i))
        BY <2>3, <4>1
      <4>3. Grouped(<<i .. End(kids, i)>> \o f[After(kids, i)], <<i>> \o h, kids, i)
        BY <1>1, <3>3, <4>2, MoreGrouped
      <4> QED BY <3>1, <3>3, <4>3 DEF GroupsFrom
    <3> QED BY <3>2, <3>3
  <2>5. \A j \in i .. n : j = i \/ j \in i + 1 .. n
    BY <1>1
  <2> QED BY <1>2, <2>1, <2>2, <2>3, <2>4, <2>5
<1>5. \A m \in 0 .. n : m \in T
  BY <1>3, <1>4, UpTo
<1>6. n - n + 1 = 1 /\ n \in T
  BY <1>1, <1>5
<1> QED BY <1>1, <1>2, <1>6

-----------------------------------------------------------------------------
(* Parents are intervals, from h[p] to e[p]: the first starts with the     *)
(* first child, the last ends with the last one, and every other starts at *)
(* the end of the one before it or behind it, and goes on beyond it.       *)
Covers(ps, h, e, n, kids) ==
  /\ n \in Nat \ {0} /\ h \in [1 .. n -> 1 .. Len(kids)] /\ e \in [1 .. n -> 1 .. Len(kids)]
  /\ ps = [p \in 1 .. n |-> h[p] .. e[p]]
  /\ \A p \in 1 .. n : h[p] <= e[p]
  /\ h[1] = 1 /\ e[n] = Len(kids)
  /\ \A p \in 1 .. n - 1 : h[p + 1] \in {e[p], e[p] + 1} /\ e[p] + 1 \in h[p + 1] .. e[p + 1]
  /\ \A p \in 1 .. n : n = 1 \/ e[p] = h[p] \/ Chu!Tokens(kids, h[p], e[p]) <= TargetParent

LEMMA GroupedCovers ==
  ASSUME NEW kids \in Seq(Chunk), NEW g, NEW h, Grouped(g, h, kids, 1), 1 \in 1 .. Len(kids)
  PROVE  \E b, e, n : Covers(g, b, e, n, kids)
<1>1. PICK m \in Nat, n \in Nat \ {0} : m = Len(kids) /\ n = Len(h)
  BY DEF Grouped
<1>2. /\ h \in Seq(1 .. m) /\ h[1] = 1 /\ End(kids, h[n]) = m
      /\ g = [p \in 1 .. n |-> h[p] .. End(kids, h[p])]
      /\ \A p \in 1 .. n - 1 : End(kids, h[p]) # m /\ h[p + 1] = After(kids, h[p])
  BY <1>1 DEF Grouped
<1>3. h \in [1 .. n -> 1 .. m]
  BY <1>1, <1>2
<1>4. PICK e : e = [p \in 1 .. n |-> End(kids, h[p])]
  OBVIOUS
<1>5. ASSUME NEW p \in 1 .. n
      PROVE  /\ e[p] = End(kids, h[p]) /\ e[p] \in 1 .. m /\ h[p] <= e[p]
             /\ e[p] = h[p] \/ Chu!Tokens(kids, h[p], e[p]) <= TargetParent
  <2>1. PICK i \in 1 .. Len(kids) : i = h[p]
    BY <1>1, <1>3
  <2>2. End(kids, i) \in i .. Len(kids) /\ (End(kids, i) = i \/ Chu!Tokens(kids, i, End(kids, i)) <= TargetParent)
    BY EndIs
  <2>3. e[p] = End(kids, i)
    BY <1>4, <2>1
  <2> QED BY <1>1, <2>1, <2>2, <2>3
<1>6. ASSUME NEW p \in 1 .. n - 1
      PROVE  h[p + 1] \in {e[p], e[p] + 1} /\ e[p] + 1 \in h[p + 1] .. e[p + 1]
  <2>1. p \in 1 .. n /\ p + 1 \in 1 .. n
    BY <1>1
  <2>2. PICK i \in 1 .. Len(kids), j \in 1 .. Len(kids) : i = h[p] /\ j = h[p + 1]
    BY <1>1, <1>3, <2>1
  <2>3. End(kids, i) # Len(kids) /\ j = After(kids, i)
    BY <1>1, <1>2, <2>2
  <2>4. After(kids, i) \in {End(kids, i), End(kids, i) + 1}
        /\ End(kids, i) + 1 \in After(kids, i) .. End(kids, After(kids, i))
    BY <2>3, AfterIs
  <2>5. e[p] = End(kids, i) /\ e[p + 1] = End(kids, j)
    BY <1>5, <2>1, <2>2
  <2> QED BY <2>2, <2>3, <2>4, <2>5
<1>7. e \in [1 .. n -> 1 .. m]
  BY <1>4, <1>5
<1>8. n \in 1 .. n /\ e[n] = m
  BY <1>1, <1>2, <1>5
<1>9. g = [p \in 1 .. n |-> h[p] .. e[p]]
  BY <1>2, <1>5
<1>10. Covers(g, h, e, n, kids)
  BY <1>1, <1>2, <1>3, <1>5, <1>6, <1>7, <1>8, <1>9 DEF Covers
<1> QED BY <1>10

DividingIn(kids) == CHOOSE f : IsDividing(f, kids)
ParentsIn(kids) ==
  IF kids = <<>> THEN <<>>
  ELSE IF Chu!Tokens(kids, 1, Len(kids)) <= SoftParent THEN <<1 .. Len(kids)>> ELSE DividingIn(kids)[1]

LEMMA ParentsAre ==
  ASSUME NEW kids
  PROVE  Chu!ParentChunks(kids) = ParentsIn(kids)
BY DEF Chu!ParentChunks, ParentsIn, DividingIn, IsDividing, GroupsFrom, End, After

LEMMA ParentsCover ==
  ASSUME NEW kids \in Seq(Chunk), kids # <<>>
  PROVE  \E h, e, n : Covers(Chu!ParentChunks(kids), h, e, n, kids)
<1>1. PICK m \in Nat \ {0} : m = Len(kids) /\ 1 \in 1 .. m
  OBVIOUS
<1>2. CASE Chu!Tokens(kids, 1, Len(kids)) <= SoftParent
  <2>1. PICK h, e : h = [p \in 1 .. 1 |-> 1] /\ e = [p \in 1 .. 1 |-> m]
    OBVIOUS
  <2>2. h \in [1 .. 1 -> 1 .. m] /\ e \in [1 .. 1 -> 1 .. m] /\ h[1] = 1 /\ e[1] = m
    BY <1>1, <2>1
  <2>3. PICK g : g = <<1 .. m>>
    OBVIOUS
  <2>4. g = [p \in 1 .. 1 |-> h[p] .. e[p]]
    <3>1. g = [p \in 1 .. 1 |-> g[p]] /\ g[1] = 1 .. m
      BY <2>3
    <3>2. \A p \in 1 .. 1 : g[p] = h[p] .. e[p]
      BY <2>2, <3>1
    <3> QED BY <3>1, <3>2
  <2>5. Covers(g, h, e, 1, kids)
    BY <1>1, <2>2, <2>4 DEF Covers
  <2>6. Chu!ParentChunks(kids) = g
    BY <1>1, <1>2, <2>3, ParentsAre DEF ParentsIn
  <2> QED BY <2>5, <2>6
<1>3. CASE ~(Chu!Tokens(kids, 1, Len(kids)) <= SoftParent)
  <2>1. PICK f : f = DividingIn(kids)
    OBVIOUS
  <2>2. IsDividing(f, kids)
    BY <2>1, DividingIs DEF DividingIn
  <2>3. PICK h : Grouped(f[1], h, kids, 1)
    BY <1>1, <2>2, DividingGroups
  <2>4. \E b, e, n : Covers(f[1], b, e, n, kids)
    BY <1>1, <2>3, GroupedCovers
  <2>5. Chu!ParentChunks(kids) = f[1]
    BY <1>3, <2>1, ParentsAre DEF ParentsIn
  <2> QED BY <2>4, <2>5
<1> QED BY <1>2, <1>3

-----------------------------------------------------------------------------
(* Later parents end later.                                                *)
LEMMA EndsRise ==
  ASSUME NEW kids \in Seq(Chunk), NEW ps, NEW h, NEW e, NEW n, Covers(ps, h, e, n, kids)
  PROVE  \A p \in 1 .. n : \A q \in 1 .. p : e[q] <= e[p]
<1>1. n \in Nat
  BY DEF Covers
<1>2. \A p \in 1 .. n : e[p] \in Nat
  BY DEF Covers
<1>3. PICK T : T = {k \in 0 .. n : \A q \in 1 .. k : e[q] <= e[k]}
  OBVIOUS
<1>4. 0 \in T
  BY <1>1, <1>3
<1>5. ASSUME NEW k \in 1 .. n, k - 1 \in T PROVE k \in T
  <2>1. ASSUME NEW q \in 1 .. k PROVE e[q] <= e[k]
    <3>1. CASE q = k
      BY <1>1, <1>2, <3>1
    <3>2. CASE q # k
      <4>1. PICK p \in 1 .. n - 1 : p = k - 1 /\ p + 1 = k
        BY <1>1, <3>2
      <4>2. q \in 1 .. p /\ q \in 1 .. n /\ p \in 1 .. n
        BY <1>1, <3>2, <4>1
      <4>3. e[q] <= e[p]
        BY <1>3, <1>5, <4>1, <4>2
      <4>4. e[p] + 1 \in h[k] .. e[k]
        BY <4>1 DEF Covers
      <4>5. PICK a \in Nat, b \in Nat, c \in Nat : a = e[q] /\ b = e[p] /\ c = e[k]
        BY <1>2, <4>2
      <4>6. b + 1 <= c
        BY <4>4, <4>5
      <4> QED BY <4>3, <4>5, <4>6
    <3> QED BY <3>1, <3>2
  <2> QED BY <1>3, <2>1
<1>6. \A k \in 0 .. n : k \in T
  BY <1>1, <1>4, <1>5, UpTo
<1> QED BY <1>1, <1>3, <1>6

LEMMA EveryChildHeld ==
  ASSUME NEW kids \in Seq(Chunk), NEW ps, NEW h, NEW e, NEW n, Covers(ps, h, e, n, kids)
  PROVE  UNION Chu!ToSet(ps) = DOMAIN kids
<1>1. n \in Nat \ {0} /\ ps = [p \in 1 .. n |-> h[p] .. e[p]]
  BY DEF Covers
<1>2. PICK m \in Nat : m = Len(kids) /\ DOMAIN kids = 1 .. m
  OBVIOUS
<1>3. \A p \in 1 .. n : h[p] \in 1 .. m /\ e[p] \in 1 .. m
  BY <1>2 DEF Covers
<1>4. Chu!ToSet(ps) = {ps[p] : p \in 1 .. n}
  BY <1>1 DEF Chu!ToSet
<1>5. ASSUME NEW c \in 1 .. m PROVE \E p \in 1 .. n : c \in ps[p]
  <2>1. PICK S : S = {p \in 1 .. n : h[p] <= c}
    OBVIOUS
  <2>2. S \subseteq 0 .. n /\ 1 \in S
    BY <1>1, <2>1 DEF Covers
  <2>3. PICK p \in S : \A q \in S : q <= p
    BY <1>1, <2>2, GreatestNumber
  <2>4. p \in 1 .. n /\ h[p] <= c
    BY <2>1
  <2>5. c <= e[p]
    <3>1. CASE p = n
      BY <1>2, <3>1 DEF Covers
    <3>2. CASE p # n
      <4>1. p \in 1 .. n - 1 /\ p + 1 \in 1 .. n /\ p + 1 \notin S
        BY <1>1, <2>3, <2>4, <3>2
      <4>2. PICK a \in Nat, b \in Nat : a = h[p + 1] /\ b = e[p] /\ a > c
        BY <1>3, <2>1, <2>4, <4>1
      <4>3. a \in {b, b + 1}
        BY <4>1, <4>2 DEF Covers
      <4> QED BY <4>2, <4>3
    <3> QED BY <3>1, <3>2
  <2>6. ps[p] = h[p] .. e[p]
    BY <1>1, <2>4
  <2>7. c \in ps[p]
    BY <1>3, <2>4, <2>5, <2>6
  <2> QED BY <2>4, <2>7
<1>6. ASSUME NEW p \in 1 .. n PROVE ps[p] \subseteq 1 .. m
  BY <1>1, <1>3
<1> QED BY <1>2, <1>4, <1>5, <1>6

Owns(ps, p) == \E c \in ps[p] : Chu!Min({q \in DOMAIN ps : c \in ps[q]}) = p

LEMMA EveryParentOwns ==
  ASSUME NEW kids \in Seq(Chunk), NEW ps, NEW h, NEW e, NEW n, Covers(ps, h, e, n, kids),
         NEW p \in 1 .. n
  PROVE  Owns(ps, p)
<1>1. n \in Nat \ {0} /\ DOMAIN ps = 1 .. n /\ \A q \in 1 .. n : ps[q] = h[q] .. e[q]
  BY DEF Covers
<1>2. \A q \in 1 .. n : h[q] \in Nat /\ e[q] \in Nat /\ h[q] <= e[q]
  BY DEF Covers
<1>3. PICK c \in ps[p] : \A q \in 1 .. n : c \in ps[q] => p <= q
  <2>1. CASE p = 1
    <3>1. h[p] \in ps[p]
      BY <1>1, <1>2
    <3> QED BY <1>1, <2>1, <3>1
  <2>2. CASE p # 1
    <3>1. PICK r \in 1 .. n - 1 : r = p - 1 /\ r + 1 = p
      BY <1>1, <2>2
    <3>2. r \in 1 .. n
      BY <1>1, <3>1
    <3>3. PICK b \in Nat : b = e[r]
      BY <1>2, <3>2
    <3>4. b + 1 \in ps[p]
      BY <1>1, <3>1, <3>3 DEF Covers
    <3>5. ASSUME NEW q \in 1 .. n, b + 1 \in ps[q], ~(p <= q) PROVE FALSE
      <4>1. q \in 1 .. r
        BY <3>1, <3>5
      <4>2. e[q] <= b
        BY <3>2, <3>3, <4>1, EndsRise
      <4>3. b + 1 \in h[q] .. e[q]
        BY <1>1, <3>5
      <4> QED BY <1>2, <4>2, <4>3
    <3> QED BY <3>4, <3>5
  <2> QED BY <2>1, <2>2
<1>4. PICK S : S = {q \in DOMAIN ps : c \in ps[q]}
  OBVIOUS
<1>5. p \in S /\ S \subseteq Int /\ \A q \in S : p <= q
  BY <1>1, <1>3, <1>4
<1>6. Chu!Min(S) = p
  BY <1>5, MinOf
<1> QED BY <1>4, <1>6 DEF Owns

LEMMA IntervalIs ==
  ASSUME NEW a \in Nat, NEW b \in Nat, a <= b
  PROVE  /\ Chu!Min(a .. b) = a /\ Chu!Max(a .. b) = b
         /\ a = b => Chu!Cardinality(a .. b) = 1
<1>1. /\ a \in a .. b /\ b \in a .. b /\ a .. b \subseteq Int
      /\ \A j \in a .. b : a <= j /\ j <= b
  OBVIOUS
<1>2. Chu!Min(a .. b) = a
  BY <1>1, MinOf
<1>3. Chu!Max(a .. b) = b
  BY <1>1, MaxOf
<1>4. ASSUME a = b PROVE Chu!Cardinality(a .. b) = 1
  <2>1. a .. b = {a}
    BY <1>4
  <2>2. Cardinality({a}) = 1
    BY FS_Singleton
  <2>3. Chu!Cardinality({a}) = Cardinality({a})
    BY DEF Chu!Cardinality, Cardinality
  <2> QED BY <2>1, <2>2, <2>3
<1> QED BY <1>2, <1>3, <1>4

(* What the parents of children are, a property of both.                   *)
Cover(kids, ps) ==
  /\ UNION Chu!ToSet(ps) = DOMAIN kids
  /\ \A p \in DOMAIN ps :
       /\ Owns(ps, p)
       /\ \/ Len(ps) = 1 \/ Chu!Cardinality(ps[p]) = 1
          \/ Chu!Tokens(kids, Chu!Min(ps[p]), Chu!Max(ps[p])) <= TargetParent
  /\ \A p \in 2..Len(ps) :
       Chu!Min(ps[p]) \in {Chu!Max(ps[p - 1]), Chu!Max(ps[p - 1]) + 1}

LEMMA ParentsHold ==
  ASSUME NEW kids \in Seq(Chunk)
  PROVE  Cover(kids, Chu!ParentChunks(kids))
<1>1. CASE kids = <<>>
  <2>1. Chu!ParentChunks(kids) = <<>>
    BY <1>1, ParentsAre DEF ParentsIn
  <2>2. Chu!ToSet(<<>>) = {}
    BY DEF Chu!ToSet
  <2> QED BY <1>1, <2>1, <2>2 DEF Cover
<1>2. CASE kids # <<>>
  <2>1. PICK ps : ps = Chu!ParentChunks(kids)
    OBVIOUS
  <2>2. PICK h, e, n : Covers(ps, h, e, n, kids)
    BY <1>2, <2>1, ParentsCover
  <2>3. /\ n \in Nat \ {0} /\ DOMAIN ps = 1 .. n /\ Len(ps) = n
        /\ \A p \in 1 .. n : ps[p] = h[p] .. e[p]
    BY <2>2 DEF Covers
  <2>4. \A p \in 1 .. n : h[p] \in Nat /\ e[p] \in Nat /\ h[p] <= e[p]
    BY <2>2 DEF Covers
  <2>5. ASSUME NEW p \in 1 .. n
        PROVE  /\ Chu!Min(ps[p]) = h[p] /\ Chu!Max(ps[p]) = e[p]
               /\ e[p] = h[p] => Chu!Cardinality(ps[p]) = 1
    <3>1. PICK a \in Nat, b \in Nat : a = h[p] /\ b = e[p] /\ a <= b
      BY <2>4
    <3>2. ps[p] = a .. b
      BY <2>3, <3>1
    <3> QED BY <3>1, <3>2, IntervalIs
  <2>6. UNION Chu!ToSet(ps) = DOMAIN kids
    BY <2>2, EveryChildHeld
  <2>7. ASSUME NEW p \in 1 .. n
        PROVE  /\ Owns(ps, p)
               /\ \/ Len(ps) = 1 \/ Chu!Cardinality(ps[p]) = 1
                  \/ Chu!Tokens(kids, Chu!Min(ps[p]), Chu!Max(ps[p])) <= TargetParent
    <3>1. Owns(ps, p)
      BY <2>2, EveryParentOwns
    <3>2. n = 1 \/ e[p] = h[p] \/ Chu!Tokens(kids, h[p], e[p]) <= TargetParent
      BY <2>2 DEF Covers
    <3> QED BY <2>3, <2>5, <3>1, <3>2
  <2>8. ASSUME NEW p \in 2 .. n
        PROVE  Chu!Min(ps[p]) \in {Chu!Max(ps[p - 1]), Chu!Max(ps[p - 1]) + 1}
    <3>1. PICK q \in 1 .. n - 1 : q = p - 1 /\ q + 1 = p
      BY <2>3
    <3>2. q \in 1 .. n /\ p \in 1 .. n
      BY <2>3, <3>1
    <3>3. h[p] \in {e[q], e[q] + 1}
      BY <2>2, <3>1 DEF Covers
    <3>4. Chu!Min(ps[p]) = h[p] /\ Chu!Max(ps[q]) = e[q]
      BY <2>5, <3>2
    <3> QED BY <3>1, <3>3, <3>4
  <2>9. Cover(kids, ps)
    BY <2>3, <2>6, <2>7, <2>8 DEF Cover
  <2> QED BY <2>1, <2>9
<1> QED BY <1>1, <1>2

(* Parents hold children, one at least.                                    *)
LEMMA ParentsType ==
  ASSUME NEW kids \in Seq(Chunk), NEW ps, Cover(kids, ps), NEW p \in DOMAIN ps
  PROVE  ps[p] \subseteq DOMAIN kids /\ ps[p] # {}
<1>1. ps[p] \in Chu!ToSet(ps)
  BY DEF Chu!ToSet
<1> QED BY <1>1 DEF Cover, Owns

-----------------------------------------------------------------------------
(* The lines of a file, cleaned, are lines.                                *)
LEMMA FlattenType ==
  ASSUME NEW F, NEW ss \in Seq(Seq(F))
  PROVE  Chu!FlattenSeq(ss) \in Seq(F)
BY EmptySeq, FlattenMore

LEMMA LinesBoth ==
  ASSUME NEW E, NEW x \in Seq(E), NEW y \in Seq(E)
  PROVE  x \o y \in Seq(E)
BY ConcatProperties

LEMMA GivenLines ==
  /\ Chu!BlankLine \in Line /\ \A name \in Names : Chu!TitleLine(name) \in Line
  /\ \A l \in Line : [l EXCEPT !.level = 2] \in Line
<1>1. 0 \in 0 .. MaxLevel /\ 1 \in 0 .. MaxLevel /\ 2 \in 0 .. MaxLevel
  BY ChunkingAssumption
<1>2. "heading" \in Chu!Kinds /\ "blank" \in Chu!Kinds
  BY KindsAre
<1>3. ASSUME NEW name \in Names PROVE Chu!TitleLine(name) \in Line
  BY <1>1, <1>2 DEF Chu!TitleLine, Chu!Heading, Line
<1>4. Chu!BlankLine \in Line
  <2>1. "" \in Names /\ 0 \in Nat
    BY DEF Names
  <2> QED BY <1>1, <1>2, <2>1 DEF Chu!BlankLine, Line
<1>5. ASSUME NEW l \in Line PROVE [l EXCEPT !.level = 2] \in Line
  BY <1>1 DEF Line
<1> QED BY <1>3, <1>4, <1>5

(* Lines that cleaning may leave: with a set of lines that suits, what is  *)
(* made of a text of them is a text of them.                               *)
Suits(E) == E \subseteq Line /\ Chu!BlankLine \in E /\ \A l \in E : [l EXCEPT !.level = 2] \in E

LEMMA LineSuits == Suits(Line)
BY GivenLines DEF Suits

LEMMA StrippedType ==
  ASSUME NEW E, NEW lines \in Seq(E)
  PROVE  Chu!StripResidualNoise(lines) \in Seq(E)
BY PickedType DEF Chu!StripResidualNoise

Spacing(lines, i) ==
  (IF \/ lines[i].kind = "fence" /\ Chu!InClosedCode(lines, i) /\ Chu!IsOdd(Chu!Fences(lines, i))
      \/ lines[i].kind = "heading" /\ ~Chu!InClosedCode(lines, i)
   THEN <<Chu!BlankLine>> ELSE <<>>) \o <<lines[i]>>
  \o (IF \/ lines[i].kind = "fence" /\ Chu!InClosedCode(lines, i) /\ ~Chu!IsOdd(Chu!Fences(lines, i))
         \/ lines[i].kind = "heading" /\ ~Chu!InClosedCode(lines, i)
      THEN <<Chu!BlankLine>> ELSE <<>>)
Spaced(lines) == Chu!FlattenSeq([i \in DOMAIN lines |-> Spacing(lines, i)])
Unspaced(s) == {i \in DOMAIN s :
                  \/ ~(s[i].kind = "blank")
                  \/ i > 1 /\ ~(s[i - 1].kind = "blank") /\ \E j \in i..Len(s) : ~(s[j].kind = "blank")}

LEMMA SpacingType ==
  ASSUME NEW E, Suits(E), NEW lines \in Seq(E), NEW i \in DOMAIN lines
  PROVE  Spacing(lines, i) \in Seq(E)
<1>1. lines[i] \in E
  OBVIOUS
<1>2. PICK b \in Seq(E), none \in Seq(E), one \in Seq(E) :
        b = <<Chu!BlankLine>> /\ none = <<>> /\ one = <<lines[i]>>
  <2>1. <<Chu!BlankLine>> \in Seq(E) /\ <<lines[i]>> \in Seq(E) /\ <<>> \in Seq(E)
    BY <1>1 DEF Suits
  <2> QED BY <2>1
<1>3. PICK x : x = IF \/ lines[i].kind = "fence" /\ Chu!InClosedCode(lines, i) /\ Chu!IsOdd(Chu!Fences(lines, i))
                      \/ lines[i].kind = "heading" /\ ~Chu!InClosedCode(lines, i)
                   THEN b ELSE none
  OBVIOUS
<1>4. PICK y : y = IF \/ lines[i].kind = "fence" /\ Chu!InClosedCode(lines, i) /\ ~Chu!IsOdd(Chu!Fences(lines, i))
                      \/ lines[i].kind = "heading" /\ ~Chu!InClosedCode(lines, i)
                   THEN b ELSE none
  OBVIOUS
<1>5. x \in Seq(E) /\ y \in Seq(E)
  BY <1>3, <1>4
<1>6. x \o one \in Seq(E)
  BY <1>5, LinesBoth
<1>7. (x \o one) \o y \in Seq(E)
  BY <1>5, <1>6, LinesBoth
<1>8. Spacing(lines, i) = (x \o one) \o y
  BY <1>2, <1>3, <1>4 DEF Spacing
<1> QED BY <1>7, <1>8

LEMMA SanitizedType ==
  ASSUME NEW E, Suits(E), NEW lines \in Seq(E)
  PROVE  Chu!Sanitize(lines) \in Seq(E)
<1>1. PICK ss : ss = [i \in DOMAIN lines |-> Spacing(lines, i)]
  OBVIOUS
<1>2. ss \in Seq(Seq(E))
  <2>1. PICK n \in Nat : n = Len(lines) /\ DOMAIN lines = 1 .. n
    OBVIOUS
  <2>2. \A i \in 1 .. n : ss[i] \in Seq(E)
    BY <1>1, <2>1, SpacingType
  <2> QED BY <1>1, <2>1, <2>2
<1>3. Spaced(lines) \in Seq(E)
  BY <1>1, <1>2, FlattenType DEF Spaced
<1>4. Chu!Picked(Spaced(lines), Unspaced(Spaced(lines))) \in Seq(E)
  BY <1>3, PickedType
<1>5. Chu!Sanitize(lines) = Chu!Picked(Spaced(lines), Unspaced(Spaced(lines)))
  BY DEF Chu!Sanitize, Spaced, Unspaced, Spacing
<1> QED BY <1>4, <1>5

Levelled(name, lines, i) ==
  CASE ~Chu!IsH1(lines, i) -> <<lines[i]>>
    [] Chu!IsH1(lines, i) /\ (Chu!IsTitle(name, lines[i]) /\ \A j \in 1..(i - 1) : ~Chu!IsH1(lines, j)) -> <<>>
    [] OTHER -> <<[lines[i] EXCEPT !.level = 2]>>

LEMMA LevelledType ==
  ASSUME NEW name \in Names, NEW E, Suits(E), NEW lines \in Seq(E), NEW i \in DOMAIN lines
  PROVE  Levelled(name, lines, i) \in Seq(E)
<1>1. lines[i] \in E
  OBVIOUS
<1>2. PICK a \in Seq(E), none \in Seq(E), b \in Seq(E) :
        a = <<lines[i]>> /\ none = <<>> /\ b = <<[lines[i] EXCEPT !.level = 2]>>
  <2>1. PICK l \in E : l = [lines[i] EXCEPT !.level = 2]
    BY <1>1 DEF Suits
  <2>2. <<lines[i]>> \in Seq(E) /\ <<l>> \in Seq(E) /\ <<>> \in Seq(E)
    BY <1>1
  <2> QED BY <2>1, <2>2
<1>3. Levelled(name, lines, i) \in {a, none, b}
  BY <1>2 DEF Levelled
<1> QED BY <1>2, <1>3

LEMMA NormalizedType ==
  ASSUME NEW name \in Names, NEW E, Suits(E), NEW lines \in Seq(E)
  PROVE  Chu!NormalizeHeadingLevels(name, lines) \in Seq(E)
<1>1. PICK ss : ss = [i \in DOMAIN lines |-> Levelled(name, lines, i)]
  OBVIOUS
<1>2. ss \in Seq(Seq(E))
  <2>1. PICK n \in Nat : n = Len(lines) /\ DOMAIN lines = 1 .. n
    OBVIOUS
  <2>2. \A i \in 1 .. n : ss[i] \in Seq(E)
    BY <1>1, <2>1, LevelledType
  <2> QED BY <1>1, <2>1, <2>2
<1>3. Chu!FlattenSeq(ss) \in Seq(E)
  BY <1>2, FlattenType
<1>4. Chu!NormalizeHeadingLevels(name, lines) = Chu!FlattenSeq([i \in DOMAIN lines |-> Levelled(name, lines, i)])
  BY DEF Chu!NormalizeHeadingLevels, Levelled
<1> QED BY <1>1, <1>3, <1>4

LEMMA TitlesType ==
  ASSUME NEW name \in Names
  PROVE  <<Chu!TitleLine(name)>> \in Seq(Line) /\ <<Chu!TitleLine(name), Chu!BlankLine>> \in Seq(Line)
BY GivenLines

LEMMA ArticleType ==
  ASSUME NEW name \in Names, NEW lines \in Seq(Line)
  PROVE  Chu!NormalizeArticle(name, lines) \in Seq(Line)
<1>1. PICK body \in Seq(Line) :
        body = Chu!Sanitize(Chu!NormalizeHeadingLevels(name, Chu!Sanitize(Chu!StripResidualNoise(lines))))
  <2>1. PICK a \in Seq(Line) : a = Chu!Sanitize(Chu!StripResidualNoise(lines))
    BY LineSuits, StrippedType, SanitizedType
  <2>2. PICK b \in Seq(Line) : b = Chu!NormalizeHeadingLevels(name, a)
    BY LineSuits, NormalizedType
  <2>3. Chu!Sanitize(b) \in Seq(Line)
    BY LineSuits, SanitizedType
  <2> QED BY <2>1, <2>2, <2>3
<1>2. <<Chu!TitleLine(name), Chu!BlankLine>> \o body \in Seq(Line)
  BY TitlesType, LinesBoth
<1> QED BY <1>1, <1>2, TitlesType DEF Chu!NormalizeArticle

(* What the parser makes of a file is a document that can be chunked.      *)
LEMMA ParsedType ==
  ASSUME NEW name \in Names, NEW form \in Chu!Formats, NEW lines \in Seq(Line)
  PROVE  /\ Chu!ParsedDocument(name, form, lines) \in Parsed
         /\ Chu!ParsedDocument(name, form, lines).title = name
         /\ form = "html" => Chu!ParsedDocument(name, form, lines).content = Chu!Normalised(name, lines)
<1>1. PICK none \in Seq(Semantic) : none = <<>>
  BY EmptySeq
<1>0. PICK d : d = Chu!ParsedDocument(name, form, lines)
  OBVIOUS
<1>2. CASE form = "html"
  <2>1. PICK content \in Seq(Line) : content = Chu!Normalised(name, lines)
    BY ArticleType DEF Chu!Normalised
  <2>2. PICK found \in Seq(Semantic) : found = Chu!ExtractSemanticBlocks(name, content)
    BY SemanticAre
  <2>3. d = [title |-> name, content |-> content, semantic |-> found]
    BY <1>0, <1>2, <2>1, <2>2 DEF Chu!ParsedDocument
  <2> QED BY <1>0, <2>1, <2>2, <2>3 DEF Parsed
<1>3. CASE form = "text"
  <2>1. PICK content \in Seq(Line) : content = <<Chu!TitleLine(name), Chu!BlankLine>> \o lines
    BY TitlesType, LinesBoth
  <2>2. d = [title |-> name, content |-> content, semantic |-> none]
    BY <1>0, <1>1, <1>3, <2>1 DEF Chu!ParsedDocument
  <2>3. d \in [title : Names, content : Seq(Line), semantic : Seq(Semantic)] /\ d.semantic = <<>> /\ d.title = name
    BY <1>1, <2>2
  <2> QED BY <1>0, <1>3, <2>3 DEF Parsed
<1>4. CASE form = "markdown"
  <2>1. d = [title |-> name, content |-> lines, semantic |-> none]
    BY <1>0, <1>1, <1>4 DEF Chu!ParsedDocument
  <2>2. d \in [title : Names, content : Seq(Line), semantic : Seq(Semantic)] /\ d.semantic = <<>> /\ d.title = name
    BY <1>1, <2>1
  <2> QED BY <1>0, <1>4, <2>2 DEF Parsed
<1> QED BY <1>2, <1>3, <1>4 DEF Chu!Formats

-----------------------------------------------------------------------------
LEMMA JoinAppend ==
  ASSUME NEW E, NEW u \in Seq(E), NEW r \in Seq(E), NEW x \in E
  PROVE  /\ u \o Append(r, x) = Append(u \o r, x)
         /\ Append(r, x) = r \o <<x>> /\ Append(r, x) # <<>>
<1>1. <<x>> \in Seq(E) /\ Append(r, x) = r \o <<x>> /\ u \o r \in Seq(E)
  BY AppendIsConcat, ConcatProperties
<1>2. Append(u \o r, x) = (u \o r) \o <<x>>
  BY <1>1, AppendIsConcat
<1>3. (u \o r) \o <<x>> = u \o (r \o <<x>>)
  BY <1>1, ConcatAssociative
<1>4. Append(r, x) # <<>>
  BY AppendProperties
<1> QED BY <1>1, <1>2, <1>3, <1>4

(* Fences are counted line by line, and only those up to a line count.     *)
IsFence(l) == l.kind = "fence"
IsBlank(l) == l.kind = "blank"
Count(s, i) == Chu!Cardinality(Chu!Fences(s, i))
CountAll(s) == Count(s, Len(s))
One(l) == IF IsFence(l) THEN 1 ELSE 0

LEMMA CountStep ==
  ASSUME NEW s, NEW i \in Nat
  PROVE  /\ Count(s, i) \in Nat /\ Count(s, 0) = 0
         /\ Count(s, i + 1) = Count(s, i) + One(s[i + 1])
<1>1. \A S : Chu!Cardinality(S) = Cardinality(S)
  BY DEF Chu!Cardinality, Cardinality
<1>2. IsFiniteSet(Chu!Fences(s, i))
  <2>1. Chu!Fences(s, i) \in SUBSET (1 .. i)
    BY DEF Chu!Fences
  <2>2. IsFiniteSet(1 .. i)
    BY FS_Interval
  <2> QED BY <2>1, <2>2, FS_Subset
<1>3. Count(s, i) \in Nat
  BY <1>1, <1>2, FS_CardinalityType DEF Count
<1>4. Chu!Fences(s, 0) = {}
  BY DEF Chu!Fences
<1>5. i + 1 \notin Chu!Fences(s, i)
  BY DEF Chu!Fences
<1>6. CASE IsFence(s[i + 1])
  <2>1. Chu!Fences(s, i + 1) = Chu!Fences(s, i) \cup {i + 1}
    BY <1>6 DEF Chu!Fences, IsFence
  <2>2. Cardinality(Chu!Fences(s, i) \cup {i + 1}) = Cardinality(Chu!Fences(s, i)) + 1
    BY <1>2, <1>5, FS_AddElement
  <2>3. Count(s, i + 1) = Count(s, i) + 1
    BY <1>1, <2>1, <2>2 DEF Count
  <2>4. Count(s, 0) = 0
    BY <1>1, <1>4, FS_EmptySet DEF Count
  <2> QED BY <1>3, <1>6, <2>3, <2>4 DEF One
<1>7. CASE ~IsFence(s[i + 1])
  <2>1. Chu!Fences(s, i + 1) = Chu!Fences(s, i)
    BY <1>7 DEF Chu!Fences, IsFence
  <2> QED BY <1>1, <1>3, <1>4, <1>7, <2>1, FS_EmptySet DEF Count, One
<1> QED BY <1>6, <1>7

LEMMA CountMore ==
  ASSUME NEW s \in Seq(Line), NEW l \in Line
  PROVE  /\ CountAll(s) \in Nat /\ CountAll(<<>>) = 0
         /\ CountAll(Append(s, l)) = CountAll(s) + One(l)
         /\ \A i \in 1 .. Len(s) : Count(Append(s, l), i) = Count(s, i)
<1>1. PICK n \in Nat : n = Len(s)
  OBVIOUS
<1>2. PICK t \in Seq(Line) : t = Append(s, l)
  BY AppendProperties
<1>3. Len(t) = n + 1 /\ t[n + 1] = l /\ \A k \in 1 .. n : t[k] = s[k]
  BY <1>1, <1>2, AppendProperties
<1>4. \A i \in 0 .. n : Count(t, i) = Count(s, i)
  <2>1. ASSUME NEW i \in 0 .. n PROVE Chu!Fences(t, i) = Chu!Fences(s, i)
    <3>1. \A k \in 1 .. i : t[k] = s[k]
      BY <1>3
    <3> QED BY <3>1 DEF Chu!Fences
  <2> QED BY <2>1 DEF Count
<1>5. Count(t, n + 1) = Count(t, n) + One(t[n + 1]) /\ Count(s, n) \in Nat
  BY CountStep
<1>6. Count(t, n + 1) = Count(s, n) + One(l)
  <2>1. n \in 0 .. n
    OBVIOUS
  <2>2. Count(t, n) = Count(s, n)
    BY <1>4, <2>1
  <2> QED BY <1>3, <1>5, <2>2
<1>7. CountAll(<<>>) = 0
  <2>1. Len(<<>>) = 0
    OBVIOUS
  <2>2. Count(<<>>, 0) = 0
    BY CountStep
  <2> QED BY <2>1, <2>2 DEF CountAll
<1>8. CountAll(s) = Count(s, n) /\ CountAll(t) = Count(t, n + 1)
  BY <1>1, <1>3 DEF CountAll
<1> QED BY <1>1, <1>2, <1>4, <1>5, <1>6, <1>7, <1>8

LEMMA CountBoth ==
  ASSUME NEW u \in Seq(Line), NEW s \in Seq(Line)
  PROVE  CountAll(u \o s) = CountAll(u) + CountAll(s)
<1>1. PICK T : T = {r \in Seq(Line) : CountAll(u \o r) = CountAll(u) + CountAll(r)}
  OBVIOUS
<1>2. PICK e \in Seq(Line) : e = <<>>
  BY EmptySeq
<1>3. <<>> \in T
  <2>1. u \o <<>> = u /\ CountAll(u) \in Nat /\ CountAll(e) = 0
    BY <1>2, GivenLines, CountMore, ConcatEmptySeq
  <2> QED BY <1>1, <1>2, <2>1
<1>4. ASSUME NEW r \in Seq(Line), NEW x \in Line, r \in T PROVE Append(r, x) \in T
  <2>1. PICK v \in Seq(Line), w \in Seq(Line) : v = u \o r /\ w = Append(r, x)
    BY ConcatProperties, AppendProperties
  <2>2. u \o w = Append(v, x)
    BY <2>1, JoinAppend
  <2>3. CountAll(Append(v, x)) = CountAll(v) + One(x) /\ CountAll(w) = CountAll(r) + One(x)
    BY <2>1, CountMore
  <2>4. CountAll(v) = CountAll(u) + CountAll(r)
    BY <1>1, <1>4, <2>1
  <2>5. CountAll(u) \in Nat /\ CountAll(r) \in Nat /\ One(x) \in Nat
    BY CountMore DEF One
  <2>6. PICK a \in Nat, b \in Nat, c \in Nat : a = CountAll(u) /\ b = CountAll(r) /\ c = One(x)
    BY <2>5
  <2>7. CountAll(u \o w) = (a + b) + c /\ CountAll(w) = b + c
    BY <2>2, <2>3, <2>4, <2>6
  <2>8. (a + b) + c = a + (b + c)
    OBVIOUS
  <2> QED BY <1>1, <2>1, <2>6, <2>7, <2>8
<1> QED BY <1>1, <1>3, <1>4, BySequence

-----------------------------------------------------------------------------
(* Blank lines: one stays of each run, and one that is open at the end     *)
(* stays only if something comes.                                          *)
Open(s) == Len(s) # 0 /\ ~IsBlank(s[Len(s)])
Singled(s) == {i \in DOMAIN s : ~IsBlank(s[i]) \/ (i > 1 /\ ~IsBlank(s[i - 1]))}
Kept(s) == Chu!Picked(s, Singled(s))
Squeezed(s) == Chu!Picked(s, Unspaced(s))
Add(k, x) == IF ~IsBlank(x) \/ Open(k) THEN Append(k, x) ELSE k

LEMMA OpenMore ==
  ASSUME NEW s \in Seq(Line), NEW x \in Line
  PROVE  Open(Append(s, x)) <=> ~IsBlank(x)
<1>1. Len(Append(s, x)) = Len(s) + 1 /\ Append(s, x)[Len(s) + 1] = x /\ Len(s) \in Nat
  BY AppendProperties
<1> QED BY <1>1 DEF Open

LEMMA OpenNone == ~Open(<<>>) /\ Kept(<<>>) = <<>> /\ Squeezed(<<>>) = <<>>
BY PickedNone DEF Open, Kept, Squeezed

LEMMA KeptStep ==
  ASSUME NEW s \in Seq(Line), NEW x \in Line
  PROVE  Kept(Append(s, x)) = IF ~IsBlank(x) \/ Open(s) THEN Append(Kept(s), x) ELSE Kept(s)
<1>1. PICK n \in Nat : n = Len(s)
  OBVIOUS
<1>2. PICK t \in Seq(Line) : t = Append(s, x)
  BY AppendProperties
<1>3. Len(t) = n + 1 /\ t[n + 1] = x /\ \A k \in 1 .. n : t[k] = s[k]
  BY <1>1, <1>2, AppendProperties
<1>4. DOMAIN s = 1 .. n /\ DOMAIN t = 1 .. n + 1
  BY <1>1, <1>3
<1>5. ASSUME NEW k \in 1 .. n PROVE k \in Singled(s) <=> k \in Singled(t)
  <2>1. t[k] = s[k] /\ (k > 1 => t[k - 1] = s[k - 1]) /\ k \in DOMAIN s /\ k \in DOMAIN t
    BY <1>3, <1>4
  <2> QED BY <2>1 DEF Singled
<1>6. n + 1 \in Singled(t) <=> ~IsBlank(x) \/ Open(s)
  <2>1. n + 1 \in DOMAIN t /\ (n + 1) - 1 = n
    BY <1>4
  <2>2. n + 1 \in Singled(t) <=> ~IsBlank(x) \/ (n + 1 > 1 /\ ~IsBlank(t[n]))
    BY <1>3, <2>1 DEF Singled
  <2>3. n + 1 > 1 => t[n] = s[n]
    BY <1>3
  <2>4. n + 1 > 1 <=> n # 0
    OBVIOUS
  <2> QED BY <1>1, <2>2, <2>3, <2>4 DEF Open
<1>7. Chu!Picked(t, Singled(t)) = IF n + 1 \in Singled(t) THEN Append(Chu!Picked(s, Singled(s)), x)
                                                         ELSE Chu!Picked(s, Singled(s))
  BY <1>1, <1>2, <1>5, PickedMore
<1> QED BY <1>2, <1>6, <1>7 DEF Kept

LEMMA SqueezedStep ==
  ASSUME NEW s \in Seq(Line), NEW x \in Line
  PROVE  Squeezed(Append(s, x)) = IF IsBlank(x) THEN Squeezed(s) ELSE Append(Kept(s), x)
<1>1. PICK n \in Nat : n = Len(s)
  OBVIOUS
<1>2. PICK t \in Seq(Line) : t = Append(s, x)
  BY AppendProperties
<1>3. Len(t) = n + 1 /\ t[n + 1] = x /\ \A k \in 1 .. n : t[k] = s[k]
  BY <1>1, <1>2, AppendProperties
<1>4. DOMAIN s = 1 .. n /\ DOMAIN t = 1 .. n + 1
  BY <1>1, <1>3
<1>5. CASE IsBlank(x)
  <2>1. ASSUME NEW k \in 1 .. n PROVE k \in Unspaced(s) <=> k \in Unspaced(t)
    <3>1. t[k] = s[k] /\ (k > 1 => t[k - 1] = s[k - 1]) /\ k \in DOMAIN s /\ k \in DOMAIN t
      BY <1>3, <1>4
    <3>2. (\E j \in k .. n + 1 : ~(t[j].kind = "blank")) <=> \E j \in k .. n : ~(s[j].kind = "blank")
      <4>1. ASSUME NEW j \in k .. n + 1, ~(t[j].kind = "blank") PROVE j \in k .. n /\ t[j] = s[j]
        <5>1. j # n + 1
          BY <1>3, <1>5, <4>1 DEF IsBlank
        <5>2. j \in k .. n /\ j \in 1 .. n
          BY <5>1
        <5> QED BY <1>3, <5>2
      <4>2. ASSUME NEW j \in k .. n PROVE j \in k .. n + 1 /\ t[j] = s[j]
        <5>1. j \in 1 .. n
          OBVIOUS
        <5> QED BY <1>3, <5>1
      <4> QED BY <4>1, <4>2
    <3> QED BY <1>1, <1>3, <3>1, <3>2 DEF Unspaced
  <2>2. n + 1 \notin Unspaced(t)
    <3>1. \A j \in n + 1 .. n + 1 : j = n + 1
      OBVIOUS
    <3> QED BY <1>3, <1>5, <3>1 DEF Unspaced, IsBlank
  <2>3. Chu!Picked(t, Unspaced(t))
          = IF n + 1 \in Unspaced(t) THEN Append(Chu!Picked(s, Unspaced(s)), x) ELSE Chu!Picked(s, Unspaced(s))
    BY <1>1, <1>2, <2>1, PickedMore
  <2> QED BY <1>2, <1>5, <2>2, <2>3 DEF Squeezed
<1>6. CASE ~IsBlank(x)
  <2>1. ASSUME NEW k \in 1 .. n PROVE k \in Singled(s) <=> k \in Unspaced(t)
    <3>1. t[k] = s[k] /\ (k > 1 => t[k - 1] = s[k - 1]) /\ k \in DOMAIN s /\ k \in DOMAIN t
      BY <1>3, <1>4
    <3>2. n + 1 \in k .. Len(t) /\ ~(t[n + 1].kind = "blank")
      BY <1>3, <1>6 DEF IsBlank
    <3> QED BY <3>1, <3>2 DEF Unspaced, Singled, IsBlank
  <2>2. n + 1 \in Unspaced(t)
    BY <1>3, <1>4, <1>6 DEF Unspaced, IsBlank
  <2>3. Chu!Picked(t, Unspaced(t))
          = IF n + 1 \in Unspaced(t) THEN Append(Chu!Picked(s, Singled(s)), x) ELSE Chu!Picked(s, Singled(s))
    BY <1>1, <1>2, <2>1, PickedMore
  <2> QED BY <1>2, <1>6, <2>2, <2>3 DEF Squeezed, Kept
<1> QED BY <1>5, <1>6

LEMMA KeptOpen ==
  ASSUME NEW s \in Seq(Line)
  PROVE  Kept(s) \in Seq(Line) /\ Squeezed(s) \in Seq(Line) /\ (Open(Kept(s)) <=> Open(s))
<1>1. \A r \in Seq(Line) : Kept(r) \in Seq(Line) /\ Squeezed(r) \in Seq(Line)
  BY PickedType DEF Kept, Squeezed
<1>2. PICK T : T = {r \in Seq(Line) : Open(Kept(r)) <=> Open(r)}
  OBVIOUS
<1>3. <<>> \in T
  BY <1>2, OpenNone, EmptySeq
<1>4. ASSUME NEW r \in Seq(Line), NEW x \in Line, r \in T PROVE Append(r, x) \in T
  <2>1. PICK k \in Seq(Line), t \in Seq(Line) : k = Kept(r) /\ t = Append(r, x)
    BY <1>1, AppendProperties
  <2>2. (Open(k) <=> Open(r)) /\ (Open(t) <=> ~IsBlank(x)) /\ (Open(Append(k, x)) <=> ~IsBlank(x))
    BY <1>2, <1>4, <2>1, OpenMore
  <2>3. Kept(t) = IF ~IsBlank(x) \/ Open(r) THEN Append(k, x) ELSE k
    BY <2>1, KeptStep
  <2>4. Open(Kept(t)) <=> Open(t)
    <3>1. CASE ~IsBlank(x) \/ Open(r)
      BY <2>2, <2>3, <3>1
    <3>2. CASE ~(~IsBlank(x) \/ Open(r))
      BY <2>2, <2>3, <3>2 DEF Open
    <3> QED BY <3>1, <3>2
  <2> QED BY <1>2, <2>1, <2>4
<1>5. s \in T
  BY <1>3, <1>4, BySequence
<1> QED BY <1>1, <1>2, <1>5

LEMMA KeptMore ==
  ASSUME NEW s \in Seq(Line), NEW x \in Line
  PROVE  Kept(Append(s, x)) = Add(Kept(s), x)
<1>1. Open(Kept(s)) <=> Open(s)
  BY KeptOpen
<1> QED BY <1>1, KeptStep DEF Add

(* What is squeezed is what was kept, without a blank line at its end.     *)
Ends(k, z) ==
  \/ Open(k) /\ k = z
  \/ ~Open(k) /\ k = <<>> /\ z = <<>>
  \/ ~Open(k) /\ Open(z) /\ \E b \in Line : IsBlank(b) /\ k = Append(z, b)

LEMMA SqueezedEnds ==
  ASSUME NEW s \in Seq(Line)
  PROVE  Ends(Kept(s), Squeezed(s))
<1>1. PICK T : T = {r \in Seq(Line) : Ends(Kept(r), Squeezed(r))}
  OBVIOUS
<1>2. <<>> \in T
  BY <1>1, OpenNone, EmptySeq DEF Ends
<1>3. ASSUME NEW r \in Seq(Line), NEW x \in Line, r \in T PROVE Append(r, x) \in T
  <2>1. PICK k \in Seq(Line), z \in Seq(Line), t \in Seq(Line) :
          k = Kept(r) /\ z = Squeezed(r) /\ t = Append(r, x)
    BY KeptOpen, AppendProperties
  <2>2. Ends(k, z)
    BY <1>1, <1>3, <2>1
  <2>3. Open(Append(k, x)) <=> ~IsBlank(x)
    BY OpenMore
  <2>4. Kept(t) = Add(k, x) /\ Squeezed(t) = IF IsBlank(x) THEN z ELSE Append(k, x)
    BY <2>1, KeptMore, SqueezedStep
  <2> SUFFICES Ends(Kept(t), Squeezed(t))
    BY <1>1, <2>1
  <2>5. CASE ~IsBlank(x)
    <3>1. Kept(t) = Append(k, x) /\ Squeezed(t) = Append(k, x)
      BY <2>4, <2>5 DEF Add
    <3>2. Open(Kept(t))
      BY <2>3, <2>5, <3>1
    <3> QED BY <3>1, <3>2 DEF Ends
  <2>6. CASE IsBlank(x) /\ Open(k)
    <3>1. Kept(t) = Append(z, x) /\ Squeezed(t) = z /\ k = z
      BY <2>2, <2>4, <2>6 DEF Ends, Add
    <3>2. ~Open(Kept(t)) /\ Open(z)
      BY <2>3, <2>6, <3>1
    <3>3. \E b \in Line : IsBlank(b) /\ Kept(t) = Append(Squeezed(t), b)
      BY <2>6, <3>1
    <3> QED BY <3>1, <3>2, <3>3 DEF Ends
  <2>7. CASE IsBlank(x) /\ ~Open(k)
    <3>1. Kept(t) = k /\ Squeezed(t) = z
      BY <2>4, <2>7 DEF Add
    <3> QED BY <2>2, <3>1
  <2> QED BY <2>5, <2>6, <2>7
<1> QED BY <1>1, <1>2, <1>3, BySequence

(* After a blank line a text is squeezed as if it stood alone.             *)
Splits(u, r) ==
  /\ Kept(u \o r) = Kept(u) \o Kept(r)
  /\ Squeezed(u \o r) = IF Squeezed(r) = <<>> THEN Squeezed(u) ELSE Kept(u) \o Squeezed(r)

LEMMA SqueezedApart ==
  ASSUME NEW u \in Seq(Line), NEW s \in Seq(Line), ~Open(u)
  PROVE  Splits(u, s)
<1>0. PICK k \in Seq(Line) : k = Kept(u) /\ ~Open(k)
  <2>1. Kept(u) \in Seq(Line) /\ (Open(Kept(u)) <=> Open(u))
    BY KeptOpen
  <2> QED BY <2>1
<1>1. PICK T : T = {r \in Seq(Line) : Splits(u, r) /\ (Open(u \o r) <=> Open(r))}
  OBVIOUS
<1>2. <<>> \in T
  <2>1. u \o <<>> = u /\ k \o <<>> = k
    BY ConcatEmptySeq
  <2> QED BY <1>0, <1>1, <2>1, OpenNone, EmptySeq DEF Splits
<1>3. ASSUME NEW r \in Seq(Line), NEW x \in Line, r \in T PROVE Append(r, x) \in T
  <2>1. PICK kr \in Seq(Line), zr \in Seq(Line), t \in Seq(Line), v \in Seq(Line) :
          kr = Kept(r) /\ zr = Squeezed(r) /\ t = Append(r, x) /\ v = u \o r
    BY KeptOpen, AppendProperties, ConcatProperties
  <2>2. u \o t = Append(v, x) /\ k \o Append(kr, x) = Append(k \o kr, x) /\ Append(kr, x) # <<>>
    <3>1. u \o Append(r, x) = Append(u \o r, x)
      BY JoinAppend
    <3>2. k \o Append(kr, x) = Append(k \o kr, x)
      BY <1>0, <2>1, JoinAppend
    <3>3. Append(kr, x) # <<>>
      BY <2>1, AppendProperties
    <3> QED BY <2>1, <3>1, <3>2, <3>3
  <2>3. Kept(v) = k \o kr /\ Squeezed(v) = (IF zr = <<>> THEN Squeezed(u) ELSE k \o zr) /\ (Open(v) <=> Open(r))
    BY <1>0, <1>1, <1>3, <2>1 DEF Splits
  <2>4. /\ Kept(Append(v, x)) = IF ~IsBlank(x) \/ Open(v) THEN Append(Kept(v), x) ELSE Kept(v)
        /\ Squeezed(Append(v, x)) = IF IsBlank(x) THEN Squeezed(v) ELSE Append(Kept(v), x)
        /\ Kept(t) = IF ~IsBlank(x) \/ Open(r) THEN Append(kr, x) ELSE kr
        /\ Squeezed(t) = IF IsBlank(x) THEN zr ELSE Append(kr, x)
    BY <2>1, KeptStep, SqueezedStep
  <2>5. Open(u \o t) <=> Open(t)
    BY <2>1, <2>2, OpenMore
  <2>6. Kept(u \o t) = k \o Kept(t)
    BY <2>2, <2>3, <2>4
  <2>7. Squeezed(u \o t) = IF Squeezed(t) = <<>> THEN Squeezed(u) ELSE k \o Squeezed(t)
    BY <2>2, <2>3, <2>4
  <2> QED BY <1>0, <1>1, <2>1, <2>5, <2>6, <2>7 DEF Splits
<1> QED BY <1>1, <1>2, <1>3, BySequence

-----------------------------------------------------------------------------
(* A line with the blank lines around it, if n fences of F come up to it.  *)
Closed(l, n, F) ==
  LET opens == IF l.kind = "fence" /\ n % 2 = 0 THEN n - 1 ELSE n
  IN opens % 2 = 1 /\ F > opens
Alone(l, n, F) == l.kind = "heading" /\ ~Closed(l, n, F)
BlankBefore(l, n, F) == (l.kind = "fence" /\ Closed(l, n, F) /\ n % 2 = 1) \/ Alone(l, n, F)
BlankAfter(l, n, F) == (l.kind = "fence" /\ Closed(l, n, F) /\ ~(n % 2 = 1)) \/ Alone(l, n, F)
Dress(l, n, F) ==
  (IF BlankBefore(l, n, F) THEN <<Chu!BlankLine>> ELSE <<>>) \o <<l>>
  \o (IF BlankAfter(l, n, F) THEN <<Chu!BlankLine>> ELSE <<>>)
Dressed(s, F) == Chu!FlattenSeq([i \in DOMAIN s |-> Dress(s[i], Count(s, i), F)])

LEMMA BlankIs == Chu!BlankLine \in Line /\ IsBlank(Chu!BlankLine) /\ ~IsFence(Chu!BlankLine)
BY GivenLines DEF Chu!BlankLine, IsBlank, IsFence

LEMMA BlankStands ==
  ASSUME NEW l, NEW n, NEW F, IsBlank(l)
  PROVE  ~BlankBefore(l, n, F) /\ ~BlankAfter(l, n, F) /\ ~IsFence(l)
BY DEF IsBlank, IsFence, BlankBefore, BlankAfter, Alone

LEMMA DressType ==
  ASSUME NEW l \in Line, NEW n, NEW F
  PROVE  Dress(l, n, F) \in Seq(Line)
<1>1. PICK b \in Seq(Line), none \in Seq(Line), one \in Seq(Line) :
        b = <<Chu!BlankLine>> /\ none = <<>> /\ one = <<l>>
  <2>1. <<Chu!BlankLine>> \in Seq(Line) /\ <<l>> \in Seq(Line) /\ <<>> \in Seq(Line)
    BY BlankIs
  <2> QED BY <2>1
<1>2. PICK x \in Seq(Line), y \in Seq(Line) :
        x = (IF BlankBefore(l, n, F) THEN b ELSE none) /\ y = IF BlankAfter(l, n, F) THEN b ELSE none
  BY <1>1
<1>3. x \o one \in Seq(Line)
  BY <1>1, <1>2, LinesBoth
<1>4. (x \o one) \o y \in Seq(Line)
  BY <1>2, <1>3, LinesBoth
<1> QED BY <1>1, <1>2, <1>4 DEF Dress

LEMMA DressedMore ==
  ASSUME NEW s \in Seq(Line), NEW l \in Line, NEW F
  PROVE  /\ Dressed(s, F) \in Seq(Line) /\ Dressed(<<>>, F) = <<>>
         /\ Dressed(Append(s, l), F) = Dressed(s, F) \o Dress(l, CountAll(s) + One(l), F)
<1>1. PICK n \in Nat : n = Len(s) /\ DOMAIN s = 1 .. n
  OBVIOUS
<1>2. PICK t \in Seq(Line) : t = Append(s, l)
  BY AppendProperties
<1>3. Len(t) = n + 1 /\ t[n + 1] = l /\ \A k \in 1 .. n : t[k] = s[k]
  BY <1>1, <1>2, AppendProperties
<1>4. \A i \in 1 .. n : Count(t, i) = Count(s, i)
  BY <1>1, <1>2, CountMore
<1>5. Count(t, n + 1) = CountAll(s) + One(l)
  <2>1. CountAll(t) = CountAll(s) + One(l)
    BY <1>2, CountMore
  <2> QED BY <1>3, <2>1 DEF CountAll
<1>6. PICK d \in Seq(Line) : d = Dress(l, CountAll(s) + One(l), F)
  BY DressType
<1>7. PICK ss : ss = [i \in 1 .. n |-> Dress(s[i], Count(s, i), F)]
  OBVIOUS
<1>8. ss \in Seq(Seq(Line)) /\ Len(ss) = n
  <2>1. ASSUME NEW i \in 1 .. n PROVE Dress(s[i], Count(s, i), F) \in Seq(Line)
    <3>1. s[i] \in Line
      BY <1>1
    <3> QED BY <3>1, DressType
  <2>2. ss \in [1 .. n -> Seq(Line)]
    BY <1>7, <2>1
  <2> QED BY <2>2
<1>9. [i \in DOMAIN t |-> Dress(t[i], Count(t, i), F)] = Append(ss, d)
  <2>1. PICK tt : tt = [i \in 1 .. n + 1 |-> Dress(t[i], Count(t, i), F)]
    OBVIOUS
  <2>2. tt \in Seq(Seq(Line)) /\ Len(tt) = n + 1
    <3>1. ASSUME NEW i \in 1 .. n + 1 PROVE Dress(t[i], Count(t, i), F) \in Seq(Line)
      <4>1. t[i] \in Line
        BY <1>3
      <4> QED BY <4>1, DressType
    <3>2. tt \in [1 .. n + 1 -> Seq(Line)]
      BY <2>1, <3>1
    <3> QED BY <3>2
  <2>3. tt[n + 1] = d
    BY <1>3, <1>5, <1>6, <2>1
  <2>4. ASSUME NEW k \in 1 .. n PROVE tt[k] = ss[k]
    <3>1. k \in 1 .. n + 1
      OBVIOUS
    <3> QED BY <1>3, <1>4, <1>7, <2>1, <3>1
  <2>5. Append(ss, d) \in Seq(Seq(Line)) /\ Len(Append(ss, d)) = n + 1
        /\ Append(ss, d)[n + 1] = d /\ \A k \in 1 .. n : Append(ss, d)[k] = ss[k]
    BY <1>8, AppendProperties
  <2>6. \A k \in 1 .. n + 1 : tt[k] = Append(ss, d)[k]
    BY <2>3, <2>4, <2>5
  <2>7. tt = Append(ss, d)
    BY <2>2, <2>5, <2>6, SeqEqual
  <2>8. DOMAIN t = 1 .. n + 1
    BY <1>3
  <2> QED BY <2>1, <2>7, <2>8
<1>10. Chu!FlattenSeq(ss) \in Seq(Line) /\ Chu!FlattenSeq(Append(ss, d)) = Chu!FlattenSeq(ss) \o d
  BY <1>6, <1>8, FlattenMore
<1>11. Dressed(<<>>, F) = <<>>
  <2>1. [i \in DOMAIN <<>> |-> Dress(<<>>[i], Count(<<>>, i), F)] = <<>>
    OBVIOUS
  <2> QED BY <2>1, EmptySeq DEF Dressed, Chu!FlattenSeq
<1> QED BY <1>1, <1>2, <1>6, <1>7, <1>9, <1>10, <1>11 DEF Dressed

LEMMA SanitizeIs ==
  ASSUME NEW s \in Seq(Line)
  PROVE  Chu!Sanitize(s) = Squeezed(Dressed(s, CountAll(s)))
<1>1. Chu!Sanitize(s) = Chu!Picked(Spaced(s), Unspaced(Spaced(s)))
  BY DEF Chu!Sanitize, Spaced, Unspaced, Spacing
<1>2. ASSUME NEW i \in DOMAIN s PROVE Spacing(s, i) = Dress(s[i], Count(s, i), CountAll(s))
  <2>1. Chu!InClosedCode(s, i) = Closed(s[i], Count(s, i), CountAll(s))
    BY DEF Chu!InClosedCode, Closed, Count, CountAll
  <2>2. Chu!IsOdd(Chu!Fences(s, i)) = (Count(s, i) % 2 = 1)
    BY DEF Chu!IsOdd, Count
  <2> QED BY <2>1, <2>2 DEF Spacing, Dress, BlankBefore, BlankAfter, Alone
<1>3. Spaced(s) = Dressed(s, CountAll(s))
  BY <1>2 DEF Spaced, Dressed
<1> QED BY <1>1, <1>3 DEF Squeezed

-----------------------------------------------------------------------------
(* What is kept grows by a line and the blank lines around it.             *)
Put(k, l, n, F) ==
  LET a == IF BlankBefore(l, n, F) THEN Add(k, Chu!BlankLine) ELSE k
  IN IF BlankAfter(l, n, F) THEN Add(Add(a, l), Chu!BlankLine) ELSE Add(a, l)

LEMMA AddType ==
  ASSUME NEW k \in Seq(Line), NEW x \in Line
  PROVE  Add(k, x) \in Seq(Line)
BY AppendProperties DEF Add

LEMMA KeptPut ==
  ASSUME NEW r \in Seq(Line), NEW l \in Line, NEW n, NEW F
  PROVE  Kept(r \o Dress(l, n, F)) = Put(Kept(r), l, n, F)
<1>1. PICK b \in Line : b = Chu!BlankLine
  BY BlankIs
<1>2. PICK p \in Seq(Line) : p = IF BlankBefore(l, n, F) THEN Append(r, b) ELSE r
  BY AppendProperties
<1>3. PICK q \in Seq(Line), s \in Seq(Line) : q = Append(p, l) /\ s = IF BlankAfter(l, n, F) THEN Append(q, b) ELSE q
  BY AppendProperties
<1>4. r \o Dress(l, n, F) = s
  <2>1. PICK lb \in Seq(Line), lo \in Seq(Line), le \in Seq(Line) : lb = <<b>> /\ lo = <<l>> /\ le = <<>>
    <3>1. <<b>> \in Seq(Line) /\ <<l>> \in Seq(Line) /\ <<>> \in Seq(Line)
      BY <1>1
    <3> QED BY <3>1
  <2>2. PICK x \in Seq(Line), y \in Seq(Line) :
          x = (IF BlankBefore(l, n, F) THEN lb ELSE le) /\ y = IF BlankAfter(l, n, F) THEN lb ELSE le
    BY <2>1
  <2>3. Dress(l, n, F) = (x \o lo) \o y
    BY <1>1, <2>1, <2>2 DEF Dress
  <2>4. p = r \o x
    <3>1. r \o <<>> = r /\ Append(r, b) = r \o <<b>>
      BY AppendIsConcat, ConcatEmptySeq
    <3> QED BY <1>2, <2>1, <2>2, <3>1
  <2>5. q = p \o lo
    BY <1>3, <2>1, AppendIsConcat
  <2>6. s = q \o y
    <3>1. q \o <<>> = q /\ Append(q, b) = q \o <<b>>
      BY AppendIsConcat, ConcatEmptySeq
    <3> QED BY <1>3, <2>1, <2>2, <3>1
  <2>7. (r \o x) \o lo = r \o (x \o lo) /\ x \o lo \in Seq(Line)
    <3>1. x \o lo \in Seq(Line)
      BY <2>1, <2>2, LinesBoth
    <3>2. Regroups(r, x, lo)
      BY <2>1, <2>2, Regrouping
    <3> QED BY <3>1, <3>2 DEF Regroups
  <2>8. (r \o (x \o lo)) \o y = r \o ((x \o lo) \o y)
    <3>1. PICK w \in Seq(Line) : w = x \o lo
      BY <2>7
    <3>2. Regroups(r, w, y)
      BY <2>2, <3>1, Regrouping
    <3> QED BY <3>1, <3>2 DEF Regroups
  <2> QED BY <2>3, <2>4, <2>5, <2>6, <2>7, <2>8
<1>5. PICK a \in Seq(Line) : a = Kept(p) /\ a = IF BlankBefore(l, n, F) THEN Add(Kept(r), b) ELSE Kept(r)
  <2>1. Kept(p) \in Seq(Line) /\ Kept(Append(r, b)) = Add(Kept(r), b)
    BY KeptOpen, KeptMore
  <2> QED BY <1>2, <2>1
<1>6. Kept(q) = Add(a, l)
  BY <1>3, <1>5, KeptMore
<1>7. Kept(s) = IF BlankAfter(l, n, F) THEN Add(Kept(q), b) ELSE Kept(q)
  BY <1>3, KeptMore
<1> QED BY <1>1, <1>4, <1>5, <1>6, <1>7 DEF Put

LEMMA KeptDressed ==
  ASSUME NEW s \in Seq(Line), NEW l \in Line, NEW F
  PROVE  /\ Kept(Dressed(s, F)) \in Seq(Line) /\ Kept(Dressed(<<>>, F)) = <<>>
         /\ Kept(Dressed(Append(s, l), F)) = Put(Kept(Dressed(s, F)), l, CountAll(s) + One(l), F)
<1>1. PICK r \in Seq(Line) : r = Dressed(s, F)
  BY DressedMore
<1>2. Dressed(Append(s, l), F) = r \o Dress(l, CountAll(s) + One(l), F) /\ Dressed(<<>>, F) = <<>>
  BY <1>1, DressedMore
<1> QED BY <1>1, <1>2, KeptOpen, KeptPut, OpenNone

(* Lines that are kept are kept again.                                     *)
Settled(k, F) == Kept(Dressed(k, F)) = k

LEMMA PutSettles ==
  ASSUME NEW k \in Seq(Line), NEW l \in Line, NEW n, NEW F, Settled(k, F), n = CountAll(k) + One(l)
  PROVE  /\ Put(k, l, n, F) \in Seq(Line) /\ Settled(Put(k, l, n, F), F)
         /\ CountAll(Put(k, l, n, F)) = n
<1>1. PICK b \in Line : b = Chu!BlankLine /\ IsBlank(b) /\ One(b) = 0
  BY BlankIs DEF One
<1>2. ASSUME NEW h \in Seq(Line), Settled(h, F), NEW x \in Line, IsBlank(x)
      PROVE  /\ Add(h, x) \in Seq(Line) /\ Settled(Add(h, x), F) /\ ~Open(Add(h, x))
             /\ CountAll(Add(h, x)) = CountAll(h) /\ One(x) = 0
  <2>1. One(x) = 0
    BY <1>2, BlankStands DEF One
  <2>2. CASE Open(h)
    <3>1. PICK t \in Seq(Line) : t = Append(h, x) /\ t = Add(h, x)
      BY <2>2, AppendProperties DEF Add
    <3>2. Kept(Dressed(t, F)) = Put(h, x, CountAll(h) + One(x), F)
      <4>1. Kept(Dressed(Append(h, x), F)) = Put(Kept(Dressed(h, F)), x, CountAll(h) + One(x), F)
        BY <1>2, KeptDressed
      <4> QED BY <1>2, <3>1, <4>1 DEF Settled
    <3>3. Put(h, x, CountAll(h) + One(x), F) = Add(h, x)
      BY <1>2, BlankStands DEF Put
    <3>4. CountAll(t) = CountAll(h) + One(x) /\ CountAll(h) \in Nat
      BY <3>1, CountMore
    <3>5. ~Open(t)
      BY <1>2, <3>1, OpenMore
    <3> QED BY <2>1, <3>1, <3>2, <3>3, <3>4, <3>5 DEF Settled
  <2>3. CASE ~Open(h)
    BY <1>2, <2>1, <2>3 DEF Add
  <2> QED BY <2>2, <2>3
<1>3. CASE IsBlank(l)
  <2>1. Put(k, l, n, F) = Add(k, l)
    BY <1>3, BlankStands DEF Put
  <2>2. CountAll(k) \in Nat
    BY CountMore
  <2> QED BY <1>2, <1>3, <2>1, <2>2
<1>4. CASE ~IsBlank(l)
  <2>1. PICK a \in Seq(Line) :
          /\ a = IF BlankBefore(l, n, F) THEN Add(k, b) ELSE k
          /\ Settled(a, F) /\ CountAll(a) = CountAll(k) /\ (BlankBefore(l, n, F) => ~Open(a))
    BY <1>1, <1>2
  <2>2. PICK t \in Seq(Line) : t = Append(a, l) /\ t = Add(a, l)
    BY <1>4, AppendProperties DEF Add
  <2>3. CountAll(t) = n /\ Open(t)
    <3>1. CountAll(t) = CountAll(a) + One(l) /\ Open(t)
      BY <1>4, <2>2, CountMore, OpenMore
    <3> QED BY <2>1, <3>1
  <2>4. PICK e \in Seq(Line) : e = Append(t, b) /\ e = Add(t, b) /\ ~Open(e)
    BY <1>1, <2>3, AppendProperties, OpenMore DEF Add
  <2>5. Put(k, l, n, F) = IF BlankAfter(l, n, F) THEN e ELSE t
    BY <1>1, <2>1, <2>2, <2>4 DEF Put
  <2>6. Kept(Dressed(t, F)) = Put(a, l, n, F)
    <3>1. Kept(Dressed(t, F)) = Put(a, l, CountAll(a) + One(l), F)
      BY <2>1, <2>2, KeptDressed DEF Settled
    <3> QED BY <2>1, <3>1
  <2>7. Put(a, l, n, F) = IF BlankAfter(l, n, F) THEN e ELSE t
    <3>1. BlankBefore(l, n, F) => Add(a, b) = a
      BY <1>1, <2>1 DEF Add
    <3> QED BY <1>1, <2>2, <2>4, <3>1 DEF Put
  <2>8. CASE ~BlankAfter(l, n, F)
    BY <2>2, <2>3, <2>5, <2>6, <2>7, <2>8 DEF Settled
  <2>9. CASE BlankAfter(l, n, F)
    <3>1. Kept(Dressed(t, F)) = e
      BY <2>6, <2>7, <2>9
    <3>2. Kept(Dressed(e, F)) = Put(e, b, CountAll(t) + One(b), F)
      <4>1. Kept(Dressed(Append(t, b), F)) = Put(Kept(Dressed(t, F)), b, CountAll(t) + One(b), F)
        BY <2>2, KeptDressed
      <4> QED BY <2>4, <3>1, <4>1
    <3>3. Put(e, b, CountAll(t) + One(b), F) = Add(e, b)
      BY <1>1, BlankStands DEF Put
    <3>4. Add(e, b) = e
      BY <1>1, <2>4 DEF Add
    <3>5. CountAll(e) = n
      <4>1. CountAll(e) = CountAll(t) + One(b) /\ CountAll(t) \in Nat
        BY <2>4, CountMore
      <4> QED BY <1>1, <2>3, <4>1
    <3> QED BY <2>4, <2>5, <2>9, <3>2, <3>3, <3>4, <3>5 DEF Settled
  <2> QED BY <2>8, <2>9
<1> QED BY <1>3, <1>4

-----------------------------------------------------------------------------
(* Lines without an H1 outside code.                                       *)
TopLine(l, n) == l.kind = "heading" /\ l.level = 1 /\ ~(n % 2 = 1)
NoH1(s) == \A i \in DOMAIN s : ~Chu!IsH1(s, i)

LEMMA H1Is ==
  ASSUME NEW s, NEW i
  PROVE  Chu!IsH1(s, i) <=> TopLine(s[i], Count(s, i))
BY DEF Chu!IsH1, TopLine, Chu!IsOdd, Count

LEMMA H1More ==
  ASSUME NEW s \in Seq(Line), NEW l \in Line
  PROVE  /\ \A i \in 1 .. Len(s) : Chu!IsH1(Append(s, l), i) <=> Chu!IsH1(s, i)
         /\ Chu!IsH1(Append(s, l), Len(s) + 1) <=> TopLine(l, CountAll(s) + One(l))
<1>1. PICK n \in Nat : n = Len(s)
  OBVIOUS
<1>2. PICK t \in Seq(Line) : t = Append(s, l)
  BY AppendProperties
<1>3. Len(t) = n + 1 /\ t[n + 1] = l /\ \A k \in 1 .. n : t[k] = s[k]
  BY <1>1, <1>2, AppendProperties
<1>4. \A i \in 1 .. n : Count(t, i) = Count(s, i)
  BY <1>1, <1>2, CountMore
<1>5. CountAll(t) = CountAll(s) + One(l) /\ CountAll(t) = Count(t, n + 1)
  BY <1>2, <1>3, CountMore DEF CountAll
<1>6. ASSUME NEW i \in 1 .. n PROVE Chu!IsH1(t, i) <=> Chu!IsH1(s, i)
  BY <1>3, <1>4, H1Is
<1>7. Chu!IsH1(t, n + 1) <=> TopLine(l, CountAll(s) + One(l))
  <2>1. Chu!IsH1(t, n + 1) <=> TopLine(t[n + 1], Count(t, n + 1))
    BY H1Is
  <2> QED BY <1>3, <1>5, <2>1
<1> QED BY <1>1, <1>2, <1>6, <1>7

LEMMA NoH1More ==
  ASSUME NEW s \in Seq(Line), NEW l \in Line
  PROVE  NoH1(Append(s, l)) <=> NoH1(s) /\ ~TopLine(l, CountAll(s) + One(l))
<1>1. PICK n \in Nat : n = Len(s) /\ DOMAIN s = 1 .. n
  OBVIOUS
<1>2. PICK t \in Seq(Line) : t = Append(s, l) /\ DOMAIN t = 1 .. n + 1
  <2>1. PICK t \in Seq(Line) : t = Append(s, l) /\ Len(t) = n + 1
    BY <1>1, AppendProperties
  <2> QED BY <2>1
<1>3. \A i \in 1 .. n : Chu!IsH1(t, i) <=> Chu!IsH1(s, i)
  BY <1>1, <1>2, H1More
<1>4. Chu!IsH1(t, n + 1) <=> TopLine(l, CountAll(s) + One(l))
  BY <1>1, <1>2, H1More
<1>5. NoH1(t) <=> (\A i \in 1 .. n : ~Chu!IsH1(t, i)) /\ ~Chu!IsH1(t, n + 1)
  <2>1. \A i \in 1 .. n + 1 : i \in 1 .. n \/ i = n + 1
    OBVIOUS
  <2>2. n + 1 \in 1 .. n + 1 /\ \A i \in 1 .. n : i \in 1 .. n + 1
    OBVIOUS
  <2> QED BY <1>2, <2>1, <2>2 DEF NoH1
<1>6. NoH1(s) <=> \A i \in 1 .. n : ~Chu!IsH1(s, i)
  BY <1>1 DEF NoH1
<1> QED BY <1>2, <1>3, <1>4, <1>5, <1>6

LEMMA NoH1None == NoH1(<<>>)
BY DEF NoH1

LEMMA AddNoH1 ==
  ASSUME NEW k \in Seq(Line), NEW x \in Line, NoH1(k), ~TopLine(x, CountAll(k) + One(x))
  PROVE  NoH1(Add(k, x))
BY NoH1More DEF Add

LEMMA AddBlank ==
  ASSUME NEW k \in Seq(Line)
  PROVE  /\ Add(k, Chu!BlankLine) \in Seq(Line)
         /\ CountAll(Add(k, Chu!BlankLine)) = CountAll(k)
         /\ NoH1(k) => NoH1(Add(k, Chu!BlankLine))
<1>1. PICK b \in Line : b = Chu!BlankLine /\ IsBlank(b) /\ One(b) = 0
  BY BlankIs DEF One
<1>2. \A n : ~TopLine(b, n)
  BY <1>1 DEF TopLine, IsBlank
<1>3. CountAll(Append(k, b)) = CountAll(k) /\ CountAll(k) \in Nat
  <2>1. CountAll(Append(k, b)) = CountAll(k) + One(b) /\ CountAll(k) \in Nat
    BY CountMore
  <2> QED BY <1>1, <2>1
<1>4. CountAll(Add(k, b)) = CountAll(k)
  BY <1>3 DEF Add
<1> QED BY <1>1, <1>2, <1>4, AddNoH1, AddType

LEMMA PutNoH1 ==
  ASSUME NEW k \in Seq(Line), NEW l \in Line, NEW n, NEW F, n = CountAll(k) + One(l),
         NoH1(k), ~TopLine(l, n)
  PROVE  NoH1(Put(k, l, n, F))
<1>1. PICK a \in Seq(Line) :
        /\ a = IF BlankBefore(l, n, F) THEN Add(k, Chu!BlankLine) ELSE k
        /\ CountAll(a) = CountAll(k) /\ NoH1(a)
  BY AddBlank
<1>2. PICK c \in Seq(Line) : c = Add(a, l) /\ NoH1(c)
  <2>1. ~TopLine(l, CountAll(a) + One(l))
    BY <1>1
  <2> QED BY <1>1, <2>1, AddNoH1, AddType
<1>3. NoH1(Add(c, Chu!BlankLine))
  BY <1>2, AddBlank
<1> QED BY <1>1, <1>2, <1>3 DEF Put

LEMMA KeptSettles ==
  ASSUME NEW s \in Seq(Line), NEW F
  PROVE  /\ Settled(Kept(Dressed(s, F)), F) /\ CountAll(Kept(Dressed(s, F))) = CountAll(s)
         /\ NoH1(s) => NoH1(Kept(Dressed(s, F)))
<1> DEFINE K(r) == Kept(Dressed(r, F))
           Good(r) == Settled(K(r), F) /\ CountAll(K(r)) = CountAll(r) /\ (NoH1(r) => NoH1(K(r)))
<1>1. PICK T : T = {r \in Seq(Line) : Good(r)}
  OBVIOUS
<1>2. <<>> \in T
  <2>1. K(<<>>) = <<>>
    BY DressedMore, OpenNone, EmptySeq, GivenLines
  <2>2. Settled(<<>>, F)
    BY <2>1 DEF Settled
  <2> QED BY <1>1, <2>1, <2>2, EmptySeq
<1>3. ASSUME NEW r \in Seq(Line), NEW l \in Line, r \in T PROVE Append(r, l) \in T
  <2>1. PICK k \in Seq(Line), t \in Seq(Line) : k = K(r) /\ t = Append(r, l)
    BY KeptDressed, AppendProperties
  <2>2. PICK n : n = CountAll(r) + One(l)
    OBVIOUS
  <2>3. K(t) = Put(k, l, n, F)
    BY <2>1, <2>2, KeptDressed
  <2>4. Settled(k, F) /\ CountAll(k) = CountAll(r) /\ (NoH1(r) => NoH1(k))
    BY <1>1, <1>3, <2>1
  <2>5. Settled(K(t), F) /\ CountAll(K(t)) = n
    BY <2>1, <2>2, <2>3, <2>4, PutSettles
  <2>6. CountAll(t) = n
    BY <2>1, <2>2, CountMore
  <2>7. ASSUME NoH1(t) PROVE NoH1(K(t))
    <3>1. NoH1(r) /\ ~TopLine(l, n)
      BY <2>1, <2>2, <2>7, NoH1More
    <3> QED BY <2>2, <2>3, <2>4, <3>1, PutNoH1
  <2>8. Good(t)
    BY <2>5, <2>6, <2>7
  <2> QED BY <1>1, <2>1, <2>8
<1>4. s \in T
  BY <1>1, <1>2, <1>3, BySequence
<1> QED BY <1>1, <1>4

-----------------------------------------------------------------------------
(* A text that was sanitized is sanitized.                                 *)
Tidy(z) == Squeezed(Dressed(z, CountAll(z))) = z

LEMMA AppendIs ==
  ASSUME NEW s \in Seq(Line), NEW x \in Line
  PROVE  /\ Append(s, x) # <<>>
         /\ \A r \in Seq(Line) : \A y \in Line : Append(s, x) = Append(r, y) => s = r
<1>1. Append(s, x) # <<>>
  BY AppendProperties
<1>2. ASSUME NEW r \in Seq(Line), NEW y \in Line, Append(s, x) = Append(r, y) PROVE s = r
  BY <1>2, AppendInjective
<1> QED BY <1>1, <1>2

LEMMA SanitizedIsTidy ==
  ASSUME NEW s \in Seq(Line)
  PROVE  Tidy(Chu!Sanitize(s)) /\ (NoH1(s) => NoH1(Chu!Sanitize(s)))
<1>1. PICK F \in Nat : F = CountAll(s)
  BY GivenLines, CountMore
<1>2. PICK r \in Seq(Line) : r = Dressed(s, F)
  BY GivenLines, DressedMore
<1>3. PICK k \in Seq(Line), z \in Seq(Line) : k = Kept(r) /\ z = Squeezed(r)
  BY KeptOpen
<1>4. Chu!Sanitize(s) = z
  BY <1>1, <1>2, <1>3, SanitizeIs
<1>5. Kept(Dressed(k, F)) = k /\ CountAll(k) = F /\ (NoH1(s) => NoH1(k))
  BY <1>1, <1>2, <1>3, KeptSettles DEF Settled
<1>6. PICK q \in Seq(Line) : q = Dressed(k, F)
  BY GivenLines, DressedMore
<1>7. PICK y \in Seq(Line) : y = Squeezed(q)
  BY KeptOpen
<1>8. Ends(k, z) /\ Ends(k, y)
  <2>1. Ends(Kept(r), Squeezed(r)) /\ Ends(Kept(q), Squeezed(q))
    BY SqueezedEnds
  <2> QED BY <1>3, <1>5, <1>6, <1>7, <2>1
<1>9. y = z
  <2>1. CASE Open(k)
    BY <1>8, <2>1 DEF Ends
  <2>2. CASE ~Open(k) /\ k = <<>>
    <3>1. ~(\E b \in Line : <<>> = Append(z, b)) /\ ~(\E b \in Line : <<>> = Append(y, b))
      BY <1>3, <1>7, AppendIs
    <3> QED BY <1>8, <2>2, <3>1 DEF Ends
  <2>3. CASE ~Open(k) /\ k # <<>>
    <3>1. PICK b \in Line, c \in Line : k = Append(z, b) /\ k = Append(y, c)
      BY <1>8, <2>3 DEF Ends
    <3>2. \A w \in Seq(Line) : \A x \in Line : Append(z, b) = Append(w, x) => z = w
      BY <1>3, <3>1, AppendIs
    <3> QED BY <1>7, <3>1, <3>2
  <2> QED BY <2>1, <2>2, <2>3
<1>10. CASE k = z
  <2>1. Squeezed(Dressed(z, F)) = z /\ CountAll(z) = F
    BY <1>5, <1>6, <1>7, <1>9, <1>10
  <2> QED BY <1>4, <1>5, <1>10, <2>1 DEF Tidy
<1>11. CASE k # z
  <2>1. PICK b \in Line : IsBlank(b) /\ k = Append(z, b)
    BY <1>8, <1>11 DEF Ends
  <2>2. One(b) = 0
    BY <2>1, BlankStands DEF One
  <2>3. CountAll(z) = F /\ (NoH1(k) => NoH1(z))
    <3>1. CountAll(k) = CountAll(z) + One(b) /\ CountAll(z) \in Nat
      BY <2>1, CountMore
    <3>2. NoH1(k) => NoH1(z)
      BY <2>1, NoH1More
    <3> QED BY <1>5, <2>2, <3>1, <3>2
  <2>4. PICK d \in Seq(Line) : d = Dressed(z, F)
    BY DressedMore, GivenLines
  <2>5. q = Append(d, b)
    <3>1. q = d \o Dress(b, CountAll(z) + One(b), F)
      BY <1>6, <2>1, <2>4, DressedMore
    <3>2. Dress(b, CountAll(z) + One(b), F) = <<b>>
      <4>1. PICK one \in Seq(Line) : one = <<b>>
        <5>1. <<b>> \in Seq(Line)
          OBVIOUS
        <5> QED BY <5>1
      <4>2. (<<>> \o one) \o <<>> = one
        BY <4>1, ConcatEmptySeq
      <4> QED BY <2>1, <4>1, <4>2, BlankStands DEF Dress
    <3> QED BY <2>4, <3>1, <3>2, AppendIsConcat
  <2>6. Squeezed(q) = Squeezed(d)
    BY <2>1, <2>4, <2>5, SqueezedStep
  <2> QED BY <1>4, <1>5, <1>7, <1>9, <2>3, <2>4, <2>6 DEF Tidy
<1> QED BY <1>10, <1>11

-----------------------------------------------------------------------------
(* Lines before a text that bring no fence do not change how it is read.   *)
LEMMA DressedApart ==
  ASSUME NEW u \in Seq(Line), NEW s \in Seq(Line), NEW F, CountAll(u) = 0
  PROVE  Dressed(u \o s, F) = Dressed(u, F) \o Dressed(s, F)
<1>0. PICK p \in Seq(Line) : p = Dressed(u, F)
  BY DressedMore, GivenLines
<1>1. PICK T : T = {r \in Seq(Line) : Dressed(u \o r, F) = p \o Dressed(r, F)}
  OBVIOUS
<1>2. <<>> \in T
  <2>1. u \o <<>> = u /\ p \o <<>> = p
    BY ConcatEmptySeq
  <2>2. Dressed(<<>>, F) = <<>>
    BY DressedMore, GivenLines
  <2> QED BY <1>0, <1>1, <2>1, <2>2, EmptySeq
<1>3. ASSUME NEW r \in Seq(Line), NEW x \in Line, r \in T PROVE Append(r, x) \in T
  <2>1. PICK v \in Seq(Line), t \in Seq(Line) : v = u \o r /\ t = Append(r, x)
    BY ConcatProperties, AppendProperties
  <2>2. u \o t = Append(v, x)
    BY <2>1, JoinAppend
  <2>3. CountAll(v) = CountAll(r)
    <3>1. CountAll(v) = CountAll(u) + CountAll(r) /\ CountAll(r) \in Nat
      BY <2>1, CountBoth, CountMore
    <3> QED BY <3>1
  <2>4. PICK d \in Seq(Line), e \in Seq(Line) : d = Dressed(r, F) /\ e = Dress(x, CountAll(r) + One(x), F)
    BY DressedMore, DressType
  <2>5. Dressed(v, F) = p \o d
    BY <1>1, <1>3, <2>1, <2>4
  <2>6. Dressed(t, F) = d \o e /\ Dressed(Append(v, x), F) = Dressed(v, F) \o e
    <3>1. Dressed(Append(r, x), F) = Dressed(r, F) \o Dress(x, CountAll(r) + One(x), F)
      BY DressedMore
    <3>2. Dressed(Append(v, x), F) = Dressed(v, F) \o Dress(x, CountAll(v) + One(x), F)
      BY <2>1, DressedMore
    <3> QED BY <2>1, <2>3, <2>4, <3>1, <3>2
  <2>7. Regroups(p, d, e)
    BY <1>0, <2>4, Regrouping
  <2>8. Dressed(u \o t, F) = p \o Dressed(t, F)
    BY <2>2, <2>5, <2>6, <2>7 DEF Regroups
  <2> QED BY <1>1, <2>1, <2>8
<1>4. s \in T
  BY <1>1, <1>2, <1>3, BySequence
<1> QED BY <1>0, <1>1, <1>4

LEMMA SanitizeApart ==
  ASSUME NEW u \in Seq(Line), NEW z \in Seq(Line), CountAll(u) = 0, Tidy(z),
         NEW d \in Seq(Line), d = Dressed(u, CountAll(z)), ~Open(d)
  PROVE  Chu!Sanitize(u \o z) = IF z = <<>> THEN Squeezed(d) ELSE Kept(d) \o z
<1>1. PICK F \in Nat : F = CountAll(z)
  BY GivenLines, CountMore
<1>2. PICK e \in Seq(Line) : e = Dressed(z, F)
  BY GivenLines, DressedMore
<1>3. u \o z \in Seq(Line) /\ CountAll(u \o z) = F
  BY <1>1, CountBoth, ConcatProperties
<1>4. Dressed(u \o z, F) = d \o e
  <2>1. Dressed(u \o z, F) = Dressed(u, F) \o Dressed(z, F)
    BY DressedApart
  <2> QED BY <1>1, <1>2, <2>1
<1>5. Squeezed(e) = z
  BY <1>1, <1>2 DEF Tidy
<1>6. Splits(d, e)
  BY <1>2, SqueezedApart
<1>7. Chu!Sanitize(u \o z) = Squeezed(d \o e)
  BY <1>3, <1>4, SanitizeIs
<1> QED BY <1>5, <1>6, <1>7 DEF Splits

(* The title, and the blank line under it, in front of a tidy text.        *)
LEMMA TitleDressed ==
  ASSUME NEW name \in Names, NEW F
  PROVE  /\ Dressed(<<Chu!BlankLine>>, F) = <<Chu!BlankLine>>
         /\ Dressed(<<Chu!TitleLine(name)>>, F) = <<Chu!BlankLine, Chu!TitleLine(name), Chu!BlankLine>>
         /\ Dressed(<<Chu!TitleLine(name), Chu!BlankLine>>, F)
              = <<Chu!BlankLine, Chu!TitleLine(name), Chu!BlankLine, Chu!BlankLine>>
         /\ CountAll(<<Chu!BlankLine>>) = 0 /\ CountAll(<<Chu!TitleLine(name)>>) = 0
         /\ CountAll(<<Chu!TitleLine(name), Chu!BlankLine>>) = 0
<1>1. PICK b \in Line, t \in Line : b = Chu!BlankLine /\ t = Chu!TitleLine(name)
  BY GivenLines
<1>2. IsBlank(b) /\ One(b) = 0 /\ One(t) = 0 /\ t.kind = "heading"
  BY <1>1, BlankIs DEF One, IsFence, Chu!TitleLine, Chu!Heading
<1>3. BlankBefore(t, 0, F) /\ BlankAfter(t, 0, F)
  BY <1>2 DEF BlankBefore, BlankAfter, Alone, Closed
<1>4. Dress(b, 0, F) = <<b>>
  <2>1. PICK one \in Seq(Line) : one = <<b>>
    <3>1. <<b>> \in Seq(Line)
      OBVIOUS
    <3> QED BY <3>1
  <2>2. (<<>> \o one) \o <<>> = one
    BY <2>1, ConcatEmptySeq
  <2>3. ~BlankBefore(b, 0, F) /\ ~BlankAfter(b, 0, F)
    BY <1>2, BlankStands
  <2> QED BY <2>1, <2>2, <2>3 DEF Dress
<1>5. Dress(t, 0, F) = <<b, t, b>>
  <2>1. PICK one \in Seq(Line), two \in Seq(Line) : one = <<b>> /\ two = <<b, t>>
    <3>1. <<b>> \in Seq(Line) /\ <<b, t>> \in Seq(Line)
      OBVIOUS
    <3> QED BY <3>1
  <2>2. two = Append(one, t) /\ <<b, t, b>> = Append(two, b)
    BY <2>1
  <2>3. Append(one, t) = one \o <<t>> /\ Append(two, b) = two \o <<b>>
    BY AppendIsConcat
  <2> QED BY <1>1, <1>3, <2>1, <2>2, <2>3 DEF Dress
<1>6. PICK e \in Seq(Line), l \in Seq(Line), m \in Seq(Line), n \in Seq(Line) :
        e = <<>> /\ l = <<b>> /\ m = <<t>> /\ n = <<t, b>>
  <2>1. <<>> \in Seq(Line) /\ <<b>> \in Seq(Line) /\ <<t>> \in Seq(Line) /\ <<t, b>> \in Seq(Line)
    OBVIOUS
  <2> QED BY <2>1
<1>7. l = Append(e, b) /\ m = Append(e, t) /\ n = Append(m, b)
  BY <1>6
<1>8. CountAll(e) = 0 /\ CountAll(l) = 0 /\ CountAll(m) = 0 /\ CountAll(n) = 0
  <2>1. CountAll(e) = 0
    BY <1>6, GivenLines, CountMore
  <2>2. CountAll(l) = CountAll(e) + One(b) /\ CountAll(m) = CountAll(e) + One(t) /\ CountAll(n) = CountAll(m) + One(b)
    BY <1>7, CountMore
  <2> QED BY <1>2, <2>1, <2>2
<1>9. Dressed(e, F) = <<>>
  BY <1>6, GivenLines, DressedMore
<1>10. /\ Dressed(l, F) = Dressed(e, F) \o Dress(b, 0, F) /\ Dressed(m, F) = Dressed(e, F) \o Dress(t, 0, F)
       /\ Dressed(n, F) = Dressed(m, F) \o Dress(b, 0, F)
  <2>1. CountAll(e) + One(b) = 0 /\ CountAll(e) + One(t) = 0 /\ CountAll(m) + One(b) = 0
    BY <1>2, <1>8
  <2>2. /\ Dressed(l, F) = Dressed(e, F) \o Dress(b, CountAll(e) + One(b), F)
        /\ Dressed(m, F) = Dressed(e, F) \o Dress(t, CountAll(e) + One(t), F)
        /\ Dressed(n, F) = Dressed(m, F) \o Dress(b, CountAll(m) + One(b), F)
    <3>1. Dressed(Append(e, b), F) = Dressed(e, F) \o Dress(b, CountAll(e) + One(b), F)
      BY DressedMore
    <3>2. Dressed(Append(e, t), F) = Dressed(e, F) \o Dress(t, CountAll(e) + One(t), F)
      BY DressedMore
    <3>3. Dressed(Append(m, b), F) = Dressed(m, F) \o Dress(b, CountAll(m) + One(b), F)
      BY DressedMore
    <3> QED BY <1>7, <3>1, <3>2, <3>3
  <2> QED BY <2>1, <2>2
<1>11. Dressed(l, F) = <<b>> /\ Dressed(m, F) = <<b, t, b>>
  BY <1>4, <1>5, <1>9, <1>10
<1>12. Dressed(n, F) = <<b, t, b, b>>
  <2>1. PICK three \in Seq(Line) : three = <<b, t, b>>
    <3>1. <<b, t, b>> \in Seq(Line)
      OBVIOUS
    <3> QED BY <3>1
  <2>2. <<b, t, b, b>> = Append(three, b)
    BY <2>1
  <2>3. Append(three, b) = three \o <<b>>
    BY AppendIsConcat
  <2> QED BY <1>4, <1>10, <1>11, <2>1, <2>2, <2>3
<1> QED BY <1>1, <1>6, <1>8, <1>11, <1>12

-----------------------------------------------------------------------------
(* The headings outside code: the first may go, the others are lowered.    *)
Lowered(l) == [l EXCEPT !.level = 2]
Shown(name, l, n, first) ==
  IF ~TopLine(l, n) THEN <<l>> ELSE IF Chu!IsTitle(name, l) /\ first THEN <<>> ELSE <<Lowered(l)>>

LEMMA ShownType ==
  ASSUME NEW name \in Names, NEW l \in Line, NEW n, NEW first
  PROVE  Shown(name, l, n, first) \in Seq(Line)
<1>1. PICK h \in Line : h = Lowered(l)
  BY GivenLines DEF Lowered
<1>2. <<l>> \in Seq(Line) /\ <<h>> \in Seq(Line) /\ <<>> \in Seq(Line)
  OBVIOUS
<1> QED BY <1>1, <1>2 DEF Shown

LEMMA NormalizedMore ==
  ASSUME NEW name \in Names, NEW s \in Seq(Line), NEW l \in Line
  PROVE  Chu!NormalizeHeadingLevels(name, Append(s, l))
           = Chu!NormalizeHeadingLevels(name, s) \o Shown(name, l, CountAll(s) + One(l), NoH1(s))
<1>1. PICK n \in Nat : n = Len(s) /\ DOMAIN s = 1 .. n
  OBVIOUS
<1>2. PICK t \in Seq(Line) : t = Append(s, l) /\ Len(t) = n + 1
  BY <1>1, AppendProperties
<1>3. t[n + 1] = l /\ \A k \in 1 .. n : t[k] = s[k]
  BY <1>1, <1>2, AppendProperties
<1>4. DOMAIN t = 1 .. n + 1
  BY <1>2
<1>5. \A i \in 1 .. n : Chu!IsH1(t, i) <=> Chu!IsH1(s, i)
  BY <1>1, <1>2, H1More
<1>6. Chu!IsH1(t, n + 1) <=> TopLine(l, CountAll(s) + One(l))
  BY <1>1, <1>2, H1More
<1>7. PICK d \in Seq(Line) : d = Shown(name, l, CountAll(s) + One(l), NoH1(s))
  BY ShownType
<1>8. PICK ss : ss = [i \in 1 .. n |-> Levelled(name, s, i)]
  OBVIOUS
<1>9. ss \in Seq(Seq(Line)) /\ Len(ss) = n
  <2>1. ss \in [1 .. n -> Seq(Line)]
    BY <1>1, <1>8, LineSuits, LevelledType
  <2> QED BY <2>1
<1>10. Levelled(name, t, n + 1) = d
  <2>1. (\A j \in 1 .. (n + 1) - 1 : ~Chu!IsH1(t, j)) <=> NoH1(s)
    <3>1. (n + 1) - 1 = n
      OBVIOUS
    <3> QED BY <1>1, <1>5, <3>1 DEF NoH1
  <2>2. CASE ~TopLine(l, CountAll(s) + One(l))
    BY <1>3, <1>6, <1>7, <2>2 DEF Levelled, Shown
  <2>3. CASE TopLine(l, CountAll(s) + One(l)) /\ Chu!IsTitle(name, l) /\ NoH1(s)
    BY <1>3, <1>6, <1>7, <2>1, <2>3 DEF Levelled, Shown
  <2>4. CASE TopLine(l, CountAll(s) + One(l)) /\ ~(Chu!IsTitle(name, l) /\ NoH1(s))
    BY <1>3, <1>6, <1>7, <2>1, <2>4 DEF Levelled, Shown, Lowered
  <2> QED BY <2>2, <2>3, <2>4
<1>11. ASSUME NEW i \in 1 .. n PROVE Levelled(name, t, i) = Levelled(name, s, i)
  <2>1. t[i] = s[i] /\ (Chu!IsH1(t, i) <=> Chu!IsH1(s, i))
    BY <1>3, <1>5
  <2>2. (\A j \in 1 .. i - 1 : ~Chu!IsH1(t, j)) <=> (\A j \in 1 .. i - 1 : ~Chu!IsH1(s, j))
    <3>1. \A j \in 1 .. i - 1 : j \in 1 .. n
      OBVIOUS
    <3> QED BY <1>5, <3>1
  <2> QED BY <2>1, <2>2 DEF Levelled
<1>12. [i \in DOMAIN t |-> Levelled(name, t, i)] = Append(ss, d)
  <2>1. PICK tt : tt = [i \in 1 .. n + 1 |-> Levelled(name, t, i)]
    OBVIOUS
  <2>2. tt \in Seq(Seq(Line)) /\ Len(tt) = n + 1
    <3>1. tt \in [1 .. n + 1 -> Seq(Line)]
      BY <1>4, <2>1, LineSuits, LevelledType
    <3> QED BY <3>1
  <2>3. tt[n + 1] = d
    BY <1>10, <2>1
  <2>4. ASSUME NEW k \in 1 .. n PROVE tt[k] = ss[k]
    <3>1. k \in 1 .. n + 1
      OBVIOUS
    <3> QED BY <1>8, <1>11, <2>1, <3>1
  <2>5. Append(ss, d) \in Seq(Seq(Line)) /\ Len(Append(ss, d)) = n + 1
        /\ Append(ss, d)[n + 1] = d /\ \A k \in 1 .. n : Append(ss, d)[k] = ss[k]
    BY <1>9, AppendProperties
  <2>6. \A k \in 1 .. n + 1 : tt[k] = Append(ss, d)[k]
    BY <2>3, <2>4, <2>5
  <2>7. tt = Append(ss, d)
    BY <2>2, <2>5, <2>6, SeqEqual
  <2> QED BY <1>4, <2>1, <2>7
<1>13. Chu!FlattenSeq(Append(ss, d)) = Chu!FlattenSeq(ss) \o d
  BY <1>7, <1>9, FlattenMore
<1>14. /\ Chu!NormalizeHeadingLevels(name, t) = Chu!FlattenSeq([i \in DOMAIN t |-> Levelled(name, t, i)])
       /\ Chu!NormalizeHeadingLevels(name, s) = Chu!FlattenSeq([i \in DOMAIN s |-> Levelled(name, s, i)])
  BY DEF Chu!NormalizeHeadingLevels, Levelled
<1> QED BY <1>1, <1>2, <1>7, <1>8, <1>12, <1>13, <1>14

LEMMA NormalizedNone ==
  ASSUME NEW name \in Names
  PROVE  Chu!NormalizeHeadingLevels(name, <<>>) = <<>>
<1>1. Chu!NormalizeHeadingLevels(name, <<>>) = Chu!FlattenSeq([i \in DOMAIN <<>> |-> Levelled(name, <<>>, i)])
  BY DEF Chu!NormalizeHeadingLevels, Levelled
<1>2. [i \in DOMAIN <<>> |-> Levelled(name, <<>>, i)] = <<>>
  OBVIOUS
<1> QED BY <1>1, <1>2, EmptySeq DEF Chu!FlattenSeq

(* No H1 is left outside code.                                             *)
LEMMA NormalizedIs ==
  ASSUME NEW name \in Names, NEW s \in Seq(Line)
  PROVE  /\ CountAll(Chu!NormalizeHeadingLevels(name, s)) = CountAll(s)
         /\ NoH1(Chu!NormalizeHeadingLevels(name, s))
<1>1. PICK T : T = {r \in Seq(Line) : /\ CountAll(Chu!NormalizeHeadingLevels(name, r)) = CountAll(r)
                                      /\ NoH1(Chu!NormalizeHeadingLevels(name, r))}
  OBVIOUS
<1>2. <<>> \in T
  BY <1>1, NormalizedNone, NoH1None, EmptySeq
<1>3. ASSUME NEW r \in Seq(Line), NEW l \in Line, r \in T PROVE Append(r, l) \in T
  <2>1. PICK t \in Seq(Line), h \in Seq(Line), n \in Nat :
          t = Append(r, l) /\ h = Chu!NormalizeHeadingLevels(name, r) /\ n = CountAll(r) + One(l)
    <3>1. CountAll(r) + One(l) \in Nat
      <4>1. CountAll(r) \in Nat /\ One(l) \in Nat
        BY CountMore DEF One
      <4> QED BY <4>1
    <3> QED BY <3>1, LineSuits, NormalizedType, AppendProperties
  <2>2. CountAll(h) = CountAll(r) /\ NoH1(h)
    BY <1>1, <1>3, <2>1
  <2>3. Chu!NormalizeHeadingLevels(name, t) = h \o Shown(name, l, n, NoH1(r))
    BY <2>1, NormalizedMore
  <2>4. CountAll(t) = n
    BY <2>1, CountMore
  <2>5. CASE ~TopLine(l, n)
    <3>1. Chu!NormalizeHeadingLevels(name, t) = Append(h, l)
      BY <2>1, <2>3, <2>5, AppendIsConcat DEF Shown
    <3>2. CountAll(Append(h, l)) = n /\ NoH1(Append(h, l))
      BY <2>1, <2>2, <2>5, CountMore, NoH1More
    <3> QED BY <1>1, <2>1, <2>4, <3>1, <3>2
  <2>6. CASE TopLine(l, n)
    <3>1. One(l) = 0 /\ CountAll(r) = n
      <4>1. One(l) = 0 /\ CountAll(r) \in Nat
        BY <2>6, CountMore DEF TopLine, One, IsFence
      <4> QED BY <2>1, <4>1
    <3>2. PICK x \in Line : x = Lowered(l) /\ One(x) = 0 /\ \A m : ~TopLine(x, m)
      <4>1. Lowered(l) \in Line /\ Lowered(l).kind = l.kind /\ Lowered(l).level = 2
        BY GivenLines DEF Lowered, Line
      <4> QED BY <2>6, <4>1 DEF TopLine, One, IsFence
    <3>3. CASE Chu!IsTitle(name, l) /\ NoH1(r)
      <4>1. Chu!NormalizeHeadingLevels(name, t) = h
        BY <2>1, <2>3, <2>6, <3>3, ConcatEmptySeq DEF Shown
      <4> QED BY <1>1, <2>1, <2>2, <2>4, <3>1, <4>1
    <3>4. CASE ~(Chu!IsTitle(name, l) /\ NoH1(r))
      <4>1. Chu!NormalizeHeadingLevels(name, t) = Append(h, x)
        <5>1. Shown(name, l, n, NoH1(r)) = <<x>>
          BY <2>6, <3>2, <3>4 DEF Shown
        <5> QED BY <2>1, <2>3, <3>2, <5>1, AppendIsConcat
      <4>2. CountAll(Append(h, x)) = CountAll(h) + One(x) /\ CountAll(h) \in Nat
        BY <2>1, <3>2, CountMore
      <4>3. NoH1(Append(h, x))
        BY <2>1, <2>2, <3>2, NoH1More
      <4> QED BY <1>1, <2>1, <2>2, <2>4, <3>1, <3>2, <4>1, <4>2, <4>3
    <3> QED BY <3>3, <3>4
  <2> QED BY <2>5, <2>6
<1> QED BY <1>1, <1>2, <1>3, BySequence

(* A text without H1 behind lines without fences stays as it is.           *)
LEMMA NormalizedApart ==
  ASSUME NEW name \in Names, NEW u \in Seq(Line), NEW s \in Seq(Line), CountAll(u) = 0, NoH1(s)
  PROVE  Chu!NormalizeHeadingLevels(name, u \o s) = Chu!NormalizeHeadingLevels(name, u) \o s
<1>0. PICK p \in Seq(Line) : p = Chu!NormalizeHeadingLevels(name, u)
  BY LineSuits, NormalizedType
<1>1. PICK T : T = {r \in Seq(Line) : NoH1(r) => Chu!NormalizeHeadingLevels(name, u \o r) = p \o r}
  OBVIOUS
<1>2. <<>> \in T
  <2>1. u \o <<>> = u /\ p \o <<>> = p
    BY ConcatEmptySeq
  <2> QED BY <1>0, <1>1, <2>1, EmptySeq
<1>3. ASSUME NEW r \in Seq(Line), NEW x \in Line, r \in T PROVE Append(r, x) \in T
  <2>0. PICK n : n = CountAll(r) + One(x)
    OBVIOUS
  <2>1. PICK v \in Seq(Line), t \in Seq(Line) : v = u \o r /\ t = Append(r, x) /\ n = CountAll(r) + One(x)
    BY <2>0, ConcatProperties, AppendProperties
  <2>2. u \o t = Append(v, x) /\ p \o t = Append(p \o r, x)
    <3>1. u \o Append(r, x) = Append(u \o r, x)
      BY JoinAppend
    <3>2. p \o Append(r, x) = Append(p \o r, x)
      BY <1>0, JoinAppend
    <3> QED BY <2>1, <3>1, <3>2
  <2>3. CountAll(v) = CountAll(r)
    <3>1. CountAll(v) = CountAll(u) + CountAll(r) /\ CountAll(r) \in Nat
      BY <2>1, CountBoth, CountMore
    <3> QED BY <3>1
  <2>4. ASSUME NoH1(t) PROVE Chu!NormalizeHeadingLevels(name, u \o t) = p \o t
    <3>1. NoH1(r) /\ ~TopLine(x, n)
      BY <2>1, <2>4, NoH1More
    <3>2. Chu!NormalizeHeadingLevels(name, v) = p \o r
      BY <1>1, <1>3, <2>1, <3>1
    <3>3. Chu!NormalizeHeadingLevels(name, Append(v, x)) = Chu!NormalizeHeadingLevels(name, v) \o Shown(name, x, n, NoH1(v))
      <4>1. Chu!NormalizeHeadingLevels(name, Append(v, x))
              = Chu!NormalizeHeadingLevels(name, v) \o Shown(name, x, CountAll(v) + One(x), NoH1(v))
        BY <2>1, NormalizedMore
      <4> QED BY <2>1, <2>3, <4>1
    <3>4. Shown(name, x, n, NoH1(v)) = <<x>>
      BY <3>1 DEF Shown
    <3>5. PICK q \in Seq(Line) : q = p \o r
      BY <1>0, ConcatProperties
    <3>6. Append(q, x) = q \o <<x>>
      BY <3>5, AppendIsConcat
    <3> QED BY <2>2, <3>2, <3>3, <3>4, <3>5, <3>6
  <2> QED BY <1>1, <2>1, <2>4
<1>4. s \in T
  BY <1>1, <1>2, <1>3, BySequence
<1> QED BY <1>0, <1>1, <1>4

-----------------------------------------------------------------------------
(* The lines of a file have ids of their own, and what is left of them     *)
(* after the first clean-up is neither noise nor a footer.                 *)
FileLine == {l \in Line : l.id # 0}
Quiet(l) == l.kind # "noise" /\ ~Chu!StartsFooter(l)
Clean == {l \in Line : Quiet(l) /\ (l.kind = "heading" => l.id # 0)}

LEMMA CleanSuits == Suits(Clean)
<1>1. Chu!BlankLine \in Clean
  BY GivenLines DEF Clean, Chu!BlankLine, Quiet, Chu!StartsFooter
<1>2. ASSUME NEW l \in Clean PROVE [l EXCEPT !.level = 2] \in Clean
  <2>1. l \in Line /\ [l EXCEPT !.level = 2] \in Line
    BY GivenLines DEF Clean
  <2>2. PICK h : h = [l EXCEPT !.level = 2]
    OBVIOUS
  <2>3. h.kind = l.kind /\ h.id = l.id /\ h.text = l.text
    BY <2>1, <2>2 DEF Line
  <2> QED BY <2>1, <2>2, <2>3 DEF Clean, Quiet, Chu!StartsFooter
<1> QED BY <1>1, <1>2 DEF Suits, Clean

LEMMA PickedOnly ==
  ASSUME NEW E, NEW D, NEW s \in Seq(E), NEW P, \A i \in 1 .. Len(s) : i \in P => s[i] \in D
  PROVE  Chu!Picked(s, P) \in Seq(D)
<1>1. PICK n \in Nat : n = Len(s)
  OBVIOUS
<1>2. PICK f : Picks(f, n, Seq(E), s, P) /\ Chu!Picked(s, P) = f[n]
  BY <1>1, PickedIs
<1>3. PICK T : T = {k \in 0 .. n : f[k] \in Seq(D)}
  OBVIOUS
<1>4. 0 \in T
  BY <1>2, <1>3, EmptySeq DEF Picks
<1>5. ASSUME NEW k \in 1 .. n, k - 1 \in T PROVE k \in T
  <2>1. PICK a \in Seq(D) : a = f[k - 1]
    BY <1>3, <1>5
  <2>2. f[k] = IF k \in P THEN Append(a, s[k]) ELSE a
    BY <1>2, <2>1 DEF Picks
  <2>3. ASSUME k \in P PROVE Append(a, s[k]) \in Seq(D)
    <3>1. PICK x \in D : x = s[k]
      BY <1>1, <2>3
    <3>2. Append(a, x) \in Seq(D)
      BY <2>1, AppendProperties
    <3> QED BY <3>1, <3>2
  <2>4. f[k] \in Seq(D) /\ k \in 0 .. n
    BY <2>1, <2>2, <2>3
  <2> QED BY <1>3, <2>4
<1>6. \A k \in 0 .. n : k \in T
  BY <1>4, <1>5, UpTo
<1> QED BY <1>1, <1>2, <1>3, <1>6

LEMMA PickedAll ==
  ASSUME NEW E, NEW s \in Seq(E), NEW P, 1 .. Len(s) \subseteq P
  PROVE  Chu!Picked(s, P) = s
<1>1. PICK T : T = {r \in Seq(E) : \A Q : 1 .. Len(r) \subseteq Q => Chu!Picked(r, Q) = r}
  OBVIOUS
<1>2. <<>> \in T
  BY <1>1, PickedNone, EmptySeq
<1>3. ASSUME NEW r \in Seq(E), NEW x \in E, r \in T PROVE Append(r, x) \in T
  <2>1. PICK n \in Nat : n = Len(r)
    OBVIOUS
  <2>2. PICK t \in Seq(E) : t = Append(r, x) /\ Len(t) = n + 1
    BY <2>1, AppendProperties
  <2>3. ASSUME NEW Q, 1 .. n + 1 \subseteq Q PROVE Chu!Picked(t, Q) = t
    <3>1. 1 .. n \subseteq Q /\ n + 1 \in Q
      BY <2>3
    <3>2. Chu!Picked(r, Q) = r
      BY <1>1, <1>3, <2>1, <3>1
    <3>3. Chu!Picked(Append(r, x), Q) = IF n + 1 \in Q THEN Append(Chu!Picked(r, Q), x) ELSE Chu!Picked(r, Q)
      BY <2>1, PickedMore
    <3> QED BY <2>2, <3>1, <3>2, <3>3
  <2> QED BY <1>1, <2>2, <2>3
<1>4. s \in T
  BY <1>1, <1>2, <1>3, BySequence
<1> QED BY <1>1, <1>4

Unstripped(s) == {i \in DOMAIN s : s[i].kind # "noise" /\ \A j \in 1..i : ~Chu!StartsFooter(s[j])}

LEMMA StrippedIs ==
  ASSUME NEW s \in Seq(Line)
  PROVE  /\ s \in Seq(FileLine) => Chu!StripResidualNoise(s) \in Seq(Clean)
         /\ (\A i \in 1 .. Len(s) : Quiet(s[i])) => Chu!StripResidualNoise(s) = s
<1>1. Chu!StripResidualNoise(s) = Chu!Picked(s, Unstripped(s))
  BY DEF Chu!StripResidualNoise, Unstripped
<1>2. ASSUME s \in Seq(FileLine) PROVE Chu!Picked(s, Unstripped(s)) \in Seq(Clean)
  <2>1. ASSUME NEW i \in 1 .. Len(s), i \in Unstripped(s) PROVE s[i] \in Clean
    <3>1. s[i] \in FileLine
      BY <1>2
    <3>2. Quiet(s[i])
      <4>1. i \in 1 .. i
        OBVIOUS
      <4> QED BY <2>1, <4>1 DEF Unstripped, Quiet
    <3> QED BY <3>1, <3>2 DEF FileLine, Clean
  <2> QED BY <2>1, PickedOnly
<1>3. ASSUME \A i \in 1 .. Len(s) : Quiet(s[i]) PROVE Chu!Picked(s, Unstripped(s)) = s
  <2>1. ASSUME NEW i \in 1 .. Len(s) PROVE i \in Unstripped(s)
    <3>1. \A j \in 1 .. i : j \in 1 .. Len(s)
      OBVIOUS
    <3> QED BY <1>3, <3>1 DEF Unstripped, Quiet
  <2> QED BY <2>1, PickedAll
<1> QED BY <1>1, <1>2, <1>3

-----------------------------------------------------------------------------
(* An article that was normalized is normalized, and its title stands once, *)
(* unless the title is taken for a footer or for nothing.                  *)
Named == Names \ ({""} \cup Unnamed \cup FooterTexts)
Titled(name, c) == IF c = <<>> THEN <<Chu!TitleLine(name)>> ELSE <<Chu!TitleLine(name), Chu!BlankLine>> \o c
IsBody(c) == c \in Seq(Clean) /\ Tidy(c) /\ NoH1(c)

LEMMA BodyOfArticle ==
  ASSUME NEW name \in Names, NEW s \in Seq(FileLine)
  PROVE  \E c : IsBody(c) /\ Chu!NormalizeArticle(name, s) = Titled(name, c)
<1>1. s \in Seq(Line)
  BY SeqMonotonic DEF FileLine
<1>2. PICK a \in Seq(Clean) : a = Chu!Sanitize(Chu!StripResidualNoise(s))
  BY <1>1, StrippedIs, CleanSuits, SanitizedType
<1>3. PICK b \in Seq(Clean) : b = Chu!NormalizeHeadingLevels(name, a)
  BY <1>2, CleanSuits, NormalizedType
<1>4. PICK c \in Seq(Clean) : c = Chu!Sanitize(b)
  BY <1>3, CleanSuits, SanitizedType
<1>5. a \in Seq(Line) /\ b \in Seq(Line)
  BY <1>2, <1>3, SeqMonotonic DEF Clean
<1>6. NoH1(b)
  BY <1>3, <1>5, NormalizedIs
<1>7. Tidy(c) /\ NoH1(c)
  BY <1>4, <1>5, <1>6, SanitizedIsTidy
<1>8. Chu!NormalizeArticle(name, s) = Titled(name, c)
  BY <1>2, <1>3, <1>4 DEF Chu!NormalizeArticle, Titled
<1> QED BY <1>4, <1>7, <1>8 DEF IsBody

LEMMA EndsBlank ==
  ASSUME NEW name \in Named
  PROVE  \E b, t \in Line :
           /\ b = Chu!BlankLine /\ t = Chu!TitleLine(name)
           /\ ~Open(<<b>>) /\ ~Open(<<b, t, b>>) /\ ~Open(<<b, t, b, b>>)
           /\ Kept(<<b>>) = <<>> /\ Squeezed(<<b, t, b>>) = <<t>> /\ Kept(<<b, t, b, b>>) = <<t, b>>
           /\ Chu!NormalizeHeadingLevels(name, <<t>>) = <<>>
           /\ Chu!NormalizeHeadingLevels(name, <<t, b>>) = <<b>>
<1>0. name \in Names
  BY DEF Named
<1>1. PICK b \in Line, t \in Line : b = Chu!BlankLine /\ t = Chu!TitleLine(name)
  BY <1>0, GivenLines
<1>2. IsBlank(b) /\ ~IsBlank(t) /\ One(b) = 0 /\ One(t) = 0 /\ Chu!IsTitle(name, t)
  BY <1>1, BlankIs DEF One, IsBlank, IsFence, Chu!TitleLine, Chu!Heading, Chu!IsTitle, Chu!IsH1Of, Chu!Key, Named
<1>3. PICK e \in Seq(Line), s1 \in Seq(Line), s2 \in Seq(Line), s3 \in Seq(Line), s4 \in Seq(Line), 
           o \in Seq(Line), p \in Seq(Line) :
        /\ e = <<>> /\ s1 = <<b>> /\ s2 = <<b, t>> /\ s3 = <<b, t, b>> /\ s4 = <<b, t, b, b>>
        /\ o = <<t>> /\ p = <<t, b>>
  <2>1. /\ <<>> \in Seq(Line) /\ <<b>> \in Seq(Line) /\ <<b, t>> \in Seq(Line) /\ <<b, t, b>> \in Seq(Line)
        /\ <<b, t, b, b>> \in Seq(Line) /\ <<t>> \in Seq(Line) /\ <<t, b>> \in Seq(Line)
    OBVIOUS
  <2> QED BY <2>1
<1>4. s1 = Append(e, b) /\ s2 = Append(s1, t) /\ s3 = Append(s2, b) /\ s4 = Append(s3, b)
      /\ o = Append(e, t) /\ p = Append(o, b)
  <2>1. s1 = Append(e, b)
    BY <1>3
  <2>5. o = Append(e, t)
    BY <1>3
  <2>2. s2 = Append(s1, t)
    BY <1>3
  <2>6. p = Append(o, b)
    BY <1>3
  <2>3. s3 = Append(s2, b)
    BY <1>3
  <2>4. s4 = Append(s3, b)
    BY <1>3
  <2> QED BY <2>1, <2>2, <2>3, <2>4, <2>5, <2>6
<1>5. ~Open(s1) /\ Open(s2) /\ ~Open(s3) /\ ~Open(s4)
  BY <1>2, <1>4, OpenMore
<1>6. Kept(e) = <<>> /\ ~Open(e)
  BY <1>3, OpenNone
<1>7. Kept(s1) = e
  <2>1. Kept(s1) = IF ~IsBlank(b) \/ Open(e) THEN Append(Kept(e), b) ELSE Kept(e)
    BY <1>4, KeptStep
  <2> QED BY <1>2, <1>3, <1>6, <2>1
<1>8. Kept(s2) = o /\ Squeezed(s2) = o
  <2>1. Kept(s2) = IF ~IsBlank(t) \/ Open(s1) THEN Append(Kept(s1), t) ELSE Kept(s1)
    BY <1>4, KeptStep
  <2>2. Squeezed(s2) = IF IsBlank(t) THEN Squeezed(s1) ELSE Append(Kept(s1), t)
    BY <1>4, SqueezedStep
  <2> QED BY <1>2, <1>4, <1>7, <2>1, <2>2
<1>9. Kept(s3) = p /\ Squeezed(s3) = o
  <2>1. Kept(s3) = IF ~IsBlank(b) \/ Open(s2) THEN Append(Kept(s2), b) ELSE Kept(s2)
    BY <1>4, KeptStep
  <2>2. Squeezed(s3) = IF IsBlank(b) THEN Squeezed(s2) ELSE Append(Kept(s2), b)
    BY <1>4, SqueezedStep
  <2> QED BY <1>2, <1>4, <1>5, <1>8, <2>1, <2>2
<1>10. Kept(s4) = p
  <2>1. Kept(s4) = IF ~IsBlank(b) \/ Open(s3) THEN Append(Kept(s3), b) ELSE Kept(s3)
    BY <1>4, KeptStep
  <2> QED BY <1>2, <1>5, <1>9, <2>1
<1>11. Chu!NormalizeHeadingLevels(name, o) = e
  <2>1. Chu!NormalizeHeadingLevels(name, o)
          = Chu!NormalizeHeadingLevels(name, e) \o Shown(name, t, CountAll(e) + One(t), NoH1(e))
    BY <1>0, <1>4, NormalizedMore
  <2>2. CountAll(e) + One(t) = 0
    <3>1. CountAll(<<>>) = 0
      BY GivenLines, CountMore
    <3> QED BY <1>2, <1>3, <3>1
  <2>3. TopLine(t, 0)
    BY <1>1 DEF TopLine, Chu!TitleLine, Chu!Heading
  <2>4. NoH1(e)
    BY <1>3, NoH1None
  <2>5. Shown(name, t, CountAll(e) + One(t), NoH1(e)) = <<>>
    BY <1>2, <2>2, <2>3, <2>4 DEF Shown
  <2>6. e \o <<>> = e
    BY ConcatEmptySeq
  <2> QED BY <1>0, <1>3, <2>1, <2>5, <2>6, NormalizedNone
<1>12. Chu!NormalizeHeadingLevels(name, p) = s1
  <2>1. Chu!NormalizeHeadingLevels(name, p)
          = Chu!NormalizeHeadingLevels(name, o) \o Shown(name, b, CountAll(o) + One(b), NoH1(o))
    BY <1>0, <1>4, NormalizedMore
  <2>2. Shown(name, b, CountAll(o) + One(b), NoH1(o)) = s1
    BY <1>2, <1>3 DEF Shown, TopLine, IsBlank
  <2>3. e \o s1 = s1
    BY <1>3, ConcatEmptySeq
  <2> QED BY <1>11, <2>1, <2>2, <2>3
<1> QED BY <1>1, <1>3, <1>5, <1>7, <1>9, <1>10, <1>11, <1>12

HasOneTitle(content) ==
  Chu!Cardinality({i \in DOMAIN content : content[i].id = 0 /\ content[i].kind = "heading"}) = 1

LEMMA TitledIsQuiet ==
  ASSUME NEW name \in Names, name \notin FooterTexts, NEW c \in Seq(Clean)
  PROVE  /\ c \in Seq(Line) /\ Titled(name, c) \in Seq(Line)
         /\ \A i \in 1 .. Len(Titled(name, c)) : Quiet(Titled(name, c)[i])
         /\ HasOneTitle(Titled(name, c))
<1>1. PICK b \in Line, t \in Line : b = Chu!BlankLine /\ t = Chu!TitleLine(name)
  BY GivenLines
<1>2. Quiet(b) /\ Quiet(t) /\ b.kind # "heading" /\ t.kind = "heading" /\ t.id = 0
  BY <1>1 DEF Quiet, Chu!StartsFooter, Chu!BlankLine, Chu!TitleLine, Chu!Heading
<1>3. c \in Seq(Line) /\ \A i \in 1 .. Len(c) : c[i] \in Clean
  BY SeqMonotonic DEF Clean
<1>4. PICK n \in Nat : n = Len(c)
  OBVIOUS
<1>0. PICK y : y = Titled(name, c)
  OBVIOUS
<1>5. y \in Seq(Line) /\ Len(y) > 0 /\ y[1] = t /\ \A i \in 2 .. Len(y) : y[i] = b \/ y[i] \in Clean
  <2>1. CASE c = <<>>
    <3>1. PICK o \in Seq(Line) : o = <<t>> /\ Len(o) = 1 /\ o[1] = t
      <4>1. <<t>> \in Seq(Line) /\ Len(<<t>>) = 1 /\ <<t>>[1] = t
        OBVIOUS
      <4> QED BY <4>1
    <3>2. o = y
      BY <1>0, <1>1, <2>1, <3>1 DEF Titled
    <3>3. y \in Seq(Line) /\ Len(y) = 1
      BY <3>1, <3>2
    <3>4. y[1] = t
      BY <3>1, <3>2
    <3>5. Len(y) > 0 /\ \A i \in 2 .. Len(y) : FALSE
      BY <3>3
    <3> QED BY <3>3, <3>4, <3>5
  <2>2. CASE c # <<>>
    <3>1. PICK p \in Seq(Line) : p = <<t, b>> /\ Len(p) = 2 /\ p[1] = t /\ p[2] = b
      <4>1. <<t, b>> \in Seq(Line) /\ Len(<<t, b>>) = 2 /\ <<t, b>>[1] = t /\ <<t, b>>[2] = b
        OBVIOUS
      <4> QED BY <4>1
    <3>2. y \in Seq(Line) /\ y = p \o c /\ Len(y) = 2 + n
          /\ \A i \in 1 .. 2 + n : y[i] = IF i <= 2 THEN p[i] ELSE c[i - 2]
      <4>1. /\ p \o c \in Seq(Line) /\ Len(p \o c) = Len(p) + Len(c)
            /\ \A i \in 1 .. Len(p) + Len(c) : (p \o c)[i] = IF i <= Len(p) THEN p[i] ELSE c[i - Len(p)]
        BY <1>3, <3>1, ConcatProperties
      <4>2. y = p \o c
        BY <1>0, <1>1, <2>2, <3>1 DEF Titled
      <4> QED BY <1>4, <3>1, <4>1, <4>2
    <3>3. ASSUME NEW i \in 2 .. 2 + n PROVE y[i] = b \/ y[i] \in Clean
      <4>1. CASE i = 2
        BY <3>1, <3>2, <4>1
      <4>2. CASE i # 2
        <5>1. i - 2 \in 1 .. n /\ y[i] = c[i - 2]
          BY <3>2, <4>2
        <5> QED BY <1>3, <1>4, <5>1
      <4> QED BY <4>1, <4>2
    <3>4. y[1] = t
      BY <3>1, <3>2
    <3> QED BY <3>2, <3>3, <3>4
  <2> QED BY <2>1, <2>2
<1>10. PICK m \in Nat : m = Len(y) /\ m > 0
  BY <1>5
<1>6. \A i \in 1 .. m : i = 1 \/ i \in 2 .. m
  BY <1>10
<1>7. \A i \in 1 .. m : Quiet(y[i])
  BY <1>2, <1>5, <1>6, <1>10 DEF Clean
<1>8. {i \in DOMAIN y : y[i].id = 0 /\ y[i].kind = "heading"} = {1}
  <2>1. DOMAIN y = 1 .. m /\ 1 \in 1 .. m
    BY <1>5, <1>10
  <2> QED BY <1>2, <1>5, <1>6, <1>10, <2>1 DEF Clean
<1>9. Chu!Cardinality({1}) = 1
  <2>1. Cardinality({1}) = 1
    BY FS_Singleton
  <2>2. Chu!Cardinality({1}) = Cardinality({1})
    BY DEF Chu!Cardinality, Cardinality
  <2> QED BY <2>1, <2>2
<1> QED BY <1>0, <1>3, <1>5, <1>7, <1>8, <1>9, <1>10 DEF HasOneTitle

LEMMA TitledIsNormalized ==
  ASSUME NEW name \in Named, NEW c, IsBody(c)
  PROVE  Chu!NormalizeArticle(name, Titled(name, c)) = Titled(name, c)
<1>0. name \in Names /\ name # "" /\ name \notin Unnamed /\ name \notin FooterTexts
  BY DEF Named
<1>1. PICK b \in Line, t \in Line : b = Chu!BlankLine /\ t = Chu!TitleLine(name)
  BY <1>0, GivenLines
<1>2. c \in Seq(Line) /\ Titled(name, c) \in Seq(Line) /\ Chu!StripResidualNoise(Titled(name, c)) = Titled(name, c)
  BY <1>0, TitledIsQuiet, StrippedIs DEF IsBody
<1>3. PICK u \in Seq(Line), v \in Seq(Line), w \in Seq(Line), e \in Seq(Line) :
        u = <<b>> /\ v = <<t>> /\ w = <<t, b>> /\ e = <<>>
  <2>1. <<b>> \in Seq(Line) /\ <<t>> \in Seq(Line) /\ <<t, b>> \in Seq(Line) /\ <<>> \in Seq(Line)
    OBVIOUS
  <2> QED BY <2>1
<1>4. PICK d3 \in Seq(Line), d4 \in Seq(Line) : d3 = <<b, t, b>> /\ d4 = <<b, t, b, b>>
  <2>1. <<b, t, b>> \in Seq(Line) /\ <<b, t, b, b>> \in Seq(Line)
    OBVIOUS
  <2> QED BY <2>1
<1>5. CountAll(u) = 0 /\ CountAll(v) = 0 /\ CountAll(w) = 0
  BY <1>0, <1>1, <1>3, TitleDressed
<1>6. Dressed(u, CountAll(c)) = u /\ Dressed(v, CountAll(c)) = d3 /\ Dressed(w, CountAll(c)) = d4
  BY <1>0, <1>1, <1>3, <1>4, TitleDressed
<1>7. /\ ~Open(u) /\ ~Open(d3) /\ ~Open(d4) /\ Kept(u) = e /\ Squeezed(d3) = v /\ Kept(d4) = w
      /\ Chu!NormalizeHeadingLevels(name, v) = e /\ Chu!NormalizeHeadingLevels(name, w) = u
  BY <1>0, <1>1, <1>3, <1>4, EndsBlank
<1>8. CASE c = <<>>
  <2>1. Chu!Sanitize(v \o c) = Squeezed(d3)
    BY <1>2, <1>4, <1>5, <1>6, <1>7, <1>8, SanitizeApart DEF IsBody
  <2>2. v \o c = v
    BY <1>8, ConcatEmptySeq
  <2>3. Titled(name, c) = v
    BY <1>1, <1>3, <1>8 DEF Titled
  <2>4. Chu!Sanitize(e) = <<>>
    <3>1. Chu!Sanitize(e) = Squeezed(Dressed(e, CountAll(e)))
      BY SanitizeIs
    <3>2. Dressed(e, CountAll(e)) = <<>>
      BY <1>3, GivenLines, DressedMore
    <3> QED BY <3>1, <3>2, OpenNone
  <2>5. Chu!Sanitize(Chu!NormalizeHeadingLevels(name, Chu!Sanitize(Chu!StripResidualNoise(Titled(name, c))))) = <<>>
    BY <1>2, <1>7, <2>1, <2>2, <2>3, <2>4
  <2> QED BY <1>1, <1>3, <2>3, <2>5 DEF Chu!NormalizeArticle
<1>9. CASE c # <<>>
  <2>1. Chu!Sanitize(w \o c) = w \o c
    BY <1>2, <1>4, <1>5, <1>6, <1>7, <1>9, SanitizeApart DEF IsBody
  <2>2. Chu!NormalizeHeadingLevels(name, w \o c) = u \o c
    BY <1>0, <1>2, <1>5, <1>7, NormalizedApart DEF IsBody
  <2>3. Chu!Sanitize(u \o c) = e \o c
    <3>1. u = Dressed(u, CountAll(c)) /\ CountAll(u) = 0 /\ ~Open(u) /\ Tidy(c)
      BY <1>5, <1>6, <1>7 DEF IsBody
    <3>2. Chu!Sanitize(u \o c) = IF c = <<>> THEN Squeezed(u) ELSE Kept(u) \o c
      BY <1>2, <3>1, SanitizeApart
    <3> QED BY <1>7, <1>9, <3>2
  <2>4. e \o c = c
    BY <1>2, <1>3, ConcatEmptySeq
  <2>5. Titled(name, c) = w \o c
    BY <1>1, <1>3, <1>9 DEF Titled
  <2>6. Chu!Sanitize(Chu!NormalizeHeadingLevels(name, Chu!Sanitize(Chu!StripResidualNoise(Titled(name, c))))) = c
    BY <1>2, <2>1, <2>2, <2>3, <2>4, <2>5
  <2> QED BY <1>1, <1>3, <1>9, <2>5, <2>6 DEF Chu!NormalizeArticle
<1> QED BY <1>8, <1>9

LEMMA NormalisedIsStable ==
  ASSUME NEW name \in Named, NEW s \in Seq(FileLine)
  PROVE  /\ Chu!Normalised(name, s) = Chu!NormalizeArticle(name, s)
         /\ HasOneTitle(Chu!NormalizeArticle(name, s))
<1>0. name \in Names /\ name \notin FooterTexts
  BY DEF Named
<1>1. PICK c : IsBody(c) /\ Chu!NormalizeArticle(name, s) = Titled(name, c)
  BY <1>0, BodyOfArticle
<1>2. Chu!NormalizeArticle(name, Titled(name, c)) = Titled(name, c)
  BY <1>1, TitledIsNormalized
<1>3. Chu!Normalised(name, s) = Titled(name, c)
  BY <1>1, <1>2 DEF Chu!Normalised
<1>4. HasOneTitle(Titled(name, c))
  BY <1>0, <1>1, TitledIsQuiet DEF IsBody
<1> QED BY <1>1, <1>3, <1>4

LEMMA FileType ==
  ASSUME NEW n \in Nat, NEW lines \in [1 .. n -> Lines]
  PROVE  [i \in 1 .. n |-> Chu!Numbered(lines[i], i)] \in Seq(FileLine)
<1>1. ASSUME NEW i \in 1 .. n PROVE Chu!Numbered(lines[i], i) \in FileLine
  <2>1. PICK l \in Lines : l = lines[i]
    OBVIOUS
  <2>2. l.kind \in Chu!Kinds /\ l.level \in 0 .. MaxLevel /\ l.text \in Names
    BY ChunkingAssumption DEF Names
  <2>3. i \in Nat /\ i # 0
    OBVIOUS
  <2> QED BY <2>1, <2>2, <2>3 DEF Chu!Numbered, Line, FileLine
<1> QED BY <1>1

(* The texts of the chunks together, as the children spell them.           *)
LEMMA ChildrenSpell ==
  ASSUME NEW kids \in Seq(Chunk)
  PROVE  Chu!FlattenSeq([c \in DOMAIN kids |-> Chu!Body(Chu!Repaired(kids[c].text))]) = Spell(kids, ChunkBody)
<1>1. PICK n \in Nat : n = Len(kids) /\ DOMAIN kids = 1 .. n
  OBVIOUS
<1>2. \A c \in 1 .. n : kids[c] \in Chunk
  BY <1>1
<1>3. \A c \in 1 .. n : ChunkBody[kids[c]] = Chu!Body(Chu!Repaired(kids[c].text))
  BY <1>2 DEF ChunkBody
<1>4. [c \in DOMAIN kids |-> Chu!Body(Chu!Repaired(kids[c].text))] = [c \in DOMAIN kids |-> ChunkBody[kids[c]]]
  BY <1>1, <1>3
<1> QED BY <1>4 DEF Spell

(* A token that is spoilt is part of a character.                          *)
LEMMA SpoiltIsPart ==
  ASSUME NEW kids \in Seq(Chunk), NEW c \in DOMAIN kids, NEW i \in DOMAIN kids[c].text
  PROVE  kids[c].text[i][2] < 0 => Chu!Whole(kids[c].text[i]) \in DOMAIN PartOf
<1>1. kids[c] \in Chunk
  OBVIOUS
<1>2. PICK text \in Seq(Mark) : text = kids[c].text
  BY <1>1 DEF Chunk, Marks
<1>3. text[i] \in Mark
  BY <1>2
<1> QED BY <1>2, <1>3 DEF Mark

-----------------------------------------------------------------------------
(* The steps of chunking: the file, the document and the children are what *)
(* the lemmas above are about.                                             *)
ChunkingIInv ==
  /\ Chu!TypeOK
  /\ file \in Seq(FileLine) /\ document.title \in Titles
  /\ step # "uploaded" =>
       /\ document \in Parsed
       /\ format = "html" /\ document.title \notin Unnamed \cup FooterTexts =>
            /\ document.content = Chu!NormalizeArticle(document.title, file)
            /\ HasOneTitle(document.content)
  /\ step = "chunked" =>
       children = Chu!ChildChunks(document) /\ parents = Chu!ParentChunks(Chu!ChildChunks(document))

LEMMA ChunkingInit == Chu!Init => ChunkingIInv
<1> SUFFICES ASSUME Chu!Init PROVE ChunkingIInv
  OBVIOUS
<1>1. PICK n \in 1 .. MaxLines : \E lines \in [1 .. n -> Lines] :
        file = [i \in 1 .. n |-> Chu!Numbered(lines[i], i)]
  BY DEF Chu!Init
<1>2. PICK lines \in [1 .. n -> Lines] : file = [i \in 1 .. n |-> Chu!Numbered(lines[i], i)]
  BY <1>1
<1>3. n \in Nat
  BY ChunkingAssumption
<1>4. file \in Seq(FileLine)
  BY <1>2, <1>3, FileType
<1>5. Chu!TypeOK
  BY DEF Chu!Init, Chu!TypeOK
<1>6. step = "uploaded" /\ document.title \in Titles
  BY DEF Chu!Init
<1> QED BY <1>4, <1>5, <1>6 DEF ChunkingIInv

LEMMA ChunkingParse == ASSUME ChunkingIInv, Chu!Parse PROVE ChunkingIInv'
<1>1. step' = "parsed" /\ UNCHANGED <<format, file, children, parents>>
      /\ document' = Chu!ParsedDocument(document.title, format, file)
  BY DEF Chu!Parse
<1>2. PICK form \in Chu!Formats, lines \in Seq(Line) : form = format /\ lines = file
  <2>1. file \in Seq(Line) /\ format \in Chu!Formats
    BY SeqMonotonic DEF ChunkingIInv, Chu!TypeOK, FileLine
  <2> QED BY <2>1
<1>3. PICK name \in Titles : name = document.title /\ name \in Names /\ name # ""
  BY TextAssumption DEF ChunkingIInv, Names
<1>4. PICK d \in Parsed :
        d = document' /\ d.title = name /\ (form = "html" => d.content = Chu!Normalised(name, lines))
  BY <1>1, <1>2, <1>3, ParsedType
<1>5. Chu!TypeOK'
  BY <1>1 DEF ChunkingIInv, Chu!TypeOK
<1>6. ASSUME format = "html", name \notin Unnamed \cup FooterTexts
      PROVE  d.content = Chu!NormalizeArticle(name, file) /\ HasOneTitle(d.content)
  <2>1. name \in Named /\ file \in Seq(FileLine)
    BY <1>3, <1>6 DEF Named, ChunkingIInv
  <2> QED BY <1>2, <1>4, <1>6, <2>1, NormalisedIsStable
<1>7. document'.title = name /\ file' = file /\ format' = format /\ file \in Seq(FileLine)
  BY <1>1, <1>4 DEF ChunkingIInv
<1> QED BY <1>1, <1>4, <1>5, <1>6, <1>7 DEF ChunkingIInv

LEMMA ChunkingDocument == ASSUME ChunkingIInv, Chu!ChunkDocument PROVE ChunkingIInv'
<1>1. /\ step = "parsed" /\ step' = "chunked" /\ UNCHANGED <<format, file, document>>
      /\ children' = Chu!ChildChunks(document) /\ parents' = Chu!ParentChunks(Chu!ChildChunks(document))
  BY DEF Chu!ChunkDocument
<1>2. PICK d \in Parsed : d = document
  BY <1>1 DEF ChunkingIInv
<1>3. PICK kids \in Seq(Chunk) : kids = Chu!ChildChunks(d)
  BY ChildrenKeepText
<1>4. PICK ps : ps = Chu!ParentChunks(kids) /\ Cover(kids, ps)
  BY ParentsHold
<1>5. \A p \in DOMAIN ps : ps[p] \subseteq DOMAIN kids /\ ps[p] # {}
  BY <1>4, ParentsType
<1>6. children' = kids /\ parents' = ps
  BY <1>1, <1>2, <1>3, <1>4
<1>7. Chu!TypeOK'
  BY <1>1, <1>5, <1>6 DEF ChunkingIInv, Chu!TypeOK
<1>8. Chu!ChildChunks(document)' = Chu!ChildChunks(d)
  BY <1>1, <1>2
<1> QED BY <1>1, <1>7 DEF ChunkingIInv

LEMMA ChunkingNext == ChunkingIInv /\ [Chu!Next]_(Chu!vars) => ChunkingIInv'
<1> SUFFICES ASSUME ChunkingIInv, [Chu!Next]_(Chu!vars) PROVE ChunkingIInv'
  OBVIOUS
<1>1. CASE Chu!Parse
  BY <1>1, ChunkingParse
<1>2. CASE Chu!SkipIndexing
  <2>1. UNCHANGED <<format, file, document, children, parents>> /\ step = "parsed" /\ step' = "skipped"
    BY <1>2 DEF Chu!SkipIndexing
  <2> QED BY <2>1 DEF ChunkingIInv, Chu!TypeOK
<1>3. CASE Chu!ChunkDocument
  BY <1>3, ChunkingDocument
<1>4. CASE UNCHANGED Chu!vars
  BY <1>4 DEF ChunkingIInv, Chu!TypeOK, Chu!vars
<1> QED BY <1>1, <1>2, <1>3, <1>4 DEF Chu!Next

LEMMA ChunkingIsRight ==
  ASSUME ChunkingIInv
  PROVE  Chu!TypeOK /\ Chu!ChunkingKeepsText /\ Chu!ParentsCoverChildren /\ Chu!NormalizingIsStable
<1>0. Chu!TypeOK /\ Chu!NormalizingIsStable
  BY DEF ChunkingIInv, Chu!NormalizingIsStable, HasOneTitle
<1>1. SUFFICES ASSUME step = "chunked" PROVE Chu!ChunkingKeepsText /\ Chu!ParentsCoverChildren
  BY <1>0 DEF Chu!ChunkingKeepsText, Chu!ParentsCoverChildren
<1>2. PICK d \in Parsed : d = document
  BY <1>1 DEF ChunkingIInv
<1>3. PICK kids \in Seq(Chunk) :
        kids = Chu!ChildChunks(d) /\ Spell(kids, ChunkBody) = Chu!Body(Chu!Text(Chu!BodyLines(d.content)))
  BY ChildrenKeepText
<1>4. PICK ps : ps = Chu!ParentChunks(kids) /\ Cover(kids, ps)
  BY ParentsHold
<1>5. children = kids /\ parents = ps
  BY <1>1, <1>2, <1>3, <1>4 DEF ChunkingIInv
<1>6. Chu!ChunkingKeepsText
  <2>1. Chu!FlattenSeq([c \in DOMAIN kids |-> Chu!Body(Chu!Repaired(kids[c].text))])
          = Chu!Body(Chu!Text(Chu!BodyLines(d.content)))
    BY <1>3, ChildrenSpell
  <2>2. \A c \in DOMAIN kids : \A i \in DOMAIN kids[c].text :
          kids[c].text[i][2] < 0 => Chu!Whole(kids[c].text[i]) \in DOMAIN PartOf
    BY SpoiltIsPart
  <2> QED BY <1>2, <1>5, <2>1, <2>2 DEF Chu!ChunkingKeepsText
<1>7. Chu!ParentsCoverChildren
  <2>1. \A c : Chu!Owner(c) = Chu!Min({q \in DOMAIN ps : c \in ps[q]})
    BY <1>5 DEF Chu!Owner
  <2>2. \A p \in DOMAIN ps : \E c \in ps[p] : Chu!Owner(c) = p
    BY <1>4, <2>1 DEF Cover, Owns
  <2>3. UNION Chu!ToSet(parents) = DOMAIN children
    BY <1>4, <1>5 DEF Cover
  <2>4. \A p \in DOMAIN parents :
          \/ Len(parents) = 1 \/ Chu!Cardinality(parents[p]) = 1
          \/ Chu!Tokens(children, Chu!Min(parents[p]), Chu!Max(parents[p])) <= TargetParent
    BY <1>4, <1>5 DEF Cover
  <2>5. \A p \in 2..Len(parents) :
          Chu!Min(parents[p]) \in {Chu!Max(parents[p - 1]), Chu!Max(parents[p - 1]) + 1}
    BY <1>4, <1>5 DEF Cover
  <2>6. \A p \in DOMAIN parents : \E c \in parents[p] : Chu!Owner(c) = p
    BY <1>5, <2>2
  <2> QED BY <2>3, <2>4, <2>5, <2>6 DEF Chu!ParentsCoverChildren
<1> QED BY <1>6, <1>7

=================================================================================
