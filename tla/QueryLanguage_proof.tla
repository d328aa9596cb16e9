------------------------ MODULE QueryLanguage_proof ------------------------
(***************************************************************************)
(* Proofs about the query language in Analytics, for every value of the    *)
(* constants: the parser reads a text that was written from a query back   *)
(* as that query, and what is planned ends in columns of the source.       *)
(***************************************************************************)
EXTENDS Analytics, Facts, FiniteSetTheorems, SequenceTheorems

-----------------------------------------------------------------------------
(* Dsl: lists of words and of tokens, one after the other. *)
IsJoined(w, s, t, T) ==
    /\ w \in Seq(T) /\ Len(w) = Len(s) + Len(t)
    /\ \A i \in 1 .. Len(s) : w[i] = s[i]
    /\ \A j \in 1 .. Len(t) : w[Len(s) + j] = t[j]

LEMMA ConcatIs ==
    ASSUME NEW T, NEW s \in Seq(T), NEW t \in Seq(T)
    PROVE  IsJoined(s \o t, s, t, T)
BY DEF IsJoined

LEMMA SubSeqGrows ==
    ASSUME NEW T, NEW s \in Seq(T), NEW n \in 0 .. Len(s) - 1
    PROVE  Append(SubSeq(s, 1, n), s[n + 1]) = SubSeq(s, 1, n + 1)
OBVIOUS

LEMMA SubSeqAll ==
    ASSUME NEW T, NEW s \in Seq(T)
    PROVE  SubSeq(s, 1, Len(s)) = s /\ SubSeq(s, 1, 0) = <<>>
OBVIOUS

IsFlattened(f, ss) ==
    f = [i \in 1 .. Len(ss) |-> IF i = 1 THEN ss[i] ELSE f[i - 1] \o ss[i]]

LEMMA FlattenedExists ==
    ASSUME NEW T, NEW ss \in Seq(Seq(T))
    PROVE  \E f : IsFlattened(f, ss) /\ f \in [1 .. Len(ss) -> Seq(T)]
<1> DEFINE N == Len(ss)
           V == Seq(T)
           step == [n \in Nat |-> [v \in V |-> IF n \in 1 .. N THEN v \o ss[n] ELSE v]]
<1>1. N \in Nat /\ \A n \in 1 .. N : n \in Nat /\ ss[n] \in V /\ \A v \in V : v \o ss[n] \in V
  OBVIOUS
<1>4. <<>> \in V /\ \A v \in V : <<>> \o v = v
  OBVIOUS
<1> HIDE DEF V
<1>2. \A n \in Nat, v \in V : step[n][v] \in V
  BY <1>1
<1>3. \A n \in 1 .. N, v \in V : step[n][v] = v \o ss[n]
  BY <1>1
<1> HIDE DEF step, N
<1>5. PICK g : IsRecursion(g, N, V, <<>>, step)
  BY <1>1, <1>2, <1>4, RecursionExists
<1>6. g \in [0 .. N -> V] /\ g[0] = <<>> /\ \A n \in 1 .. N : g[n] = step[n][g[n - 1]]
  BY <1>5 DEF IsRecursion
<1> DEFINE f == [n \in 1 .. N |-> g[n]]
<1>7. ASSUME NEW i \in 1 .. N
      PROVE  g[i] \in V /\ g[i] = IF i = 1 THEN ss[i] ELSE g[i - 1] \o ss[i]
  <2>1. i - 1 \in 0 .. N /\ i \in 0 .. N
    BY <1>1
  <2>2. g[i] = g[i - 1] \o ss[i]
    BY <1>3, <1>6, <2>1
  <2>3. i = 1 => i - 1 = 0
    OBVIOUS
  <2>4. i = 1 => g[i] = ss[i]
    BY <1>1, <1>4, <1>6, <2>2, <2>3
  <2> QED
    BY <1>6, <2>1, <2>2, <2>4
<1>8. \A i \in 1 .. N : i # 1 => i - 1 \in 1 .. N
  BY <1>1
<1>9. f = [i \in 1 .. N |-> IF i = 1 THEN ss[i] ELSE f[i - 1] \o ss[i]]
  BY <1>7, <1>8
<1>10. f \in [1 .. N -> V]
  BY <1>7
<1> HIDE DEF f
<1>11. IsFlattened(f, ss) /\ f \in [1 .. Len(ss) -> Seq(T)]
  BY <1>9, <1>10 DEF IsFlattened, N, V
<1> QED
  BY <1>11

(* Where each part of a concatenation starts. *)
IsOffset(at, ss) ==
    /\ at \in [0 .. Len(ss) -> Nat] /\ at[0] = 0
    /\ \A c \in 1 .. Len(ss) : at[c] = at[c - 1] + Len(ss[c])

LEMMA FlattenedIs ==
    ASSUME NEW T, NEW ss \in Seq(Seq(T)), NEW f, IsFlattened(f, ss), NEW at, IsOffset(at, ss)
    PROVE  \A n \in 1 .. Len(ss) :
             /\ f[n] \in Seq(T) /\ Len(f[n]) = at[n]
             /\ \A c \in 1 .. n : \A j \in 1 .. Len(ss[c]) : f[n][at[c - 1] + j] = ss[c][j]
<1> DEFINE N == Len(ss)
           Good(n) == /\ f[n] \in Seq(T) /\ Len(f[n]) = at[n]
                      /\ \A c \in 1 .. n : \A j \in 1 .. Len(ss[c]) : f[n][at[c - 1] + j] = ss[c][j]
           S == {n \in Nat : n \in 1 .. N => Good(n)}
<1>1. N \in Nat /\ \A n \in 1 .. N : ss[n] \in Seq(T) /\ Len(ss[n]) \in Nat
  OBVIOUS
<1>2. /\ \A n \in 0 .. N : at[n] \in Nat
      /\ at[0] = 0 /\ \A c \in 1 .. N : at[c] = at[c - 1] + Len(ss[c])
  BY DEF IsOffset
<1>3. \A i \in 1 .. N : f[i] = IF i = 1 THEN ss[i] ELSE f[i - 1] \o ss[i]
  BY DEF IsFlattened
<1>4. 0 \in S
  OBVIOUS
<1>5. ASSUME NEW n \in Nat, n \in S PROVE n + 1 \in S
  <2>1. SUFFICES ASSUME n + 1 \in 1 .. N PROVE Good(n + 1)
    OBVIOUS
  <2>2. n + 1 \in 1 .. N /\ n + 1 - 1 = n /\ n \in 0 .. N
    BY <1>1, <2>1
  <2>3. CASE n = 0
    <3>1. f[1] = ss[1] /\ at[1] = Len(ss[1]) /\ ss[1] \in Seq(T)
      BY <1>1, <1>2, <1>3, <2>2, <2>3
    <3>2. \A c \in 1 .. 1 : c = 1 /\ c - 1 = 0
      OBVIOUS
    <3>3. \A j \in 1 .. Len(ss[1]) : f[1][at[0] + j] = ss[1][j]
      BY <1>2, <3>1
    <3> QED
      BY <2>3, <3>1, <3>2, <3>3
  <2>4. CASE n # 0
    <3>1. n \in 1 .. N /\ Good(n)
      BY <1>5, <2>2, <2>4
    <3> DEFINE s == f[n]
               t == ss[n + 1]
    <3>2. f[n + 1] = s \o t /\ s \in Seq(T) /\ t \in Seq(T)
      <4>1. n + 1 # 1
        BY <2>4
      <4>2. f[n + 1] = IF n + 1 = 1 THEN ss[n + 1] ELSE f[n + 1 - 1] \o ss[n + 1]
        BY <1>3, <2>1
      <4>3. f[n + 1] = f[n + 1 - 1] \o ss[n + 1]
        BY <4>1, <4>2
      <4> QED
        BY <1>1, <2>2, <3>1, <4>3
    <3>3. at[n + 1] = at[n] + Len(t) /\ Len(s) = at[n]
      BY <1>2, <2>2, <3>1
    <3>4. \A c \in 1 .. n : at[c - 1] \in Nat /\ at[c - 1] + Len(ss[c]) <= at[n]
      <4> DEFINE M == {m \in Nat : m <= n => \A c \in 1 .. m : at[c] <= at[m]}
      <4>1. 0 \in M
        OBVIOUS
      <4>2. ASSUME NEW m \in Nat, m \in M PROVE m + 1 \in M
        <5>1. CASE m + 1 <= n
          <6>1. m \in 0 .. N /\ m + 1 \in 1 .. N /\ m + 1 - 1 = m
            BY <1>1, <2>2, <5>1
          <6>2. at[m + 1] = at[m] + Len(ss[m + 1]) /\ Len(ss[m + 1]) \in Nat /\ at[m] \in Nat
            BY <1>1, <1>2, <6>1
          <6>3. \A c \in 1 .. m : at[c] <= at[m] /\ at[c] \in Nat
            BY <1>2, <4>2, <5>1, <6>1
          <6>4. \A c \in 1 .. m + 1 : c \in 1 .. m \/ c = m + 1
            OBVIOUS
          <6>5. \A c \in 1 .. m + 1 : at[c] <= at[m + 1]
            BY <6>2, <6>3, <6>4
          <6> QED
            BY <6>5
        <5>2. CASE ~(m + 1 <= n)
          BY <5>2
        <5> QED
          BY <5>1, <5>2
      <4> HIDE DEF M
      <4>3. n \in M
        BY <4>1, <4>2, NatSetInduction
      <4>4. \A c \in 1 .. n : at[c] <= at[n]
        BY <4>3 DEF M
      <4>5. \A c \in 1 .. n : c - 1 \in 0 .. N /\ c \in 1 .. N
        BY <2>2
      <4> QED
        BY <1>2, <4>4, <4>5
    <3>5. s \in Seq(T) /\ t \in Seq(T)
      BY <3>2
    <3>8. \A c \in 1 .. n : \A j \in 1 .. Len(ss[c]) : s[at[c - 1] + j] = ss[c][j]
      BY <3>1
    <3>9. \A c \in 1 .. n : Len(ss[c]) \in Nat
      BY <1>1, <2>2
    <3> HIDE DEF s, t
    <3>6. \A i \in 1 .. Len(s) : (s \o t)[i] = s[i]
      BY <3>5
    <3>7. \A j \in 1 .. Len(t) : (s \o t)[Len(s) + j] = t[j]
      BY <3>5
    <3>70. s \o t \in Seq(T) /\ Len(s \o t) = Len(s) + Len(t) /\ Len(s) \in Nat /\ Len(t) \in Nat
      BY <3>5
    <3>10. ASSUME NEW c \in 1 .. n + 1, NEW j \in 1 .. Len(ss[c])
           PROVE  (s \o t)[at[c - 1] + j] = ss[c][j]
      <4>1. CASE c \in 1 .. n
        <5>1. at[c - 1] \in Nat /\ at[c - 1] + Len(ss[c]) <= Len(s) /\ Len(ss[c]) \in Nat
          BY <3>3, <3>4, <3>9, <4>1
        <5>2. at[c - 1] + j \in 1 .. Len(s)
          <6> DEFINE m == at[c - 1]
                     k == Len(ss[c])
                     L == Len(s)
          <6>1. m \in Nat /\ m + k <= L /\ k \in Nat /\ L \in Nat /\ j \in 1 .. k
            BY <3>70, <5>1
          <6> HIDE DEF m, k, L
          <6>2. m + j \in 1 .. L
            BY <6>1
          <6> QED
            BY <6>2 DEF m, L
        <5>3. s[at[c - 1] + j] = ss[c][j]
          BY <3>8, <4>1
        <5> QED
          BY <3>6, <5>2, <5>3
      <4>2. CASE c = n + 1
        <5>1. c - 1 = n /\ ss[c] = t
          BY <4>2 DEF t
        <5> QED
          BY <3>3, <3>7, <5>1
      <4>3. c \in 1 .. n \/ c = n + 1
        OBVIOUS
      <4> QED
        BY <4>1, <4>2, <4>3
    <3> QED
      BY <3>2, <3>3, <3>70, <3>10
  <2> QED
    BY <2>3, <2>4
<1> HIDE DEF S
<1>6. \A n \in Nat : n \in S
  BY <1>4, <1>5, NatSetInduction
<1>7. \A n \in 1 .. N : n \in Nat
  OBVIOUS
<1> QED
  BY <1>6, <1>7 DEF S

IsFlat(flat, at, ss, T) ==
    /\ flat \in Seq(T) /\ Len(flat) = at[Len(ss)]
    /\ \A c \in 1 .. Len(ss) : \A j \in 1 .. Len(ss[c]) : flat[at[c - 1] + j] = ss[c][j]

LEMMA FlattenIs ==
    ASSUME NEW T, NEW ss \in Seq(Seq(T)), NEW at, IsOffset(at, ss), Len(ss) > 0
    PROVE  IsFlat(Dsl!FlattenSeq(ss), at, ss, T)
<1> DEFINE h == CHOOSE f : IsFlattened(f, ss)
<1>1. \E f : IsFlattened(f, ss)
  BY FlattenedExists
<1>2. IsFlattened(h, ss)
  BY <1>1, Zenon
<1>3. Dsl!FlattenSeq(ss) = IF Len(ss) = 0 THEN ss ELSE h[Len(ss)]
  BY Zenon DEF Dsl!FlattenSeq, IsFlattened
<1> HIDE DEF h
<1>4. Dsl!FlattenSeq(ss) = h[Len(ss)]
  BY <1>3
<1>5. Len(ss) \in 1 .. Len(ss)
  OBVIOUS
<1> QED
  BY <1>2, <1>4, <1>5, FlattenedIs DEF IsFlat

(* The words of a text are tokens. *)
LEMMA TokenIs ==
    ASSUME NEW k, NEW v \in Dsl!Name
    PROVE  /\ Dsl!Tok(k, v).k = k /\ Dsl!Tok(k, v).v = v
           /\ k \in {"ID", "NUM", "STR", "OP", "LP", "RP", "COMMA"} => Dsl!Tok(k, v) \in Dsl!Token
BY DEF Dsl!Tok, Dsl!Token

LEMMA SingleIs ==
    ASSUME NEW T, NEW x \in T
    PROVE  <<x>> \in Seq(T)
OBVIOUS

LEMMA WordIs ==
    ASSUME NEW w \in Dsl!Written
    PROVE  /\ <<w>> \in Dsl!Name
           /\ Dsl!Id(w) = [k |-> "ID", v |-> <<w>>] /\ Dsl!Id(w) \in Dsl!Token
           /\ Dsl!Op(w) = [k |-> "OP", v |-> <<w>>] /\ Dsl!Op(w) \in Dsl!Token
<1>1. w \in STRING
  BY LiteralsAssumption, Zenon
<1>2. <<w>> \in Dsl!Name
  BY <1>1, SingleIs, Zenon DEF Dsl!Name
<1> QED
  BY <1>2, TokenIs DEF Dsl!Id, Dsl!Op, Dsl!Tok

LEMMA ListIs ==
    ASSUME NEW s \in Seq(Dsl!Token), s # <<>>
    PROVE  /\ Dsl!List(s) \in Seq(Dsl!Token) /\ Len(Dsl!List(s)) = 2 * Len(s) - 1
           /\ \A n \in 0 .. Len(s) - 1 : Dsl!List(s)[2 * n + 1] = s[n + 1]
           /\ \A n \in 1 .. Len(s) - 1 : Dsl!List(s)[2 * n] = Dsl!Tok("COMMA", <<",">>)
<1> DEFINE comma == Dsl!Tok("COMMA", <<",">>)
           L == 2 * Len(s) - 1
           elem(i) == IF i % 2 = 1 THEN s[(i + 1) \div 2] ELSE comma
<1>1. Len(s) \in Nat /\ Len(s) >= 1 /\ L \in Nat
  OBVIOUS
<1>20. "," \in Dsl!Written
  BY DEF Dsl!Written
<1>2. comma \in Dsl!Token
  BY <1>20, WordIs, TokenIs
<1>3. ASSUME NEW n \in 0 .. Len(s) - 1 PROVE 2 * n + 1 \in 1 .. L /\ elem(2 * n + 1) = s[n + 1]
  <2>1. (2 * n + 1) % 2 = 1 /\ (2 * n + 1 + 1) \div 2 = n + 1
    OBVIOUS
  <2>2. 2 * n + 1 \in 1 .. L
    BY <1>1
  <2>3. elem(2 * n + 1) = s[(2 * n + 1 + 1) \div 2]
    BY <2>1
  <2> QED
    BY <2>1, <2>2, <2>3
<1>4. ASSUME NEW n \in 1 .. Len(s) - 1 PROVE 2 * n \in 1 .. L /\ elem(2 * n) = comma
  <2>1. (2 * n) % 2 = 0
    OBVIOUS
  <2>2. 2 * n \in 1 .. L
    BY <1>1
  <2>3. elem(2 * n) = comma
    <3>1. (2 * n) % 2 # 1
      BY <2>1
    <3> HIDE DEF comma
    <3> QED
      BY <3>1
  <2> QED
    BY <2>2, <2>3
<1>5. ASSUME NEW i \in 1 .. L PROVE elem(i) \in Dsl!Token
  <2>1. CASE i % 2 = 1
    <3>1. (i + 1) \div 2 \in 1 .. Len(s)
      BY <1>1, <2>1
    <3> QED
      BY <2>1, <3>1
  <2>2. CASE i % 2 # 1
    BY <1>2, <2>2
  <2> QED
    BY <2>1, <2>2
<1>6. Dsl!List(s) = [i \in 1 .. L |-> elem(i)]
  BY DEF Dsl!List
<1> HIDE DEF elem, comma, L
<1>7. Dsl!List(s) \in Seq(Dsl!Token) /\ Len(Dsl!List(s)) = L
  BY <1>1, <1>5, <1>6
<1>8. \A n \in 0 .. Len(s) - 1 : Dsl!List(s)[2 * n + 1] = s[n + 1]
  BY <1>3, <1>6
<1>9. \A n \in 1 .. Len(s) - 1 : Dsl!List(s)[2 * n] = comma
  BY <1>4, <1>6
<1> QED
  BY <1>7, <1>8, <1>9 DEF L, comma

LEMMA NamesIs ==
    ASSUME NEW s \in Seq(Dsl!Name), s # <<>>
    PROVE  /\ Dsl!Names(s) \in Seq(Dsl!Token) /\ Len(Dsl!Names(s)) = 2 * Len(s) - 1
           /\ \A n \in 0 .. Len(s) - 1 : Dsl!Names(s)[2 * n + 1] = Dsl!Tok("ID", s[n + 1])
           /\ \A n \in 1 .. Len(s) - 1 : Dsl!Names(s)[2 * n] = Dsl!Tok("COMMA", <<",">>)
<1> DEFINE t == [i \in DOMAIN s |-> Dsl!Tok("ID", s[i])]
<1>1. \A i \in DOMAIN s : Dsl!Tok("ID", s[i]) \in Dsl!Token
  BY TokenIs
<1>2. t \in Seq(Dsl!Token) /\ Len(t) = Len(s) /\ t # <<>>
  <2> HIDE DEF Dsl!Token
  <2>1. DOMAIN s = 1 .. Len(s) /\ Len(s) \in Nat /\ Len(s) # 0
    OBVIOUS
  <2> QED
    BY <1>1, <2>1
<1>3. \A n \in 0 .. Len(s) - 1 : t[n + 1] = Dsl!Tok("ID", s[n + 1])
  OBVIOUS
<1>4. Dsl!Names(s) = Dsl!List(t)
  BY DEF Dsl!Names
<1> HIDE DEF t
<1>5. /\ Dsl!List(t) \in Seq(Dsl!Token) /\ Len(Dsl!List(t)) = 2 * Len(t) - 1
      /\ \A n \in 0 .. Len(t) - 1 : Dsl!List(t)[2 * n + 1] = t[n + 1]
      /\ \A n \in 1 .. Len(t) - 1 : Dsl!List(t)[2 * n] = Dsl!Tok("COMMA", <<",">>)
  BY <1>2, ListIs, Zenon
<1> QED
  BY <1>2, <1>3, <1>4, <1>5

LEMMA ValueIs ==
    ASSUME NEW v \in Dsl!Name
    PROVE  /\ Dsl!RenderValue(v) \in Dsl!Token
           /\ v \notin DOMAIN Escaped => Dsl!RenderValue(v).v = v
           /\ Dsl!RenderValue(v).k = "ID" => Dsl!RenderValue(v).v = v
           /\ Dsl!RenderValue(v).k \in {"NUM", "ID", "STR"}
<1>1. v \in DOMAIN Escaped => Escaped[v] \in Dsl!Name
  BY SentenceAssumption
<1> DEFINE w == IF v \in DOMAIN Escaped THEN Escaped[v] ELSE v
<1>2. w \in Dsl!Name /\ (v \notin DOMAIN Escaped => w = v)
  BY <1>1
<1>3. Dsl!RenderValue(v) \in {Dsl!Tok("NUM", v), Dsl!Tok("ID", v), Dsl!Tok("STR", w)}
  BY DEF Dsl!RenderValue
<1> HIDE DEF w
<1>4. CASE Dsl!RenderValue(v) = Dsl!Tok("NUM", v)
  BY <1>4, TokenIs
<1>5. CASE Dsl!RenderValue(v) = Dsl!Tok("ID", v)
  BY <1>5, TokenIs
<1>6. CASE Dsl!RenderValue(v) = Dsl!Tok("STR", w)
  BY <1>2, <1>6, TokenIs
<1> QED
  BY <1>3, <1>4, <1>5, <1>6

LEMMA ThreeIs ==
    ASSUME NEW T, NEW x \in T, NEW y \in T, NEW z \in T
    PROVE  /\ <<x, y, z>> \in Seq(T) /\ Len(<<x, y, z>>) = 3
           /\ <<x, y, z>>[1] = x /\ <<x, y, z>>[2] = y /\ <<x, y, z>>[3] = z
OBVIOUS

LEMMA FilterTextIs ==
    ASSUME NEW f \in Dsl!Condition
    PROVE  LET r == Dsl!RenderFilter(f) IN
           /\ r \in Seq(Dsl!Token) /\ Len(r) = 3
           /\ r[1] = Dsl!Tok("ID", f.col) /\ r[2] = Dsl!Op(f.op)
           /\ r[3] = Dsl!RenderValue(f.val[1])
<1>1. f.op \in Dsl!Comparison /\ f.col \in Dsl!Name /\ f.val[1] \in Dsl!Name
  <2> HIDE DEF Dsl!Name, Dsl!Comparison
  <2>1. f.val \in Seq(Dsl!Name) /\ Len(f.val) = 1 /\ f.op \in Dsl!Comparison /\ f.col \in Dsl!Name
    BY DEF Dsl!Condition
  <2> QED
    BY <2>1
<1>2. f.op \notin {"in", "like"} /\ f.op \in Dsl!Written
  BY <1>1 DEF Dsl!Comparison, Dsl!Written
<1>3. /\ Dsl!Tok("ID", f.col) \in Dsl!Token /\ Dsl!Op(f.op) \in Dsl!Token
      /\ Dsl!RenderValue(f.val[1]) \in Dsl!Token
  BY <1>1, <1>2, TokenIs, WordIs, ValueIs
<1>4. Dsl!RenderFilter(f) = <<Dsl!Tok("ID", f.col), Dsl!Op(f.op), Dsl!RenderValue(f.val[1])>>
  BY <1>2 DEF Dsl!RenderFilter
<1> DEFINE x == Dsl!Tok("ID", f.col)
           y == Dsl!Op(f.op)
           z == Dsl!RenderValue(f.val[1])
<1>5. x \in Dsl!Token /\ y \in Dsl!Token /\ z \in Dsl!Token
      /\ Dsl!RenderFilter(f) = <<x, y, z>>
  BY <1>3, <1>4
<1> HIDE DEF x, y, z
<1>6. /\ <<x, y, z>> \in Seq(Dsl!Token) /\ Len(<<x, y, z>>) = 3
      /\ <<x, y, z>>[1] = x /\ <<x, y, z>>[2] = y /\ <<x, y, z>>[3] = z
  BY <1>5, ThreeIs
<1> QED
  BY <1>5, <1>6, Zenon DEF x, y, z

LEMMA JoinIs ==
    ASSUME NEW T, NEW s \in Seq(T), NEW r \in Seq(T)
    PROVE  Len(s) = 1 /\ Len(r) = 3 =>
           /\ s \o r \in Seq(T) /\ Len(s \o r) = 4 /\ (s \o r)[1] = s[1]
           /\ (s \o r)[2] = r[1] /\ (s \o r)[3] = r[2] /\ (s \o r)[4] = r[3]
<1> DEFINE t == s \o r
<1>1. /\ t \in Seq(T) /\ Len(t) = Len(s) + Len(r)
           /\ \A i \in 1 .. Len(s) : t[i] = s[i]
           /\ \A j \in 1 .. Len(r) : t[Len(s) + j] = r[j]
  BY ConcatIs DEF IsJoined
<1> HIDE DEF t
<1>2. ASSUME Len(s) = 1, Len(r) = 3 PROVE Len(t) = 4 /\ t[1] = s[1] /\ t[1+1] = r[1] /\ t[1+2] = r[2] /\ t[1+3] = r[3]
  BY <1>1, <1>2
<1> QED
  BY <1>1, <1>2 DEF t

LEMMA PairIs ==
    ASSUME NEW T, NEW x \in T, NEW r \in Seq(T)
    PROVE  Len(r) = 3 => /\ <<x>> \o r \in Seq(T) /\ Len(<<x>> \o r) = 4 /\ (<<x>> \o r)[1] = x
           /\ (<<x>> \o r)[2] = r[1] /\ (<<x>> \o r)[3] = r[2] /\ (<<x>> \o r)[4] = r[3]
<1>1. <<x>> \in Seq(T) /\ Len(<<x>>) = 1 /\ <<x>>[1] = x
  OBVIOUS
<1> DEFINE s == <<x>>
<1>2. s \in Seq(T) /\ Len(s) = 1 /\ s[1] = x
  BY <1>1
<1> HIDE DEF s
<1>3. Len(r) = 3 =>
           /\ s \o r \in Seq(T) /\ Len(s \o r) = 4 /\ (s \o r)[1] = s[1]
           /\ (s \o r)[2] = r[1] /\ (s \o r)[3] = r[2] /\ (s \o r)[4] = r[3]
  BY <1>2, JoinIs
<1> QED
  BY <1>2, <1>3 DEF s

(* The conditions of a text: four words each, the first of them WHERE or AND. *)
LEMMA WhereIs ==
    ASSUME NEW q, q.filters \in Seq(Dsl!Condition), q.filters # <<>>
    PROVE  LET w == Dsl!WhereText(q)
               F == Len(q.filters)
           IN  /\ w \in Seq(Dsl!Token) /\ Len(w) = 4 * F /\ w[1] = Dsl!Id("where")
               /\ \A n \in 0 .. F - 1 :
                     /\ w[4 * n + 2] = Dsl!Tok("ID", q.filters[n + 1].col)
                     /\ w[4 * n + 3] = Dsl!Op(q.filters[n + 1].op)
                     /\ w[4 * n + 4] = Dsl!RenderValue(q.filters[n + 1].val[1])
               /\ \A n \in 1 .. F - 1 : w[4 * n + 1] = Dsl!Id("and")
<1> DEFINE F == Len(q.filters)
           fs == q.filters
           text(i) == (IF i > 1 THEN <<Dsl!Id("and")>> ELSE <<>>) \o Dsl!RenderFilter(fs[i])
           ss == [i \in DOMAIN fs |-> text(i)]
           at == [k \in 0 .. F |-> IF k = 0 THEN 0 ELSE 4 * k - 1]
           T == Dsl!Token
<1>1. F \in Nat /\ F >= 1 /\ DOMAIN fs = 1 .. F /\ \A i \in 1 .. F : fs[i] \in Dsl!Condition
  BY Zenon, LenProperties, ElementOfSeq, EmptySeq, SMT
<1>2. /\ Dsl!Id("and") \in T /\ Dsl!Id("where") \in T
  BY WordIs DEF Dsl!Written, Dsl!Keyword
<1>3. ASSUME NEW i \in 1 .. F
      PROVE  LET r == Dsl!RenderFilter(fs[i]) IN
             /\ text(i) \in Seq(T) /\ Len(text(i)) = IF i = 1 THEN 3 ELSE 4
             /\ i = 1 => text(i)[1] = r[1] /\ text(i)[2] = r[2] /\ text(i)[3] = r[3]
             /\ i # 1 => /\ text(i)[1] = Dsl!Id("and") /\ text(i)[2] = r[1]
                         /\ text(i)[3] = r[2] /\ text(i)[4] = r[3]
  <2> DEFINE r == Dsl!RenderFilter(fs[i])
  <2>1. r \in Seq(T) /\ Len(r) = 3
    BY <1>1, FilterTextIs
  <2> HIDE DEF r, T
  <2>2. CASE i = 1
    <3>1. text(i) = <<>> \o r
      BY <2>2 DEF r
    <3>2. <<>> \o r = r
      BY <2>1
    <3> HIDE DEF text
    <3> QED
      BY <2>1, <2>2, <3>1, <3>2 DEF r
  <2>3. CASE i # 1
    <3>1. text(i) = <<Dsl!Id("and")>> \o r
      BY <1>1, <2>3 DEF r
    <3> DEFINE a == Dsl!Id("and")
    <3>3. a \in T /\ text(i) = <<a>> \o r
      BY <1>2, <3>1
    <3> HIDE DEF a, text
    <3>2. /\ text(i) \in Seq(T) /\ Len(text(i)) = 4 /\ text(i)[1] = a
          /\ text(i)[2] = r[1] /\ text(i)[3] = r[2] /\ text(i)[4] = r[3]
      BY <2>1, <3>3, PairIs
    <3> QED
      BY <2>3, <3>2 DEF r, a
  <2> QED
    BY <2>2, <2>3
<1> HIDE DEF T, text, F, fs
<1>4. ss \in Seq(Seq(T)) /\ Len(ss) = F /\ \A i \in 1 .. F : ss[i] = text(i)
  BY <1>1, <1>3
<1> HIDE DEF ss
<1>5. IsOffset(at, ss)
  <2>1. at \in [0 .. F -> Nat] /\ at[0] = 0
    BY <1>1
  <2>2. ASSUME NEW c \in 1 .. F PROVE at[c] = at[c - 1] + Len(ss[c])
    <3>1. Len(ss[c]) = IF c = 1 THEN 3 ELSE 4
      <4>1. ss[c] = text(c)
        BY <1>4, Zenon
      <4>2. Len(text(c)) = IF c = 1 THEN 3 ELSE 4
        BY <1>3
      <4> QED
        BY <4>1, <4>2, Zenon
    <3>2. c \in 0 .. F /\ c - 1 \in 0 .. F /\ c # 0 /\ (c - 1 = 0 <=> c = 1)
      BY <1>1
    <3>3. at[c] = 4 * c - 1 /\ at[c - 1] = IF c = 1 THEN 0 ELSE 4 * (c - 1) - 1
      BY <3>2
    <3> QED
      BY <3>1, <3>2, <3>3
  <2> HIDE DEF at
  <2> QED
    BY <1>4, <2>1, <2>2 DEF IsOffset
<1>6. \A c \in 0 .. F : at[c] = IF c = 0 THEN 0 ELSE 4 * c - 1
  BY <1>1
<1> HIDE DEF at
<1> DEFINE flat == Dsl!FlattenSeq(ss)
<1>70. Len(ss) > 0
  BY <1>1, <1>4
<1>71. IsFlat(flat, at, ss, T)
  BY <1>4, <1>5, <1>70, FlattenIs, Zenon
<1> HIDE DEF flat
<1>7. /\ flat \in Seq(T) /\ Len(flat) = at[F]
      /\ \A c \in 1 .. F : \A j \in 1 .. Len(ss[c]) : flat[at[c - 1] + j] = ss[c][j]
  BY <1>4, <1>71 DEF IsFlat
<1> DEFINE w == Dsl!WhereText(q)
<1>8. w = <<Dsl!Id("where")>> \o flat
  BY DEF Dsl!WhereText, flat, ss, text, fs
<1> HIDE DEF w
<1>9. <<Dsl!Id("where")>> \in Seq(T) /\ Len(<<Dsl!Id("where")>>) = 1
      /\ <<Dsl!Id("where")>>[1] = Dsl!Id("where")
  BY <1>2
<1>100. IsJoined(w, <<Dsl!Id("where")>>, flat, T)
  BY <1>7, <1>8, <1>9, ConcatIs, Zenon
<1>10. /\ w \in Seq(T) /\ Len(w) = 1 + Len(flat) /\ w[1] = Dsl!Id("where")
       /\ \A j \in 1 .. Len(flat) : w[1 + j] = flat[j]
  BY <1>9, <1>100 DEF IsJoined
<1>11. Len(flat) = 4 * F - 1
  BY <1>1, <1>6, <1>7
<1>12. ASSUME NEW n \in 0 .. F - 1, NEW j \in 1 .. 4, n = 0 => j # 4
       PROVE  w[4 * n + j + IF n = 0 THEN 1 ELSE 0] = text(n + 1)[j]
  <2>1. n + 1 \in 1 .. F /\ n + 1 - 1 = n /\ n \in 0 .. F
    BY <1>1
  <2>2. j \in 1 .. Len(ss[n + 1]) /\ ss[n + 1] = text(n + 1)
    <3>1. ss[n + 1] = text(n + 1)
      BY <1>4, <2>1, Zenon
    <3>2. Len(text(n + 1)) = IF n + 1 = 1 THEN 3 ELSE 4
      BY <1>3, <2>1, Zenon
    <3>3. j \in 1 .. (IF n + 1 = 1 THEN 3 ELSE 4)
      BY <1>12
    <3> QED
      BY <3>1, <3>2, <3>3, Zenon
  <2>3. flat[at[n] + j] = text(n + 1)[j]
    BY <1>7, <2>1, <2>2
  <2>4. at[n] = IF n = 0 THEN 0 ELSE 4 * n - 1
    BY <1>6, <2>1
  <2>5. at[n] + j \in 1 .. Len(flat)
    BY <1>1, <1>11, <1>12, <2>4
  <2>6. w[1 + (at[n] + j)] = text(n + 1)[j]
    BY <1>10, <2>3, <2>5
  <2>7. 1 + (at[n] + j) = 4 * n + j + IF n = 0 THEN 1 ELSE 0
    BY <2>4
  <2> QED
    BY <2>6, <2>7
<1>13. ASSUME NEW n \in 0 .. F - 1
       PROVE  LET r == Dsl!RenderFilter(fs[n + 1]) IN
              w[4 * n + 2] = r[1] /\ w[4 * n + 3] = r[2] /\ w[4 * n + 4] = r[3]
  <2>1. n + 1 \in 1 .. F
    BY <1>1
  <2>2. CASE n = 0
    <3>1. \A j \in 1 .. 3 : w[j + 1] = text(1)[j]
      BY <1>12, <2>2
    <3>2. w[1 + 1] = text(1)[1] /\ w[2 + 1] = text(1)[2] /\ w[3 + 1] = text(1)[3]
      BY <3>1
    <3> QED
      BY <1>3, <2>1, <2>2, <3>2
  <2>3. CASE n # 0
    <3>1. \A j \in 1 .. 4 : w[4 * n + j] = text(n + 1)[j]
      BY <1>12, <2>3
    <3>2. /\ w[4 * n + 2] = text(n + 1)[2] /\ w[4 * n + 3] = text(n + 1)[3]
          /\ w[4 * n + 4] = text(n + 1)[4]
      BY <3>1
    <3> QED
      BY <1>3, <2>1, <2>3, <3>2
  <2> QED
    BY <2>2, <2>3
<1>14. ASSUME NEW n \in 1 .. F - 1 PROVE w[4 * n + 1] = Dsl!Id("and")
  <2>2. n \in 0 .. F - 1 /\ 1 \in 1 .. 4 /\ n # 0 /\ n + 1 \in 1 .. F /\ n + 1 # 1
    BY <1>1
  <2>3. w[4 * n + 1 + IF n = 0 THEN 1 ELSE 0] = text(n + 1)[1]
    BY <1>12, <2>2
  <2>1. w[4 * n + 1] = text(n + 1)[1] /\ n + 1 \in 1 .. F /\ n + 1 # 1
    BY <2>2, <2>3
  <2> QED
    BY <1>3, <2>1
<1>15. ASSUME NEW n \in 0 .. F - 1
       PROVE  /\ w[4 * n + 2] = Dsl!Tok("ID", fs[n + 1].col)
              /\ w[4 * n + 3] = Dsl!Op(fs[n + 1].op)
              /\ w[4 * n + 4] = Dsl!RenderValue(fs[n + 1].val[1])
  <2>1. fs[n + 1] \in Dsl!Condition
    BY <1>1
  <2> QED
    BY <1>13, <2>1, FilterTextIs
<1> QED
  BY <1>10, <1>11, <1>14, <1>15, <1>1 DEF w, F, fs, T

(* A word and names after it, as SELECT and BY have them. *)
LEMMA HeadIs ==
    ASSUME NEW h \in Dsl!Token, NEW s \in Seq(Dsl!Name), s # <<>>
    PROVE  LET w == <<h>> \o Dsl!Names(s) IN
           /\ w \in Seq(Dsl!Token) /\ Len(w) = 2 * Len(s) /\ w[1] = h
           /\ \A n \in 0 .. Len(s) - 1 : w[2 * n + 2] = Dsl!Tok("ID", s[n + 1])
           /\ \A n \in 1 .. Len(s) - 1 : w[2 * n + 1] = Dsl!Tok("COMMA", <<",">>)
<1> DEFINE t == Dsl!Names(s)
           g == <<h>>
           w == g \o t
           N == Len(s)
           T == Dsl!Token
           name(n) == Dsl!Tok("ID", s[n])
           comma == Dsl!Tok("COMMA", <<",">>)
<1>1. /\ t \in Seq(T) /\ Len(t) = 2 * N - 1
      /\ \A n \in 0 .. N - 1 : t[2 * n + 1] = name(n + 1)
      /\ \A n \in 1 .. N - 1 : t[2 * n] = comma
  BY NamesIs, Zenon
<1>2. N \in Nat /\ N >= 1
  OBVIOUS
<1>3. h \in T
  OBVIOUS
<1> HIDE DEF t, T, name, comma, N
<1>4. g \in Seq(T) /\ Len(g) = 1 /\ g[1] = h
  BY <1>3
<1> HIDE DEF g
<1>5. IsJoined(w, g, t, T)
  BY <1>1, <1>4, ConcatIs, Zenon
<1> HIDE DEF w
<1>6. Len(w) = 2 * N /\ w[1] = h /\ w \in Seq(T)
  BY <1>1, <1>2, <1>4, <1>5 DEF IsJoined
<1>7. \A j \in 1 .. 2 * N - 1 : w[1 + j] = t[j]
  BY <1>1, <1>4, <1>5 DEF IsJoined
<1>8. ASSUME NEW n \in 0 .. N - 1 PROVE w[2 * n + 2] = name(n + 1)
  <2>1. 2 * n + 1 \in 1 .. 2 * N - 1 /\ 1 + (2 * n + 1) = 2 * n + 2
    BY <1>2
  <2> QED
    BY <1>1, <1>7, <2>1
<1>9. ASSUME NEW n \in 1 .. N - 1 PROVE w[2 * n + 1] = comma
  <2>1. 2 * n \in 1 .. 2 * N - 1 /\ 1 + 2 * n = 2 * n + 1
    BY <1>2
  <2> QED
    BY <1>1, <1>7, <2>1
<1> QED
  BY <1>6, <1>8, <1>9 DEF w, g, t, T, name, comma, N

LEMMA DateIs ==
    ASSUME NEW d \in Dsl!Name
    PROVE  Dsl!RenderDate(d) \in Seq(Dsl!Token)
<1> DEFINE T == Dsl!Token
           S == STRING
           tok(i) == IF i % 2 = 1 THEN Dsl!Tok("NUM", <<d[i]>>) ELSE Dsl!Op(d[i])
<1>0. d \in Seq(S)
  BY DEF Dsl!Name
<1> HIDE DEF S
<1>1. \A i \in DOMAIN d : d[i] \in S
  BY <1>0
<1>2. ASSUME NEW i \in DOMAIN d PROVE tok(i) \in T
  <2>1. <<d[i]>> \in Dsl!Name
    BY <1>1, SingleIs, Zenon DEF Dsl!Name, S
  <2> QED
    BY <2>1, TokenIs DEF Dsl!Op
<1>3. Dsl!RenderDate(d) = [i \in DOMAIN d |-> tok(i)]
  BY DEF Dsl!RenderDate
<1> HIDE DEF T, tok
<1>4. DOMAIN d = 1 .. Len(d) /\ Len(d) \in Nat
  BY <1>0
<1> QED
  BY <1>2, <1>3, <1>4 DEF T

LEMMA OrderIs ==
    ASSUME NEW q, q.order \in Dsl!Name, q.desc = TRUE
    PROVE  LET w == Dsl!OrderText(q) IN
           /\ w \in Seq(Dsl!Token)
           /\ Len(q.order) = 1 => /\ Len(w) = 4 /\ w[1] = Dsl!Id("order") /\ w[2] = Dsl!Id("by")
                                  /\ w[3] = Dsl!Tok("ID", q.order) /\ w[4] = Dsl!Id("desc")
<1> DEFINE T == Dsl!Token
           S == STRING
           o == q.order
           a == <<Dsl!Id("order"), Dsl!Id("by")>>
           b == [i \in DOMAIN o |-> Dsl!Id(o[i])]
           c == <<Dsl!Id("desc")>>
<1>0. o \in Seq(S)
  BY DEF Dsl!Name
<1>1. Dsl!Id("order") \in T /\ Dsl!Id("by") \in T /\ Dsl!Id("desc") \in T
  BY WordIs DEF Dsl!Written, Dsl!Keyword
<1> HIDE DEF S
<1>2. \A i \in DOMAIN o : o[i] \in S
  BY <1>0
<1>3. ASSUME NEW i \in DOMAIN o PROVE Dsl!Id(o[i]) \in T
  <2>1. <<o[i]>> \in Dsl!Name
    BY <1>2, SingleIs, Zenon DEF Dsl!Name, S
  <2> QED
    BY <2>1, TokenIs DEF Dsl!Id
<1>4. DOMAIN o = 1 .. Len(o) /\ Len(o) \in Nat
  BY <1>0
<1>5. Len(o) = 1 => o = <<o[1]>>
  BY <1>0
<1>6. Len(o) = 1 => Dsl!Id(o[1]) = Dsl!Tok("ID", o)
  BY <1>5, Zenon DEF Dsl!Id
<1>7. Dsl!OrderText(q) = a \o b \o c
  BY DEF Dsl!OrderText
<1> HIDE DEF T, o
<1>8. a \in Seq(T) /\ Len(a) = 2 /\ a[1] = Dsl!Id("order") /\ a[2] = Dsl!Id("by")
  BY <1>1
<1>9. b \in Seq(T) /\ Len(b) = Len(o) /\ (Len(o) = 1 => b[1] = Dsl!Id(o[1]))
  BY <1>3, <1>4
<1>10. c \in Seq(T) /\ Len(c) = 1 /\ c[1] = Dsl!Id("desc")
  BY <1>1
<1> HIDE DEF a, b, c
<1> DEFINE ab == a \o b
           w == ab \o c
<1>11. IsJoined(ab, a, b, T)
  BY <1>8, <1>9, ConcatIs, Zenon
<1> HIDE DEF ab
<1>14. ab \in Seq(T)
  BY <1>11 DEF IsJoined
<1>12. IsJoined(w, ab, c, T)
  BY <1>10, <1>14, ConcatIs, Zenon
<1> HIDE DEF w
<1>13. ASSUME Len(o) = 1
       PROVE  /\ Len(w) = 4 /\ w[1] = a[1] /\ w[2] = a[2] /\ w[3] = b[1] /\ w[4] = c[1]
  <2>1. Len(ab) = 3 /\ ab[1] = a[1] /\ ab[2] = a[2] /\ ab[2 + 1] = b[1]
    BY <1>8, <1>9, <1>11, <1>13 DEF IsJoined
  <2>2. Len(w) = 4 /\ w[1] = ab[1] /\ w[2] = ab[2] /\ w[3] = ab[3] /\ w[3 + 1] = c[1]
    BY <1>10, <1>12, <2>1 DEF IsJoined
  <2> QED
    BY <2>1, <2>2
<1>15. w \in Seq(T)
  BY <1>12 DEF IsJoined
<1> QED
  BY <1>6, <1>7, <1>8, <1>9, <1>10, <1>13, <1>15 DEF w, ab, T, o

LEMMA BetweenIs ==
    ASSUME NEW d \in Dsl!Name, NEW e \in Dsl!Name
    PROVE  <<Dsl!Id("between")>> \o Dsl!RenderDate(d) \o <<Dsl!Id("and")>> \o Dsl!RenderDate(e)
           \in Seq(Dsl!Token)
<1>1. Dsl!Id("between") \in Dsl!Token /\ Dsl!Id("and") \in Dsl!Token
  BY WordIs DEF Dsl!Written, Dsl!Keyword
<1> DEFINE a == <<Dsl!Id("between")>>
           b == Dsl!RenderDate(d)
           c == <<Dsl!Id("and")>>
           f == Dsl!RenderDate(e)
<1>2. a \in Seq(Dsl!Token) /\ c \in Seq(Dsl!Token)
  BY <1>1, SingleIs
<1>3. b \in Seq(Dsl!Token) /\ f \in Seq(Dsl!Token)
  BY DateIs
<1> HIDE DEF a, b, c, f
<1>4. a \o b \in Seq(Dsl!Token)
  BY <1>2, <1>3, ConcatIs, Zenon DEF IsJoined
<1>5. (a \o b) \o c \in Seq(Dsl!Token)
  BY <1>2, <1>4, ConcatIs, Zenon DEF IsJoined
<1>6. ((a \o b) \o c) \o f \in Seq(Dsl!Token)
  BY <1>3, <1>5, ConcatIs, Zenon DEF IsJoined
<1> QED
  BY <1>6 DEF a, b, c, f

LEMMA SelectIs ==
    ASSUME NEW q, q.metrics \in Seq(Dsl!Name)
    PROVE  LET w == Dsl!SelectText(q)
               M == Len(q.metrics)
           IN  /\ w \in Seq(Dsl!Token)
               /\ q.metrics # <<>> =>
                     /\ Len(w) = 2 * M /\ w[1] = Dsl!Id("select")
                     /\ \A n \in 0 .. M - 1 : w[2 * n + 2] = Dsl!Tok("ID", q.metrics[n + 1])
                     /\ \A n \in 1 .. M - 1 : w[2 * n + 1] = Dsl!Tok("COMMA", <<",">>)
<1> DEFINE h == Dsl!Id("select")
           s == q.metrics
           w == Dsl!SelectText(q)
<1>1. h \in Dsl!Token
  BY WordIs DEF Dsl!Written, Dsl!Keyword
<1>2. w = <<h>> \o Dsl!Names(s)
  BY DEF Dsl!SelectText
<1>3. CASE s # <<>>
  <2> HIDE DEF h, w, s
  <2>1. s \in Seq(Dsl!Name)
    BY DEF s
  <2>2. /\ w \in Seq(Dsl!Token) /\ Len(w) = 2 * Len(s) /\ w[1] = h
        /\ \A n \in 0 .. Len(s) - 1 : w[2 * n + 2] = Dsl!Tok("ID", s[n + 1])
        /\ \A n \in 1 .. Len(s) - 1 : w[2 * n + 1] = Dsl!Tok("COMMA", <<",">>)
    BY <1>1, <1>2, <1>3, <2>1, HeadIs
  <2> QED
    BY <2>2 DEF h, w, s
<1>4. CASE s = <<>>
  <2> HIDE DEF h
  <2>1. Len(s) = 0
    BY <1>4
  <2>2. 1 .. 2 * 0 - 1 = 1 .. 0
    OBVIOUS
  <2> DEFINE e == [i \in DOMAIN s |-> Dsl!Tok("ID", s[i])]
  <2>3. Len(e) = 0
    BY <1>4
  <2>4. Dsl!Names(s) = Dsl!List(e)
    BY DEF Dsl!Names
  <2> HIDE DEF e
  <2>5. Dsl!List(e) = <<>>
    BY <2>2, <2>3 DEF Dsl!List
  <2>6. Dsl!Names(s) \in Seq(Dsl!Token)
    BY <2>4, <2>5
  <2>7. <<h>> \in Seq(Dsl!Token)
    BY <1>1, SingleIs
  <2>8. w \in Seq(Dsl!Token)
    BY <1>2, <2>6, <2>7, ConcatIs DEF IsJoined
  <2> QED
    BY <1>4, <2>8
<1> QED
  BY <1>3, <1>4

(* What the clauses of a text are, token by token. *)
LEMMA ClausesAre ==
    ASSUME NEW q \in Dsl!Query
    PROVE  LET ct == Dsl!ClauseTexts(q) IN
           /\ ct \in Seq(Seq(Dsl!Token)) /\ Len(ct) = 6
           /\ ct[1] = IF q.dims = <<>> THEN <<>> ELSE <<Dsl!Id("by")>> \o Dsl!Names(q.dims)
           /\ ct[2] = IF q.filters = <<>> THEN <<>> ELSE Dsl!WhereText(q)
           /\ ct[3] = IF q.days = <<>> THEN <<>>
                      ELSE <<Dsl!Id("since"), Dsl!Tok("NUM", q.days), Dsl!Id("days")>>
           /\ q.between = <<>> => ct[4] = <<>>
           /\ ct[5] = IF q.order = <<>> THEN <<>> ELSE Dsl!OrderText(q)
           /\ ct[6] = IF q.limit = <<>> THEN <<>> ELSE <<Dsl!Id("limit"), Dsl!Tok("NUM", q.limit)>>
<1> DEFINE ct == Dsl!ClauseTexts(q)
           T == Dsl!Token
           V == Seq(T)
           c1 == IF q.dims = <<>> THEN <<>> ELSE <<Dsl!Id("by")>> \o Dsl!Names(q.dims)
           c2 == IF q.filters = <<>> THEN <<>> ELSE Dsl!WhereText(q)
           c3 == IF q.days = <<>> THEN <<>>
                 ELSE <<Dsl!Id("since"), Dsl!Tok("NUM", q.days), Dsl!Id("days")>>
           c4 == IF q.between = <<>> THEN <<>>
                 ELSE <<Dsl!Id("between")>> \o Dsl!RenderDate(q.between[1]) \o <<Dsl!Id("and")>>
                      \o Dsl!RenderDate(q.between[2])
           c5 == IF q.order = <<>> THEN <<>> ELSE Dsl!OrderText(q)
           c6 == IF q.limit = <<>> THEN <<>> ELSE <<Dsl!Id("limit"), Dsl!Tok("NUM", q.limit)>>
<1>0. ct = <<c1, c2, c3, c4, c5, c6>>
  BY Zenon DEF Dsl!ClauseTexts, Dsl!Clause
<1>1. /\ q.dims \in Seq(Dsl!Name) /\ q.filters \in Seq(Dsl!Condition) /\ q.days \in Dsl!Name
      /\ q.between \in {<<>>} \cup (Dsl!Name \X Dsl!Name) /\ q.order \in Dsl!Name
      /\ q.desc = TRUE /\ q.limit \in Dsl!Name
  BY DEF Dsl!Query
<1>2. /\ Dsl!Id("by") \in T /\ Dsl!Id("since") \in T /\ Dsl!Id("days") \in T /\ Dsl!Id("limit") \in T
      /\ <<>> \in V
  <2>1. {"by", "since", "days", "limit"} \subseteq Dsl!Written
    BY DEF Dsl!Written, Dsl!Keyword
  <2>2. Dsl!Id("by") \in T /\ Dsl!Id("since") \in T /\ Dsl!Id("days") \in T /\ Dsl!Id("limit") \in T
    BY <2>1, WordIs
  <2> HIDE DEF T
  <2> QED
    BY <2>2
<1>3. c1 \in V
  BY <1>1, <1>2, HeadIs
<1>4. c2 \in V
  BY <1>1, <1>2, WhereIs
<1>5. c3 \in V
  <2>1. Dsl!Tok("NUM", q.days) \in T
    BY <1>1, TokenIs
  <2> QED
    BY <1>2, <2>1, ThreeIs
<1>6. c4 \in V
  <2>1. CASE q.between # <<>>
    <3>1. q.between[1] \in Dsl!Name /\ q.between[2] \in Dsl!Name
      <4> HIDE DEF Dsl!Name
      <4> QED
        BY <1>1, <2>1
    <3> QED
      BY <2>1, <3>1, BetweenIs
  <2> QED
    BY <1>2, <2>1
<1>7. c5 \in V
  BY <1>1, <1>2, OrderIs
<1>8. c6 \in V
  <2>1. Dsl!Tok("NUM", q.limit) \in T
    BY <1>1, TokenIs
  <2> HIDE DEF T
  <2>2. <<Dsl!Id("limit"), Dsl!Tok("NUM", q.limit)>> \in V
    BY <1>2, <2>1
  <2> QED
    BY <1>2, <2>2
<1>9. q.between = <<>> => c4 = <<>>
  OBVIOUS
<1> HIDE DEF c1, c2, c3, c4, c5, c6, V
<1>10. /\ <<c1, c2, c3, c4, c5, c6>> \in Seq(V) /\ Len(<<c1, c2, c3, c4, c5, c6>>) = 6
       /\ <<c1, c2, c3, c4, c5, c6>>[1] = c1 /\ <<c1, c2, c3, c4, c5, c6>>[2] = c2
       /\ <<c1, c2, c3, c4, c5, c6>>[3] = c3 /\ <<c1, c2, c3, c4, c5, c6>>[4] = c4
       /\ <<c1, c2, c3, c4, c5, c6>>[5] = c5 /\ <<c1, c2, c3, c4, c5, c6>>[6] = c6
  BY <1>3, <1>4, <1>5, <1>6, <1>7, <1>8
<1>11. /\ ct \in Seq(V) /\ Len(ct) = 6 /\ ct[1] = c1 /\ ct[2] = c2 /\ ct[3] = c3 /\ ct[4] = c4
       /\ ct[5] = c5 /\ ct[6] = c6
  BY <1>0, <1>10, Zenon
<1> HIDE DEF ct
<1>12. ct \in Seq(Seq(Dsl!Token))
  BY <1>11 DEF V, T
<1> QED
  BY <1>9, <1>11, <1>12, Zenon DEF ct, c1, c2, c3, c5, c6

(* Where the clauses are in the text. *)
IsText(q) ==
    LET R == Dsl!Render(q)
        ct == Dsl!ClauseTexts(q)
    IN  /\ R \in Seq(Dsl!Token) /\ Len(R) = Dsl!Upto(q, 6)
        /\ Dsl!Upto(q, 0) = Len(Dsl!SelectText(q))
        /\ \A c \in 0 .. 6 : Dsl!Upto(q, c) \in Nat /\ Dsl!Upto(q, c) <= Dsl!Upto(q, 6)
        /\ \A c \in 1 .. 6 : Dsl!Upto(q, c) = Dsl!Upto(q, c - 1) + Len(ct[c])
        /\ \A j \in 1 .. Dsl!Upto(q, 0) : R[j] = Dsl!SelectText(q)[j]
        /\ \A c \in 1 .. 6 : \A j \in 1 .. Len(ct[c]) : R[Dsl!Upto(q, c - 1) + j] = ct[c][j]

LEMMA OffsetIs ==
    ASSUME NEW u \in Nat, NEW k \in Nat, NEW l \in Nat, NEW v \in Nat, NEW w \in Nat,
           NEW j \in 1 .. l, u - k \in Nat, v = u + l, v <= w
    PROVE  (u - k) + j \in 1 .. w - k /\ k + ((u - k) + j) = u + j
OBVIOUS

LEMMA TextIs ==
    ASSUME NEW q \in Dsl!Query
    PROVE  IsText(q)
<1> DEFINE R == Dsl!Render(q)
           ct == Dsl!ClauseTexts(q)
           sel == Dsl!SelectText(q)
           flat == Dsl!FlattenSeq(ct)
           T == Dsl!Token
           L == Len(sel)
           U == [c \in 0 .. 6 |-> Dsl!Upto(q, c)]
           at == [c \in 0 .. 6 |-> U[c] - L]
<1>1. ct \in Seq(Seq(T)) /\ Len(ct) = 6
  BY ClausesAre
<1>2. q.metrics \in Seq(Dsl!Name)
  BY DEF Dsl!Query
<1>3. sel \in Seq(T)
  BY <1>2, SelectIs
<1> HIDE DEF ct, sel, T
<1>4. L \in Nat
  BY <1>3
<1>40. \A c \in 1 .. 6 : Len(ct[c]) \in Nat
  BY <1>1
<1> HIDE DEF L
<1> DEFINE l == [c \in 1 .. 6 |-> Len(ct[c])]
<1>5. U[0] = L /\ U[1] = U[0] + l[1] /\ U[2] = U[1] + l[2] /\ U[3] = U[2] + l[3]
      /\ U[4] = U[3] + l[4] /\ U[5] = U[4] + l[5] /\ U[6] = U[5] + l[6]
  <2>1. l[1] \in Nat /\ l[2] \in Nat /\ l[3] \in Nat /\ l[4] \in Nat /\ l[5] \in Nat /\ l[6] \in Nat
    BY <1>40
  <2>2. U[0] = L + 0 + 0 + 0 + 0 + 0 + 0
    BY <1>4, <1>40 DEF Dsl!Upto, sel, L, ct
  <2>3. U[1] = L + l[1] + 0 + 0 + 0 + 0 + 0
    BY <1>4, <1>40 DEF Dsl!Upto, sel, L, ct
  <2>4. U[2] = L + l[1] + l[2] + 0 + 0 + 0 + 0
    BY <1>4, <1>40 DEF Dsl!Upto, sel, L, ct
  <2>5. U[3] = L + l[1] + l[2] + l[3] + 0 + 0 + 0
    BY <1>4, <1>40 DEF Dsl!Upto, sel, L, ct
  <2>6. U[4] = L + l[1] + l[2] + l[3] + l[4] + 0 + 0
    BY <1>4, <1>40 DEF Dsl!Upto, sel, L, ct
  <2>7. U[5] = L + l[1] + l[2] + l[3] + l[4] + l[5] + 0
    BY <1>4, <1>40 DEF Dsl!Upto, sel, L, ct
  <2>8. U[6] = L + l[1] + l[2] + l[3] + l[4] + l[5] + l[6]
    BY <1>4, <1>40 DEF Dsl!Upto, sel, L, ct
  <2> HIDE DEF U, l
  <2> QED
    BY <1>4, <2>1, <2>2, <2>3, <2>4, <2>5, <2>6, <2>7, <2>8
<1>6. \A c \in 1 .. 6 : l[c] \in Nat
  BY <1>40
<1> HIDE DEF U, l, at, R, flat
<1>7. \A c \in 0 .. 6 : U[c] \in Nat /\ U[c] <= U[6] /\ U[c] - L \in Nat
  <2>1. \A c \in 0 .. 6 : c \in {0, 1, 2, 3, 4, 5, 6}
    OBVIOUS
  <2>2. l[1] \in Nat /\ l[2] \in Nat /\ l[3] \in Nat /\ l[4] \in Nat /\ l[5] \in Nat /\ l[6] \in Nat
    BY <1>6
  <2>3. /\ U[0] \in Nat /\ U[1] \in Nat /\ U[2] \in Nat /\ U[3] \in Nat
        /\ U[4] \in Nat /\ U[5] \in Nat /\ U[6] \in Nat
    BY <1>4, <1>5, <2>2
  <2>4. /\ L <= U[0] /\ U[0] <= U[1] /\ U[1] <= U[2] /\ U[2] <= U[3]
        /\ U[3] <= U[4] /\ U[4] <= U[5] /\ U[5] <= U[6]
    BY <1>4, <1>5, <2>2, <2>3
  <2>5. ASSUME NEW c \in 0 .. 6
        PROVE  U[c] \in Nat /\ U[c] <= U[6] /\ L <= U[c]
    BY <1>4, <2>1, <2>3, <2>4
  <2> QED
    BY <1>4, <2>5
<1>8. \A c \in 1 .. 6 : U[c] = U[c - 1] + l[c] /\ c - 1 \in 0 .. 6
  <2>1. \A c \in 1 .. 6 : c \in {1, 2, 3, 4, 5, 6} /\ c - 1 \in 0 .. 6
    OBVIOUS
  <2> QED
    BY <1>5, <2>1
<1>9. IsOffset(at, ct)
  <2>1. at \in [0 .. 6 -> Nat] /\ at[0] = 0
    BY <1>4, <1>5, <1>7 DEF at
  <2>2. ASSUME NEW c \in 1 .. 6 PROVE at[c] = at[c - 1] + Len(ct[c])
    <3>1. at[c] = U[c] - L /\ at[c - 1] = U[c - 1] - L
      BY <1>8 DEF at
    <3>2. U[c] = U[c - 1] + Len(ct[c]) /\ Len(ct[c]) \in Nat
      BY <1>8, <1>40 DEF l
    <3>3. U[c - 1] \in Nat
      BY <1>7, <1>8
    <3> HIDE DEF at
    <3> QED
      BY <1>4, <3>1, <3>2, <3>3
  <2> HIDE DEF at
  <2> QED
    BY <1>1, <2>1, <2>2 DEF IsOffset
<1>10. \A c \in 0 .. 6 : at[c] = U[c] - L
  BY DEF at
<1> HIDE DEF at
<1>11. IsFlat(flat, at, ct, T)
  <2>1. Len(ct) > 0
    BY <1>1
  <2> QED
    BY <1>1, <1>9, <2>1, FlattenIs, Zenon DEF flat
<1> HIDE DEF flat
<1>12. flat \in Seq(T) /\ Len(flat) = U[6] - L
  BY <1>1, <1>10, <1>11 DEF IsFlat
<1>13. R = sel \o flat
  BY DEF Dsl!Render, R, sel, flat, ct
<1> HIDE DEF R
<1>14. IsJoined(R, sel, flat, T)
  BY <1>3, <1>12, <1>13, ConcatIs, Zenon
<1>15. /\ R \in Seq(T) /\ Len(R) = U[6] /\ \A j \in 1 .. L : R[j] = sel[j]
       /\ \A j \in 1 .. U[6] - L : R[L + j] = flat[j]
  <2>1. R \in Seq(T) /\ Len(R) = L + (U[6] - L) /\ \A j \in 1 .. L : R[j] = sel[j]
    BY <1>12, <1>14 DEF IsJoined, L
  <2>2. \A j \in 1 .. U[6] - L : R[L + j] = flat[j]
    BY <1>12, <1>14 DEF IsJoined, L
  <2>3. U[6] \in Nat
    BY <1>7
  <2>4. L + (U[6] - L) = U[6]
    BY <1>4, <2>3
  <2> QED
    BY <2>1, <2>2, <2>4
<1>16. ASSUME NEW c \in 1 .. 6, NEW j \in 1 .. l[c] PROVE R[U[c - 1] + j] = ct[c][j]
  <2>1. flat[at[c - 1] + j] = ct[c][j]
    BY <1>1, <1>11 DEF IsFlat, l
  <2>2. at[c - 1] = U[c - 1] - L
    BY <1>8, <1>10
  <2>3. /\ U[c - 1] \in Nat /\ U[c - 1] - L \in Nat /\ U[c] = U[c - 1] + l[c] /\ l[c] \in Nat
        /\ U[c] <= U[6] /\ U[c] \in Nat /\ U[6] \in Nat /\ j \in Nat
    BY <1>6, <1>7, <1>8
  <2>4. at[c - 1] + j \in 1 .. U[6] - L /\ L + (at[c - 1] + j) = U[c - 1] + j
    BY <1>4, <2>2, <2>3, OffsetIs
  <2>5. R[L + (at[c - 1] + j)] = flat[at[c - 1] + j]
    BY <1>15, <2>4
  <2> QED
    BY <2>1, <2>4, <2>5
<1>21. /\ \A c \in 0 .. 6 : U[c] = Dsl!Upto(q, c)
       /\ \A c \in 1 .. 6 : l[c] = Len(ct[c])
  BY DEF U, l
<1>22. L = Len(sel)
  BY DEF L
<1>23. \A c \in 1 .. 6 : c \in 0 .. 6 /\ c - 1 \in 0 .. 6
  OBVIOUS
<1>17. /\ Dsl!Upto(q, 0) = Len(sel)
       /\ \A c \in 0 .. 6 : Dsl!Upto(q, c) \in Nat /\ Dsl!Upto(q, c) <= Dsl!Upto(q, 6)
       /\ \A c \in 1 .. 6 : Dsl!Upto(q, c) = Dsl!Upto(q, c - 1) + Len(ct[c])
  <2>1. 0 \in 0 .. 6 /\ 6 \in 0 .. 6
    OBVIOUS
  <2>2. U[0] = Dsl!Upto(q, 0) /\ U[6] = Dsl!Upto(q, 6)
    BY <1>21, <2>1
  <2>3. ASSUME NEW c \in 0 .. 6
        PROVE  Dsl!Upto(q, c) \in Nat /\ Dsl!Upto(q, c) <= Dsl!Upto(q, 6)
    <3>1. U[c] \in Nat /\ U[c] <= U[6] /\ U[c] = Dsl!Upto(q, c)
      BY <1>7, <1>21
    <3> QED
      BY <2>2, <3>1
  <2>4. ASSUME NEW c \in 1 .. 6
        PROVE  Dsl!Upto(q, c) = Dsl!Upto(q, c - 1) + Len(ct[c])
    <3>1. U[c] = U[c - 1] + l[c] /\ l[c] = Len(ct[c])
      BY <1>8, <1>21
    <3>2. U[c] = Dsl!Upto(q, c) /\ U[c - 1] = Dsl!Upto(q, c - 1)
      BY <1>21, <1>23
    <3> QED
      BY <3>1, <3>2
  <2> QED
    BY <1>5, <1>22, <2>2, <2>3, <2>4
<1>18. \A c \in 1 .. 6 : \A j \in 1 .. Len(ct[c]) : R[Dsl!Upto(q, c - 1) + j] = ct[c][j]
  BY <1>16, <1>21, <1>23
<1>19. \A j \in 1 .. Dsl!Upto(q, 0) : R[j] = sel[j]
  BY <1>5, <1>15, <1>21
<1>20. R \in Seq(T) /\ Len(R) = Dsl!Upto(q, 6)
  BY <1>15, <1>21
<1> QED
  BY <1>17, <1>18, <1>19, <1>20, Zenon DEF IsText, R, T, ct, sel

(* The tokens of the text of a query that can be said, clause by clause. *)
LEMMA TextOfMetrics ==
    ASSUME NEW q \in Dsl!Query, q.metrics # <<>>
    PROVE  LET R == Dsl!Render(q)
               M == Len(q.metrics)
           IN  /\ M \in Nat /\ M >= 1 /\ Dsl!Upto(q, 0) = 2 * M /\ R[1] = Dsl!Id("select")
               /\ \A n \in 0 .. M - 1 : R[2 * n + 2] = Dsl!Tok("ID", q.metrics[n + 1])
               /\ \A n \in 1 .. M - 1 : R[2 * n + 1] = Dsl!Tok("COMMA", <<",">>)
<1> DEFINE R == Dsl!Render(q)
           M == Len(q.metrics)
           w == Dsl!SelectText(q)
           name(n) == Dsl!Tok("ID", q.metrics[n])
           comma == Dsl!Tok("COMMA", <<",">>)
<1>1. q.metrics \in Seq(Dsl!Name)
  BY DEF Dsl!Query
<1>2. /\ Len(w) = 2 * M /\ w[1] = Dsl!Id("select")
      /\ \A n \in 0 .. M - 1 : w[2 * n + 2] = name(n + 1)
      /\ \A n \in 1 .. M - 1 : w[2 * n + 1] = comma
  BY <1>1, SelectIs, Zenon
<1>3. M \in Nat /\ M >= 1
  BY <1>1
<1>4. Dsl!Upto(q, 0) = Len(w) /\ \A j \in 1 .. Dsl!Upto(q, 0) : R[j] = w[j]
  BY TextIs, Zenon DEF IsText
<1> HIDE DEF R, M, w, name, comma
<1>5. \A j \in 1 .. 2 * M : R[j] = w[j]
  BY <1>2, <1>4
<1>6. R[1] = w[1]
  BY <1>3, <1>5
<1>7. ASSUME NEW n \in 0 .. M - 1 PROVE R[2 * n + 2] = name(n + 1)
  <2>1. 2 * n + 2 \in 1 .. 2 * M
    BY <1>3
  <2> QED
    BY <1>2, <1>5, <2>1
<1>8. ASSUME NEW n \in 1 .. M - 1 PROVE R[2 * n + 1] = comma
  <2>1. 2 * n + 1 \in 1 .. 2 * M
    BY <1>3
  <2> QED
    BY <1>2, <1>5, <2>1
<1>9. Dsl!Upto(q, 0) = 2 * M /\ R[1] = Dsl!Id("select")
  BY <1>2, <1>4, <1>6
<1> QED
  BY <1>3, <1>7, <1>8, <1>9 DEF R, M, name, comma

(* Where the text of a clause is. *)
IsClause(q, c, w) ==
    /\ Dsl!Upto(q, c - 1) \in Nat /\ Dsl!Upto(q, c) = Dsl!Upto(q, c - 1) + Len(w)
    /\ \A j \in 1 .. Len(w) : Dsl!Render(q)[Dsl!Upto(q, c - 1) + j] = w[j]

LEMMA TextOfClause ==
    ASSUME NEW q \in Dsl!Query, NEW c \in 1 .. 6, NEW w, Dsl!ClauseTexts(q)[c] = w
    PROVE  IsClause(q, c, w)
<1>1. c - 1 \in 0 .. 6
  OBVIOUS
<1>2. IsText(q)
  BY TextIs
<1>3. Dsl!Upto(q, c - 1) \in Nat
  BY <1>1, <1>2, Zenon DEF IsText
<1>4. Dsl!Upto(q, c) = Dsl!Upto(q, c - 1) + Len(w)
  BY <1>2, Zenon DEF IsText
<1>5. \A j \in 1 .. Len(w) : Dsl!Render(q)[Dsl!Upto(q, c - 1) + j] = w[j]
  BY <1>2, Zenon DEF IsText
<1> QED
  BY <1>3, <1>4, <1>5, Zenon DEF IsClause

LEMMA TextOfDimensions ==
    ASSUME NEW q \in Dsl!Query, q.dims # <<>>
    PROVE  LET R == Dsl!Render(q)
               D == Len(q.dims)
               u == Dsl!Upto(q, 0)
           IN  /\ D \in Nat /\ D >= 1 /\ u \in Nat /\ Dsl!Upto(q, 1) = u + 2 * D
               /\ R[u + 1] = Dsl!Id("by")
               /\ \A n \in 0 .. D - 1 : R[u + 2 * n + 2] = Dsl!Tok("ID", q.dims[n + 1])
               /\ \A n \in 1 .. D - 1 : R[u + 2 * n + 1] = Dsl!Tok("COMMA", <<",">>)
<1> DEFINE R == Dsl!Render(q)
           D == Len(q.dims)
           u == Dsl!Upto(q, 0)
           h == Dsl!Id("by")
           w == <<h>> \o Dsl!Names(q.dims)
           name(n) == Dsl!Tok("ID", q.dims[n])
           comma == Dsl!Tok("COMMA", <<",">>)
<1>1. q.dims \in Seq(Dsl!Name)
  BY DEF Dsl!Query
<1>2. h \in Dsl!Token
  BY WordIs DEF Dsl!Written, Dsl!Keyword
<1>3. D \in Nat /\ D >= 1
  BY <1>1
<1>4. Dsl!ClauseTexts(q)[1] = w
  BY ClausesAre, Zenon
<1> HIDE DEF h
<1>5. /\ Len(w) = 2 * D /\ w[1] = h
      /\ \A n \in 0 .. D - 1 : w[2 * n + 2] = name(n + 1)
      /\ \A n \in 1 .. D - 1 : w[2 * n + 1] = comma
  BY <1>1, <1>2, HeadIs, Zenon
<1> HIDE DEF w
<1>6. /\ Dsl!Upto(q, 1 - 1) \in Nat /\ Dsl!Upto(q, 1) = Dsl!Upto(q, 1 - 1) + Len(w)
      /\ \A j \in 1 .. Len(w) : R[Dsl!Upto(q, 1 - 1) + j] = w[j]
  <2>1. 1 \in 1 .. 6
    OBVIOUS
  <2>2. IsClause(q, 1, w)
    BY <1>4, <2>1, TextOfClause, Zenon
  <2> QED
    BY <2>2, Zenon DEF IsClause
<1>7. 1 - 1 = 0
  OBVIOUS
<1>8. /\ u \in Nat /\ Dsl!Upto(q, 1) = u + Len(w)
      /\ \A j \in 1 .. Len(w) : R[u + j] = w[j]
  BY <1>6, <1>7
<1> HIDE DEF R, D, name, comma, u
<1>9. \A j \in 1 .. 2 * D : R[u + j] = w[j]
  BY <1>5, <1>8
<1>10. R[u + 1] = h
  BY <1>3, <1>5, <1>9
<1>11. ASSUME NEW n \in 0 .. D - 1 PROVE R[u + 2 * n + 2] = name(n + 1)
  <2>1. 2 * n + 2 \in 1 .. 2 * D /\ u + (2 * n + 2) = u + 2 * n + 2
    BY <1>3, <1>8
  <2> QED
    BY <1>5, <1>9, <2>1
<1>12. ASSUME NEW n \in 1 .. D - 1 PROVE R[u + 2 * n + 1] = comma
  <2>1. 2 * n + 1 \in 1 .. 2 * D /\ u + (2 * n + 1) = u + 2 * n + 1
    BY <1>3, <1>8
  <2> QED
    BY <1>5, <1>9, <2>1
<1>13. u \in Nat /\ Dsl!Upto(q, 1) = u + 2 * D
  BY <1>5, <1>8
<1> QED
  BY <1>3, <1>10, <1>11, <1>12, <1>13 DEF R, D, h, u, name, comma

LEMMA TextOfFilters ==
    ASSUME NEW q \in Dsl!Query, q.filters # <<>>
    PROVE  LET R == Dsl!Render(q)
               F == Len(q.filters)
               u == Dsl!Upto(q, 1)
           IN  /\ F \in Nat /\ F >= 1 /\ u \in Nat /\ Dsl!Upto(q, 2) = u + 4 * F
               /\ R[u + 1] = Dsl!Id("where")
               /\ \A n \in 0 .. F - 1 :
                     /\ R[u + 4 * n + 2] = Dsl!Tok("ID", q.filters[n + 1].col)
                     /\ R[u + 4 * n + 3] = Dsl!Op(q.filters[n + 1].op)
                     /\ R[u + 4 * n + 4] = Dsl!RenderValue(q.filters[n + 1].val[1])
               /\ \A n \in 1 .. F - 1 : R[u + 4 * n + 1] = Dsl!Id("and")
<1> DEFINE R == Dsl!Render(q)
           F == Len(q.filters)
           u == Dsl!Upto(q, 1)
           w == Dsl!WhereText(q)
           a(n) == Dsl!Tok("ID", q.filters[n].col)
           b(n) == Dsl!Op(q.filters[n].op)
           c(n) == Dsl!RenderValue(q.filters[n].val[1])
           h == Dsl!Id("where")
           and == Dsl!Id("and")
<1>1. q.filters \in Seq(Dsl!Condition)
  BY DEF Dsl!Query
<1>2. /\ Len(w) = 4 * F /\ w[1] = h
      /\ \A n \in 0 .. F - 1 : /\ w[4 * n + 2] = a(n + 1) /\ w[4 * n + 3] = b(n + 1)
                               /\ w[4 * n + 4] = c(n + 1)
      /\ \A n \in 1 .. F - 1 : w[4 * n + 1] = and
  BY <1>1, WhereIs, Zenon
<1>3. F \in Nat /\ F >= 1
  BY <1>1
<1>4. Dsl!ClauseTexts(q)[2] = w
  BY ClausesAre, Zenon
<1> HIDE DEF w, h, a, b, c, and
<1>6. /\ Dsl!Upto(q, 2 - 1) \in Nat /\ Dsl!Upto(q, 2) = Dsl!Upto(q, 2 - 1) + Len(w)
      /\ \A j \in 1 .. Len(w) : R[Dsl!Upto(q, 2 - 1) + j] = w[j]
  <2>1. 2 \in 1 .. 6
    OBVIOUS
  <2>2. IsClause(q, 2, w)
    BY <1>4, <2>1, TextOfClause, Zenon
  <2> QED
    BY <2>2, Zenon DEF IsClause
<1>7. 2 - 1 = 1
  OBVIOUS
<1>8. /\ u \in Nat /\ Dsl!Upto(q, 2) = u + Len(w)
      /\ \A j \in 1 .. Len(w) : R[u + j] = w[j]
  BY <1>6, <1>7
<1> HIDE DEF R, F, u
<1>9. \A j \in 1 .. 4 * F : R[u + j] = w[j]
  BY <1>2, <1>8
<1>10. R[u + 1] = h
  BY <1>2, <1>3, <1>9
<1>11. ASSUME NEW n \in 0 .. F - 1
       PROVE  /\ R[u + 4 * n + 2] = a(n + 1) /\ R[u + 4 * n + 3] = b(n + 1)
              /\ R[u + 4 * n + 4] = c(n + 1)
  <2>1. 4 * n + 2 \in 1 .. 4 * F /\ 4 * n + 3 \in 1 .. 4 * F /\ 4 * n + 4 \in 1 .. 4 * F
    BY <1>3
  <2>2. /\ u + (4 * n + 2) = u + 4 * n + 2 /\ u + (4 * n + 3) = u + 4 * n + 3
        /\ u + (4 * n + 4) = u + 4 * n + 4
    BY <1>3, <1>8
  <2> QED
    BY <1>2, <1>9, <2>1, <2>2
<1>12. ASSUME NEW n \in 1 .. F - 1 PROVE R[u + 4 * n + 1] = and
  <2>1. 4 * n + 1 \in 1 .. 4 * F /\ u + (4 * n + 1) = u + 4 * n + 1
    BY <1>3, <1>8
  <2> QED
    BY <1>2, <1>9, <2>1
<1>13. u \in Nat /\ Dsl!Upto(q, 2) = u + 4 * F
  BY <1>2, <1>8
<1> QED
  BY <1>3, <1>10, <1>11, <1>12, <1>13 DEF R, F, h, u, a, b, c, and

(* Records of the query and of the parser: a change of one field. *)
Asked(m, d, f, y, b, o, e, l) ==
    [metrics |-> m, dims |-> d, filters |-> f, days |-> y,
     between |-> b, order |-> o, desc |-> e, limit |-> l]

Parsing(i, a, c, q, x, d, k, l) ==
    [i |-> i, at |-> a, clause |-> c, q |-> q,
     expr |-> x, depth |-> d, compound |-> k, list |-> l]

(* One field of a record set. *)
WithMetrics(r, z) == [r EXCEPT !.metrics = z]
WithDims(r, z) == [r EXCEPT !.dims = z]
WithFilters(r, z) == [r EXCEPT !.filters = z]
WithDays(r, z) == [r EXCEPT !.days = z]
WithOrder(r, z) == [r EXCEPT !.order = z]
WithDesc(r, z) == [r EXCEPT !.desc = z]
WithLimit(r, z) == [r EXCEPT !.limit = z]
WithI(r, z) == [r EXCEPT !.i = z]
WithAt(r, z) == [r EXCEPT !.at = z]
WithClause(r, z) == [r EXCEPT !.clause = z]
WithQ(r, z) == [r EXCEPT !.q = z]
WithExpr(r, z) == [r EXCEPT !.expr = z]
WithDepth(r, z) == [r EXCEPT !.depth = z]
WithCompound(r, z) == [r EXCEPT !.compound = z]
WithList(r, z) == [r EXCEPT !.list = z]

IsAsked(m, d, f, y, b, o, e, l, z) ==
    /\ WithMetrics(Asked(m, d, f, y, b, o, e, l), z) = Asked(z, d, f, y, b, o, e, l)
    /\ WithDims(Asked(m, d, f, y, b, o, e, l), z) = Asked(m, z, f, y, b, o, e, l)
    /\ WithFilters(Asked(m, d, f, y, b, o, e, l), z) = Asked(m, d, z, y, b, o, e, l)
    /\ WithDays(Asked(m, d, f, y, b, o, e, l), z) = Asked(m, d, f, z, b, o, e, l)
    /\ WithOrder(Asked(m, d, f, y, b, o, e, l), z) = Asked(m, d, f, y, b, z, e, l)
    /\ WithDesc(Asked(m, d, f, y, b, o, e, l), z) = Asked(m, d, f, y, b, o, z, l)
    /\ WithLimit(Asked(m, d, f, y, b, o, e, l), z) = Asked(m, d, f, y, b, o, e, z)

LEMMA AskedMore ==
    ASSUME NEW m, NEW d, NEW f, NEW y, NEW b, NEW o, NEW e, NEW l, NEW z
    PROVE  IsAsked(m, d, f, y, b, o, e, l, z)
<1>1. [[metrics |-> m, dims |-> d, filters |-> f, days |-> y, between |-> b, order |-> o, desc |-> e, limit |-> l]
          EXCEPT !.metrics = z]
      = [metrics |-> z, dims |-> d, filters |-> f, days |-> y, between |-> b, order |-> o, desc |-> e, limit |-> l]
  OBVIOUS
<1>2. [[metrics |-> m, dims |-> d, filters |-> f, days |-> y, between |-> b, order |-> o, desc |-> e, limit |-> l]
          EXCEPT !.dims = z]
      = [metrics |-> m, dims |-> z, filters |-> f, days |-> y, between |-> b, order |-> o, desc |-> e, limit |-> l]
  OBVIOUS
<1>3. [[metrics |-> m, dims |-> d, filters |-> f, days |-> y, between |-> b, order |-> o, desc |-> e, limit |-> l]
          EXCEPT !.filters = z]
      = [metrics |-> m, dims |-> d, filters |-> z, days |-> y, between |-> b, order |-> o, desc |-> e, limit |-> l]
  OBVIOUS
<1>4. [[metrics |-> m, dims |-> d, filters |-> f, days |-> y, between |-> b, order |-> o, desc |-> e, limit |-> l]
          EXCEPT !.days = z]
      = [metrics |-> m, dims |-> d, filters |-> f, days |-> z, between |-> b, order |-> o, desc |-> e, limit |-> l]
  OBVIOUS
<1>5. [[metrics |-> m, dims |-> d, filters |-> f, days |-> y, between |-> b, order |-> o, desc |-> e, limit |-> l]
          EXCEPT !.order = z]
      = [metrics |-> m, dims |-> d, filters |-> f, days |-> y, between |-> b, order |-> z, desc |-> e, limit |-> l]
  OBVIOUS
<1>6. [[metrics |-> m, dims |-> d, filters |-> f, days |-> y, between |-> b, order |-> o, desc |-> e, limit |-> l]
          EXCEPT !.desc = z]
      = [metrics |-> m, dims |-> d, filters |-> f, days |-> y, between |-> b, order |-> o, desc |-> z, limit |-> l]
  OBVIOUS
<1>7. [[metrics |-> m, dims |-> d, filters |-> f, days |-> y, between |-> b, order |-> o, desc |-> e, limit |-> l]
          EXCEPT !.limit = z]
      = [metrics |-> m, dims |-> d, filters |-> f, days |-> y, between |-> b, order |-> o, desc |-> e, limit |-> z]
  OBVIOUS
<1> QED
  BY <1>1, <1>2, <1>3, <1>4, <1>5, <1>6, <1>7, Zenon DEF IsAsked, Asked, WithMetrics, WithDims, WithFilters, WithDays, WithOrder, WithDesc, WithLimit

IsParsing(i, a, c, q, x, d, k, l, z) ==
    /\ WithI(Parsing(i, a, c, q, x, d, k, l), z) = Parsing(z, a, c, q, x, d, k, l)
    /\ WithAt(Parsing(i, a, c, q, x, d, k, l), z) = Parsing(i, z, c, q, x, d, k, l)
    /\ WithClause(Parsing(i, a, c, q, x, d, k, l), z) = Parsing(i, a, z, q, x, d, k, l)
    /\ WithQ(Parsing(i, a, c, q, x, d, k, l), z) = Parsing(i, a, c, z, x, d, k, l)
    /\ WithExpr(Parsing(i, a, c, q, x, d, k, l), z) = Parsing(i, a, c, q, z, d, k, l)
    /\ WithDepth(Parsing(i, a, c, q, x, d, k, l), z) = Parsing(i, a, c, q, x, z, k, l)
    /\ WithCompound(Parsing(i, a, c, q, x, d, k, l), z) = Parsing(i, a, c, q, x, d, z, l)
    /\ WithList(Parsing(i, a, c, q, x, d, k, l), z) = Parsing(i, a, c, q, x, d, k, z)

LEMMA ParsingMore ==
    ASSUME NEW i, NEW a, NEW c, NEW q, NEW x, NEW d, NEW k, NEW l, NEW z
    PROVE  IsParsing(i, a, c, q, x, d, k, l, z)
<1>1. [[i |-> i, at |-> a, clause |-> c, q |-> q, expr |-> x, depth |-> d, compound |-> k, list |-> l]
          EXCEPT !.i = z]
      = [i |-> z, at |-> a, clause |-> c, q |-> q, expr |-> x, depth |-> d, compound |-> k, list |-> l]
  OBVIOUS
<1>2. [[i |-> i, at |-> a, clause |-> c, q |-> q, expr |-> x, depth |-> d, compound |-> k, list |-> l]
          EXCEPT !.at = z]
      = [i |-> i, at |-> z, clause |-> c, q |-> q, expr |-> x, depth |-> d, compound |-> k, list |-> l]
  OBVIOUS
<1>3. [[i |-> i, at |-> a, clause |-> c, q |-> q, expr |-> x, depth |-> d, compound |-> k, list |-> l]
          EXCEPT !.clause = z]
      = [i |-> i, at |-> a, clause |-> z, q |-> q, expr |-> x, depth |-> d, compound |-> k, list |-> l]
  OBVIOUS
<1>4. [[i |-> i, at |-> a, clause |-> c, q |-> q, expr |-> x, depth |-> d, compound |-> k, list |-> l]
          EXCEPT !.q = z]
      = [i |-> i, at |-> a, clause |-> c, q |-> z, expr |-> x, depth |-> d, compound |-> k, list |-> l]
  OBVIOUS
<1>5. [[i |-> i, at |-> a, clause |-> c, q |-> q, expr |-> x, depth |-> d, compound |-> k, list |-> l]
          EXCEPT !.expr = z]
      = [i |-> i, at |-> a, clause |-> c, q |-> q, expr |-> z, depth |-> d, compound |-> k, list |-> l]
  OBVIOUS
<1>6. [[i |-> i, at |-> a, clause |-> c, q |-> q, expr |-> x, depth |-> d, compound |-> k, list |-> l]
          EXCEPT !.depth = z]
      = [i |-> i, at |-> a, clause |-> c, q |-> q, expr |-> x, depth |-> z, compound |-> k, list |-> l]
  OBVIOUS
<1>7. [[i |-> i, at |-> a, clause |-> c, q |-> q, expr |-> x, depth |-> d, compound |-> k, list |-> l]
          EXCEPT !.compound = z]
      = [i |-> i, at |-> a, clause |-> c, q |-> q, expr |-> x, depth |-> d, compound |-> z, list |-> l]
  OBVIOUS
<1>8. [[i |-> i, at |-> a, clause |-> c, q |-> q, expr |-> x, depth |-> d, compound |-> k, list |-> l]
          EXCEPT !.list = z]
      = [i |-> i, at |-> a, clause |-> c, q |-> q, expr |-> x, depth |-> d, compound |-> k, list |-> z]
  OBVIOUS
<1> QED
  BY <1>1, <1>2, <1>3, <1>4, <1>5, <1>6, <1>7, <1>8, Zenon DEF IsParsing, Parsing, WithI, WithAt, WithClause, WithQ, WithExpr, WithDepth, WithCompound, WithList

IsRead(p, i, a, c, q, x, d, k, l) ==
    /\ p.i = i /\ p.at = a /\ p.clause = c /\ p.q = q
    /\ p.expr = x /\ p.depth = d /\ p.compound = k /\ p.list = l

LEMMA ParsingHas ==
    ASSUME NEW i, NEW a, NEW c, NEW q, NEW x, NEW d, NEW k, NEW l
    PROVE  IsRead(Parsing(i, a, c, q, x, d, k, l), i, a, c, q, x, d, k, l)
BY DEF Parsing, IsRead

WithOrderDesc(r, v, w) == [r EXCEPT !.order = v, !.desc = w]
WithPlace(r, i, a, v) == [r EXCEPT !.i = i, !.at = a, !.q = v]
WithExprCompound(r, v, w) == [r EXCEPT !.expr = v, !.compound = w]

LEMMA TwoFields ==
    ASSUME NEW r, NEW v, NEW w
    PROVE  WithOrderDesc(r, v, w) = WithDesc(WithOrder(r, v), w)
<1>1. [r EXCEPT !.order = v, !.desc = w] = [[r EXCEPT !.order = v] EXCEPT !.desc = w]
  OBVIOUS
<1> QED
  BY <1>1, Zenon DEF WithOrderDesc, WithDesc, WithOrder

LEMMA ThreeFields ==
    ASSUME NEW r, NEW i, NEW a, NEW v
    PROVE  WithPlace(r, i, a, v) = WithQ(WithAt(WithI(r, i), a), v)
<1>1. [r EXCEPT !.i = i, !.at = a, !.q = v] = [[[r EXCEPT !.i = i] EXCEPT !.at = a] EXCEPT !.q = v]
  OBVIOUS
<1> QED
  BY <1>1, Zenon DEF WithPlace, WithQ, WithAt, WithI

LEMMA WordFields ==
    ASSUME NEW r, NEW v, NEW w
    PROVE  WithExprCompound(r, v, w) = WithCompound(WithExpr(r, v), w)
<1>1. [r EXCEPT !.expr = v, !.compound = w] = [[r EXCEPT !.expr = v] EXCEPT !.compound = w]
  OBVIOUS
<1> QED
  BY <1>1, Zenon DEF WithExprCompound, WithCompound, WithExpr


LEMMA OneIs ==
    ASSUME NEW T, NEW s \in Seq(T)
    PROVE  Len(s) <= 1 => s = <<>> \/ Len(s) = 1
<1>1. Len(s) \in Nat /\ (Len(s) = 0 => s = <<>>)
  OBVIOUS
<1>2. ASSUME NEW n \in Nat, n <= 1, n # 0 PROVE n = 1
  BY <1>2
<1> QED
  BY <1>1, <1>2, Zenon

LEMMA ExpressibleIs ==
    ASSUME NEW q \in Dsl!Query, Dsl!Expressible(q)
    PROVE  /\ q.metrics # <<>> /\ q.between = <<>> /\ q.desc = TRUE
           /\ q.order # <<>> => Len(q.order) = 1
           /\ q.order \notin Dsl!Reserved
           /\ \A n \in 1 .. Len(q.metrics) : q.metrics[n] \in Dsl!Name \ Dsl!Reserved
           /\ \A n \in 1 .. Len(q.dims) : q.dims[n] \in Dsl!Name \ Dsl!Reserved
           /\ \A n \in 1 .. Len(q.filters) :
                 /\ q.filters[n] \in Dsl!Condition /\ q.filters[n].col \notin Dsl!Reserved
                 /\ q.filters[n].val[1] \notin Dsl!Reserved \cup DOMAIN Escaped
<1>1. /\ q.metrics \in Seq(Dsl!Name) /\ q.dims \in Seq(Dsl!Name) /\ q.filters \in Seq(Dsl!Condition)
      /\ q.order \in Dsl!Name /\ q.desc = TRUE
  BY DEF Dsl!Query
<1>2. /\ q.metrics # <<>> /\ q.between = <<>> /\ Len(q.order) <= 1
      /\ Dsl!Reserved \cap (Dsl!Range(q.metrics) \cup Dsl!Range(q.dims) \cup {q.order}) = {}
      /\ \A f \in Dsl!Range(q.filters) :
            /\ f.col \notin Dsl!Reserved
            /\ \A v \in Dsl!Range(f.val) : v \notin Dsl!Reserved \cup DOMAIN Escaped
  BY Zenon DEF Dsl!Expressible
<1> HIDE DEF Dsl!Name, Dsl!Condition, Dsl!Reserved
<1>3. q.order # <<>> => Len(q.order) = 1
  <2>1. q.order \in Seq(STRING)
    BY <1>1 DEF Dsl!Name
  <2> QED
    BY <1>2, <2>1, OneIs, Zenon
<1>4. \A n \in 1 .. Len(q.metrics) : q.metrics[n] \in Dsl!Name \ Dsl!Reserved
  <2>1. \A n \in 1 .. Len(q.metrics) : q.metrics[n] \in Dsl!Range(q.metrics) \cap Dsl!Name
    BY <1>1 DEF Dsl!Range
  <2> QED
    BY <1>2, <2>1
<1>5. \A n \in 1 .. Len(q.dims) : q.dims[n] \in Dsl!Name \ Dsl!Reserved
  <2>1. \A n \in 1 .. Len(q.dims) : q.dims[n] \in Dsl!Range(q.dims) \cap Dsl!Name
    BY <1>1 DEF Dsl!Range
  <2> QED
    BY <1>2, <2>1
<1>6. ASSUME NEW n \in 1 .. Len(q.filters)
      PROVE  /\ q.filters[n] \in Dsl!Condition /\ q.filters[n].col \notin Dsl!Reserved
             /\ q.filters[n].val[1] \notin Dsl!Reserved \cup DOMAIN Escaped
  <2> DEFINE f == q.filters[n]
  <2>1. f \in Dsl!Range(q.filters) /\ f \in Dsl!Condition
    BY <1>1 DEF Dsl!Range
  <2> HIDE DEF f
  <2>2. f.val \in Seq(Dsl!Name) /\ Len(f.val) = 1
    BY <2>1 DEF Dsl!Condition
  <2>3. f.val[1] \in Dsl!Range(f.val)
    BY <2>2 DEF Dsl!Range
  <2> QED
    BY <1>2, <2>1, <2>3 DEF f
<1> QED
  BY <1>1, <1>2, <1>3, <1>4, <1>5, <1>6

(* What is said of a query up to a clause. *)
LEMMA SaidIs ==
    ASSUME NEW q, NEW c
    PROVE  Dsl!Said(q, c) =
             Asked(q.metrics, IF c >= 1 THEN q.dims ELSE <<>>, IF c >= 2 THEN q.filters ELSE <<>>,
                   IF c >= 3 THEN q.days ELSE <<>>, <<>>, IF c >= 5 THEN q.order ELSE <<>>,
                   TRUE, IF c >= 6 THEN q.limit ELSE <<>>)
BY Zenon DEF Dsl!Said, Asked

LEMMA EmptyIs == Dsl!EmptyQuery = Asked(<<>>, <<>>, <<>>, <<>>, <<>>, <<>>, TRUE, <<>>)
BY Zenon DEF Dsl!EmptyQuery, Asked

LEMMA SaidNow ==
    ASSUME NEW q
    PROVE  /\ Dsl!Said(q, 0) = Asked(q.metrics, <<>>, <<>>, <<>>, <<>>, <<>>, TRUE, <<>>)
           /\ Dsl!Said(q, 1) = Asked(q.metrics, q.dims, <<>>, <<>>, <<>>, <<>>, TRUE, <<>>)
           /\ Dsl!Said(q, 2) = Asked(q.metrics, q.dims, q.filters, <<>>, <<>>, <<>>, TRUE, <<>>)
           /\ Dsl!Said(q, 3) = Asked(q.metrics, q.dims, q.filters, q.days, <<>>, <<>>, TRUE, <<>>)
           /\ Dsl!Said(q, 4) = Asked(q.metrics, q.dims, q.filters, q.days, <<>>, <<>>, TRUE, <<>>)
           /\ Dsl!Said(q, 5) = Asked(q.metrics, q.dims, q.filters, q.days, <<>>, q.order, TRUE, <<>>)
           /\ Dsl!Said(q, 6) = Asked(q.metrics, q.dims, q.filters, q.days, <<>>, q.order, TRUE, q.limit)
<1>1. Dsl!Said(q, 0) = Asked(q.metrics, <<>>, <<>>, <<>>, <<>>, <<>>, TRUE, <<>>)
  <2>1. ~(0 >= 1) /\ ~(0 >= 2) /\ ~(0 >= 3) /\ ~(0 >= 5) /\ ~(0 >= 6)
    OBVIOUS
  <2> QED
    BY <2>1, SaidIs, Zenon
<1>2. Dsl!Said(q, 1) = Asked(q.metrics, q.dims, <<>>, <<>>, <<>>, <<>>, TRUE, <<>>)
  <2>1. 1 >= 1 /\ ~(1 >= 2) /\ ~(1 >= 3) /\ ~(1 >= 5) /\ ~(1 >= 6)
    OBVIOUS
  <2> QED
    BY <2>1, SaidIs, Zenon
<1>3. Dsl!Said(q, 2) = Asked(q.metrics, q.dims, q.filters, <<>>, <<>>, <<>>, TRUE, <<>>)
  <2>1. 2 >= 1 /\ 2 >= 2 /\ ~(2 >= 3) /\ ~(2 >= 5) /\ ~(2 >= 6)
    OBVIOUS
  <2> QED
    BY <2>1, SaidIs, Zenon
<1>4. Dsl!Said(q, 3) = Asked(q.metrics, q.dims, q.filters, q.days, <<>>, <<>>, TRUE, <<>>)
  <2>1. 3 >= 1 /\ 3 >= 2 /\ 3 >= 3 /\ ~(3 >= 5) /\ ~(3 >= 6)
    OBVIOUS
  <2> QED
    BY <2>1, SaidIs, Zenon
<1>5. Dsl!Said(q, 4) = Asked(q.metrics, q.dims, q.filters, q.days, <<>>, <<>>, TRUE, <<>>)
  <2>1. 4 >= 1 /\ 4 >= 2 /\ 4 >= 3 /\ ~(4 >= 5) /\ ~(4 >= 6)
    OBVIOUS
  <2> QED
    BY <2>1, SaidIs, Zenon
<1>6. Dsl!Said(q, 5) = Asked(q.metrics, q.dims, q.filters, q.days, <<>>, q.order, TRUE, <<>>)
  <2>1. 5 >= 1 /\ 5 >= 2 /\ 5 >= 3 /\ 5 >= 5 /\ ~(5 >= 6)
    OBVIOUS
  <2> QED
    BY <2>1, SaidIs, Zenon
<1>7. Dsl!Said(q, 6) = Asked(q.metrics, q.dims, q.filters, q.days, <<>>, q.order, TRUE, q.limit)
  <2>1. 6 >= 1 /\ 6 >= 2 /\ 6 >= 3 /\ 6 >= 5 /\ 6 >= 6
    OBVIOUS
  <2> QED
    BY <2>1, SaidIs, Zenon
<1> QED
  BY <1>1, <1>2, <1>3, <1>4, <1>5, <1>6, <1>7, Zenon

LEMMA SaidAll ==
    ASSUME NEW q \in Dsl!Query, q.between = <<>>
    PROVE  Dsl!Said(q, 6) = q
<1>1. q = Asked(q.metrics, q.dims, q.filters, q.days, q.between, q.order, q.desc, q.limit)
  BY DEF Dsl!Query, Asked
<1>2. q.desc = TRUE
  BY DEF Dsl!Query
<1> QED
  BY <1>1, <1>2, SaidNow, Zenon

LEMMA SaidNext ==
    ASSUME NEW q
    PROVE  /\ \A z : [Dsl!EmptyQuery EXCEPT !.metrics = z].metrics = z
           /\ [Dsl!EmptyQuery EXCEPT !.metrics = q.metrics] = Dsl!Said(q, 0)
           /\ [Dsl!Said(q, 0) EXCEPT !.dims = q.dims] = Dsl!Said(q, 1)
           /\ [Dsl!Said(q, 0) EXCEPT !.dims = <<>>] = Dsl!Said(q, 0)
           /\ [Dsl!Said(q, 1) EXCEPT !.filters = q.filters] = Dsl!Said(q, 2)
           /\ [Dsl!Said(q, 1) EXCEPT !.filters = <<>>] = Dsl!Said(q, 1)
           /\ [Dsl!Said(q, 2) EXCEPT !.days = q.days] = Dsl!Said(q, 3)
           /\ [Dsl!Said(q, 4) EXCEPT !.order = q.order, !.desc = TRUE] = Dsl!Said(q, 5)
           /\ [Dsl!Said(q, 5) EXCEPT !.limit = q.limit] = Dsl!Said(q, 6)
<1>1. [Dsl!EmptyQuery EXCEPT !.metrics = q.metrics] = Dsl!Said(q, 0)
  <2>1. WithMetrics(Asked(<<>>, <<>>, <<>>, <<>>, <<>>, <<>>, TRUE, <<>>), q.metrics)
          = Asked(q.metrics, <<>>, <<>>, <<>>, <<>>, <<>>, TRUE, <<>>)
    <3>1. IsAsked(<<>>, <<>>, <<>>, <<>>, <<>>, <<>>, TRUE, <<>>, q.metrics)
      BY AskedMore, Zenon
    <3> QED
      BY <3>1, Zenon DEF IsAsked
  <2> QED
    BY <2>1, SaidNow, EmptyIs, Zenon DEF WithMetrics, WithDims, WithFilters, WithDays
<1>2. [Dsl!Said(q, 0) EXCEPT !.dims = q.dims] = Dsl!Said(q, 1)
  <2>1. WithDims(Asked(q.metrics, <<>>, <<>>, <<>>, <<>>, <<>>, TRUE, <<>>), q.dims)
          = Asked(q.metrics, q.dims, <<>>, <<>>, <<>>, <<>>, TRUE, <<>>)
    <3>1. IsAsked(q.metrics, <<>>, <<>>, <<>>, <<>>, <<>>, TRUE, <<>>, q.dims)
      BY AskedMore, Zenon
    <3> QED
      BY <3>1, Zenon DEF IsAsked
  <2> QED
    BY <2>1, SaidNow, EmptyIs, Zenon DEF WithMetrics, WithDims, WithFilters, WithDays
<1>3. [Dsl!Said(q, 0) EXCEPT !.dims = <<>>] = Dsl!Said(q, 0)
  <2>1. WithDims(Asked(q.metrics, <<>>, <<>>, <<>>, <<>>, <<>>, TRUE, <<>>), <<>>)
          = Asked(q.metrics, <<>>, <<>>, <<>>, <<>>, <<>>, TRUE, <<>>)
    <3>1. IsAsked(q.metrics, <<>>, <<>>, <<>>, <<>>, <<>>, TRUE, <<>>, <<>>)
      BY AskedMore, Zenon
    <3> QED
      BY <3>1, Zenon DEF IsAsked
  <2> QED
    BY <2>1, SaidNow, EmptyIs, Zenon DEF WithMetrics, WithDims, WithFilters, WithDays
<1>4. [Dsl!Said(q, 1) EXCEPT !.filters = q.filters] = Dsl!Said(q, 2)
  <2>1. WithFilters(Asked(q.metrics, q.dims, <<>>, <<>>, <<>>, <<>>, TRUE, <<>>), q.filters)
          = Asked(q.metrics, q.dims, q.filters, <<>>, <<>>, <<>>, TRUE, <<>>)
    <3>1. IsAsked(q.metrics, q.dims, <<>>, <<>>, <<>>, <<>>, TRUE, <<>>, q.filters)
      BY AskedMore, Zenon
    <3> QED
      BY <3>1, Zenon DEF IsAsked
  <2> QED
    BY <2>1, SaidNow, EmptyIs, Zenon DEF WithMetrics, WithDims, WithFilters, WithDays
<1>5. [Dsl!Said(q, 1) EXCEPT !.filters = <<>>] = Dsl!Said(q, 1)
  <2>1. WithFilters(Asked(q.metrics, q.dims, <<>>, <<>>, <<>>, <<>>, TRUE, <<>>), <<>>)
          = Asked(q.metrics, q.dims, <<>>, <<>>, <<>>, <<>>, TRUE, <<>>)
    <3>1. IsAsked(q.metrics, q.dims, <<>>, <<>>, <<>>, <<>>, TRUE, <<>>, <<>>)
      BY AskedMore, Zenon
    <3> QED
      BY <3>1, Zenon DEF IsAsked
  <2> QED
    BY <2>1, SaidNow, EmptyIs, Zenon DEF WithMetrics, WithDims, WithFilters, WithDays
<1>6. [Dsl!Said(q, 2) EXCEPT !.days = q.days] = Dsl!Said(q, 3)
  <2>1. WithDays(Asked(q.metrics, q.dims, q.filters, <<>>, <<>>, <<>>, TRUE, <<>>), q.days)
          = Asked(q.metrics, q.dims, q.filters, q.days, <<>>, <<>>, TRUE, <<>>)
    <3>1. IsAsked(q.metrics, q.dims, q.filters, <<>>, <<>>, <<>>, TRUE, <<>>, q.days)
      BY AskedMore, Zenon
    <3> QED
      BY <3>1, Zenon DEF IsAsked
  <2> QED
    BY <2>1, SaidNow, EmptyIs, Zenon DEF WithMetrics, WithDims, WithFilters, WithDays
<1>7. [Dsl!Said(q, 4) EXCEPT !.order = q.order, !.desc = TRUE] = Dsl!Said(q, 5)
  <2>1. WithOrder(Asked(q.metrics, q.dims, q.filters, q.days, <<>>, <<>>, TRUE, <<>>), q.order)
          = Asked(q.metrics, q.dims, q.filters, q.days, <<>>, q.order, TRUE, <<>>)
    <3>1. IsAsked(q.metrics, q.dims, q.filters, q.days, <<>>, <<>>, TRUE, <<>>, q.order)
      BY AskedMore, Zenon
    <3> QED
      BY <3>1, Zenon DEF IsAsked
  <2>2. WithDesc(Asked(q.metrics, q.dims, q.filters, q.days, <<>>, q.order, TRUE, <<>>), TRUE)
          = Asked(q.metrics, q.dims, q.filters, q.days, <<>>, q.order, TRUE, <<>>)
    <3>1. IsAsked(q.metrics, q.dims, q.filters, q.days, <<>>, q.order, TRUE, <<>>, TRUE)
      BY AskedMore, Zenon
    <3> QED
      BY <3>1, Zenon DEF IsAsked
  <2>3. [Dsl!Said(q, 4) EXCEPT !.order = q.order, !.desc = TRUE]
          = WithDesc(WithOrder(Dsl!Said(q, 4), q.order), TRUE)
    <3> DEFINE r == Dsl!Said(q, 4)
    <3> HIDE DEF r
    <3>1. WithOrderDesc(r, q.order, TRUE) = WithDesc(WithOrder(r, q.order), TRUE)
      BY TwoFields, Zenon
    <3> QED
      BY <3>1, Zenon DEF r, WithOrderDesc
  <2> QED
    BY <2>1, <2>2, <2>3, SaidNow, Zenon
<1>8. [Dsl!Said(q, 5) EXCEPT !.limit = q.limit] = Dsl!Said(q, 6)
  <2>1. WithLimit(Asked(q.metrics, q.dims, q.filters, q.days, <<>>, q.order, TRUE, <<>>), q.limit)
          = Asked(q.metrics, q.dims, q.filters, q.days, <<>>, q.order, TRUE, q.limit)
    <3>1. IsAsked(q.metrics, q.dims, q.filters, q.days, <<>>, q.order, TRUE, <<>>, q.limit)
      BY AskedMore, Zenon
    <3> QED
      BY <3>1, Zenon DEF IsAsked
  <2> QED
    BY <2>1, SaidNow, Zenon DEF WithLimit
<1>9. \A z : [Dsl!EmptyQuery EXCEPT !.metrics = z].metrics = z
  BY DEF Dsl!EmptyQuery
<1> QED
  BY <1>1, <1>2, <1>3, <1>4, <1>5, <1>6, <1>7, <1>8, <1>9, Zenon

(* The clauses of one keyword each, and those that are absent. *)
IsWords(q) ==
    LET R == Dsl!Render(q)
        ct == Dsl!ClauseTexts(q)
        U(c) == Dsl!Upto(q, c)
    IN  /\ \A c \in 1 .. 6 : ct[c] = <<>> => U(c) = U(c - 1) /\ Dsl!Said(q, c) = Dsl!Said(q, c - 1)
        /\ \A c \in 1 .. 6 : ct[c] # <<>> =>
              /\ c # 4 /\ R[U(c - 1) + 1] = Dsl!Id(Dsl!Order[c])
              /\ U(c - 1) + 1 <= U(c)
        /\ ct[1] # <<>> => q.dims # <<>>
        /\ ct[2] # <<>> => q.filters # <<>>
        /\ ct[3] # <<>> => /\ U(3) = U(2) + 3 /\ R[U(2) + 2] = Dsl!Tok("NUM", q.days)
                           /\ R[U(2) + 3] = Dsl!Id("days")
        /\ ct[5] # <<>> => /\ U(5) = U(4) + 4 /\ R[U(4) + 2] = Dsl!Id("by")
                           /\ R[U(4) + 3] = Dsl!Tok("ID", q.order)
                           /\ R[U(4) + 4] = Dsl!Id("desc")
        /\ ct[6] # <<>> => U(6) = U(5) + 2 /\ R[U(5) + 2] = Dsl!Tok("NUM", q.limit)

LEMMA TextOfWords ==
    ASSUME NEW q \in Dsl!Query, Dsl!Expressible(q)
    PROVE  IsWords(q)
<1> DEFINE R == Dsl!Render(q)
           ct == Dsl!ClauseTexts(q)
           U(c) == Dsl!Upto(q, c)
<1>1. /\ q.between = <<>> /\ q.desc = TRUE /\ (q.order # <<>> => Len(q.order) = 1)
      /\ q.order \in Dsl!Name
  BY ExpressibleIs DEF Dsl!Query
<1>2. /\ ct[1] = IF q.dims = <<>> THEN <<>> ELSE <<Dsl!Id("by")>> \o Dsl!Names(q.dims)
      /\ ct[2] = IF q.filters = <<>> THEN <<>> ELSE Dsl!WhereText(q)
      /\ ct[3] = IF q.days = <<>> THEN <<>>
                 ELSE <<Dsl!Id("since"), Dsl!Tok("NUM", q.days), Dsl!Id("days")>>
      /\ ct[4] = <<>>
      /\ ct[5] = IF q.order = <<>> THEN <<>> ELSE Dsl!OrderText(q)
      /\ ct[6] = IF q.limit = <<>> THEN <<>> ELSE <<Dsl!Id("limit"), Dsl!Tok("NUM", q.limit)>>
  BY <1>1, ClausesAre, Zenon
<1>3. /\ Dsl!Order[1] = "by" /\ Dsl!Order[2] = "where" /\ Dsl!Order[3] = "since"
      /\ Dsl!Order[5] = "order" /\ Dsl!Order[6] = "limit"
  BY DEF Dsl!Order
<1>4. \A c \in 1 .. 6 : c \in {1, 2, 3, 4, 5, 6}
  OBVIOUS
<1> HIDE DEF R, ct
<1>5. ASSUME NEW c \in 1 .. 6
      PROVE  /\ U(c - 1) \in Nat /\ U(c) = U(c - 1) + Len(ct[c])
             /\ \A j \in 1 .. Len(ct[c]) : R[U(c - 1) + j] = ct[c][j]
  <2> DEFINE w == ct[c]
  <2>1. Dsl!ClauseTexts(q)[c] = w
    BY DEF ct
  <2> HIDE DEF w
  <2>2. /\ Dsl!Upto(q, c - 1) \in Nat /\ Dsl!Upto(q, c) = Dsl!Upto(q, c - 1) + Len(w)
        /\ \A j \in 1 .. Len(w) : R[Dsl!Upto(q, c - 1) + j] = w[j]
    <3>1. IsClause(q, c, w)
      BY <2>1, TextOfClause, Zenon
    <3> QED
      BY <3>1, Zenon DEF R, IsClause
  <2> QED
    BY <2>2, Zenon DEF w, U
<1> HIDE DEF U
<1>6. /\ 1 - 1 = 0 /\ 2 - 1 = 1 /\ 3 - 1 = 2 /\ 4 - 1 = 3 /\ 5 - 1 = 4 /\ 6 - 1 = 5
  OBVIOUS
<1>7. ASSUME NEW c \in 1 .. 6, ct[c] = <<>> PROVE U(c) = U(c - 1)
  <2>1. Len(ct[c]) = 0
    BY <1>7
  <2>2. U(c - 1) \in Nat /\ U(c) = U(c - 1) + Len(ct[c])
    BY <1>5
  <2> QED
    BY <2>1, <2>2
<1>8. ASSUME NEW c \in 1 .. 6, ct[c] = <<>> PROVE Dsl!Said(q, c) = Dsl!Said(q, c - 1)
  <2>1. ct[1] = <<>> => q.dims = <<>>
    <3>1. CASE q.dims # <<>>
      <4>1. Len(<<Dsl!Id("by")>> \o Dsl!Names(q.dims)) = 2 * Len(q.dims) /\ Len(q.dims) \in Nat
            /\ Len(q.dims) # 0
        <5>1. q.dims \in Seq(Dsl!Name)
          BY DEF Dsl!Query
        <5>2. Dsl!Id("by") \in Dsl!Token
          BY WordIs DEF Dsl!Written, Dsl!Keyword
        <5>3. Len(<<Dsl!Id("by")>> \o Dsl!Names(q.dims)) = 2 * Len(q.dims)
          BY <3>1, <5>1, <5>2, HeadIs, Zenon
        <5> QED
          BY <3>1, <5>1, <5>3
      <4>2. Len(<<Dsl!Id("by")>> \o Dsl!Names(q.dims)) # Len(<<>>)
        BY <4>1
      <4> QED
        BY <1>2, <4>2
    <3> QED
      BY <3>1
  <2>2. ct[2] = <<>> => q.filters = <<>>
    <3>1. CASE q.filters # <<>>
      <4>1. Len(Dsl!WhereText(q)) = 4 * Len(q.filters) /\ Len(q.filters) \in Nat
            /\ Len(q.filters) # 0
        <5>1. q.filters \in Seq(Dsl!Condition)
          BY DEF Dsl!Query
        <5> QED
          BY <3>1, <5>1, WhereIs
      <4>2. Len(Dsl!WhereText(q)) # Len(<<>>)
        BY <4>1
      <4> QED
        BY <1>2, <4>2
    <3> QED
      BY <3>1
  <2>3. ct[3] = <<>> => q.days = <<>>
    <3>1. Len(<<Dsl!Id("since"), Dsl!Tok("NUM", q.days), Dsl!Id("days")>>) # Len(<<>>)
      OBVIOUS
    <3> QED
      BY <1>2, <3>1
  <2>4. ct[5] = <<>> => q.order = <<>>
    <3>1. CASE q.order # <<>>
      <4>1. Len(Dsl!OrderText(q)) = 4
        BY <1>1, <3>1, OrderIs
      <4>2. Len(Dsl!OrderText(q)) # Len(<<>>)
        BY <4>1
      <4> QED
        BY <1>2, <4>2
    <3> QED
      BY <3>1
  <2>5. ct[6] = <<>> => q.limit = <<>>
    <3>1. Len(<<Dsl!Id("limit"), Dsl!Tok("NUM", q.limit)>>) # Len(<<>>)
      OBVIOUS
    <3> QED
      BY <1>2, <3>1
  <2>6. CASE c = 1
    <3>1. q.dims = <<>> /\ c - 1 = 0
      BY <1>8, <2>1, <2>6
    <3> QED
      BY <2>6, <3>1, SaidNow
  <2>7. CASE c = 2
    <3>1. q.filters = <<>> /\ c - 1 = 1
      BY <1>8, <2>2, <2>7
    <3> QED
      BY <2>7, <3>1, SaidNow
  <2>8. CASE c = 3
    <3>1. q.days = <<>> /\ c - 1 = 2
      BY <1>8, <2>3, <2>8
    <3> QED
      BY <2>8, <3>1, SaidNow
  <2>9. CASE c = 4
    BY <1>6, <2>9, SaidNow
  <2>10. CASE c = 5
    <3>1. q.order = <<>> /\ c - 1 = 4
      BY <1>8, <2>4, <2>10
    <3> QED
      BY <2>10, <3>1, SaidNow
  <2>11. CASE c = 6
    <3>1. q.limit = <<>> /\ c - 1 = 5
      BY <1>8, <2>5, <2>11
    <3> QED
      BY <2>11, <3>1, SaidNow
  <2> QED
    BY <1>4, <2>6, <2>7, <2>8, <2>9, <2>10, <2>11
<1>9. ASSUME ct[3] # <<>>
      PROVE  /\ U(3) = U(2) + 3 /\ R[U(2) + 1] = Dsl!Id("since")
             /\ R[U(2) + 2] = Dsl!Tok("NUM", q.days) /\ R[U(2) + 3] = Dsl!Id("days")
  <2>1. ct[3] = <<Dsl!Id("since"), Dsl!Tok("NUM", q.days), Dsl!Id("days")>>
    BY <1>2, <1>9
  <2>2. /\ Len(ct[3]) = 3 /\ ct[3][1] = Dsl!Id("since") /\ ct[3][2] = Dsl!Tok("NUM", q.days)
        /\ ct[3][3] = Dsl!Id("days")
    BY <2>1
  <2>3. U(2) \in Nat /\ U(3) = U(2) + Len(ct[3]) /\ \A j \in 1 .. Len(ct[3]) : R[U(2) + j] = ct[3][j]
    BY <1>5, <1>6
  <2>4. U(3) = U(2) + 3 /\ \A j \in 1 .. 3 : R[U(2) + j] = ct[3][j]
    BY <2>2, <2>3
  <2> QED
    BY <2>2, <2>4
<1>10. ASSUME ct[5] # <<>>
       PROVE  /\ U(5) = U(4) + 4 /\ R[U(4) + 1] = Dsl!Id("order") /\ R[U(4) + 2] = Dsl!Id("by")
              /\ R[U(4) + 3] = Dsl!Tok("ID", q.order) /\ R[U(4) + 4] = Dsl!Id("desc")
  <2>1. ct[5] = Dsl!OrderText(q) /\ Len(q.order) = 1
    BY <1>1, <1>2, <1>10
  <2>2. /\ Len(ct[5]) = 4 /\ ct[5][1] = Dsl!Id("order") /\ ct[5][2] = Dsl!Id("by")
        /\ ct[5][3] = Dsl!Tok("ID", q.order) /\ ct[5][4] = Dsl!Id("desc")
    BY <1>1, <2>1, OrderIs
  <2>3. U(4) \in Nat /\ U(5) = U(4) + Len(ct[5]) /\ \A j \in 1 .. Len(ct[5]) : R[U(4) + j] = ct[5][j]
    BY <1>5, <1>6
  <2>4. U(5) = U(4) + 4 /\ \A j \in 1 .. 4 : R[U(4) + j] = ct[5][j]
    BY <2>2, <2>3
  <2> QED
    BY <2>2, <2>4
<1>11. ASSUME ct[6] # <<>>
       PROVE  /\ U(6) = U(5) + 2 /\ R[U(5) + 1] = Dsl!Id("limit")
              /\ R[U(5) + 2] = Dsl!Tok("NUM", q.limit)
  <2>1. ct[6] = <<Dsl!Id("limit"), Dsl!Tok("NUM", q.limit)>>
    BY <1>2, <1>11
  <2>2. Len(ct[6]) = 2 /\ ct[6][1] = Dsl!Id("limit") /\ ct[6][2] = Dsl!Tok("NUM", q.limit)
    BY <2>1
  <2>3. U(5) \in Nat /\ U(6) = U(5) + Len(ct[6]) /\ \A j \in 1 .. Len(ct[6]) : R[U(5) + j] = ct[6][j]
    BY <1>5, <1>6
  <2>4. U(6) = U(5) + 2 /\ \A j \in 1 .. 2 : R[U(5) + j] = ct[6][j]
    BY <2>2, <2>3
  <2> QED
    BY <2>2, <2>4
<1>12. ASSUME ct[1] # <<>>
       PROVE  q.dims # <<>> /\ R[U(0) + 1] = Dsl!Id("by") /\ U(0) + 1 <= U(1)
  <2>1. q.dims # <<>>
    BY <1>2, <1>12
  <2> DEFINE D == Len(q.dims)
  <2>2. /\ D \in Nat /\ D >= 1 /\ Dsl!Upto(q, 0) \in Nat
        /\ Dsl!Upto(q, 1) = Dsl!Upto(q, 0) + 2 * D
        /\ Dsl!Render(q)[Dsl!Upto(q, 0) + 1] = Dsl!Id("by")
    BY <2>1, TextOfDimensions, Zenon
  <2> HIDE DEF D
  <2>3. Dsl!Upto(q, 0) + 1 <= Dsl!Upto(q, 1)
    BY <2>2
  <2> QED
    BY <2>1, <2>2, <2>3 DEF R, U
<1>13. ASSUME ct[2] # <<>>
       PROVE  q.filters # <<>> /\ R[U(1) + 1] = Dsl!Id("where") /\ U(1) + 1 <= U(2)
  <2>1. q.filters # <<>>
    BY <1>2, <1>13
  <2> DEFINE F == Len(q.filters)
  <2>2. /\ F \in Nat /\ F >= 1 /\ Dsl!Upto(q, 1) \in Nat
        /\ Dsl!Upto(q, 2) = Dsl!Upto(q, 1) + 4 * F
        /\ Dsl!Render(q)[Dsl!Upto(q, 1) + 1] = Dsl!Id("where")
    BY <2>1, TextOfFilters, Zenon
  <2> HIDE DEF F
  <2>3. Dsl!Upto(q, 1) + 1 <= Dsl!Upto(q, 2)
    BY <2>2
  <2> QED
    BY <2>1, <2>2, <2>3 DEF R, U
<1>14. U(2) \in Nat /\ U(4) \in Nat /\ U(5) \in Nat
  <2>1. 3 \in 1 .. 6 /\ 5 \in 1 .. 6 /\ 6 \in 1 .. 6
    OBVIOUS
  <2>2. U(3 - 1) \in Nat /\ U(5 - 1) \in Nat /\ U(6 - 1) \in Nat
    BY <1>5, <2>1
  <2> QED
    BY <1>6, <2>2
<1>15. ASSUME NEW c \in 1 .. 6, ct[c] # <<>>
       PROVE  /\ c # 4 /\ R[U(c - 1) + 1] = Dsl!Id(Dsl!Order[c]) /\ U(c - 1) + 1 <= U(c)
  <2>1. CASE c = 1
    BY <1>3, <1>6, <1>12, <1>15, <2>1
  <2>2. CASE c = 2
    BY <1>3, <1>6, <1>13, <1>15, <2>2
  <2>3. CASE c = 3
    BY <1>3, <1>6, <1>9, <1>14, <1>15, <2>3
  <2>4. CASE c = 4
    BY <1>2, <1>15, <2>4
  <2>5. CASE c = 5
    BY <1>3, <1>6, <1>10, <1>14, <1>15, <2>5
  <2>6. CASE c = 6
    BY <1>3, <1>6, <1>11, <1>14, <1>15, <2>6
  <2> QED
    BY <1>4, <2>1, <2>2, <2>3, <2>4, <2>5, <2>6
<1> QED
  BY <1>7, <1>8, <1>9, <1>10, <1>11, <1>12, <1>13, <1>15 DEF R, U, ct, IsWords

(* The clause that follows in the text, or its end. *)
Starts(q, c, d) ==
    /\ Dsl!ClauseTexts(q)[d] # <<>> /\ d # 4
    /\ Dsl!Upto(q, c) = Dsl!Upto(q, d - 1) /\ Dsl!Said(q, c) = Dsl!Said(q, d - 1)
    /\ Dsl!Render(q)[Dsl!Upto(q, c) + 1] = Dsl!Id(Dsl!Order[d])
    /\ Dsl!Upto(q, c) + 1 <= Dsl!Upto(q, 6)

Follows(q, c) ==
    \/ Dsl!Upto(q, c) = Dsl!Upto(q, 6) /\ Dsl!Said(q, c) = q
    \/ \E d \in c + 1 .. 6 : Starts(q, c, d)

LEMMA ClauseFollows ==
    ASSUME NEW q \in Dsl!Query, Dsl!Expressible(q), NEW c \in 1 .. 6, Follows(q, c)
    PROVE  Follows(q, c - 1)
<1> DEFINE w == Dsl!ClauseTexts(q)[c]
<1>1. CASE w = <<>>
  <2>1. Dsl!Upto(q, c) = Dsl!Upto(q, c - 1) /\ Dsl!Said(q, c) = Dsl!Said(q, c - 1)
    BY <1>1, TextOfWords, Zenon DEF IsWords
  <2>2. CASE Dsl!Upto(q, c) = Dsl!Upto(q, 6) /\ Dsl!Said(q, c) = q
    BY <2>1, <2>2, Zenon DEF Follows
  <2>3. CASE \E d \in c + 1 .. 6 : Starts(q, c, d)
    <3>1. PICK d \in c + 1 .. 6 : Starts(q, c, d)
      BY <2>3
    <3>2. Starts(q, c - 1, d)
      BY <2>1, <3>1, Zenon DEF Starts
    <3>3. d \in (c - 1) + 1 .. 6
      OBVIOUS
    <3> QED
      BY <3>2, <3>3, Zenon DEF Follows
  <2> QED
    BY <2>2, <2>3, Zenon DEF Follows
<1>2. CASE w # <<>>
  <2>1. /\ c # 4 /\ Dsl!Render(q)[Dsl!Upto(q, c - 1) + 1] = Dsl!Id(Dsl!Order[c])
        /\ Dsl!Upto(q, c - 1) + 1 <= Dsl!Upto(q, c)
    BY <1>2, TextOfWords, Zenon DEF IsWords
  <2>2. IsText(q)
    BY TextIs
  <2>3. c \in 0 .. 6 /\ c - 1 \in 0 .. 6 /\ 6 \in 0 .. 6
    OBVIOUS
  <2>4. /\ Dsl!Upto(q, c) \in Nat /\ Dsl!Upto(q, c - 1) \in Nat /\ Dsl!Upto(q, 6) \in Nat
        /\ Dsl!Upto(q, c) <= Dsl!Upto(q, 6)
    BY <2>2, <2>3, Zenon DEF IsText
  <2>5. Dsl!Upto(q, c - 1) + 1 <= Dsl!Upto(q, 6)
    BY <2>1, <2>4
  <2>6. Starts(q, c - 1, c)
    BY <1>2, <2>1, <2>5, Zenon DEF Starts
  <2>7. c \in (c - 1) + 1 .. 6
    OBVIOUS
  <2> QED
    BY <2>6, <2>7, Zenon DEF Follows
<1> QED
  BY <1>1, <1>2

LEMMA NextClause ==
    ASSUME NEW q \in Dsl!Query, Dsl!Expressible(q)
    PROVE  \A c \in 0 .. 6 : Follows(q, c)
<1>1. Follows(q, 6)
  <2>1. q.between = <<>>
    BY ExpressibleIs
  <2> QED
    BY <2>1, SaidAll, Zenon DEF Follows
<1>2. \A c \in 1 .. 6 : Follows(q, c) => Follows(q, c - 1)
  BY ClauseFollows
<1>3. /\ 1 - 1 = 0 /\ 2 - 1 = 1 /\ 3 - 1 = 2 /\ 4 - 1 = 3 /\ 5 - 1 = 4 /\ 6 - 1 = 5
      /\ {1, 2, 3, 4, 5, 6} \subseteq 1 .. 6
  OBVIOUS
<1>4. Follows(q, 5)
  BY <1>1, <1>2, <1>3
<1>5. Follows(q, 4)
  BY <1>4, <1>2, <1>3
<1>6. Follows(q, 3)
  BY <1>5, <1>2, <1>3
<1>7. Follows(q, 2)
  BY <1>6, <1>2, <1>3
<1>8. Follows(q, 1)
  BY <1>7, <1>2, <1>3
<1>9. Follows(q, 0)
  BY <1>8, <1>2, <1>3
<1>10. \A c \in 0 .. 6 : c \in {0, 1, 2, 3, 4, 5, 6}
  OBVIOUS
<1> QED
  BY <1>1, <1>4, <1>5, <1>6, <1>7, <1>8, <1>9, <1>10, Zenon

(* What the parser sees. *)
LEMMA KeywordIs ==
    ASSUME NEW x \in Dsl!Written, NEW w
    PROVE  /\ Dsl!Id(x).k = "ID" /\ Dsl!Id(x).v = <<x>>
           /\ Dsl!IsKw(Dsl!Id(x), w) => x = w
           /\ Dsl!IsKw(Dsl!Id(x), x)
<1>1. Dsl!Id(x).k = "ID" /\ Dsl!Id(x).v = <<x>>
  <2>1. Dsl!Id(x) = [k |-> "ID", v |-> <<x>>]
    BY WordIs, Zenon
  <2> QED
    BY <2>1
<1>2. <<x>> = <<w>> => x = w
  OBVIOUS
<1> QED
  BY <1>1, <1>2, Zenon DEF Dsl!IsKw

LEMMA AtIs ==
    ASSUME NEW q \in Dsl!Query, s2 = Dsl!Render(q), NEW n \in Nat, s3.i \in Nat, s3.i >= 1
    PROVE  /\ s3.i + n <= Dsl!Upto(q, 6) => Dsl!At(n) = Dsl!Render(q)[s3.i + n]
           /\ s3.i + n > Dsl!Upto(q, 6) => Dsl!At(n) = Dsl!End
<1> DEFINE R == Dsl!Render(q)
           L == Dsl!Upto(q, 6)
<1>1. R \in Seq(Dsl!Token) /\ Len(R) = L /\ L \in Nat
  <2>1. 6 \in 0 .. 6
    OBVIOUS
  <2> QED
    BY <2>1, TextIs, Zenon DEF IsText
<1>2. Dsl!At(n) = IF s3.i + n \in DOMAIN s2 THEN s2[s3.i + n] ELSE Dsl!End
  BY Zenon DEF Dsl!At
<1> HIDE DEF R, L
<1>3. DOMAIN R = 1 .. L
  BY <1>1
<1>4. s2 = R
  BY DEF R
<1>5. ASSUME s3.i + n <= L PROVE s3.i + n \in DOMAIN s2
  BY <1>1, <1>3, <1>4, <1>5
<1>6. ASSUME s3.i + n > L PROVE s3.i + n \notin DOMAIN s2
  BY <1>1, <1>3, <1>4, <1>6
<1> QED
  BY <1>2, <1>4, <1>5, <1>6, Zenon DEF R, L

(* After a clause there is a keyword of a later clause or nothing. *)
LEMMA AfterIs ==
    ASSUME NEW q \in Dsl!Query, Dsl!Expressible(q), s2 = Dsl!Render(q), NEW c \in 0 .. 6,
           NEW n \in Nat, s3.i \in Nat, s3.i >= 1, s3.i + n = Dsl!Upto(q, c) + 1
    PROVE  LET t == Dsl!At(n) IN
           /\ t.k \in {"ID", "END"} /\ ~Dsl!IsKw(t, "as") /\ ~Dsl!IsKw(t, "and")
           /\ \/ t = Dsl!End /\ Dsl!Upto(q, c) = Dsl!Upto(q, 6) /\ Dsl!Said(q, c) = q
              \/ \E d \in c + 1 .. 6 : t = Dsl!Id(Dsl!Order[d]) /\ Starts(q, c, d)
<1> DEFINE t == Dsl!At(n)
           u == Dsl!Upto(q, c)
           L == Dsl!Upto(q, 6)
<1>1. u \in Nat /\ L \in Nat
  <2>1. 6 \in 0 .. 6
    OBVIOUS
  <2> QED
    BY <2>1, TextIs, Zenon DEF IsText
<1>2. Follows(q, c)
  BY NextClause
<1>3. CASE u = L /\ Dsl!Said(q, c) = q
  <2>1. s3.i + n > L
    BY <1>1, <1>3
  <2>2. t = Dsl!End
    BY <2>1, AtIs
  <2>3. Dsl!End.k = "END"
    BY DEF Dsl!End, Dsl!Tok
  <2>4. ~Dsl!IsKw(t, "as") /\ ~Dsl!IsKw(t, "and")
    BY <2>2, <2>3 DEF Dsl!IsKw
  <2> QED
    BY <1>3, <2>2, <2>3, <2>4
<1>4. CASE \E d \in c + 1 .. 6 : Starts(q, c, d)
  <2>1. PICK d \in c + 1 .. 6 : Starts(q, c, d)
    BY <1>4
  <2>2. u + 1 <= L /\ d # 4 /\ Dsl!Render(q)[u + 1] = Dsl!Id(Dsl!Order[d])
    BY <2>1, Zenon DEF Starts
  <2>3. t = Dsl!Id(Dsl!Order[d])
    <3>1. s3.i + n <= L
      BY <2>2
    <3> QED
      BY <2>2, <3>1, AtIs
  <2>4. Dsl!Order[d] \in Dsl!Written /\ Dsl!Order[d] # "as" /\ Dsl!Order[d] # "and"
    <3>1. d \in {1, 2, 3, 5, 6}
      BY <2>2
    <3>2. /\ Dsl!Order[1] = "by" /\ Dsl!Order[2] = "where" /\ Dsl!Order[3] = "since"
          /\ Dsl!Order[5] = "order" /\ Dsl!Order[6] = "limit"
      BY DEF Dsl!Order
    <3>3. Dsl!Order[d] \in {"by", "where", "since", "order", "limit"}
      BY <3>1, <3>2
    <3> QED
      BY <3>3 DEF Dsl!Written, Dsl!Keyword
  <2>5. t.k = "ID" /\ ~Dsl!IsKw(t, "as") /\ ~Dsl!IsKw(t, "and")
    BY <2>3, <2>4, KeywordIs
  <2> QED
    BY <2>1, <2>3, <2>5, Zenon
<1> QED
  BY <1>2, <1>3, <1>4, Zenon DEF Follows

(* The state of the parser is a record, and so is what To makes of it. *)
Entire(p) == p = Parsing(p.i, p.at, p.clause, p.q, p.expr, p.depth, p.compound, p.list)

LEMMA ToIs ==
    ASSUME Entire(s3), NEW n, NEW at, NEW v
    PROVE  Dsl!To(n, at, v) = Parsing(s3.i + n, at, s3.clause, v, s3.expr, s3.depth, s3.compound, s3.list)
<1> DEFINE j == s3.i + n
<1>1. Dsl!To(n, at, v) = WithPlace(s3, j, at, v)
  BY Zenon DEF Dsl!To, WithPlace
<1>2. WithPlace(s3, j, at, v) = WithQ(WithAt(WithI(s3, j), at), v)
  BY ThreeFields, Zenon
<1>3. WithI(s3, j) = Parsing(j, s3.at, s3.clause, s3.q, s3.expr, s3.depth, s3.compound, s3.list)
  <2>1. IsParsing(s3.i, s3.at, s3.clause, s3.q, s3.expr, s3.depth, s3.compound, s3.list, j)
    BY ParsingMore, Zenon
  <2> QED
    BY <2>1, Zenon DEF IsParsing, Entire
<1>4. WithAt(WithI(s3, j), at) = Parsing(j, at, s3.clause, s3.q, s3.expr, s3.depth, s3.compound, s3.list)
  <2>1. IsParsing(j, s3.at, s3.clause, s3.q, s3.expr, s3.depth, s3.compound, s3.list, at)
    BY ParsingMore, Zenon
  <2> QED
    BY <1>3, <2>1, Zenon DEF IsParsing
<1>5. WithQ(WithAt(WithI(s3, j), at), v)
        = Parsing(j, at, s3.clause, v, s3.expr, s3.depth, s3.compound, s3.list)
  <2>1. IsParsing(j, at, s3.clause, s3.q, s3.expr, s3.depth, s3.compound, s3.list, v)
    BY ParsingMore, Zenon
  <2> QED
    BY <1>4, <2>1, Zenon DEF IsParsing
<1> QED
  BY <1>1, <1>2, <1>5, Zenon

LEMMA PlaceIs ==
    ASSUME Entire(s3), NEW at
    PROVE  [s3 EXCEPT !.at = at] = Parsing(s3.i, at, s3.clause, s3.q, s3.expr, s3.depth, s3.compound, s3.list)
<1>1. IsParsing(s3.i, s3.at, s3.clause, s3.q, s3.expr, s3.depth, s3.compound, s3.list, at)
  BY ParsingMore, Zenon
<1> QED
  BY <1>1, Zenon DEF IsParsing, Entire, WithAt

Moved(p, n, at, v) ==
    IsRead(p, s3.i + n, at, s3.clause, v, s3.expr, s3.depth, s3.compound, s3.list)

LEMMA MovedIs ==
    ASSUME Entire(s3), NEW n, NEW at, NEW v
    PROVE  Moved(Dsl!To(n, at, v), n, at, v)
<1> DEFINE j == s3.i + n
<1>1. Dsl!To(n, at, v) = Parsing(j, at, s3.clause, v, s3.expr, s3.depth, s3.compound, s3.list)
  BY ToIs, Zenon
<1>2. IsRead(Parsing(j, at, s3.clause, v, s3.expr, s3.depth, s3.compound, s3.list),
             j, at, s3.clause, v, s3.expr, s3.depth, s3.compound, s3.list)
  BY ParsingHas, Zenon
<1> QED
  BY <1>1, <1>2, Zenon DEF Moved

(* ... and with a word of an expression, or at a new clause. *)
MovedExpr(p, n, at, v, z) ==
    IsRead(p, s3.i + n, at, s3.clause, v, z, s3.depth, s3.compound, s3.list)
MovedCompound(p, n, at, v, z, k) ==
    IsRead(p, s3.i + n, at, s3.clause, v, z, s3.depth, k, s3.list)
MovedClause(p, n, at, v, c) ==
    IsRead(p, s3.i + n, at, c, v, s3.expr, s3.depth, s3.compound, s3.list)

LEMMA MovedExprIs ==
    ASSUME Entire(s3), NEW n, NEW at, NEW v, NEW z
    PROVE  MovedExpr(WithExpr(Dsl!To(n, at, v), z), n, at, v, z)
<1> DEFINE j == s3.i + n
           p == Parsing(j, at, s3.clause, v, z, s3.depth, s3.compound, s3.list)
<1>1. Dsl!To(n, at, v) = Parsing(j, at, s3.clause, v, s3.expr, s3.depth, s3.compound, s3.list)
  BY ToIs, Zenon
<1>2. IsParsing(j, at, s3.clause, v, s3.expr, s3.depth, s3.compound, s3.list, z)
  BY ParsingMore, Zenon
<1>3. WithExpr(Dsl!To(n, at, v), z) = p
  BY <1>1, <1>2, Zenon DEF IsParsing
<1>4. IsRead(p, j, at, s3.clause, v, z, s3.depth, s3.compound, s3.list)
  BY ParsingHas, Zenon
<1> QED
  BY <1>3, <1>4, Zenon DEF MovedExpr

LEMMA MovedCompoundIs ==
    ASSUME Entire(s3), NEW n, NEW at, NEW v, NEW z, NEW k
    PROVE  MovedCompound(WithExprCompound(Dsl!To(n, at, v), z, k), n, at, v, z, k)
<1> DEFINE j == s3.i + n
           r == Dsl!To(n, at, v)
           p == Parsing(j, at, s3.clause, v, z, s3.depth, k, s3.list)
<1>1. r = Parsing(j, at, s3.clause, v, s3.expr, s3.depth, s3.compound, s3.list)
  BY ToIs, Zenon
<1>2. IsParsing(j, at, s3.clause, v, s3.expr, s3.depth, s3.compound, s3.list, z)
  BY ParsingMore, Zenon
<1>3. WithExpr(r, z) = Parsing(j, at, s3.clause, v, z, s3.depth, s3.compound, s3.list)
  BY <1>1, <1>2, Zenon DEF IsParsing
<1>4. IsParsing(j, at, s3.clause, v, z, s3.depth, s3.compound, s3.list, k)
  BY ParsingMore, Zenon
<1>5. WithCompound(WithExpr(r, z), k) = p
  BY <1>3, <1>4, Zenon DEF IsParsing
<1>6. WithExprCompound(r, z, k) = p
  BY <1>5, WordFields, Zenon
<1>7. IsRead(p, j, at, s3.clause, v, z, s3.depth, k, s3.list)
  BY ParsingHas, Zenon
<1> QED
  BY <1>6, <1>7, Zenon DEF MovedCompound

LEMMA MovedClauseIs ==
    ASSUME Entire(s3), NEW n, NEW at, NEW v, NEW c
    PROVE  MovedClause(WithClause(Dsl!To(n, at, v), c), n, at, v, c)
<1> DEFINE j == s3.i + n
           p == Parsing(j, at, c, v, s3.expr, s3.depth, s3.compound, s3.list)
<1>1. Dsl!To(n, at, v) = Parsing(j, at, s3.clause, v, s3.expr, s3.depth, s3.compound, s3.list)
  BY ToIs, Zenon
<1>2. IsParsing(j, at, s3.clause, v, s3.expr, s3.depth, s3.compound, s3.list, c)
  BY ParsingMore, Zenon
<1>3. WithClause(Dsl!To(n, at, v), c) = p
  BY <1>1, <1>2, Zenon DEF IsParsing
<1>4. IsRead(p, j, at, c, v, s3.expr, s3.depth, s3.compound, s3.list)
  BY ParsingHas, Zenon
<1> QED
  BY <1>3, <1>4, Zenon DEF MovedClause

LEMMA PlacedIs ==
    ASSUME Entire(s3), NEW at
    PROVE  IsRead([s3 EXCEPT !.at = at], s3.i, at, s3.clause, s3.q, s3.expr, s3.depth, s3.compound, s3.list)
<1>1. [s3 EXCEPT !.at = at] = Parsing(s3.i, at, s3.clause, s3.q, s3.expr, s3.depth, s3.compound, s3.list)
  BY PlaceIs, Zenon
<1>2. IsRead(Parsing(s3.i, at, s3.clause, s3.q, s3.expr, s3.depth, s3.compound, s3.list),
             s3.i, at, s3.clause, s3.q, s3.expr, s3.depth, s3.compound, s3.list)
  BY ParsingHas, Zenon
<1> QED
  BY <1>1, <1>2, Zenon

(* One step of the parser at each place of the text of a query. *)
ReadsOn(q) ==
    /\ q \in Dsl!Query /\ Dsl!Expressible(q) /\ s2 = Dsl!Render(q)
    /\ Entire(s3) /\ s3.i \in Nat /\ s3.i >= 1

LEMMA SelectStep ==
    ASSUME NEW q, ReadsOn(q), s3 = Dsl!ParserStart, s3' = Dsl!Advance
    PROVE  Dsl!InMetrics(q)'
<1> DEFINE t == Dsl!At(0)
           M == Len(q.metrics)
<1>1. /\ s3.i = 1 /\ s3.at = "select" /\ s3.clause = 0 /\ s3.q = Dsl!EmptyQuery
      /\ s3.expr = <<>> /\ s3.depth = 0 /\ s3.compound = FALSE
  BY DEF Dsl!ParserStart
<1>2. q \in Dsl!Query /\ Dsl!Expressible(q) /\ s2 = Dsl!Render(q)
  BY DEF ReadsOn
<1>3. M \in Nat /\ M >= 1 /\ Dsl!Upto(q, 0) = 2 * M /\ Dsl!Render(q)[1] = Dsl!Id("select")
  <2>1. q.metrics # <<>>
    BY <1>2, ExpressibleIs
  <2> QED
    BY <1>2, <2>1, TextOfMetrics, Zenon
<1>4. t = Dsl!Id("select")
  <2>1. 0 \in 0 .. 6 /\ 6 \in 0 .. 6
    OBVIOUS
  <2>2. Dsl!Upto(q, 0) \in Nat /\ Dsl!Upto(q, 6) \in Nat /\ Dsl!Upto(q, 0) <= Dsl!Upto(q, 6)
    BY <1>2, <2>1, TextIs, Zenon DEF IsText
  <2>3. s3.i + 0 = 1 /\ s3.i + 0 <= Dsl!Upto(q, 6) /\ s3.i \in Nat /\ s3.i >= 1
    BY <1>1, <1>3, <2>2
  <2> QED
    BY <1>2, <1>3, <2>3, AtIs
<1>5. Dsl!IsKw(t, "select")
  <2>1. "select" \in Dsl!Written
    BY DEF Dsl!Written, Dsl!Keyword
  <2> QED
    BY <1>4, <2>1, KeywordIs
<1>6. s3' = Dsl!To(1, "operand", s3.q)
  BY <1>1, <1>5, Zenon DEF Dsl!Advance
<1>7. Moved(s3', 1, "operand", s3.q)
  BY <1>6, MovedIs, Zenon DEF ReadsOn
<1>8. /\ s3'.i = s3.i + 1 /\ s3'.at = "operand" /\ s3'.clause = 0 /\ s3'.q = Dsl!EmptyQuery
      /\ s3'.expr = <<>> /\ s3'.depth = 0 /\ s3'.compound = FALSE
  BY <1>1, <1>7 DEF Moved, IsRead
<1>9. Dsl!EmptyQuery = [Dsl!EmptyQuery EXCEPT !.metrics = SubSeq(q.metrics, 1, 0)]
  <2>1. SubSeq(q.metrics, 1, 0) = <<>>
    <3>1. q.metrics \in Seq(Dsl!Name)
      BY <1>2 DEF Dsl!Query
    <3> QED
      BY <3>1, SubSeqAll
  <2>2. IsAsked(<<>>, <<>>, <<>>, <<>>, <<>>, <<>>, TRUE, <<>>, <<>>)
    BY AskedMore, Zenon
  <2> QED
    BY <2>1, <2>2, EmptyIs, Zenon DEF IsAsked, WithMetrics
<1>10. 0 \in 0 .. M - 1 /\ s3'.i = 2 * 0 + 2
  BY <1>1, <1>3, <1>8
<1> QED
  BY <1>8, <1>9, <1>10, Zenon DEF Dsl!InMetrics

LEMMA EmptyJoin ==
    ASSUME NEW T, NEW s \in Seq(T)
    PROVE  <<>> \o s = s /\ s \o <<>> = s
OBVIOUS

LEMMA OperandStep ==
    ASSUME NEW q, ReadsOn(q), Dsl!InMetrics(q), s3.at = "operand", s3' = Dsl!Advance
    PROVE  Dsl!InMetrics(q)'
<1> DEFINE t == Dsl!At(0)
           M == Len(q.metrics)
<1>1. q \in Dsl!Query /\ Dsl!Expressible(q) /\ s2 = Dsl!Render(q)
  BY DEF ReadsOn
<1>2. /\ s3.clause = 0 /\ s3.depth = 0 /\ ~s3.compound /\ s3.expr = <<>>
      /\ \E n \in 0 .. M - 1 :
            /\ s3.i = 2 * n + 2
            /\ s3.q = [Dsl!EmptyQuery EXCEPT !.metrics = SubSeq(q.metrics, 1, n)]
  <2>1. "operand" \notin {"operator", "metric"}
    OBVIOUS
  <2> QED
    BY <2>1, Zenon DEF Dsl!InMetrics
<1>3. PICK n \in 0 .. M - 1 :
            /\ s3.i = 2 * n + 2
            /\ s3.q = [Dsl!EmptyQuery EXCEPT !.metrics = SubSeq(q.metrics, 1, n)]
  BY <1>2
<1> DEFINE w == q.metrics[n + 1]
<1>4. M \in Nat /\ M >= 1 /\ Dsl!Upto(q, 0) = 2 * M /\ Dsl!Render(q)[2 * n + 2] = Dsl!Tok("ID", w)
  <2>1. q.metrics # <<>>
    BY <1>1, ExpressibleIs
  <2> QED
    BY <1>1, <2>1, TextOfMetrics, Zenon
<1>5. w \in Dsl!Name /\ w \notin Dsl!Reserved
  <2>1. n + 1 \in 1 .. M
    BY <1>4
  <2> QED
    BY <1>1, <2>1, ExpressibleIs, Zenon
<1> HIDE DEF w
<1>6. t = Dsl!Tok("ID", w)
  <2>1. 0 \in 0 .. 6 /\ 6 \in 0 .. 6
    OBVIOUS
  <2>2. Dsl!Upto(q, 0) \in Nat /\ Dsl!Upto(q, 6) \in Nat /\ Dsl!Upto(q, 0) <= Dsl!Upto(q, 6)
    BY <1>1, <2>1, TextIs, Zenon DEF IsText
  <2>3. s3.i + 0 = 2 * n + 2 /\ s3.i + 0 <= Dsl!Upto(q, 6) /\ s3.i \in Nat /\ s3.i >= 1
    BY <1>3, <1>4, <2>2
  <2> QED
    BY <1>1, <1>4, <2>3, AtIs
<1>7. t.k = "ID" /\ t.v = w
  <2>1. Dsl!Tok("ID", w).k = "ID" /\ Dsl!Tok("ID", w).v = w
    BY <1>5, TokenIs
  <2> QED
    BY <1>6, <2>1
<1>8. Dsl!Operand(t)
  BY <1>5, <1>7, Zenon DEF Dsl!Operand
<1>9. s3' = Dsl!Expression(t)
  <2>1. s3.at \in {"operand", "operator"} /\ s3.at # "select"
    OBVIOUS
  <2> QED
    BY <2>1, Zenon DEF Dsl!Advance
<1>10. s3' = WithExpr(Dsl!To(1, "operator", s3.q), Dsl!To(1, "operator", s3.q).expr \o t.v)
  <2>1. t.k # "OP" /\ t.k # "LP"
    BY <1>7
  <2> QED
    BY <1>8, <1>9, <2>1, Zenon DEF Dsl!Expression, WithExpr
<1>11. Dsl!To(1, "operator", s3.q).expr = <<>>
  <2>1. Moved(Dsl!To(1, "operator", s3.q), 1, "operator", s3.q)
    BY MovedIs, Zenon DEF ReadsOn
  <2> QED
    BY <1>2, <2>1, Zenon DEF Moved, IsRead
<1>12. <<>> \o t.v = w
  <2>1. w \in Seq(STRING)
    BY <1>5 DEF Dsl!Name
  <2>2. <<>> \o w = w
    BY <2>1, EmptyJoin, Zenon
  <2> QED
    BY <1>7, <2>2, Zenon
<1>13. MovedExpr(s3', 1, "operator", s3.q, w)
  BY <1>10, <1>11, <1>12, MovedExprIs, Zenon DEF ReadsOn
<1>14. /\ s3'.i = s3.i + 1 /\ s3'.at = "operator" /\ s3'.clause = 0 /\ s3'.q = s3.q
       /\ s3'.expr = w /\ s3'.depth = 0 /\ ~s3'.compound
  BY <1>2, <1>13 DEF MovedExpr, IsRead
<1>15. s3'.i = 2 * n + 3
  BY <1>3, <1>14
<1>16. \E k \in 0 .. M - 1 :
          /\ s3'.i = 2 * k + 3 /\ s3'.expr = q.metrics[k + 1]
          /\ s3'.q = [Dsl!EmptyQuery EXCEPT !.metrics = SubSeq(q.metrics, 1, k)]
  BY <1>3, <1>14, <1>15, Zenon DEF w
<1> QED
  BY <1>14, <1>16, Zenon DEF Dsl!InMetrics

(* After a metric there is a comma or the next clause. *)
LEMMA MetricEndIs ==
    ASSUME NEW q, ReadsOn(q), NEW n \in 0 .. Len(q.metrics) - 1, s3.i = 2 * n + 3
    PROVE  /\ n + 1 < Len(q.metrics) => Dsl!At(0).k = "COMMA"
           /\ n + 1 = Len(q.metrics) =>
                 s3.i = Dsl!Upto(q, 0) + 1 /\ Dsl!At(0).k \in {"ID", "END"} /\ ~Dsl!IsKw(Dsl!At(0), "as")
<1> DEFINE t == Dsl!At(0)
           M == Len(q.metrics)
           comma == Dsl!Tok("COMMA", <<",">>)
<1>1. q \in Dsl!Query /\ Dsl!Expressible(q) /\ s2 = Dsl!Render(q)
  BY DEF ReadsOn
<1>2. /\ M \in Nat /\ M >= 1 /\ Dsl!Upto(q, 0) = 2 * M
      /\ \A k \in 1 .. M - 1 : Dsl!Render(q)[2 * k + 1] = comma
  <2>1. q.metrics # <<>>
    BY <1>1, ExpressibleIs
  <2> QED
    BY <1>1, <2>1, TextOfMetrics, Zenon
<1>3. Dsl!Upto(q, 0) \in Nat /\ Dsl!Upto(q, 6) \in Nat /\ Dsl!Upto(q, 0) <= Dsl!Upto(q, 6)
  <2>1. 0 \in 0 .. 6 /\ 6 \in 0 .. 6
    OBVIOUS
  <2> QED
    BY <1>1, <2>1, TextIs, Zenon DEF IsText
<1>4. comma.k = "COMMA"
  BY DEF Dsl!Tok
<1> HIDE DEF M, comma
<1>5. ASSUME n + 1 < M PROVE t.k = "COMMA"
  <2>1. /\ n + 1 \in 1 .. M - 1 /\ s3.i + 0 = 2 * (n + 1) + 1 /\ s3.i + 0 <= Dsl!Upto(q, 6)
        /\ s3.i \in Nat /\ s3.i >= 1
    BY <1>2, <1>3, <1>5 DEF M
  <2>2. Dsl!Render(q)[s3.i + 0] = comma
    BY <1>2, <2>1
  <2>3. t = comma
    BY <1>1, <2>1, <2>2, AtIs
  <2> QED
    BY <1>4, <2>3
<1>6. ASSUME n + 1 = M PROVE s3.i = Dsl!Upto(q, 0) + 1 /\ t.k \in {"ID", "END"} /\ ~Dsl!IsKw(t, "as")
  <2>1. s3.i = Dsl!Upto(q, 0) + 1 /\ s3.i + 0 = Dsl!Upto(q, 0) + 1 /\ s3.i \in Nat /\ s3.i >= 1
    BY <1>2, <1>3, <1>6 DEF M
  <2>2. 0 \in 0 .. 6 /\ 0 \in Nat
    OBVIOUS
  <2> QED
    BY <1>1, <2>1, <2>2, AfterIs, Zenon
<1> QED
  BY <1>5, <1>6 DEF M

LEMMA OperatorStep ==
    ASSUME NEW q, ReadsOn(q), Dsl!InMetrics(q), s3.at = "operator", s3' = Dsl!Advance
    PROVE  Dsl!InMetrics(q)'
<1> DEFINE t == Dsl!At(0)
           M == Len(q.metrics)
<1>1. q \in Dsl!Query
  BY DEF ReadsOn
<1>2. /\ s3.clause = 0 /\ s3.depth = 0 /\ ~s3.compound
      /\ \E n \in 0 .. M - 1 :
            /\ s3.i = 2 * n + 3 /\ s3.expr = q.metrics[n + 1]
            /\ s3.q = [Dsl!EmptyQuery EXCEPT !.metrics = SubSeq(q.metrics, 1, n)]
  <2>1. s3.at # "operand"
    OBVIOUS
  <2> QED
    BY <2>1, Zenon DEF Dsl!InMetrics
<1>3. PICK n \in 0 .. M - 1 :
            /\ s3.i = 2 * n + 3 /\ s3.expr = q.metrics[n + 1]
            /\ s3.q = [Dsl!EmptyQuery EXCEPT !.metrics = SubSeq(q.metrics, 1, n)]
  BY <1>2
<1>4. t.k \in {"COMMA", "ID", "END"}
  <2>1. M \in Nat
    BY <1>1 DEF Dsl!Query
  <2>2. n + 1 < M \/ n + 1 = M
    BY <2>1
  <2> QED
    BY <1>3, <2>2, MetricEndIs
<1>5. s3' = Dsl!Expression(t)
  <2>1. s3.at \in {"operand", "operator"} /\ s3.at # "select"
    OBVIOUS
  <2> QED
    BY <2>1, Zenon DEF Dsl!Advance
<1>6. s3' = [s3 EXCEPT !.at = "metric"]
  <2>1. t.k # "OP" /\ t.k # "RP" /\ ~(s3.depth > 0) /\ s3.at # "operand"
    BY <1>2, <1>4
  <2> QED
    BY <1>5, <2>1, Zenon DEF Dsl!Expression
<1>7. IsRead(s3', s3.i, "metric", s3.clause, s3.q, s3.expr, s3.depth, s3.compound, s3.list)
  BY <1>6, PlacedIs, Zenon DEF ReadsOn
<1>8. /\ s3'.i = s3.i /\ s3'.at = "metric" /\ s3'.clause = 0 /\ s3'.q = s3.q
      /\ s3'.expr = s3.expr /\ s3'.depth = 0 /\ ~s3'.compound
  BY <1>2, <1>7 DEF IsRead
<1>9. \E k \in 0 .. M - 1 :
         /\ s3'.i = 2 * k + 3 /\ s3'.expr = q.metrics[k + 1]
         /\ s3'.q = [Dsl!EmptyQuery EXCEPT !.metrics = SubSeq(q.metrics, 1, k)]
  BY <1>3, <1>8, Zenon
<1> QED
  BY <1>8, <1>9, Zenon DEF Dsl!InMetrics

MetricAdded(q, n, r) ==
    WithMetrics(r, Append(r.metrics, q.metrics[n + 1]))
      = WithMetrics(Dsl!EmptyQuery, SubSeq(q.metrics, 1, n + 1))

LEMMA AppendMetric ==
    ASSUME NEW q \in Dsl!Query, NEW n \in 0 .. Len(q.metrics) - 1
    PROVE  MetricAdded(q, n, WithMetrics(Dsl!EmptyQuery, SubSeq(q.metrics, 1, n)))
<1> DEFINE r == WithMetrics(Dsl!EmptyQuery, SubSeq(q.metrics, 1, n))
           m == q.metrics[n + 1]
<1> DEFINE s == SubSeq(q.metrics, 1, n)
           u == SubSeq(q.metrics, 1, n + 1)
           E(m_) == Asked(m_, <<>>, <<>>, <<>>, <<>>, <<>>, TRUE, <<>>)
<1>1. Append(s, m) = u
  <2>1. q.metrics \in Seq(Dsl!Name)
    BY DEF Dsl!Query
  <2> QED
    BY <2>1, SubSeqGrows
<1> HIDE DEF s, u
<1>2. r = E(s)
  <2>1. IsAsked(<<>>, <<>>, <<>>, <<>>, <<>>, <<>>, TRUE, <<>>, s)
    BY AskedMore, Zenon
  <2> QED
    BY <2>1, EmptyIs, Zenon DEF IsAsked, s
<1>3. r.metrics = s
  BY <1>2 DEF Asked
<1>4. WithMetrics(r, u) = E(u)
  <2>1. IsAsked(s, <<>>, <<>>, <<>>, <<>>, <<>>, TRUE, <<>>, u)
    BY AskedMore, Zenon
  <2> QED
    BY <1>2, <2>1, Zenon DEF IsAsked
<1>5. WithMetrics(Dsl!EmptyQuery, u) = E(u)
  <2>1. IsAsked(<<>>, <<>>, <<>>, <<>>, <<>>, <<>>, TRUE, <<>>, u)
    BY AskedMore, Zenon
  <2> QED
    BY <2>1, EmptyIs, Zenon DEF IsAsked
<1> QED
  BY <1>1, <1>3, <1>4, <1>5, Zenon DEF MetricAdded, u

LEMMA MetricStep ==
    ASSUME NEW q, ReadsOn(q), Dsl!InMetrics(q), s3.at = "metric", s3' = Dsl!Advance
    PROVE  Dsl!InMetrics(q)' \/ Dsl!AfterClause(q)'
<1> DEFINE t == Dsl!At(0)
           M == Len(q.metrics)
<1>1. q \in Dsl!Query /\ Dsl!Expressible(q)
  BY DEF ReadsOn
<1>2. /\ s3.clause = 0 /\ s3.depth = 0 /\ ~s3.compound
      /\ \E n \in 0 .. M - 1 :
            /\ s3.i = 2 * n + 3 /\ s3.expr = q.metrics[n + 1]
            /\ s3.q = [Dsl!EmptyQuery EXCEPT !.metrics = SubSeq(q.metrics, 1, n)]
  <2>1. s3.at # "operand"
    OBVIOUS
  <2> QED
    BY <2>1, Zenon DEF Dsl!InMetrics
<1>3. PICK n \in 0 .. M - 1 :
            /\ s3.i = 2 * n + 3 /\ s3.expr = q.metrics[n + 1]
            /\ s3.q = [Dsl!EmptyQuery EXCEPT !.metrics = SubSeq(q.metrics, 1, n)]
  BY <1>2
<1>4. M \in Nat
  BY <1>1 DEF Dsl!Query
<1>5. n + 1 < M \/ n + 1 = M
  BY <1>4
<1>6. ~Dsl!IsKw(t, "as") /\ t.k \in {"COMMA", "ID", "END"}
  <2>1. CASE n + 1 < M
    BY <1>3, <2>1, MetricEndIs DEF Dsl!IsKw
  <2>2. CASE n + 1 = M
    BY <1>3, <2>2, MetricEndIs
  <2> QED
    BY <1>5, <2>1, <2>2
<1> DEFINE v == [Dsl!EmptyQuery EXCEPT !.metrics = SubSeq(q.metrics, 1, n + 1)]
<1>7. s3.expr \o <<>> = s3.expr
  <2>1. s3.expr \in Dsl!Name
    <3>1. n + 1 \in 1 .. M
      BY <1>4
    <3>2. q.metrics[n + 1] \in Dsl!Name
      BY <1>1, <3>1, ExpressibleIs, Zenon
    <3> QED
      BY <1>3, <3>2
  <2>2. s3.expr \in Seq(STRING)
    BY <2>1 DEF Dsl!Name
  <2> QED
    BY <2>2, EmptyJoin, Zenon
<1>8. [s3.q EXCEPT !.metrics = Append(@, s3.expr)] = v
  <2>1. s3.q = WithMetrics(Dsl!EmptyQuery, SubSeq(q.metrics, 1, n))
    BY <1>3, Zenon DEF WithMetrics
  <2>2. WithMetrics(s3.q, Append(s3.q.metrics, s3.expr))
          = WithMetrics(Dsl!EmptyQuery, SubSeq(q.metrics, 1, n + 1))
    <3>1. MetricAdded(q, n, WithMetrics(Dsl!EmptyQuery, SubSeq(q.metrics, 1, n)))
      BY <1>1, AppendMetric
    <3>2. MetricAdded(q, n, s3.q)
      BY <2>1, <3>1, Zenon
    <3> QED
      BY <1>3, <3>2, Zenon DEF MetricAdded
  <2> QED
    BY <2>2, Zenon DEF WithMetrics
<1>9. s3' = Dsl!MetricEnd(t)
  BY Zenon DEF Dsl!Advance
<1>10. s3' = IF t.k = "COMMA"
             THEN WithExprCompound(Dsl!To(0 + 1, "operand", v), <<>>, FALSE)
             ELSE Dsl!To(0, "clause", v)
  BY <1>2, <1>6, <1>7, <1>8, <1>9, Zenon DEF Dsl!MetricEnd, WithExprCompound
<1> HIDE DEF t, v
<1>11. CASE n + 1 < M
  <2>1. t.k = "COMMA"
    BY <1>3, <1>11, MetricEndIs DEF t
  <2>2. s3' = WithExprCompound(Dsl!To(0 + 1, "operand", v), <<>>, FALSE)
    BY <1>10, <2>1
  <2>3. MovedCompound(s3', 0 + 1, "operand", v, <<>>, FALSE)
    BY <2>2, MovedCompoundIs, Zenon DEF ReadsOn
  <2>4. /\ s3'.i = s3.i + (0 + 1) /\ s3'.at = "operand" /\ s3'.clause = 0 /\ s3'.q = v
        /\ s3'.expr = <<>> /\ s3'.depth = 0 /\ ~s3'.compound
    BY <1>2, <2>3 DEF MovedCompound, IsRead
  <2>5. n + 1 \in 0 .. M - 1 /\ s3'.i = 2 * (n + 1) + 2
    BY <1>3, <1>4, <1>11, <2>4
  <2>6. \E k \in 0 .. M - 1 :
           s3'.i = 2 * k + 2 /\ s3'.q = [Dsl!EmptyQuery EXCEPT !.metrics = SubSeq(q.metrics, 1, k)]
    BY <2>4, <2>5, Zenon DEF v
  <2>7. Dsl!InMetrics(q)'
    BY <2>4, <2>6, Zenon DEF Dsl!InMetrics
  <2> QED
    BY <2>7
<1>12. CASE n + 1 = M
  <2>1. t.k # "COMMA" /\ s3.i = Dsl!Upto(q, 0) + 1
    BY <1>3, <1>12, MetricEndIs DEF t
  <2>2. s3' = Dsl!To(0, "clause", v)
    BY <1>10, <2>1
  <2>3. Moved(s3', 0, "clause", v)
    BY <2>2, MovedIs, Zenon DEF ReadsOn
  <2>4. s3'.i = s3.i + 0 /\ s3'.at = "clause" /\ s3'.clause = 0 /\ s3'.q = v
    BY <1>2, <2>3 DEF Moved, IsRead
  <2>5. v = Dsl!Said(q, 0)
    <3>1. SubSeq(q.metrics, 1, n + 1) = q.metrics
      <4>1. q.metrics \in Seq(Dsl!Name)
        BY <1>1 DEF Dsl!Query
      <4> QED
        BY <1>12, <4>1, SubSeqAll
    <3> QED
      BY <3>1, SaidNext, Zenon DEF v
  <2>6. s3'.i = Dsl!Upto(q, 0) + 1 /\ 0 \in 0 .. 6
    <3>1. s3.i + 0 = s3.i
      BY <1>3
    <3> QED
      BY <2>1, <2>4, <3>1
  <2>7. Dsl!AfterClause(q)'
    BY <2>4, <2>5, <2>6, Zenon DEF Dsl!AfterClause
  <2> QED
    BY <2>7
<1> QED
  BY <1>5, <1>11, <1>12

(* The keyword of a clause is found at its place and nowhere else. *)
LEMMA OrderOnce ==
    /\ Len(Dsl!Order) = 6 /\ Dsl!Order[1] = "by" /\ Dsl!Order[2] = "where" /\ Dsl!Order[3] = "since"
    /\ Dsl!Order[4] = "between" /\ Dsl!Order[5] = "order" /\ Dsl!Order[6] = "limit"
    /\ \A d \in 1 .. 6 : Dsl!Order[d] \in Dsl!Written
    /\ \A d, x \in 1 .. 6 : Dsl!Order[x] = Dsl!Order[d] => x = d
<1>1. /\ Len(Dsl!Order) = 6 /\ Dsl!Order[1] = "by" /\ Dsl!Order[2] = "where" /\ Dsl!Order[3] = "since"
      /\ Dsl!Order[4] = "between" /\ Dsl!Order[5] = "order" /\ Dsl!Order[6] = "limit"
  BY DEF Dsl!Order
<1>2. \A d \in 1 .. 6 : d \in {1, 2, 3, 4, 5, 6}
  OBVIOUS
<1>3. {"by", "where", "since", "between", "order", "limit"} \subseteq Dsl!Written
  BY DEF Dsl!Written, Dsl!Keyword
<1>4. \A d \in 1 .. 6 : Dsl!Order[d] \in Dsl!Written
  BY <1>1, <1>2, <1>3
<1>5. \A d, x \in 1 .. 6 : Dsl!Order[x] = Dsl!Order[d] => x = d
  BY <1>1, <1>2
<1> QED
  BY <1>1, <1>4, <1>5

LEMMA MinOfOne ==
    ASSUME NEW d \in Int
    PROVE  Dsl!Min({d}) = d
<1>1. \E x \in {d} : \A y \in {d} : x <= y
  OBVIOUS
<1>2. Dsl!Min({d}) = CHOOSE x \in {d} : \A y \in {d} : x <= y
  BY Zenon DEF Dsl!Min
<1> QED
  BY <1>1, <1>2

LEMMA ClauseStartIs ==
    ASSUME NEW q, ReadsOn(q), NEW d \in 1 .. 6, s3.clause \in 0 .. d - 1,
           Dsl!At(0) = Dsl!Id(Dsl!Order[d])
    PROVE  Dsl!ClauseStart(Dsl!At(0)) = WithClause(Dsl!To(1, Dsl!Order[d], s3.q), d)
<1> DEFINE t == Dsl!At(0)
           next == {x \in s3.clause + 1 .. Len(Dsl!Order) : Dsl!IsKw(t, Dsl!Order[x])}
<1>1. Dsl!Order[d] \in Dsl!Written
  BY OrderOnce
<1>2. next = {d}
  <2>1. Dsl!IsKw(t, Dsl!Order[d])
    BY <1>1, KeywordIs
  <2>2. d \in s3.clause + 1 .. Len(Dsl!Order)
    BY OrderOnce
  <2>3. ASSUME NEW x \in s3.clause + 1 .. Len(Dsl!Order), Dsl!IsKw(t, Dsl!Order[x]) PROVE x = d
    <3>1. x \in 1 .. 6
      <4>1. Len(Dsl!Order) = 6
        BY OrderOnce
      <4> QED
        BY <4>1
    <3>2. Dsl!Order[d] = Dsl!Order[x]
      BY <1>1, <2>3, KeywordIs
    <3> QED
      BY <3>1, <3>2, OrderOnce
  <2> QED
    BY <2>1, <2>2, <2>3
<1>3. t # Dsl!End
  <2>1. t.k = "ID"
    BY <1>1, KeywordIs
  <2> QED
    BY <2>1 DEF Dsl!End, Dsl!Tok
<1>4. Dsl!Min(next) = d /\ next # {}
  BY <1>2, MinOfOne
<1>5. Dsl!ClauseStart(t) = IF t = Dsl!End THEN [s3 EXCEPT !.at = "done"]
                           ELSE IF next = {} THEN Dsl!Error
                           ELSE WithClause(Dsl!To(1, Dsl!Order[Dsl!Min(next)], s3.q), Dsl!Min(next))
  BY Zenon DEF Dsl!ClauseStart, WithClause
<1> HIDE DEF t, next
<1> QED
  BY <1>3, <1>4, <1>5, Zenon DEF t

LEMMA ClauseStep ==
    ASSUME NEW q, ReadsOn(q), Dsl!AfterClause(q), s3' = Dsl!Advance
    PROVE  \/ s3'.at = "done" /\ s3'.q = q
           \/ Dsl!InDimensions(q)' \/ Dsl!InFilters(q)'
           \/ Dsl!InWord(q, "since", 3)' \/ Dsl!InWord(q, "order", 5)' \/ Dsl!InWord(q, "limit", 6)'
<1> DEFINE t == Dsl!At(0)
           c == s3.clause
<1>1. q \in Dsl!Query /\ Dsl!Expressible(q) /\ s2 = Dsl!Render(q) /\ s3.i \in Nat /\ s3.i >= 1
  BY DEF ReadsOn
<1>2. s3.at = "clause" /\ c \in 0 .. 6 /\ s3.i = Dsl!Upto(q, c) + 1 /\ s3.q = Dsl!Said(q, c)
  BY Zenon DEF Dsl!AfterClause
<1>3. s3' = Dsl!ClauseStart(t)
  <2>1. s3.at \notin {"operand", "operator"} /\ s3.at # "select" /\ s3.at # "metric"
    BY <1>2
  <2> QED
    BY <1>2, <2>1, Zenon DEF Dsl!Advance
<1>4. \/ t = Dsl!End /\ Dsl!Upto(q, c) = Dsl!Upto(q, 6) /\ Dsl!Said(q, c) = q
      \/ \E d \in c + 1 .. 6 : t = Dsl!Id(Dsl!Order[d]) /\ Starts(q, c, d)
  <2>1. s3.i + 0 = Dsl!Upto(q, c) + 1 /\ 0 \in Nat
    BY <1>1, <1>2
  <2> QED
    BY <1>1, <1>2, <2>1, AfterIs, Zenon
<1>5. CASE t = Dsl!End /\ Dsl!Said(q, c) = q
  <2>1. s3' = [s3 EXCEPT !.at = "done"]
    BY <1>3, <1>5, Zenon DEF Dsl!ClauseStart
  <2>2. IsRead(s3', s3.i, "done", s3.clause, s3.q, s3.expr, s3.depth, s3.compound, s3.list)
    BY <2>1, PlacedIs, Zenon DEF ReadsOn
  <2>3. s3'.at = "done" /\ s3'.q = q
    BY <1>2, <1>5, <2>2, Zenon DEF IsRead
  <2> QED
    BY <2>3
<1>6. CASE \E d \in c + 1 .. 6 : t = Dsl!Id(Dsl!Order[d]) /\ Starts(q, c, d)
  <2>1. PICK d \in c + 1 .. 6 : t = Dsl!Id(Dsl!Order[d]) /\ Starts(q, c, d)
    BY <1>6
  <2>2. d \in 1 .. 6 /\ c \in 0 .. d - 1
    BY <1>2
  <2>3. s3' = WithClause(Dsl!To(1, Dsl!Order[d], s3.q), d)
    BY <1>3, <2>1, <2>2, ClauseStartIs
  <2>4. MovedClause(s3', 1, Dsl!Order[d], s3.q, d)
    BY <2>3, MovedClauseIs, Zenon DEF ReadsOn
  <2>5. s3'.i = s3.i + 1 /\ s3'.at = Dsl!Order[d] /\ s3'.clause = d /\ s3'.q = s3.q
    BY <2>4, Zenon DEF MovedClause, IsRead
  <2>6. /\ Dsl!ClauseTexts(q)[d] # <<>> /\ d # 4
        /\ Dsl!Upto(q, c) = Dsl!Upto(q, d - 1) /\ Dsl!Said(q, c) = Dsl!Said(q, d - 1)
    BY <2>1, Zenon DEF Starts
  <2>7. s3'.i = Dsl!Upto(q, d - 1) + 2 /\ s3'.q = Dsl!Said(q, d - 1)
    <3>1. s3'.i = (Dsl!Upto(q, d - 1) + 1) + 1
      BY <1>2, <2>5, <2>6
    <3>2. Dsl!Upto(q, d - 1) \in Nat
      <4>1. d - 1 \in 0 .. 6
        BY <2>2
      <4> QED
        BY <1>1, <4>1, TextIs, Zenon DEF IsText
    <3> QED
      BY <1>2, <2>5, <2>6, <3>1, <3>2
  <2>8. CASE d = 1
    <3>1. 1 - 1 = 0 /\ s3'.at = "by" /\ s3'.clause = 1 /\ s3'.i = Dsl!Upto(q, 0) + 2 * 0 + 2
      <4>1. 1 - 1 = 0 /\ Dsl!Order[1] = "by"
        BY OrderOnce
      <4>2. s3'.i = Dsl!Upto(q, 0) + 2
        BY <2>7, <2>8, <4>1
      <4>3. Dsl!Upto(q, 0) \in Nat
        <5>1. 0 \in 0 .. 6
          OBVIOUS
        <5> QED
          BY <1>1, <5>1, TextIs, Zenon DEF IsText
      <4> QED
        BY <2>5, <2>8, <4>1, <4>2, <4>3
    <3>2. q.dims # <<>>
      BY <1>1, <2>6, <2>8, TextOfWords, Zenon DEF IsWords
    <3>3. 0 \in 0 .. Len(q.dims) - 1 /\ SubSeq(q.dims, 1, 0) = <<>>
      <4>1. q.dims \in Seq(Dsl!Name)
        BY <1>1 DEF Dsl!Query
      <4> QED
        BY <3>2, <4>1, SubSeqAll
    <3>4. s3'.q = [Dsl!Said(q, 0) EXCEPT !.dims = SubSeq(q.dims, 1, 0)]
      <4>1. s3'.q = Dsl!Said(q, 0)
        BY <2>7, <2>8, <3>1
      <4>2. [Dsl!Said(q, 0) EXCEPT !.dims = <<>>] = Dsl!Said(q, 0)
        BY SaidNext, Zenon
      <4> QED
        BY <3>3, <4>1, <4>2, Zenon
    <3>5. Dsl!InDimensions(q)'
      BY <3>1, <3>3, <3>4, Zenon DEF Dsl!InDimensions
    <3> QED
      BY <3>5
  <2>9. CASE d = 2
    <3>1. 2 - 1 = 1 /\ s3'.at = "where" /\ s3'.clause = 2 /\ s3'.i = Dsl!Upto(q, 1) + 4 * 0 + 2
      <4>1. 2 - 1 = 1 /\ Dsl!Order[2] = "where"
        BY OrderOnce
      <4>2. s3'.i = Dsl!Upto(q, 1) + 2
        BY <2>7, <2>9, <4>1
      <4>3. Dsl!Upto(q, 1) \in Nat
        <5>1. 1 \in 0 .. 6
          OBVIOUS
        <5> QED
          BY <1>1, <5>1, TextIs, Zenon DEF IsText
      <4> QED
        BY <2>5, <2>9, <4>1, <4>2, <4>3
    <3>2. q.filters # <<>>
      BY <1>1, <2>6, <2>9, TextOfWords, Zenon DEF IsWords
    <3>3. 0 \in 0 .. Len(q.filters) /\ 0 < Len(q.filters) /\ SubSeq(q.filters, 1, 0) = <<>>
      <4>1. q.filters \in Seq(Dsl!Condition)
        BY <1>1 DEF Dsl!Query
      <4> QED
        BY <3>2, <4>1, SubSeqAll
    <3>4. s3'.q = [Dsl!Said(q, 1) EXCEPT !.filters = SubSeq(q.filters, 1, 0)]
      <4>1. s3'.q = Dsl!Said(q, 1)
        BY <2>7, <2>9, <3>1
      <4>2. [Dsl!Said(q, 1) EXCEPT !.filters = <<>>] = Dsl!Said(q, 1)
        BY SaidNext, Zenon
      <4> QED
        BY <3>3, <4>1, <4>2, Zenon
    <3>5. Dsl!InFilters(q)'
      <4>1. s3'.at \in {"where", "filterEnd"}
        BY <3>1
      <4> QED
        BY <3>1, <3>3, <3>4, <4>1, Zenon DEF Dsl!InFilters
    <3> QED
      BY <3>5
  <2>10. CASE d = 3
    <3>1. s3'.at = "since"
      BY <2>5, <2>10, OrderOnce
    <3>2. Dsl!InWord(q, "since", 3)'
      BY <2>5, <2>6, <2>7, <2>10, <3>1, Zenon DEF Dsl!InWord
    <3> QED
      BY <3>2
  <2>11. CASE d = 5
    <3>1. s3'.at = "order"
      BY <2>5, <2>11, OrderOnce
    <3>2. Dsl!InWord(q, "order", 5)'
      BY <2>5, <2>6, <2>7, <2>11, <3>1, Zenon DEF Dsl!InWord
    <3> QED
      BY <3>2
  <2>12. CASE d = 6
    <3>1. s3'.at = "limit"
      BY <2>5, <2>12, OrderOnce
    <3>2. Dsl!InWord(q, "limit", 6)'
      BY <2>5, <2>6, <2>7, <2>12, <3>1, Zenon DEF Dsl!InWord
    <3> QED
      BY <3>2
  <2>13. d \in {1, 2, 3, 5, 6}
    BY <2>2, <2>6
  <2> QED
    BY <2>8, <2>9, <2>10, <2>11, <2>12, <2>13
<1> QED
  BY <1>4, <1>5, <1>6

(* One more element of a list of the query. *)
DimensionAdded(q, n, r) ==
    WithDims(r, Append(r.dims, q.dims[n + 1])) = WithDims(Dsl!Said(q, 0), SubSeq(q.dims, 1, n + 1))

LEMMA AppendDimension ==
    ASSUME NEW q \in Dsl!Query, NEW n \in 0 .. Len(q.dims) - 1
    PROVE  DimensionAdded(q, n, WithDims(Dsl!Said(q, 0), SubSeq(q.dims, 1, n)))
<1> DEFINE s == SubSeq(q.dims, 1, n)
           u == SubSeq(q.dims, 1, n + 1)
           r == WithDims(Dsl!Said(q, 0), s)
           E(d) == Asked(q.metrics, d, <<>>, <<>>, <<>>, <<>>, TRUE, <<>>)
<1>1. Append(s, q.dims[n + 1]) = u
  <2>1. q.dims \in Seq(Dsl!Name)
    BY DEF Dsl!Query
  <2> QED
    BY <2>1, SubSeqGrows
<1> HIDE DEF s, u
<1>2. Dsl!Said(q, 0) = E(<<>>)
  BY SaidNow, Zenon
<1>3. r = E(s)
  <2>1. IsAsked(q.metrics, <<>>, <<>>, <<>>, <<>>, <<>>, TRUE, <<>>, s)
    BY AskedMore, Zenon
  <2> QED
    BY <1>2, <2>1, Zenon DEF IsAsked
<1>4. r.dims = s
  BY <1>3 DEF Asked
<1>5. WithDims(r, u) = E(u)
  <2>1. IsAsked(q.metrics, s, <<>>, <<>>, <<>>, <<>>, TRUE, <<>>, u)
    BY AskedMore, Zenon
  <2> QED
    BY <1>3, <2>1, Zenon DEF IsAsked
<1>6. WithDims(Dsl!Said(q, 0), u) = E(u)
  <2>1. IsAsked(q.metrics, <<>>, <<>>, <<>>, <<>>, <<>>, TRUE, <<>>, u)
    BY AskedMore, Zenon
  <2> QED
    BY <1>2, <2>1, Zenon DEF IsAsked
<1> QED
  BY <1>1, <1>4, <1>5, <1>6, Zenon DEF DimensionAdded, s, u, r

FilterAdded(q, n, r) ==
    WithFilters(r, Append(r.filters, q.filters[n + 1]))
      = WithFilters(Dsl!Said(q, 1), SubSeq(q.filters, 1, n + 1))

LEMMA AppendFilter ==
    ASSUME NEW q \in Dsl!Query, NEW n \in 0 .. Len(q.filters) - 1
    PROVE  FilterAdded(q, n, WithFilters(Dsl!Said(q, 1), SubSeq(q.filters, 1, n)))
<1> DEFINE s == SubSeq(q.filters, 1, n)
           u == SubSeq(q.filters, 1, n + 1)
           r == WithFilters(Dsl!Said(q, 1), s)
           E(f) == Asked(q.metrics, q.dims, f, <<>>, <<>>, <<>>, TRUE, <<>>)
<1>1. Append(s, q.filters[n + 1]) = u
  <2>1. q.filters \in Seq(Dsl!Condition)
    BY DEF Dsl!Query
  <2> HIDE DEF Dsl!Condition
  <2> QED
    BY <2>1, SubSeqGrows
<1> HIDE DEF s, u
<1>2. Dsl!Said(q, 1) = E(<<>>)
  BY SaidNow, Zenon
<1>3. r = E(s)
  <2>1. IsAsked(q.metrics, q.dims, <<>>, <<>>, <<>>, <<>>, TRUE, <<>>, s)
    BY AskedMore, Zenon
  <2> QED
    BY <1>2, <2>1, Zenon DEF IsAsked
<1>4. r.filters = s
  BY <1>3 DEF Asked
<1>5. WithFilters(r, u) = E(u)
  <2>1. IsAsked(q.metrics, q.dims, s, <<>>, <<>>, <<>>, TRUE, <<>>, u)
    BY AskedMore, Zenon
  <2> QED
    BY <1>3, <2>1, Zenon DEF IsAsked
<1>6. WithFilters(Dsl!Said(q, 1), u) = E(u)
  <2>1. IsAsked(q.metrics, q.dims, <<>>, <<>>, <<>>, <<>>, TRUE, <<>>, u)
    BY AskedMore, Zenon
  <2> QED
    BY <1>2, <2>1, Zenon DEF IsAsked
<1> QED
  BY <1>1, <1>4, <1>5, <1>6, Zenon DEF FilterAdded, s, u, r

LEMMA DimensionStep ==
    ASSUME NEW q, ReadsOn(q), Dsl!InDimensions(q), s3' = Dsl!Advance
    PROVE  Dsl!InDimensions(q)' \/ Dsl!AfterClause(q)'
<1> DEFINE t == Dsl!At(0)
           D == Len(q.dims)
           comma == Dsl!Tok("COMMA", <<",">>)
           b == Dsl!Upto(q, 0)
<1>1. q \in Dsl!Query /\ Dsl!Expressible(q) /\ s2 = Dsl!Render(q) /\ s3.i \in Nat /\ s3.i >= 1
  BY DEF ReadsOn
<1>2. /\ s3.at = "by" /\ s3.clause = 1
      /\ \E n \in 0 .. D - 1 :
            s3.i = b + 2 * n + 2 /\ s3.q = [Dsl!Said(q, 0) EXCEPT !.dims = SubSeq(q.dims, 1, n)]
  BY Zenon DEF Dsl!InDimensions
<1>3. PICK n \in 0 .. D - 1 :
            s3.i = b + 2 * n + 2 /\ s3.q = [Dsl!Said(q, 0) EXCEPT !.dims = SubSeq(q.dims, 1, n)]
  BY <1>2
<1> DEFINE w == q.dims[n + 1]
           v == [Dsl!Said(q, 0) EXCEPT !.dims = SubSeq(q.dims, 1, n + 1)]
<1>4. q.dims # <<>> /\ q.dims \in Seq(Dsl!Name)
  <2>1. q.dims \in Seq(Dsl!Name)
    BY <1>1 DEF Dsl!Query
  <2> QED
    BY <2>1
<1>5a. /\ D \in Nat /\ D >= 1 /\ b \in Nat /\ Dsl!Upto(q, 1) = b + 2 * D
       /\ \A k \in 0 .. D - 1 : Dsl!Render(q)[b + 2 * k + 2] = Dsl!Tok("ID", q.dims[k + 1])
       /\ \A k \in 1 .. D - 1 : Dsl!Render(q)[b + 2 * k + 1] = comma
  BY <1>1, <1>4, TextOfDimensions, Zenon
<1>5. D \in Nat /\ D >= 1 /\ b \in Nat /\ Dsl!Upto(q, 1) = b + 2 * D
  BY <1>5a
<1>5b. /\ \A k \in 0 .. D - 1 : Dsl!Render(q)[b + 2 * k + 2] = Dsl!Tok("ID", q.dims[k + 1])
       /\ \A k \in 1 .. D - 1 : Dsl!Render(q)[b + 2 * k + 1] = comma
  BY <1>5a
<1>6. Dsl!Upto(q, 6) \in Nat /\ Dsl!Upto(q, 1) <= Dsl!Upto(q, 6)
  <2>1. 1 \in 0 .. 6 /\ 6 \in 0 .. 6
    OBVIOUS
  <2> QED
    BY <1>1, <2>1, TextIs, Zenon DEF IsText
<1> HIDE DEF D, b
<1>7. w \in Dsl!Name /\ w \notin Dsl!Reserved
  <2>1. n + 1 \in 1 .. D
    BY <1>5
  <2> QED
    BY <1>1, <2>1, ExpressibleIs, Zenon DEF D
<1>8. t = Dsl!Tok("ID", w)
  <2>1. Dsl!Render(q)[b + 2 * n + 2] = Dsl!Tok("ID", w)
    BY <1>3, <1>5b
  <2> HIDE DEF w
  <2>2. s3.i + 0 = b + 2 * n + 2 /\ s3.i + 0 <= Dsl!Upto(q, 6)
    BY <1>3, <1>5, <1>6
  <2> QED
    BY <1>1, <2>1, <2>2, AtIs
<1>9. t.v = w /\ Dsl!Operand(t)
  <2>1. Dsl!Tok("ID", w).k = "ID" /\ Dsl!Tok("ID", w).v = w
    BY <1>7, TokenIs
  <2>2. t.k = "ID" /\ t.v = w
    BY <1>8, <2>1
  <2> QED
    BY <1>7, <2>2, Zenon DEF Dsl!Operand
<1>10. [s3.q EXCEPT !.dims = Append(@, w)] = v
  <2>1. s3.q = WithDims(Dsl!Said(q, 0), SubSeq(q.dims, 1, n))
    BY <1>3, Zenon DEF WithDims
  <2>2. DimensionAdded(q, n, WithDims(Dsl!Said(q, 0), SubSeq(q.dims, 1, n)))
    BY <1>1, AppendDimension DEF D
  <2>3. DimensionAdded(q, n, s3.q)
    BY <2>1, <2>2, Zenon
  <2> QED
    BY <2>3, Zenon DEF DimensionAdded, WithDims
<1>11. s3' = Dsl!Dimension(t)
  <2>1. /\ s3.at \notin {"operand", "operator"} /\ s3.at # "select" /\ s3.at # "metric"
        /\ s3.at # "clause"
    BY <1>2
  <2> QED
    BY <1>2, <2>1, Zenon DEF Dsl!Advance
<1>12. s3' = IF Dsl!At(1).k = "COMMA" THEN Dsl!To(2, "by", v) ELSE Dsl!To(1, "clause", v)
  BY <1>9, <1>10, <1>11, Zenon DEF Dsl!Dimension
<1> HIDE DEF v, w
<1>13. n + 1 < D \/ n + 1 = D
  BY <1>5
<1>14. CASE n + 1 < D
  <2>1. Dsl!At(1).k = "COMMA"
    <3>1. Dsl!Render(q)[b + 2 * (n + 1) + 1] = comma
      <4>1. n + 1 \in 1 .. D - 1
        BY <1>5, <1>14
      <4> QED
        BY <1>5b, <4>1
    <3>2. comma.k = "COMMA"
      BY DEF Dsl!Tok
    <3> HIDE DEF comma
    <3>3. s3.i + 1 = b + 2 * (n + 1) + 1 /\ s3.i + 1 <= Dsl!Upto(q, 6)
      BY <1>3, <1>5, <1>6, <1>14
    <3>4. Dsl!At(1) = comma
      BY <1>1, <3>1, <3>3, AtIs
    <3> QED
      BY <3>2, <3>4
  <2>2. s3' = Dsl!To(2, "by", v)
    BY <1>12, <2>1
  <2>3. Moved(s3', 2, "by", v)
    BY <2>2, MovedIs, Zenon DEF ReadsOn
  <2>4. s3'.i = s3.i + 2 /\ s3'.at = "by" /\ s3'.clause = 1 /\ s3'.q = v
    BY <1>2, <2>3 DEF Moved, IsRead
  <2>5. n + 1 \in 0 .. D - 1 /\ s3'.i = b + 2 * (n + 1) + 2
    BY <1>3, <1>5, <1>14, <2>4
  <2>6. Dsl!InDimensions(q)'
    BY <2>4, <2>5, Zenon DEF Dsl!InDimensions, v, D, b
  <2> QED
    BY <2>6
<1>15. CASE n + 1 = D
  <2>1. s3.i + 1 = Dsl!Upto(q, 1) + 1
    BY <1>3, <1>5, <1>15
  <2>2. Dsl!At(1).k # "COMMA"
    <3>1. 1 \in 0 .. 6 /\ 1 \in Nat
      OBVIOUS
    <3>2. Dsl!At(1).k \in {"ID", "END"}
      BY <1>1, <2>1, <3>1, AfterIs, Zenon
    <3> QED
      BY <3>2
  <2>3. s3' = Dsl!To(1, "clause", v)
    BY <1>12, <2>2
  <2>4. Moved(s3', 1, "clause", v)
    BY <2>3, MovedIs, Zenon DEF ReadsOn
  <2>5. s3'.i = s3.i + 1 /\ s3'.at = "clause" /\ s3'.clause = 1 /\ s3'.q = v
    BY <1>2, <2>4 DEF Moved, IsRead
  <2>6. v = Dsl!Said(q, 1)
    <3>1. SubSeq(q.dims, 1, n + 1) = q.dims
      BY <1>4, <1>15, SubSeqAll DEF D
    <3> QED
      BY <3>1, SaidNext, Zenon DEF v
  <2>7. 1 \in 0 .. 6
    OBVIOUS
  <2>8. Dsl!AfterClause(q)'
    BY <2>1, <2>5, <2>6, <2>7, Zenon DEF Dsl!AfterClause
  <2> QED
    BY <2>8
<1> QED
  BY <1>13, <1>14, <1>15

LEMMA WhereStep ==
    ASSUME NEW q, ReadsOn(q), Dsl!InFilters(q), s3.at = "where", s3' = Dsl!Advance
    PROVE  Dsl!InFilters(q)'
<1> DEFINE t == Dsl!At(0)
           F == Len(q.filters)
           b == Dsl!Upto(q, 1)
<1>1. q \in Dsl!Query /\ Dsl!Expressible(q) /\ s2 = Dsl!Render(q) /\ s3.i \in Nat /\ s3.i >= 1
  BY DEF ReadsOn
<1>2. /\ s3.clause = 2
      /\ \E n \in 0 .. F :
            /\ s3.q = [Dsl!Said(q, 1) EXCEPT !.filters = SubSeq(q.filters, 1, n)]
            /\ n < F /\ s3.i = b + 4 * n + 2
  BY Zenon DEF Dsl!InFilters
<1>3. PICK n \in 0 .. F :
            /\ s3.q = [Dsl!Said(q, 1) EXCEPT !.filters = SubSeq(q.filters, 1, n)]
            /\ n < F /\ s3.i = b + 4 * n + 2
  BY <1>2
<1> DEFINE f == q.filters[n + 1]
           x == f.val[1]
           v == [Dsl!Said(q, 1) EXCEPT !.filters = SubSeq(q.filters, 1, n + 1)]
<1>4. q.filters # <<>>
  <2>1. q.filters \in Seq(Dsl!Condition)
    BY <1>1 DEF Dsl!Query
  <2> HIDE DEF Dsl!Condition
  <2> QED
    BY <1>3, <2>1
<1>5. /\ F \in Nat /\ F >= 1 /\ b \in Nat /\ Dsl!Upto(q, 2) = b + 4 * F
      /\ \A k \in 0 .. F - 1 :
            /\ Dsl!Render(q)[b + 4 * k + 2] = Dsl!Tok("ID", q.filters[k + 1].col)
            /\ Dsl!Render(q)[b + 4 * k + 3] = Dsl!Op(q.filters[k + 1].op)
            /\ Dsl!Render(q)[b + 4 * k + 4] = Dsl!RenderValue(q.filters[k + 1].val[1])
  BY <1>1, <1>4, TextOfFilters, Zenon
<1>6. F \in Nat /\ F >= 1 /\ b \in Nat /\ Dsl!Upto(q, 2) = b + 4 * F
  BY <1>5
<1>7. Dsl!Upto(q, 6) \in Nat /\ Dsl!Upto(q, 2) <= Dsl!Upto(q, 6)
  <2>1. 2 \in 0 .. 6 /\ 6 \in 0 .. 6
    OBVIOUS
  <2> QED
    BY <1>1, <2>1, TextIs, Zenon DEF IsText
<1> HIDE DEF F, b
<1>8. n \in 0 .. F - 1
  BY <1>3, <1>6
<1>9. /\ f \in Dsl!Condition /\ f.col \notin Dsl!Reserved
      /\ x \notin Dsl!Reserved \cup DOMAIN Escaped
  <2>1. n + 1 \in 1 .. F
    BY <1>6, <1>8
  <2> QED
    BY <1>1, <2>1, ExpressibleIs, Zenon DEF F
<1>10. /\ Dsl!Render(q)[b + 4 * n + 2] = Dsl!Tok("ID", f.col)
       /\ Dsl!Render(q)[b + 4 * n + 3] = Dsl!Op(f.op)
       /\ Dsl!Render(q)[b + 4 * n + 4] = Dsl!RenderValue(x)
  BY <1>5, <1>8, Zenon
<1>11. [s3.q EXCEPT !.filters = Append(@, f)] = v
  <2>1. s3.q = WithFilters(Dsl!Said(q, 1), SubSeq(q.filters, 1, n))
    BY <1>3, Zenon DEF WithFilters
  <2>2. FilterAdded(q, n, WithFilters(Dsl!Said(q, 1), SubSeq(q.filters, 1, n)))
    BY <1>1, <1>8, AppendFilter DEF F
  <2>3. FilterAdded(q, n, s3.q)
    BY <2>1, <2>2, Zenon
  <2> QED
    BY <2>3, Zenon DEF FilterAdded, WithFilters
<1> HIDE DEF f, x, v
<1>12. /\ f.col \in Dsl!Name /\ f.op \in Dsl!Comparison /\ x \in Dsl!Name
       /\ f = [col |-> f.col, op |-> f.op, val |-> <<x>>]
  <2>1. /\ f \in [col : Dsl!Name, op : Dsl!Comparison, val : Seq(Dsl!Name)] /\ Len(f.val) = 1
    BY <1>9 DEF Dsl!Condition
  <2> HIDE DEF Dsl!Name, Dsl!Comparison
  <2>2. f.val = <<f.val[1]>> /\ f.val[1] \in Dsl!Name
    BY <2>1
  <2> QED
    BY <2>1, <2>2 DEF x
<1>13. /\ s3.i + 0 = b + 4 * n + 2 /\ s3.i + 1 = b + 4 * n + 3 /\ s3.i + 2 = b + 4 * n + 4
       /\ s3.i + 0 <= Dsl!Upto(q, 6) /\ s3.i + 1 <= Dsl!Upto(q, 6) /\ s3.i + 2 <= Dsl!Upto(q, 6)
  BY <1>3, <1>6, <1>7, <1>8
<1>14. /\ t = Dsl!Tok("ID", f.col) /\ Dsl!At(1) = Dsl!Op(f.op)
       /\ Dsl!At(2) = Dsl!RenderValue(x)
  <2>1. Dsl!At(0) = Dsl!Render(q)[s3.i + 0]
    BY <1>1, <1>13, AtIs
  <2>2. Dsl!At(1) = Dsl!Render(q)[s3.i + 1]
    BY <1>1, <1>13, AtIs
  <2>3. Dsl!At(2) = Dsl!Render(q)[s3.i + 2]
    BY <1>1, <1>13, AtIs
  <2> QED
    BY <1>10, <1>13, <2>1, <2>2, <2>3
<1>15. t.v = f.col /\ Dsl!Operand(t)
  <2>1. Dsl!Tok("ID", f.col).k = "ID" /\ Dsl!Tok("ID", f.col).v = f.col
    BY <1>12, TokenIs
  <2>2. t.k = "ID" /\ t.v = f.col
    BY <1>14, <2>1
  <2> QED
    BY <1>9, <2>2, Zenon DEF Dsl!Operand
<1>16. Dsl!At(1).k = "OP" /\ Dsl!At(1).v[1] = f.op
  <2>1. f.op \in Dsl!Written
    BY <1>12 DEF Dsl!Written
  <2>2. Dsl!Op(f.op) = [k |-> "OP", v |-> <<f.op>>]
    BY <2>1, WordIs, Zenon
  <2> QED
    BY <1>14, <2>2
<1>17. Dsl!Scalar(Dsl!At(2)) /\ Dsl!At(2).v = x
  <2> DEFINE r == Dsl!RenderValue(x)
  <2>1. r.v = x /\ r.k \in {"NUM", "ID", "STR"}
    BY <1>9, <1>12, ValueIs
  <2> HIDE DEF r
  <2>2. CASE r.k = "ID"
    <3>1. Dsl!Operand(r)
      BY <1>9, <2>1, <2>2 DEF Dsl!Operand
    <3> QED
      BY <1>14, <2>1, <3>1, Zenon DEF Dsl!Scalar, r
  <2>3. CASE r.k # "ID"
    <3>1. r.k \in {"NUM", "STR"}
      BY <2>1, <2>3
    <3> QED
      BY <1>14, <2>1, <3>1, Zenon DEF Dsl!Scalar, r
  <2> QED
    BY <2>2, <2>3
<1>18. s3' = Dsl!Filter(t)
  <2>1. /\ s3.at \notin {"operand", "operator"} /\ s3.at # "select" /\ s3.at # "metric"
        /\ s3.at # "clause" /\ s3.at # "by"
    OBVIOUS
  <2> QED
    BY <2>1, Zenon DEF Dsl!Advance
<1> HIDE DEF t
<1>19. s3' = Dsl!To(3, "filterEnd", v)
  <2>1. Dsl!Filter(t) = Dsl!To(3, "filterEnd",
           [s3.q EXCEPT !.filters = Append(@, [col |-> t.v, op |-> Dsl!At(1).v[1], val |-> <<Dsl!At(2).v>>])])
    BY <1>12, <1>15, <1>16, <1>17, Zenon DEF Dsl!Filter
  <2>2. [col |-> t.v, op |-> Dsl!At(1).v[1], val |-> <<Dsl!At(2).v>>] = f
    BY <1>12, <1>15, <1>16, <1>17, Zenon
  <2> QED
    BY <1>11, <1>18, <2>1, <2>2, Zenon
<1>20. Moved(s3', 3, "filterEnd", v)
  BY <1>19, MovedIs, Zenon DEF ReadsOn
<1>21. s3'.i = s3.i + 3 /\ s3'.at = "filterEnd" /\ s3'.clause = 2 /\ s3'.q = v
  BY <1>2, <1>20 DEF Moved, IsRead
<1>22. n + 1 \in 0 .. F /\ n + 1 > 0 /\ s3'.i = b + 4 * (n + 1) + 1
  BY <1>3, <1>6, <1>8, <1>21
<1>23. s3'.at \in {"where", "filterEnd"} /\ s3'.at # "where"
  BY <1>21
<1> QED
  BY <1>21, <1>22, <1>23, Zenon DEF Dsl!InFilters, v, F, b

LEMMA FilterEndStep ==
    ASSUME NEW q, ReadsOn(q), Dsl!InFilters(q), s3.at = "filterEnd", s3' = Dsl!Advance
    PROVE  Dsl!InFilters(q)' \/ Dsl!AfterClause(q)'
<1> DEFINE t == Dsl!At(0)
           F == Len(q.filters)
           b == Dsl!Upto(q, 1)
<1>1. q \in Dsl!Query /\ Dsl!Expressible(q) /\ s2 = Dsl!Render(q) /\ s3.i \in Nat /\ s3.i >= 1
  BY DEF ReadsOn
<1>2. /\ s3.clause = 2
      /\ \E n \in 0 .. F :
            /\ s3.q = [Dsl!Said(q, 1) EXCEPT !.filters = SubSeq(q.filters, 1, n)]
            /\ n > 0 /\ s3.i = b + 4 * n + 1
  <2>1. s3.at # "where"
    OBVIOUS
  <2> QED
    BY <2>1, Zenon DEF Dsl!InFilters
<1>3. PICK n \in 0 .. F :
            /\ s3.q = [Dsl!Said(q, 1) EXCEPT !.filters = SubSeq(q.filters, 1, n)]
            /\ n > 0 /\ s3.i = b + 4 * n + 1
  BY <1>2
<1>4. q.filters # <<>> /\ q.filters \in Seq(Dsl!Condition)
  <2>1. q.filters \in Seq(Dsl!Condition)
    BY <1>1 DEF Dsl!Query
  <2> HIDE DEF Dsl!Condition
  <2> QED
    BY <1>3, <2>1
<1>5. /\ F \in Nat /\ F >= 1 /\ b \in Nat /\ Dsl!Upto(q, 2) = b + 4 * F
      /\ \A k \in 1 .. F - 1 : Dsl!Render(q)[b + 4 * k + 1] = Dsl!Id("and")
  BY <1>1, <1>4, TextOfFilters, Zenon
<1>6. F \in Nat /\ F >= 1 /\ b \in Nat /\ Dsl!Upto(q, 2) = b + 4 * F
  BY <1>5
<1>7. Dsl!Upto(q, 6) \in Nat /\ Dsl!Upto(q, 2) <= Dsl!Upto(q, 6)
  <2>1. 2 \in 0 .. 6 /\ 6 \in 0 .. 6
    OBVIOUS
  <2> QED
    BY <1>1, <2>1, TextIs, Zenon DEF IsText
<1> HIDE DEF F, b
<1>8. s3' = IF Dsl!IsKw(t, "and") THEN Dsl!To(1, "where", s3.q) ELSE Dsl!To(0, "clause", s3.q)
  <2>1. /\ s3.at \notin {"operand", "operator"} /\ s3.at # "select" /\ s3.at # "metric"
        /\ s3.at # "clause" /\ s3.at # "by" /\ s3.at # "where" /\ s3.at # "values"
    OBVIOUS
  <2> QED
    BY <2>1, Zenon DEF Dsl!Advance
<1>9. n < F \/ n = F
  BY <1>6
<1>10. CASE n < F
  <2>1. Dsl!Render(q)[b + 4 * n + 1] = Dsl!Id("and")
    <3>1. n \in 1 .. F - 1
      BY <1>3, <1>6, <1>10
    <3> QED
      BY <1>5, <3>1
  <2>2. s3.i + 0 = b + 4 * n + 1 /\ s3.i + 0 <= Dsl!Upto(q, 6)
    BY <1>3, <1>6, <1>7, <1>10
  <2>3. t = Dsl!Id("and")
    BY <1>1, <2>1, <2>2, AtIs
  <2>4. Dsl!IsKw(t, "and")
    <3>1. "and" \in Dsl!Written
      BY DEF Dsl!Written, Dsl!Keyword
    <3> QED
      BY <2>3, <3>1, KeywordIs
  <2>5. Moved(s3', 1, "where", s3.q)
    <3>1. s3' = Dsl!To(1, "where", s3.q)
      BY <1>8, <2>4
    <3> QED
      BY <3>1, MovedIs, Zenon DEF ReadsOn
  <2>6. s3'.i = s3.i + 1 /\ s3'.at = "where" /\ s3'.clause = 2 /\ s3'.q = s3.q
    BY <1>2, <2>5 DEF Moved, IsRead
  <2>7. s3'.i = b + 4 * n + 2
    BY <1>3, <1>6, <2>6
  <2>8. s3'.at \in {"where", "filterEnd"}
    BY <2>6
  <2>9. Dsl!InFilters(q)'
    BY <1>3, <1>10, <2>6, <2>7, <2>8, Zenon DEF Dsl!InFilters, F, b
  <2> QED
    BY <2>9
<1>11. CASE n = F
  <2>1. s3.i + 0 = Dsl!Upto(q, 2) + 1 /\ s3.i + 0 = s3.i
    BY <1>3, <1>6, <1>11
  <2>2. ~Dsl!IsKw(t, "and")
    <3>1. 2 \in 0 .. 6 /\ 0 \in Nat
      OBVIOUS
    <3> QED
      BY <1>1, <2>1, <3>1, AfterIs, Zenon
  <2>3. Moved(s3', 0, "clause", s3.q)
    <3>1. s3' = Dsl!To(0, "clause", s3.q)
      BY <1>8, <2>2
    <3> QED
      BY <3>1, MovedIs, Zenon DEF ReadsOn
  <2>4. s3'.i = s3.i + 0 /\ s3'.at = "clause" /\ s3'.clause = 2 /\ s3'.q = s3.q
    BY <1>2, <2>3 DEF Moved, IsRead
  <2>5. s3.q = Dsl!Said(q, 2)
    <3> HIDE DEF Dsl!Condition
    <3>1. SubSeq(q.filters, 1, n) = q.filters
      BY <1>4, <1>11, SubSeqAll DEF F
    <3> QED
      BY <1>3, <3>1, SaidNext, Zenon
  <2>6. 2 \in 0 .. 6
    OBVIOUS
  <2>7. Dsl!AfterClause(q)'
    BY <2>1, <2>4, <2>5, <2>6, Zenon DEF Dsl!AfterClause
  <2> QED
    BY <2>7
<1> QED
  BY <1>9, <1>10, <1>11

LEMMA SinceStep ==
    ASSUME NEW q, ReadsOn(q), Dsl!InWord(q, "since", 3), s3' = Dsl!Advance
    PROVE  Dsl!AfterClause(q)'
<1> DEFINE t == Dsl!At(0)
           u == Dsl!Upto(q, 2)
<1>1. q \in Dsl!Query /\ Dsl!Expressible(q) /\ s2 = Dsl!Render(q) /\ s3.i \in Nat /\ s3.i >= 1
  BY DEF ReadsOn
<1>2. /\ s3.at = "since" /\ s3.clause = 3 /\ Dsl!ClauseTexts(q)[3] # <<>>
      /\ s3.i = u + 2 /\ s3.q = Dsl!Said(q, 2)
  <2>1. 3 - 1 = 2
    OBVIOUS
  <2> QED
    BY <2>1, Zenon DEF Dsl!InWord
<1>3. /\ Dsl!Upto(q, 3) = u + 3 /\ Dsl!Render(q)[u + 2] = Dsl!Tok("NUM", q.days)
      /\ Dsl!Render(q)[u + 3] = Dsl!Id("days")
  BY <1>1, <1>2, TextOfWords, Zenon DEF IsWords
<1>4. u \in Nat /\ Dsl!Upto(q, 6) \in Nat /\ Dsl!Upto(q, 3) <= Dsl!Upto(q, 6)
  <2>1. 2 \in 0 .. 6 /\ 3 \in 0 .. 6 /\ 6 \in 0 .. 6
    OBVIOUS
  <2> QED
    BY <1>1, <2>1, TextIs, Zenon DEF IsText
<1> HIDE DEF u
<1>5. /\ s3.i + 0 = u + 2 /\ s3.i + 1 = u + 3
      /\ s3.i + 0 <= Dsl!Upto(q, 6) /\ s3.i + 1 <= Dsl!Upto(q, 6)
  BY <1>2, <1>3, <1>4
<1>6. t.k = "NUM" /\ t.v = q.days
  <2>1. t = Dsl!Tok("NUM", q.days)
    BY <1>1, <1>3, <1>5, AtIs
  <2> QED
    BY <2>1 DEF Dsl!Tok
<1>7. Dsl!At(1).v = <<"days">>
  <2>1. Dsl!At(1) = Dsl!Id("days")
    BY <1>1, <1>3, <1>5, AtIs
  <2> QED
    BY <2>1 DEF Dsl!Id, Dsl!Tok
<1>8. s3' = Dsl!Since(t)
  <2>1. /\ s3.at \notin {"operand", "operator"} /\ s3.at # "select" /\ s3.at # "metric"
        /\ s3.at # "clause" /\ s3.at # "by" /\ s3.at # "where" /\ s3.at # "values"
        /\ s3.at # "filterEnd"
    BY <1>2
  <2> QED
    BY <1>2, <2>1, Zenon DEF Dsl!Advance
<1>9. s3' = Dsl!To(2, "clause", Dsl!Said(q, 3))
  <2>1. Dsl!At(1).v \in {<<"days">>, <<"weeks">>, <<"months">>}
    BY <1>7
  <2>2. [Dsl!Said(q, 2) EXCEPT !.days = q.days] = Dsl!Said(q, 3)
    BY SaidNext, Zenon
  <2>3. Dsl!Since(t) = Dsl!To(2, "clause", [s3.q EXCEPT !.days = t.v])
    BY <1>6, <2>1, Zenon DEF Dsl!Since
  <2> QED
    BY <1>2, <1>6, <1>8, <2>2, <2>3, Zenon
<1>10. Moved(s3', 2, "clause", Dsl!Said(q, 3))
  BY <1>9, MovedIs, Zenon DEF ReadsOn
<1>11. s3'.i = s3.i + 2 /\ s3'.at = "clause" /\ s3'.clause = 3 /\ s3'.q = Dsl!Said(q, 3)
  BY <1>2, <1>10 DEF Moved, IsRead
<1>12. s3'.i = Dsl!Upto(q, 3) + 1 /\ 3 \in 0 .. 6
  BY <1>2, <1>3, <1>4, <1>11
<1> QED
  BY <1>11, <1>12, Zenon DEF Dsl!AfterClause

LEMMA OrderStep ==
    ASSUME NEW q, ReadsOn(q), Dsl!InWord(q, "order", 5), s3' = Dsl!Advance
    PROVE  Dsl!AfterClause(q)'
<1> DEFINE t == Dsl!At(0)
           u == Dsl!Upto(q, 4)
<1>1. q \in Dsl!Query /\ Dsl!Expressible(q) /\ s2 = Dsl!Render(q) /\ s3.i \in Nat /\ s3.i >= 1
  BY DEF ReadsOn
<1>2. /\ s3.at = "order" /\ s3.clause = 5 /\ Dsl!ClauseTexts(q)[5] # <<>>
      /\ s3.i = u + 2 /\ s3.q = Dsl!Said(q, 4)
  <2>1. 5 - 1 = 4
    OBVIOUS
  <2> QED
    BY <2>1, Zenon DEF Dsl!InWord
<1>3. /\ Dsl!Upto(q, 5) = u + 4 /\ Dsl!Render(q)[u + 2] = Dsl!Id("by")
      /\ Dsl!Render(q)[u + 3] = Dsl!Tok("ID", q.order) /\ Dsl!Render(q)[u + 4] = Dsl!Id("desc")
  BY <1>1, <1>2, TextOfWords, Zenon DEF IsWords
<1>4. u \in Nat /\ Dsl!Upto(q, 6) \in Nat /\ Dsl!Upto(q, 5) <= Dsl!Upto(q, 6)
  <2>1. 4 \in 0 .. 6 /\ 5 \in 0 .. 6 /\ 6 \in 0 .. 6
    OBVIOUS
  <2> QED
    BY <1>1, <2>1, TextIs, Zenon DEF IsText
<1> HIDE DEF u
<1>5. /\ s3.i + 0 = u + 2 /\ s3.i + 1 = u + 3 /\ s3.i + 2 = u + 4
      /\ s3.i + 0 <= Dsl!Upto(q, 6) /\ s3.i + 1 <= Dsl!Upto(q, 6) /\ s3.i + 2 <= Dsl!Upto(q, 6)
  BY <1>2, <1>3, <1>4
<1>6. Dsl!IsKw(t, "by")
  <2>1. t = Dsl!Id("by")
    BY <1>1, <1>3, <1>5, AtIs
  <2>2. "by" \in Dsl!Written
    BY DEF Dsl!Written, Dsl!Keyword
  <2> QED
    BY <2>1, <2>2, KeywordIs
<1>7. Dsl!Operand(Dsl!At(1)) /\ Dsl!At(1).v = q.order
  <2>1. Dsl!At(1) = Dsl!Tok("ID", q.order)
    BY <1>1, <1>3, <1>5, AtIs
  <2>2. Dsl!At(1).k = "ID" /\ Dsl!At(1).v = q.order
    BY <2>1 DEF Dsl!Tok
  <2>3. q.order \notin Dsl!Reserved
    BY <1>1, ExpressibleIs, Zenon
  <2> QED
    BY <2>2, <2>3, Zenon DEF Dsl!Operand
<1>8. Dsl!IsKw(Dsl!At(2), "desc") /\ ~Dsl!IsKw(Dsl!At(2), "asc")
  <2>1. Dsl!At(2) = Dsl!Id("desc")
    BY <1>1, <1>3, <1>5, AtIs
  <2>2. "desc" \in Dsl!Written /\ "desc" # "asc"
    BY DEF Dsl!Written, Dsl!Keyword
  <2> QED
    BY <2>1, <2>2, KeywordIs
<1>9. s3' = Dsl!OrderBy(t)
  <2>1. /\ s3.at \notin {"operand", "operator"} /\ s3.at # "select" /\ s3.at # "metric"
        /\ s3.at # "clause" /\ s3.at # "by" /\ s3.at # "where" /\ s3.at # "values"
        /\ s3.at # "filterEnd" /\ s3.at # "since" /\ s3.at # "between"
    BY <1>2
  <2> QED
    BY <1>2, <2>1, Zenon DEF Dsl!Advance
<1>10. s3' = Dsl!To(3, "clause", Dsl!Said(q, 5))
  <2>1. [Dsl!Said(q, 4) EXCEPT !.order = q.order, !.desc = TRUE] = Dsl!Said(q, 5)
    BY SaidNext, Zenon
  <2>2. Dsl!OrderBy(t) = Dsl!To(3, "clause", WithOrderDesc(s3.q, Dsl!At(1).v, ~Dsl!IsKw(Dsl!At(2), "asc")))
    BY <1>6, <1>7, <1>8, Zenon DEF Dsl!OrderBy, WithOrderDesc
  <2>3. (~Dsl!IsKw(Dsl!At(2), "asc")) = TRUE
    BY <1>8, Zenon
  <2>4. Dsl!OrderBy(t) = Dsl!To(3, "clause", WithOrderDesc(s3.q, q.order, TRUE))
    BY <1>7, <2>2, <2>3
  <2> QED
    BY <1>2, <1>9, <2>1, <2>4, Zenon DEF WithOrderDesc
<1>11. Moved(s3', 3, "clause", Dsl!Said(q, 5))
  BY <1>10, MovedIs, Zenon DEF ReadsOn
<1>12. s3'.i = s3.i + 3 /\ s3'.at = "clause" /\ s3'.clause = 5 /\ s3'.q = Dsl!Said(q, 5)
  BY <1>2, <1>11 DEF Moved, IsRead
<1>13. s3'.i = Dsl!Upto(q, 5) + 1 /\ 5 \in 0 .. 6
  BY <1>2, <1>3, <1>4, <1>12
<1> QED
  BY <1>12, <1>13, Zenon DEF Dsl!AfterClause

LEMMA LimitStep ==
    ASSUME NEW q, ReadsOn(q), Dsl!InWord(q, "limit", 6), s3' = Dsl!Advance
    PROVE  Dsl!AfterClause(q)'
<1> DEFINE t == Dsl!At(0)
           u == Dsl!Upto(q, 5)
<1>1. q \in Dsl!Query /\ Dsl!Expressible(q) /\ s2 = Dsl!Render(q) /\ s3.i \in Nat /\ s3.i >= 1
  BY DEF ReadsOn
<1>2. /\ s3.at = "limit" /\ s3.clause = 6 /\ Dsl!ClauseTexts(q)[6] # <<>>
      /\ s3.i = u + 2 /\ s3.q = Dsl!Said(q, 5)
  <2>1. 6 - 1 = 5
    OBVIOUS
  <2> QED
    BY <2>1, Zenon DEF Dsl!InWord
<1>3. Dsl!Upto(q, 6) = u + 2 /\ Dsl!Render(q)[u + 2] = Dsl!Tok("NUM", q.limit)
  BY <1>1, <1>2, TextOfWords, Zenon DEF IsWords
<1>4. u \in Nat /\ Dsl!Upto(q, 6) \in Nat
  <2>1. 5 \in 0 .. 6 /\ 6 \in 0 .. 6
    OBVIOUS
  <2> QED
    BY <1>1, <2>1, TextIs, Zenon DEF IsText
<1> HIDE DEF u
<1>5. s3.i + 0 = u + 2 /\ s3.i + 0 <= Dsl!Upto(q, 6)
  BY <1>2, <1>3, <1>4
<1>6. t.k = "NUM" /\ t.v = q.limit
  <2>1. t = Dsl!Tok("NUM", q.limit)
    BY <1>1, <1>3, <1>5, AtIs
  <2> QED
    BY <2>1 DEF Dsl!Tok
<1>7. s3' = Dsl!To(1, "clause", [s3.q EXCEPT !.limit = t.v])
  <2>1. /\ s3.at \notin {"operand", "operator"} /\ s3.at # "select" /\ s3.at # "metric"
        /\ s3.at # "clause" /\ s3.at # "by" /\ s3.at # "where" /\ s3.at # "values"
        /\ s3.at # "filterEnd" /\ s3.at # "since" /\ s3.at # "between" /\ s3.at # "order"
    BY <1>2
  <2> QED
    BY <1>2, <1>6, <2>1, Zenon DEF Dsl!Advance
<1>8. s3' = Dsl!To(1, "clause", Dsl!Said(q, 6))
  <2>1. [Dsl!Said(q, 5) EXCEPT !.limit = q.limit] = Dsl!Said(q, 6)
    BY SaidNext, Zenon
  <2> QED
    BY <1>2, <1>6, <1>7, <2>1, Zenon
<1>9. Moved(s3', 1, "clause", Dsl!Said(q, 6))
  BY <1>8, MovedIs, Zenon DEF ReadsOn
<1>10. s3'.i = s3.i + 1 /\ s3'.at = "clause" /\ s3'.clause = 6 /\ s3'.q = Dsl!Said(q, 6)
  BY <1>2, <1>9 DEF Moved, IsRead
<1>11. s3'.i = Dsl!Upto(q, 6) + 1 /\ 6 \in 0 .. 6
  BY <1>2, <1>3, <1>4, <1>10
<1> QED
  BY <1>10, <1>11, Zenon DEF Dsl!AfterClause

(* The parser keeps its place in the text, whatever the place. *)
LEMMA ReadingStep ==
    ASSUME NEW q, ReadsOn(q), Dsl!Reading(q), s3.at # "done", s3' = Dsl!Advance
    PROVE  Dsl!Reading(q)'
<1>1. CASE s3 = Dsl!ParserStart
  BY <1>1, SelectStep, Zenon DEF Dsl!Reading
<1>2. CASE Dsl!InMetrics(q)
  <2>1. s3.at \in {"operand", "operator", "metric"}
    BY <1>2, Zenon DEF Dsl!InMetrics
  <2>2. CASE s3.at = "operand"
    BY <1>2, <2>2, OperandStep, Zenon DEF Dsl!Reading
  <2>3. CASE s3.at = "operator"
    BY <1>2, <2>3, OperatorStep, Zenon DEF Dsl!Reading
  <2>4. CASE s3.at = "metric"
    BY <1>2, <2>4, MetricStep, Zenon DEF Dsl!Reading
  <2> QED
    BY <2>1, <2>2, <2>3, <2>4
<1>3. CASE Dsl!InDimensions(q)
  BY <1>3, DimensionStep, Zenon DEF Dsl!Reading
<1>4. CASE Dsl!InFilters(q)
  <2>1. s3.at \in {"where", "filterEnd"}
    BY <1>4, Zenon DEF Dsl!InFilters
  <2>2. CASE s3.at = "where"
    BY <1>4, <2>2, WhereStep, Zenon DEF Dsl!Reading
  <2>3. CASE s3.at = "filterEnd"
    BY <1>4, <2>3, FilterEndStep, Zenon DEF Dsl!Reading
  <2> QED
    BY <2>1, <2>2, <2>3
<1>5. CASE Dsl!InWord(q, "since", 3)
  BY <1>5, SinceStep, Zenon DEF Dsl!Reading
<1>6. CASE Dsl!InWord(q, "order", 5)
  BY <1>6, OrderStep, Zenon DEF Dsl!Reading
<1>7. CASE Dsl!InWord(q, "limit", 6)
  BY <1>7, LimitStep, Zenon DEF Dsl!Reading
<1>8. CASE Dsl!AfterClause(q)
  BY <1>8, ClauseStep, Zenon DEF Dsl!Reading
<1> QED
  BY <1>1, <1>2, <1>3, <1>4, <1>5, <1>6, <1>7, <1>8, Zenon DEF Dsl!Reading

(* Any text: the parser stays within its tokens, inside parentheses only while it
   reads an expression. *)
Fits(p) ==
    /\ Entire(p) /\ p.i \in 1 .. Len(s2) + 1 /\ p.at \in Dsl!Place /\ p.clause \in 0 .. 6
    /\ p.depth \in Nat
    /\ p.at = "done" => p.i = Len(s2) + 1
    /\ p.at \notin {"operand", "operator", "error"} => p.depth = 0

LEMMA FitsParsing ==
    ASSUME NEW i \in 1 .. Len(s2) + 1, NEW a \in Dsl!Place, NEW c \in 0 .. 6, NEW q, NEW x,
           NEW d \in Nat, NEW k, NEW l,
           a = "done" => i = Len(s2) + 1, a \notin {"operand", "operator", "error"} => d = 0
    PROVE  Fits(Parsing(i, a, c, q, x, d, k, l))
<1> DEFINE p == Parsing(i, a, c, q, x, d, k, l)
<1>1. IsRead(p, i, a, c, q, x, d, k, l)
  BY ParsingHas, Zenon
<1>2. /\ p.i = i /\ p.at = a /\ p.clause = c /\ p.q = q
      /\ p.expr = x /\ p.depth = d /\ p.compound = k /\ p.list = l
  BY <1>1, Zenon DEF IsRead
<1>3. Entire(p)
  BY <1>2, Zenon DEF Entire
<1> HIDE DEF p
<1>4. Fits(p)
  BY <1>2, <1>3 DEF Fits
<1> QED
  BY <1>4 DEF p

LEMMA FitsMore ==
    ASSUME NEW r, Fits(r), NEW z
    PROVE  /\ Fits(WithExpr(r, z)) /\ WithExpr(r, z).at = r.at
           /\ Fits(WithCompound(r, z)) /\ Fits(WithList(r, z))
           /\ z \in 0 .. 6 => Fits(WithClause(r, z))
           /\ z \in Nat /\ r.at \in {"operand", "operator"} => Fits(WithDepth(r, z))
           /\ /\ z \in Dsl!Place /\ (z = "done" => r.i = Len(s2) + 1)
              /\ (z \notin {"operand", "operator", "error"} => r.depth = 0)
              => Fits(WithAt(r, z))
<1>1. IsParsing(r.i, r.at, r.clause, r.q, r.expr, r.depth, r.compound, r.list, z)
  BY ParsingMore, Zenon
<1>2. /\ r = Parsing(r.i, r.at, r.clause, r.q, r.expr, r.depth, r.compound, r.list)
      /\ r.i \in 1 .. Len(s2) + 1 /\ r.at \in Dsl!Place /\ r.clause \in 0 .. 6 /\ r.depth \in Nat
      /\ r.at = "done" => r.i = Len(s2) + 1
      /\ r.at \notin {"operand", "operator", "error"} => r.depth = 0
  BY Zenon DEF Fits, Entire
<1>3. Fits(WithExpr(r, z)) /\ WithExpr(r, z).at = r.at
  <2>1. WithExpr(r, z) = Parsing(r.i, r.at, r.clause, r.q, z, r.depth, r.compound, r.list)
    BY <1>1, <1>2, Zenon DEF IsParsing
  <2>2. IsRead(Parsing(r.i, r.at, r.clause, r.q, z, r.depth, r.compound, r.list),
               r.i, r.at, r.clause, r.q, z, r.depth, r.compound, r.list)
    BY ParsingHas, Zenon
  <2>3. Fits(Parsing(r.i, r.at, r.clause, r.q, z, r.depth, r.compound, r.list))
    BY <1>2, FitsParsing, Zenon
  <2> QED
    BY <2>1, <2>2, <2>3, Zenon DEF IsRead
<1>4. Fits(WithCompound(r, z))
  <2>1. WithCompound(r, z) = Parsing(r.i, r.at, r.clause, r.q, r.expr, r.depth, z, r.list)
    BY <1>1, <1>2, Zenon DEF IsParsing
  <2>2. Fits(Parsing(r.i, r.at, r.clause, r.q, r.expr, r.depth, z, r.list))
    BY <1>2, FitsParsing, Zenon
  <2> QED
    BY <2>1, <2>2, Zenon
<1>5. Fits(WithList(r, z))
  <2>1. WithList(r, z) = Parsing(r.i, r.at, r.clause, r.q, r.expr, r.depth, r.compound, z)
    BY <1>1, <1>2, Zenon DEF IsParsing
  <2>2. Fits(Parsing(r.i, r.at, r.clause, r.q, r.expr, r.depth, r.compound, z))
    BY <1>2, FitsParsing, Zenon
  <2> QED
    BY <2>1, <2>2, Zenon
<1>6. ASSUME z \in 0 .. 6 PROVE Fits(WithClause(r, z))
  <2>1. WithClause(r, z) = Parsing(r.i, r.at, z, r.q, r.expr, r.depth, r.compound, r.list)
    BY <1>1, <1>2, Zenon DEF IsParsing
  <2>2. Fits(Parsing(r.i, r.at, z, r.q, r.expr, r.depth, r.compound, r.list))
    BY <1>2, <1>6, FitsParsing, Zenon
  <2> QED
    BY <2>1, <2>2, Zenon
<1>7. ASSUME z \in Nat, r.at \in {"operand", "operator"} PROVE Fits(WithDepth(r, z))
  <2>1. WithDepth(r, z) = Parsing(r.i, r.at, r.clause, r.q, r.expr, z, r.compound, r.list)
    BY <1>1, <1>2, Zenon DEF IsParsing
  <2>2. r.at # "done" /\ r.at \in {"operand", "operator", "error"}
    BY <1>7
  <2>3. Fits(Parsing(r.i, r.at, r.clause, r.q, r.expr, z, r.compound, r.list))
    BY <1>2, <1>7, <2>2, FitsParsing, Zenon
  <2> QED
    BY <2>1, <2>3, Zenon
<1>8. ASSUME z \in Dsl!Place, z = "done" => r.i = Len(s2) + 1,
             z \notin {"operand", "operator", "error"} => r.depth = 0
      PROVE  Fits(WithAt(r, z))
  <2>1. WithAt(r, z) = Parsing(r.i, z, r.clause, r.q, r.expr, r.depth, r.compound, r.list)
    BY <1>1, <1>2, Zenon DEF IsParsing
  <2>2. Fits(Parsing(r.i, z, r.clause, r.q, r.expr, r.depth, r.compound, r.list))
    BY <1>2, <1>8, FitsParsing, Zenon
  <2> QED
    BY <2>1, <2>2, Zenon
<1> QED
  BY <1>3, <1>4, <1>5, <1>6, <1>7, <1>8

LEMMA FitsTo ==
    ASSUME Fits(s3), NEW n \in Nat, NEW at \in Dsl!Place \ {"done"}, NEW v,
           s3.i + n <= Len(s2) + 1, at \in {"operand", "operator"} \/ s3.depth = 0
    PROVE  Fits(Dsl!To(n, at, v)) /\ Dsl!To(n, at, v).at = at /\ Dsl!To(n, at, v).depth = s3.depth
<1>1. /\ Entire(s3) /\ s3.i \in 1 .. Len(s2) + 1 /\ s3.clause \in 0 .. 6 /\ s3.depth \in Nat
  BY Zenon DEF Fits
<1>2. Dsl!To(n, at, v) = Parsing(s3.i + n, at, s3.clause, v, s3.expr, s3.depth, s3.compound, s3.list)
  BY <1>1, ToIs, Zenon
<1>3. s3.i + n \in 1 .. Len(s2) + 1
  BY <1>1
<1>4. at \in Dsl!Place /\ at # "done" /\ (at \notin {"operand", "operator", "error"} => s3.depth = 0)
  BY Zenon
<1>5. Fits(Parsing(s3.i + n, at, s3.clause, v, s3.expr, s3.depth, s3.compound, s3.list))
  BY <1>1, <1>3, <1>4, FitsParsing, Zenon
<1>6. Moved(Dsl!To(n, at, v), n, at, v)
  BY <1>1, MovedIs, Zenon
<1> QED
  BY <1>2, <1>5, <1>6, Zenon DEF Moved, IsRead

LEMMA FitsError ==
    ASSUME Fits(s3)
    PROVE  Fits(Dsl!Error)
<1>1. "error" \in Dsl!Place /\ "error" # "done" /\ "error" \in {"operand", "operator", "error"}
  BY DEF Dsl!Place
<1>2. Fits(WithAt(s3, "error"))
  BY <1>1, FitsMore, Zenon
<1> QED
  BY <1>2, Zenon DEF Dsl!Error, WithAt

LEMMA SeenIs ==
    ASSUME Fits(s3), s2 \in Seq(Dsl!Token), NEW n \in Nat
    PROVE  /\ Dsl!At(n).k # "END" \/ Dsl!At(n).v # <<>> => s3.i + n <= Len(s2)
           /\ Dsl!At(n) = Dsl!End => s3.i + n > Len(s2)
           /\ s3.i \in Nat
<1>1. s3.i \in 1 .. Len(s2) + 1
  BY Zenon DEF Fits
<1>2. Dsl!At(n) = IF s3.i + n \in DOMAIN s2 THEN s2[s3.i + n] ELSE Dsl!End
  BY Zenon DEF Dsl!At
<1>3. Dsl!End.k = "END" /\ Dsl!End.v = <<>>
  BY DEF Dsl!End, Dsl!Tok
<1>4. DOMAIN s2 = 1 .. Len(s2) /\ Len(s2) \in Nat
  <2> HIDE DEF Dsl!Token
  <2> QED
    OBVIOUS
<1>5. ASSUME s3.i + n > Len(s2) PROVE Dsl!At(n).k = "END" /\ Dsl!At(n).v = <<>>
  <2>1. s3.i + n \notin DOMAIN s2
    BY <1>1, <1>4, <1>5
  <2> QED
    BY <1>2, <1>3, <2>1
<1>6. ASSUME s3.i + n <= Len(s2) PROVE Dsl!At(n) # Dsl!End
  <2>1. s3.i + n \in DOMAIN s2
    BY <1>1, <1>4, <1>6
  <2>2. s2[s3.i + n] \in Dsl!Token
    BY <2>1
  <2>3. s2[s3.i + n].k # "END"
    BY <2>2 DEF Dsl!Token
  <2> QED
    BY <1>2, <1>3, <2>1, <2>3
<1>7. s3.i + n <= Len(s2) \/ s3.i + n > Len(s2)
  BY <1>1, <1>4
<1>8. s3.i \in Nat
  BY <1>1
<1> QED
  BY <1>5, <1>6, <1>7, <1>8, Zenon

LEMMA PlacesAre ==
    /\ {"select", "operand", "operator", "metric", "clause", "by", "where", "values", "filterEnd",
        "since", "between", "order", "limit", "error"} \subseteq Dsl!Place \ {"done"}
    /\ "done" \in Dsl!Place
BY DEF Dsl!Place

WithExprDepth(r, v, w) == [r EXCEPT !.expr = v, !.depth = w]

LEMMA DepthFields ==
    ASSUME NEW r, NEW v, NEW w
    PROVE  WithExprDepth(r, v, w) = WithDepth(WithExpr(r, v), w)
<1>1. [r EXCEPT !.expr = v, !.depth = w] = [[r EXCEPT !.expr = v] EXCEPT !.depth = w]
  OBVIOUS
<1> QED
  BY <1>1, Zenon DEF WithExprDepth, WithDepth, WithExpr

LEMMA ExpressionFits ==
    ASSUME Fits(s3), s2 \in Seq(Dsl!Token), s3.at \in {"operand", "operator"}
    PROVE  Fits(Dsl!Expression(Dsl!At(0)))
<1> DEFINE t == Dsl!At(0)
           r == Dsl!To(1, "operand", s3.q)
           u == Dsl!To(1, "operator", s3.q)
<1>1. t.k # "END" => s3.i + 1 <= Len(s2) + 1
  <2>1. s3.i \in Nat /\ (t.k # "END" => s3.i + 0 <= Len(s2))
    BY SeenIs
  <2>2. Len(s2) \in Nat
    <3> HIDE DEF Dsl!Token
    <3> QED
      OBVIOUS
  <2> HIDE DEF t
  <2> QED
    BY <2>1, <2>2
<1>2. ASSUME t.k # "END"
      PROVE  /\ Fits(r) /\ r.at = "operand" /\ r.depth = s3.depth
             /\ Fits(u) /\ u.at = "operator" /\ u.depth = s3.depth
  <2>1. 1 \in Nat /\ "operand" \in Dsl!Place \ {"done"} /\ "operator" \in Dsl!Place \ {"done"}
    BY PlacesAre
  <2>2. s3.i + 1 <= Len(s2) + 1
    BY <1>1, <1>2
  <2>3. "operand" \in {"operand", "operator"} \/ s3.depth = 0
    OBVIOUS
  <2>4. "operator" \in {"operand", "operator"} \/ s3.depth = 0
    OBVIOUS
  <2>5. Fits(r) /\ r.at = "operand" /\ r.depth = s3.depth
    BY <2>1, <2>2, <2>3, FitsTo
  <2>6. Fits(u) /\ u.at = "operator" /\ u.depth = s3.depth
    BY <2>1, <2>2, <2>4, FitsTo
  <2> QED
    BY <2>5, <2>6
<1>3. Fits(Dsl!Error)
  BY FitsError
<1>4. s3.depth \in Nat
  BY Zenon DEF Fits
<1> HIDE DEF t, r, u
<1>5. ASSUME t.k # "END", NEW x
      PROVE  /\ Fits(WithExpr(r, x)) /\ WithExpr(r, x).at = "operand"
             /\ Fits(WithExpr(u, x)) /\ WithExpr(u, x).at = "operator"
  BY <1>2, <1>5, FitsMore, Zenon
<1>6. ASSUME t.k # "END", NEW x, NEW k PROVE Fits(WithExprCompound(r, x, k))
  BY <1>5, <1>6, FitsMore, WordFields, Zenon
<1>7. ASSUME t.k # "END", NEW x, NEW d \in Nat
      PROVE  Fits(WithExprDepth(r, x, d)) /\ Fits(WithExprDepth(u, x, d))
  <2>1. WithExpr(r, x).at \in {"operand", "operator"} /\ WithExpr(u, x).at \in {"operand", "operator"}
    BY <1>5, <1>7
  <2>2. Fits(WithDepth(WithExpr(r, x), d))
    BY <1>5, <1>7, <2>1, FitsMore, Zenon
  <2>3. Fits(WithDepth(WithExpr(u, x), d))
    BY <1>5, <1>7, <2>1, FitsMore, Zenon
  <2> QED
    BY <2>2, <2>3, DepthFields, Zenon
<1>9. CASE s3.at = "operand"
  <2>1. CASE t.k = "OP" /\ t.v \in {<<"-">>, <<"+">>}
    <3> DEFINE x == r.expr \o t.v
               k == r.compound \/ (s3.expr = <<>> /\ t.v = <<"-">>)
    <3>1. t.k # "LP" /\ ~(t.k = "NUM" \/ Dsl!Operand(t)) /\ t.k # "END"
      BY <2>1 DEF Dsl!Operand
    <3>2. Dsl!Expression(t) = WithExprCompound(r, x, k)
      BY <1>9, <2>1, <3>1, Zenon DEF Dsl!Expression, WithExprCompound, r
    <3> HIDE DEF x, k
    <3> QED
      BY <1>6, <3>1, <3>2, Zenon DEF t
  <2>2. CASE t.k = "LP"
    <3>1. ~(t.k = "OP" /\ t.v \in {<<"-">>, <<"+">>}) /\ ~(t.k = "NUM" \/ Dsl!Operand(t)) /\ t.k # "END"
      BY <2>2 DEF Dsl!Operand
    <3>2. Dsl!Expression(t) = WithExprDepth(r, r.expr \o t.v, r.depth + 1)
      BY <1>9, <2>2, <3>1, Zenon DEF Dsl!Expression, WithExprDepth, r
    <3>3. r.depth + 1 \in Nat
      BY <1>2, <1>4, <3>1
    <3> QED
      BY <1>7, <3>1, <3>2, <3>3, Zenon DEF t
  <2>3. CASE t.k = "NUM" \/ Dsl!Operand(t)
    <3>1. t.k # "OP" /\ t.k # "LP" /\ t.k # "END"
      BY <2>3 DEF Dsl!Operand
    <3>2. Dsl!Expression(t) = WithExpr(u, u.expr \o t.v)
      BY <1>9, <2>3, <3>1, Zenon DEF Dsl!Expression, WithExpr, u
    <3> QED
      BY <1>5, <3>1, <3>2, Zenon DEF t
  <2>4. CASE /\ ~(t.k = "OP" /\ t.v \in {<<"-">>, <<"+">>})
             /\ t.k # "LP" /\ ~(t.k = "NUM" \/ Dsl!Operand(t))
    <3>1. Dsl!Expression(t) = Dsl!Error
      BY <1>9, <2>4, Zenon DEF Dsl!Expression
    <3> QED
      BY <1>3, <3>1 DEF t
  <2> QED
    BY <2>1, <2>2, <2>3, <2>4, Zenon
<1>10. CASE s3.at # "operand"
  <2>1. CASE t.k = "OP" /\ t.v \in {<<"+">>, <<"-">>, <<"*">>, <<"/">>}
    <3> DEFINE x == r.expr \o t.v
               k == r.compound \/ s3.depth = 0
    <3>1. Dsl!Expression(t) = WithExprCompound(r, x, k)
      BY <1>10, <2>1, Zenon DEF Dsl!Expression, WithExprCompound, r
    <3>2. t.k # "END"
      BY <2>1
    <3> HIDE DEF x, k
    <3> QED
      BY <1>6, <3>1, <3>2, Zenon DEF t
  <2>2. CASE t.k = "RP" /\ s3.depth > 0
    <3>1. t.k # "OP" /\ t.k # "END"
      BY <2>2
    <3>2. Dsl!Expression(t) = WithExprDepth(u, u.expr \o t.v, u.depth - 1)
      BY <1>10, <2>2, <3>1, Zenon DEF Dsl!Expression, WithExprDepth, u
    <3>3. u.depth - 1 \in Nat
      BY <1>2, <1>4, <2>2, <3>1
    <3> QED
      BY <1>7, <3>1, <3>2, <3>3, Zenon DEF t
  <2>3. CASE /\ ~(t.k = "OP" /\ t.v \in {<<"+">>, <<"-">>, <<"*">>, <<"/">>})
             /\ ~(t.k = "RP" /\ s3.depth > 0)
    <3>1. Dsl!Expression(t) = IF s3.depth > 0 THEN Dsl!Error ELSE WithAt(s3, "metric")
      BY <1>10, <2>3, Zenon DEF Dsl!Expression, WithAt
    <3>2. ASSUME ~(s3.depth > 0) PROVE Fits(WithAt(s3, "metric"))
      <4>1. "metric" \in Dsl!Place /\ "metric" # "done" /\ s3.depth = 0
        BY <1>4, <3>2, PlacesAre
      <4> QED
        BY <4>1, FitsMore, Zenon
    <3> QED
      BY <1>3, <3>1, <3>2, Zenon DEF t
  <2> QED
    BY <2>1, <2>2, <2>3, Zenon
<1> QED
  BY <1>9, <1>10

(* The other places are outside of parentheses. *)
LEMMA FitsOn ==
    ASSUME Fits(s3), s2 \in Seq(Dsl!Token), s3.depth = 0, NEW n \in Nat, NEW v,
           Dsl!At(n).k # "END" \/ Dsl!At(n).v # <<>>
    PROVE  \A at \in Dsl!Place \ {"done"} : Fits(Dsl!To(n + 1, at, v))
<1>1. s3.i \in Nat /\ s3.i + n <= Len(s2)
  BY SeenIs
<1>2. Len(s2) \in Nat
  <2> HIDE DEF Dsl!Token
  <2> QED
    OBVIOUS
<1>3. n + 1 \in Nat /\ s3.i + (n + 1) <= Len(s2) + 1
  BY <1>1, <1>2
<1> QED
  BY <1>3, FitsTo, Zenon

LEMMA FitsHere ==
    ASSUME Fits(s3), s3.depth = 0, NEW v
    PROVE  Fits(Dsl!To(0, "clause", v))
<1>1. 0 \in Nat /\ "clause" \in Dsl!Place \ {"done"}
  BY PlacesAre
<1>2. s3.i + 0 <= Len(s2) + 1
  <2>1. s3.i \in 1 .. Len(s2) + 1
    BY Zenon DEF Fits
  <2> QED
    BY <2>1
<1> QED
  BY <1>1, <1>2, FitsTo, Zenon

LEMMA MetricEndFits ==
    ASSUME Fits(s3), s2 \in Seq(Dsl!Token), s3.at = "metric"
    PROVE  Fits(Dsl!MetricEnd(Dsl!At(0)))
<1> DEFINE t == Dsl!At(0)
           aliased == Dsl!IsKw(t, "as") /\ Dsl!At(1).k = "ID"
           n == IF aliased THEN 2 ELSE 0
           m == s3.expr \o (IF aliased THEN <<"as">> \o Dsl!At(1).v ELSE <<>>)
           v == [s3.q EXCEPT !.metrics = Append(@, m)]
<1>1. s3.depth = 0 /\ s3.at # "error"
  BY Zenon DEF Fits
<1>2. Fits(Dsl!Error)
  BY FitsError
<1>3. Fits(Dsl!To(n, "clause", v))
  <2>1. CASE aliased
    <3>1. Dsl!At(1).k # "END" /\ 1 \in Nat /\ "clause" \in Dsl!Place \ {"done"}
      BY <2>1, PlacesAre
    <3>2. \A at \in Dsl!Place \ {"done"} : Fits(Dsl!To(1 + 1, at, v))
      <4> HIDE DEF v
      <4> QED
        BY <1>1, <3>1, FitsOn
    <3>3. n = 1 + 1
      BY <2>1
    <3> HIDE DEF v, n
    <3> QED
      BY <3>1, <3>2, <3>3
  <2>2. CASE ~aliased
    <3>1. Fits(Dsl!To(0, "clause", v))
      <4> HIDE DEF v
      <4> QED
        BY <1>1, FitsHere
    <3> QED
      BY <2>2, <3>1, Zenon
  <2> QED
    BY <2>1, <2>2, Zenon
<1>4. ASSUME Dsl!At(n).k = "COMMA"
      PROVE  Fits(WithExprCompound(Dsl!To(n + 1, "operand", v), <<>>, FALSE))
  <2>1. n \in Nat /\ "operand" \in Dsl!Place \ {"done"} /\ Dsl!At(n).k # "END"
    <3>1. n \in Nat
      <4> HIDE DEF aliased
      <4> QED
        OBVIOUS
    <3> HIDE DEF n
    <3> QED
      BY <1>4, <3>1, PlacesAre
  <2> DEFINE r == Dsl!To(n + 1, "operand", v)
  <2>2. Fits(r)
    <3> HIDE DEF v, n
    <3>1. \A at \in Dsl!Place \ {"done"} : Fits(Dsl!To(n + 1, at, v))
      BY <1>1, <2>1, FitsOn
    <3> QED
      BY <2>1, <3>1
  <2> HIDE DEF r
  <2>3. Fits(WithExpr(r, <<>>))
    BY <2>2, FitsMore, Zenon
  <2>4. Fits(WithCompound(WithExpr(r, <<>>), FALSE))
    BY <2>3, FitsMore, Zenon
  <2>5. Fits(WithExprCompound(r, <<>>, FALSE))
    BY <2>4, WordFields, Zenon
  <2> QED
    BY <2>5, Zenon DEF r
<1>5. \/ Dsl!MetricEnd(t) = Dsl!Error
      \/ /\ Dsl!At(n).k = "COMMA"
         /\ Dsl!MetricEnd(t) = WithExprCompound(Dsl!To(n + 1, "operand", v), <<>>, FALSE)
      \/ Dsl!MetricEnd(t) = Dsl!To(n, "clause", v)
  BY Zenon DEF Dsl!MetricEnd, WithExprCompound
<1> HIDE DEF n, v
<1> QED
  BY <1>2, <1>3, <1>4, <1>5, Zenon DEF t

LEMMA FilterFits ==
    ASSUME Fits(s3), s2 \in Seq(Dsl!Token), s3.at = "where"
    PROVE  Fits(Dsl!Filter(Dsl!At(0)))
<1> DEFINE t == Dsl!At(0)
           add(op, val) == [s3.q EXCEPT !.filters = Append(@, [col |-> t.v, op |-> op, val |-> val])]
           a == add(Dsl!At(1).v[1], <<Dsl!At(2).v>>)
           b == add("like", <<Dsl!At(2).v>>)
           c == add("in", <<>>)
<1>1. s3.depth = 0
  BY Zenon DEF Fits
<1>2. Fits(Dsl!Error)
  BY FitsError
<1>3. ASSUME Dsl!At(2).k # "END", NEW v
      PROVE  Fits(Dsl!To(3, "filterEnd", v)) /\ Fits(WithList(Dsl!To(3, "values", v), <<>>))
  <2>1. 2 \in Nat /\ 2 + 1 = 3 /\ {"filterEnd", "values"} \subseteq Dsl!Place \ {"done"}
    BY PlacesAre
  <2>2. \A at \in Dsl!Place \ {"done"} : Fits(Dsl!To(2 + 1, at, v))
    BY <1>1, <1>3, <2>1, FitsOn
  <2>3. Fits(Dsl!To(3, "filterEnd", v)) /\ Fits(Dsl!To(3, "values", v))
    BY <2>1, <2>2
  <2> QED
    BY <2>3, FitsMore, Zenon
<1>4. Dsl!Scalar(Dsl!At(2)) => Dsl!At(2).k # "END"
  BY DEF Dsl!Scalar, Dsl!Operand
<1>5. \/ Dsl!Filter(t) = Dsl!Error
      \/ Dsl!Scalar(Dsl!At(2)) /\ Dsl!Filter(t) = Dsl!To(3, "filterEnd", a)
      \/ Dsl!Scalar(Dsl!At(2)) /\ Dsl!Filter(t) = Dsl!To(3, "filterEnd", b)
      \/ Dsl!At(2).k = "LP" /\ Dsl!Filter(t) = WithList(Dsl!To(3, "values", c), <<>>)
  BY Zenon DEF Dsl!Filter, WithList
<1>6. Dsl!At(2).k = "LP" => Dsl!At(2).k # "END"
  OBVIOUS
<1> HIDE DEF a, b, c, add
<1> QED
  BY <1>2, <1>3, <1>4, <1>5, <1>6, Zenon DEF t

LEMMA ValuesFits ==
    ASSUME Fits(s3), s2 \in Seq(Dsl!Token), s3.at = "values"
    PROVE  Fits(Dsl!Values(Dsl!At(0)))
<1> DEFINE t == Dsl!At(0)
           vals == Append(s3.list, t.v)
           v == [s3.q EXCEPT !.filters[Len(s3.q.filters)].val = vals]
<1>1. s3.depth = 0
  BY Zenon DEF Fits
<1>2. Fits(Dsl!Error)
  BY FitsError
<1>3. ASSUME Dsl!At(1).k # "END", NEW x, NEW l
      PROVE  Fits(Dsl!To(2, "filterEnd", x)) /\ Fits(WithList(Dsl!To(2, "values", x), l))
  <2>1. 1 \in Nat /\ 1 + 1 = 2 /\ {"filterEnd", "values"} \subseteq Dsl!Place \ {"done"}
    BY PlacesAre
  <2>2. \A at \in Dsl!Place \ {"done"} : Fits(Dsl!To(1 + 1, at, x))
    BY <1>1, <1>3, <2>1, FitsOn
  <2>3. Fits(Dsl!To(2, "filterEnd", x)) /\ Fits(Dsl!To(2, "values", x))
    BY <2>1, <2>2
  <2> QED
    BY <2>3, FitsMore, Zenon
<1>4. \/ Dsl!Values(t) = Dsl!Error
      \/ Dsl!At(1).k = "COMMA" /\ Dsl!Values(t) = WithList(Dsl!To(2, "values", s3.q), vals)
      \/ Dsl!At(1).k = "RP" /\ Dsl!Values(t) = Dsl!To(2, "filterEnd", v)
  BY Zenon DEF Dsl!Values, WithList
<1>5. (Dsl!At(1).k = "COMMA" => Dsl!At(1).k # "END") /\ (Dsl!At(1).k = "RP" => Dsl!At(1).k # "END")
  OBVIOUS
<1> HIDE DEF v, vals
<1> QED
  BY <1>2, <1>3, <1>4, <1>5, Zenon DEF t

(* The least clause of those whose keyword is read. *)
LEMMA MinIsIn ==
    ASSUME NEW S, S \subseteq 1 .. 6, S # {}
    PROVE  Dsl!Min(S) \in S
<1>1. S \subseteq Nat
  OBVIOUS
<1>2. \E x \in S : \A y \in S : x <= y
  BY <1>1, LeastNatural
<1>3. Dsl!Min(S) = CHOOSE x \in S : \A y \in S : x <= y
  BY Zenon DEF Dsl!Min
<1> QED
  BY <1>2, <1>3

LEMMA ClauseStartFits ==
    ASSUME Fits(s3), s2 \in Seq(Dsl!Token), s3.at = "clause"
    PROVE  Fits(Dsl!ClauseStart(Dsl!At(0)))
<1> DEFINE t == Dsl!At(0)
           next == {x \in s3.clause + 1 .. Len(Dsl!Order) : Dsl!IsKw(t, Dsl!Order[x])}
           d == Dsl!Min(next)
<1>1. s3.depth = 0 /\ s3.clause \in 0 .. 6 /\ s3.i \in 1 .. Len(s2) + 1
  BY Zenon DEF Fits
<1>2. Fits(Dsl!Error)
  BY FitsError
<1>3. ASSUME t = Dsl!End PROVE Fits(WithAt(s3, "done"))
  <2>1. s3.i + 0 > Len(s2)
    BY <1>3, SeenIs
  <2>2. s3.i = Len(s2) + 1
    <3>1. Len(s2) \in Nat
      <4> HIDE DEF Dsl!Token
      <4> QED
        OBVIOUS
    <3> QED
      BY <1>1, <2>1, <3>1
  <2>3. "done" \in Dsl!Place
    BY PlacesAre
  <2> QED
    BY <1>1, <2>2, <2>3, FitsMore, Zenon
<1>4. ASSUME next # {}
      PROVE  Fits(WithClause(Dsl!To(1, Dsl!Order[d], s3.q), d))
  <2>1. next \subseteq 1 .. 6
    <3>1. Len(Dsl!Order) = 6
      BY OrderOnce
    <3> QED
      BY <1>1, <3>1
  <2>2. d \in next
    <3> HIDE DEF next
    <3> QED
      BY <1>4, <2>1, MinIsIn
  <2>3. t.k # "END"
    BY <2>2 DEF Dsl!IsKw
  <2>4. d \in 0 .. 6 /\ d \in 1 .. 6
    BY <2>1, <2>2
  <2> HIDE DEF d, next
  <2>5. Dsl!Order[d] \in Dsl!Place \ {"done"}
    <3>1. d \in {1, 2, 3, 4, 5, 6}
      BY <2>4
    <3>2. Dsl!Order[d] \in {"by", "where", "since", "between", "order", "limit"}
      BY <3>1, OrderOnce
    <3> QED
      BY <3>2, PlacesAre
  <2>6. 0 \in Nat /\ 0 + 1 = 1
    OBVIOUS
  <2>7. \A at \in Dsl!Place \ {"done"} : Fits(Dsl!To(0 + 1, at, s3.q))
    BY <1>1, <2>3, <2>6, FitsOn
  <2>8. Fits(Dsl!To(1, Dsl!Order[d], s3.q))
    BY <2>5, <2>6, <2>7
  <2> QED
    BY <2>4, <2>8, FitsMore, Zenon
<1>5. \/ t = Dsl!End /\ Dsl!ClauseStart(t) = WithAt(s3, "done")
      \/ Dsl!ClauseStart(t) = Dsl!Error
      \/ next # {} /\ Dsl!ClauseStart(t) = WithClause(Dsl!To(1, Dsl!Order[d], s3.q), d)
  BY Zenon DEF Dsl!ClauseStart, WithClause, WithAt
<1> HIDE DEF next, d
<1> QED
  BY <1>2, <1>3, <1>4, <1>5, Zenon DEF t

(* The other words of a clause, one to three of them. *)
LEMMA FitsAfter ==
    ASSUME Fits(s3), s2 \in Seq(Dsl!Token), s3.depth = 0, NEW n \in {0, 1, 2}, NEW v,
           Dsl!At(n).k # "END" \/ Dsl!At(n).v # <<>>
    PROVE  Fits(Dsl!To(n + 1, "clause", v)) /\ Fits(Dsl!To(n + 1, "by", v))
<1>1. n \in Nat /\ {"clause", "by"} \subseteq Dsl!Place \ {"done"}
  BY PlacesAre
<1>2. \A at \in Dsl!Place \ {"done"} : Fits(Dsl!To(n + 1, at, v))
  BY <1>1, FitsOn
<1> QED
  BY <1>1, <1>2

LEMMA DimensionFits ==
    ASSUME Fits(s3), s2 \in Seq(Dsl!Token), s3.at = "by"
    PROVE  Fits(Dsl!Dimension(Dsl!At(0)))
<1> DEFINE t == Dsl!At(0)
           v == [s3.q EXCEPT !.dims = Append(@, t.v)]
<1>1. s3.depth = 0 /\ 0 + 1 = 1 /\ 1 + 1 = 2 /\ 0 \in {0, 1, 2} /\ 1 \in {0, 1, 2}
  BY DEF Fits
<1>2. Fits(Dsl!Error)
  BY FitsError
<1>3. \/ Dsl!Dimension(t) = Dsl!Error
      \/ Dsl!At(1).k = "COMMA" /\ Dsl!Dimension(t) = Dsl!To(2, "by", v)
      \/ Dsl!Operand(t) /\ Dsl!Dimension(t) = Dsl!To(1, "clause", v)
  BY Zenon DEF Dsl!Dimension
<1> HIDE DEF v
<1>4. Dsl!At(1).k = "COMMA" => Fits(Dsl!To(2, "by", v))
  <2>1. Dsl!At(1).k = "COMMA" => Dsl!At(1).k # "END"
    OBVIOUS
  <2>2. Dsl!At(1).k = "COMMA" => Fits(Dsl!To(1 + 1, "by", v))
    BY <1>1, <2>1, FitsAfter, Zenon
  <2> QED
    BY <1>1, <2>2
<1>5. Dsl!Operand(t) => Fits(Dsl!To(1, "clause", v))
  <2>1. Dsl!Operand(t) => t.k # "END"
    BY DEF Dsl!Operand
  <2>2. Dsl!Operand(t) => Fits(Dsl!To(0 + 1, "clause", v))
    BY <1>1, <2>1, FitsAfter, Zenon
  <2> QED
    BY <1>1, <2>2
<1> QED
  BY <1>2, <1>3, <1>4, <1>5, Zenon DEF t

LEMMA SinceFits ==
    ASSUME Fits(s3), s2 \in Seq(Dsl!Token), s3.at = "since"
    PROVE  Fits(Dsl!Since(Dsl!At(0)))
<1> DEFINE t == Dsl!At(0)
           v == [s3.q EXCEPT !.days = t.v]
           units == Dsl!At(1).v \in {<<"days">>, <<"weeks">>, <<"months">>}
<1>1. s3.depth = 0 /\ 1 + 1 = 2 /\ 1 \in {0, 1, 2}
  BY DEF Fits
<1>2. Fits(Dsl!Error)
  BY FitsError
<1>3. \/ Dsl!Since(t) = Dsl!Error
      \/ units /\ Dsl!Since(t) = Dsl!To(2, "clause", v)
  BY Zenon DEF Dsl!Since
<1>4. units => Dsl!At(1).v # <<>>
  <2>1. <<"days">> # <<>> /\ <<"weeks">> # <<>> /\ <<"months">> # <<>>
    OBVIOUS
  <2> QED
    BY <2>1, Zenon
<1> HIDE DEF v, units
<1>5. units => Fits(Dsl!To(1 + 1, "clause", v))
  BY <1>1, <1>4, FitsAfter, Zenon
<1>6. units => Fits(Dsl!To(2, "clause", v))
  BY <1>1, <1>5
<1> QED
  BY <1>2, <1>3, <1>6, Zenon DEF t

LEMMA BetweenFits ==
    ASSUME Fits(s3), s2 \in Seq(Dsl!Token), s3.at = "between"
    PROVE  Fits(Dsl!Between(Dsl!At(0)))
<1> DEFINE t == Dsl!At(0)
           v == [s3.q EXCEPT !.between = <<t.v, Dsl!At(2).v>>]
           date == Dsl!At(2).k \in {"STR", "NUM"}
<1>1. s3.depth = 0 /\ 2 + 1 = 3 /\ 2 \in {0, 1, 2}
  BY DEF Fits
<1>2. Fits(Dsl!Error)
  BY FitsError
<1>3. \/ Dsl!Between(t) = Dsl!Error
      \/ date /\ Dsl!Between(t) = Dsl!To(3, "clause", v)
  BY Zenon DEF Dsl!Between
<1>4. date => Dsl!At(2).k # "END"
  OBVIOUS
<1> HIDE DEF v, date
<1>5. date => Fits(Dsl!To(2 + 1, "clause", v))
  BY <1>1, <1>4, FitsAfter, Zenon
<1>6. date => Fits(Dsl!To(3, "clause", v))
  BY <1>1, <1>5
<1> QED
  BY <1>2, <1>3, <1>6, Zenon DEF t

LEMMA OrderByFits ==
    ASSUME Fits(s3), s2 \in Seq(Dsl!Token), s3.at = "order"
    PROVE  Fits(Dsl!OrderBy(Dsl!At(0)))
<1> DEFINE t == Dsl!At(0)
           way == Dsl!IsKw(Dsl!At(2), "asc") \/ Dsl!IsKw(Dsl!At(2), "desc")
           v == [s3.q EXCEPT !.order = Dsl!At(1).v, !.desc = ~Dsl!IsKw(Dsl!At(2), "asc")]
<1>1. s3.depth = 0 /\ 2 + 1 = 3 /\ 1 + 1 = 2 /\ 2 \in {0, 1, 2} /\ 1 \in {0, 1, 2}
  BY DEF Fits
<1>2. Fits(Dsl!Error)
  BY FitsError
<1>3. \/ Dsl!OrderBy(t) = Dsl!Error
      \/ way /\ Dsl!OrderBy(t) = Dsl!To(3, "clause", v)
      \/ Dsl!Operand(Dsl!At(1)) /\ Dsl!OrderBy(t) = Dsl!To(2, "clause", v)
  BY Zenon DEF Dsl!OrderBy
<1>4. way => Dsl!At(2).k # "END"
  BY DEF Dsl!IsKw
<1>5. Dsl!Operand(Dsl!At(1)) => Dsl!At(1).k # "END"
  BY DEF Dsl!Operand
<1> HIDE DEF v, way
<1>6. way => Fits(Dsl!To(2 + 1, "clause", v))
  BY <1>1, <1>4, FitsAfter, Zenon
<1>7. Dsl!Operand(Dsl!At(1)) => Fits(Dsl!To(1 + 1, "clause", v))
  BY <1>1, <1>5, FitsAfter, Zenon
<1>8. /\ way => Fits(Dsl!To(3, "clause", v))
      /\ Dsl!Operand(Dsl!At(1)) => Fits(Dsl!To(2, "clause", v))
  BY <1>1, <1>6, <1>7
<1> QED
  BY <1>2, <1>3, <1>8, Zenon DEF t

LEMMA SelectFits ==
    ASSUME Fits(s3), s2 \in Seq(Dsl!Token), s3.at = "select", Dsl!IsKw(Dsl!At(0), "select")
    PROVE  Fits(Dsl!To(1, "operand", s3.q))
<1>1. s3.depth = 0 /\ 0 + 1 = 1 /\ 0 \in Nat /\ "operand" \in Dsl!Place \ {"done"}
  BY PlacesAre DEF Fits
<1>2. Dsl!At(0).k # "END"
  BY DEF Dsl!IsKw
<1>3. \A at \in Dsl!Place \ {"done"} : Fits(Dsl!To(0 + 1, at, s3.q))
  BY <1>1, <1>2, FitsOn
<1> QED
  BY <1>1, <1>3

LEMMA FilterEndFits ==
    ASSUME Fits(s3), s2 \in Seq(Dsl!Token), s3.at = "filterEnd"
    PROVE  /\ Dsl!IsKw(Dsl!At(0), "and") => Fits(Dsl!To(1, "where", s3.q))
           /\ Fits(Dsl!To(0, "clause", s3.q))
<1>1. s3.depth = 0 /\ 0 + 1 = 1 /\ 0 \in Nat /\ "where" \in Dsl!Place \ {"done"}
  BY PlacesAre DEF Fits
<1>2. ASSUME Dsl!IsKw(Dsl!At(0), "and") PROVE Fits(Dsl!To(1, "where", s3.q))
  <2>1. Dsl!At(0).k # "END"
    BY <1>2 DEF Dsl!IsKw
  <2>2. \A at \in Dsl!Place \ {"done"} : Fits(Dsl!To(0 + 1, at, s3.q))
    BY <1>1, <2>1, FitsOn
  <2> QED
    BY <1>1, <2>2
<1>3. Fits(Dsl!To(0, "clause", s3.q))
  BY <1>1, FitsHere
<1> QED
  BY <1>2, <1>3

LEMMA LimitFits ==
    ASSUME Fits(s3), s2 \in Seq(Dsl!Token), s3.at = "limit", Dsl!At(0).k = "NUM", NEW v
    PROVE  Fits(Dsl!To(1, "clause", v))
<1>1. s3.depth = 0 /\ 0 + 1 = 1 /\ 0 \in {0, 1, 2} /\ Dsl!At(0).k # "END"
  BY DEF Fits
<1>2. Fits(Dsl!To(0 + 1, "clause", v))
  BY <1>1, FitsAfter, Zenon
<1> QED
  BY <1>1, <1>2

LEMMA AdvanceFits ==
    ASSUME Fits(s3), s2 \in Seq(Dsl!Token), s3.at \notin {"done", "error"}
    PROVE  Fits(Dsl!Advance)
<1> DEFINE t == Dsl!At(0)
           v == [s3.q EXCEPT !.limit = t.v]
<1>1. s3.at \in Dsl!Place
  BY Zenon DEF Fits
<1>2. Fits(Dsl!Error)
  BY FitsError
<1>3. CASE s3.at = "select"
  <2>1. Dsl!Advance = IF Dsl!IsKw(t, "select") THEN Dsl!To(1, "operand", s3.q) ELSE Dsl!Error
    BY <1>3 DEF Dsl!Advance
  <2> QED
    BY <1>2, <1>3, <2>1, SelectFits, Zenon
<1>4. CASE s3.at \in {"operand", "operator"}
  <2>1. s3.at # "select"
    BY <1>4
  <2>2. Dsl!Advance = Dsl!Expression(t)
    BY <1>4, <2>1, Zenon DEF Dsl!Advance
  <2> QED
    BY <1>4, <2>2, ExpressionFits, Zenon
<1>5. CASE s3.at = "metric"
  <2>1. Dsl!Advance = Dsl!MetricEnd(t)
    BY <1>5 DEF Dsl!Advance
  <2> QED
    BY <1>5, <2>1, MetricEndFits, Zenon
<1>6. CASE s3.at = "clause"
  <2>1. Dsl!Advance = Dsl!ClauseStart(t)
    BY <1>6 DEF Dsl!Advance
  <2> QED
    BY <1>6, <2>1, ClauseStartFits, Zenon
<1>7. CASE s3.at = "by"
  <2>1. Dsl!Advance = Dsl!Dimension(t)
    BY <1>7 DEF Dsl!Advance
  <2> QED
    BY <1>7, <2>1, DimensionFits, Zenon
<1>8. CASE s3.at = "where"
  <2>1. Dsl!Advance = Dsl!Filter(t)
    BY <1>8 DEF Dsl!Advance
  <2> QED
    BY <1>8, <2>1, FilterFits, Zenon
<1>9. CASE s3.at = "values"
  <2>1. Dsl!Advance = Dsl!Values(t)
    BY <1>9 DEF Dsl!Advance
  <2> QED
    BY <1>9, <2>1, ValuesFits, Zenon
<1>10. CASE s3.at = "filterEnd"
  <2>1. Dsl!Advance = IF Dsl!IsKw(t, "and") THEN Dsl!To(1, "where", s3.q) ELSE Dsl!To(0, "clause", s3.q)
    BY <1>10 DEF Dsl!Advance
  <2> QED
    BY <1>10, <2>1, FilterEndFits, Zenon
<1>11. CASE s3.at = "since"
  <2>1. Dsl!Advance = Dsl!Since(t)
    BY <1>11 DEF Dsl!Advance
  <2> QED
    BY <1>11, <2>1, SinceFits, Zenon
<1>12. CASE s3.at = "between"
  <2>1. Dsl!Advance = Dsl!Between(t)
    BY <1>12 DEF Dsl!Advance
  <2> QED
    BY <1>12, <2>1, BetweenFits, Zenon
<1>13. CASE s3.at = "order"
  <2>1. Dsl!Advance = Dsl!OrderBy(t)
    BY <1>13 DEF Dsl!Advance
  <2> QED
    BY <1>13, <2>1, OrderByFits, Zenon
<1>14. CASE s3.at = "limit"
  <2>1. Dsl!Advance = IF t.k = "NUM" THEN Dsl!To(1, "clause", v) ELSE Dsl!Error
    BY <1>14 DEF Dsl!Advance
  <2> HIDE DEF v
  <2> QED
    BY <1>2, <1>14, <2>1, LimitFits, Zenon
<1> QED
  BY <1>1, <1>3, <1>4, <1>5, <1>6, <1>7, <1>8, <1>9, <1>10, <1>11, <1>12, <1>13, <1>14 DEF Dsl!Place

(* The query of a question in words. *)
LEMMA WordsPicked ==
    ASSUME NEW S, NEW s \in Seq(S), NEW at
    PROVE  Dsl!Picked(s, at) \in Seq(S)
<1> DEFINE h == CHOOSE h : IsPicked(h, s, at)
<1>1. PICK g : IsPicked(g, s, at) /\ g[Len(s)] \in Seq(S)
  BY PickedExists
<1>2. IsPicked(h, s, at)
  BY <1>1, Zenon
<1>3. Dsl!Picked(s, at) = h[Len(s)]
  BY Zenon DEF Dsl!Picked, IsPicked
<1> HIDE DEF h
<1> QED
  BY <1>1, <1>2, <1>3, PickedUnique

LEMMA DetectIs ==
    ASSUME NEW s \in Sentence
    PROVE  Dsl!Detect(s) \in Dsl!Query
<1> DEFINE isMetric == {i \in DOMAIN s.words : Dsl!ResolveMetric(s.words[i]) # {}}
           isDim == {i \in DOMAIN s.words : Dsl!ResolveMetric(s.words[i]) = {}
                                            /\ Dsl!ResolveDimension(s.words[i]) # {}}
           isFilter == {i \in DOMAIN s.filters : Dsl!ResolveDimension(s.filters[i].col) # {}}
           m == Dsl!Picked(s.words, isMetric)
           d == Dsl!Picked(s.words, isDim)
           f == Dsl!Picked(s.filters, isFilter)
           N == Dsl!Name
<1>1. /\ s.words \in Seq(N) /\ s.filters \in Seq(Dsl!Condition)
      /\ s.days \in N /\ s.between \in {<<>>} \cup (N \X N)
      /\ s.order \in N /\ s.limit \in N
  BY SentenceAssumption, Zenon DEF Dsl!IsSentence
<1>2. m \in Seq(N) /\ d \in Seq(N) /\ f \in Seq(Dsl!Condition)
  <2> HIDE DEF isMetric, isDim, isFilter, N
  <2> QED
    BY <1>1, WordsPicked, Zenon
<1> HIDE DEF isMetric, isDim, isFilter
<1>3. Dsl!Detect(s) = [Dsl!EmptyQuery EXCEPT !.metrics = m, !.dims = d, !.filters = f,
                          !.days = s.days, !.between = s.between, !.order = s.order, !.limit = s.limit]
  BY Zenon DEF Dsl!Detect, isMetric, isDim, isFilter
<1> HIDE DEF m, d, f, N
<1>4. Dsl!EmptyQuery = Asked(<<>>, <<>>, <<>>, <<>>, <<>>, <<>>, TRUE, <<>>)
  BY EmptyIs, Zenon
<1>5. Dsl!Detect(s) = Asked(m, d, f, s.days, s.between, s.order, TRUE, s.limit)
  BY <1>3, <1>4 DEF Asked
<1>6. Asked(m, d, f, s.days, s.between, s.order, TRUE, s.limit) \in
         [metrics : Seq(N), dims : Seq(N), filters : Seq(Dsl!Condition), days : N,
          between : {<<>>} \cup (N \X N), order : N, desc : {TRUE}, limit : N]
  BY <1>1, <1>2 DEF Asked
<1> QED
  BY <1>5, <1>6 DEF Dsl!Query, N

(* What the invariant says of the parser's record is that it fits. *)
LEMMA FitsIs ==
    ASSUME Dsl!IInv
    PROVE  Fits(s3) /\ s2 \in Seq(Dsl!Token)
<1>1. s2 \in Seq(Dsl!Token)
  BY Zenon DEF Dsl!IInv
<1>2. s3 \in [i : 1 .. Len(s2) + 1, at : Dsl!Place, clause : 0 .. 6, q : {s3.q}, expr : {s3.expr},
              depth : Nat, compound : {s3.compound}, list : {s3.list}]
  BY Zenon DEF Dsl!IInv
<1>3. /\ s3.at = "done" => s3.i = Len(s2) + 1
      /\ s3.at \notin {"operand", "operator", "error"} => s3.depth = 0
  BY Zenon DEF Dsl!IInv
<1>4. s3.i \in 1 .. Len(s2) + 1 /\ s3.at \in Dsl!Place /\ s3.clause \in 0 .. 6 /\ s3.depth \in Nat
  BY <1>2
<1>5. Entire(s3)
  BY <1>2 DEF Entire, Parsing
<1> QED
  BY <1>1, <1>3, <1>4, <1>5, Zenon DEF Fits

LEMMA FitsAgain ==
    ASSUME s2' = s2, Fits(s3')
    PROVE  /\ s3' \in [i : 1 .. Len(s2') + 1, at : Dsl!Place, clause : 0 .. 6, q : {s3'.q}, expr : {s3'.expr},
                       depth : Nat, compound : {s3'.compound}, list : {s3'.list}]
           /\ s3'.at = "done" => s3'.i = Len(s2') + 1
           /\ s3'.at \notin {"operand", "operator", "error"} => s3'.depth = 0
<1>1. /\ s3' = Parsing(s3'.i, s3'.at, s3'.clause, s3'.q, s3'.expr, s3'.depth, s3'.compound, s3'.list)
      /\ s3'.i \in 1 .. Len(s2) + 1 /\ s3'.at \in Dsl!Place /\ s3'.clause \in 0 .. 6
      /\ s3'.depth \in Nat
      /\ s3'.at = "done" => s3'.i = Len(s2) + 1
      /\ s3'.at \notin {"operand", "operator", "error"} => s3'.depth = 0
  BY Zenon DEF Fits, Entire
<1>2. Parsing(s3'.i, s3'.at, s3'.clause, s3'.q, s3'.expr, s3'.depth, s3'.compound, s3'.list)
        \in [i : 1 .. Len(s2) + 1, at : Dsl!Place, clause : 0 .. 6, q : {s3'.q}, expr : {s3'.expr},
             depth : Nat, compound : {s3'.compound}, list : {s3'.list}]
  BY <1>1 DEF Parsing
<1> QED
  BY <1>1, <1>2, Zenon

LEMMA ReadingStays ==
    ASSUME s3' = s3, NEW q, Dsl!Reading(q)
    PROVE  Dsl!Reading(q)'
<1>1. Dsl!InMetrics(q) => Dsl!InMetrics(q)'
  BY DEF Dsl!InMetrics
<1>2. Dsl!InDimensions(q) => Dsl!InDimensions(q)'
  BY DEF Dsl!InDimensions
<1>3. Dsl!InFilters(q) => Dsl!InFilters(q)'
  BY DEF Dsl!InFilters
<1>4. /\ Dsl!InWord(q, "since", 3) => Dsl!InWord(q, "since", 3)'
      /\ Dsl!InWord(q, "order", 5) => Dsl!InWord(q, "order", 5)'
      /\ Dsl!InWord(q, "limit", 6) => Dsl!InWord(q, "limit", 6)'
  BY DEF Dsl!InWord
<1>5. Dsl!AfterClause(q) => Dsl!AfterClause(q)'
  BY DEF Dsl!AfterClause
<1> QED
  BY <1>1, <1>2, <1>3, <1>4, <1>5, Zenon DEF Dsl!Reading

(* The question that was asked, if any, is the one the text says. *)
LEMMA AskedIs ==
    \A q : Dsl!Range(<<q>>) = {q}
BY DEF Dsl!Range

LEMMA NoneAsked == Dsl!Range(<<>>) = {}
BY DEF Dsl!Range

LEMMA StartFits ==
    ASSUME s2 \in Seq(Dsl!Token)
    PROVE  Fits(Dsl!ParserStart)
<1>1. Dsl!ParserStart = Parsing(1, "select", 0, Dsl!EmptyQuery, <<>>, 0, FALSE, <<>>)
  BY Zenon DEF Dsl!ParserStart, Parsing
<1>2. 1 \in 1 .. Len(s2) + 1 /\ "select" \in Dsl!Place /\ 0 \in 0 .. 6 /\ 0 \in Nat
  <2>1. Len(s2) \in Nat
    <3> HIDE DEF Dsl!Token
    <3> QED
      OBVIOUS
  <2> QED
    BY <2>1, PlacesAre
<1>3. "select" # "done"
  OBVIOUS
<1>4. Fits(Parsing(1, "select", 0, Dsl!EmptyQuery, <<>>, 0, FALSE, <<>>))
  BY <1>2, <1>3, FitsParsing, Zenon
<1> QED
  BY <1>1, <1>4, Zenon

(* Before the first step the parser is at the start of the text. *)
LEMMA StartIs ==
    ASSUME s2 \in Seq(Dsl!Token), s3 = Dsl!ParserStart
    PROVE  /\ s3 \in [i : 1 .. Len(s2) + 1, at : Dsl!Place, clause : 0 .. 6, q : {s3.q}, expr : {s3.expr},
                      depth : Nat, compound : {s3.compound}, list : {s3.list}]
           /\ s3.at = "select" /\ s3.depth = 0
<1>1. 1 \in 1 .. Len(s2) + 1 /\ "select" \in Dsl!Place
  <2>1. Len(s2) \in Nat
    <3> HIDE DEF Dsl!Token
    <3> QED
      OBVIOUS
  <2> QED
    BY <2>1, PlacesAre
<1> QED
  BY <1>1 DEF Dsl!ParserStart

LEMMA DslInit == Dsl!Init => Dsl!IInv
<1> SUFFICES ASSUME Dsl!Init PROVE Dsl!IInv
  OBVIOUS
<1>1. s1 = <<>> /\ s2 = <<>> /\ s3 = Dsl!ParserStart /\ s5 \in {"failed", "new"}
  BY DEF Dsl!Init
<1>2. s2 \in Seq(Dsl!Token)
  <2> HIDE DEF Dsl!Token
  <2> QED
    BY <1>1
<1>3. /\ s3 \in [i : 1 .. Len(s2) + 1, at : Dsl!Place, clause : 0 .. 6, q : {s3.q}, expr : {s3.expr},
                 depth : Nat, compound : {s3.compound}, list : {s3.list}]
      /\ s3.at = "select" /\ s3.depth = 0
  BY <1>1, <1>2, StartIs, Zenon
<1>4. Dsl!Range(s1) = {}
  BY <1>1, NoneAsked, Zenon
<1>5. s3.at # "done" /\ s5 \notin {"parse", "ground", "planned"}
  BY <1>1, <1>3
<1> QED
  BY <1>1, <1>2, <1>3, <1>4, <1>5, Zenon DEF Dsl!IInv

(* A question in words, and a text that is typed in. *)
LEMMA AskKeepsMeaning ==
    ASSUME Dsl!IInv, NEW s \in Sentence, Dsl!AskInWords(s)
    PROVE  Dsl!IInv'
<1> DEFINE v == Dsl!Detect(s)
<1>1. s5 = "new" /\ s3' = s3 /\ s4' = s4
  BY Zenon DEF Dsl!AskInWords
<1>2. s1 = <<>> /\ s3 = Dsl!ParserStart /\ s2 \in Seq(Dsl!Token)
  BY <1>1, Zenon DEF Dsl!IInv
<1>3. \/ s5' = "failed" /\ s1' = s1 /\ s2' = s2
      \/ s5' = "parse" /\ s1' = <<v>> /\ s2' = Dsl!Render(v)
  BY Zenon DEF Dsl!AskInWords
<1>4. v \in Dsl!Query
  BY DetectIs
<1> HIDE DEF v
<1>5. Dsl!Render(v) \in Seq(Dsl!Token)
  BY <1>4, TextIs, Zenon DEF IsText
<1>6. s2' \in Seq(Dsl!Token)
  BY <1>2, <1>3, <1>5, Zenon
<1>7. /\ s3' \in [i : 1 .. Len(s2') + 1, at : Dsl!Place, clause : 0 .. 6, q : {s3'.q}, expr : {s3'.expr},
                  depth : Nat, compound : {s3'.compound}, list : {s3'.list}]
      /\ s3'.at = "select" /\ s3'.depth = 0
  <2>1. (/\ s2 \in Seq(Dsl!Token) /\ s3 = Dsl!ParserStart
         => /\ s3 \in [i : 1 .. Len(s2) + 1, at : Dsl!Place, clause : 0 .. 6, q : {s3.q}, expr : {s3.expr},
                       depth : Nat, compound : {s3.compound}, list : {s3.list}]
            /\ s3.at = "select" /\ s3.depth = 0)'
    BY StartIs, PTL
  <2> QED
    BY <1>1, <1>2, <1>6, <2>1, Zenon
<1>8. s3'.at # "done" /\ s5' \notin {"new", "ground", "planned"} /\ s3'.at # "error"
  BY <1>3, <1>7
<1>9. \A q : Dsl!Reading(q)'
  BY <1>1, <1>2, Zenon DEF Dsl!Reading
<1>10. CASE s5' = "failed" /\ s1' = s1 /\ s2' = s2
  <2>1. s1' = <<>> /\ Dsl!Range(s1') = {}
    BY <1>2, <1>10, NoneAsked, Zenon
  <2> QED
    BY <1>6, <1>7, <1>8, <2>1, Zenon DEF Dsl!IInv
<1>11. CASE s5' = "parse" /\ s1' = <<v>> /\ s2' = Dsl!Render(v)
  <2>1. Dsl!Range(s1') = {v}
    BY <1>11, AskedIs, Zenon
  <2>2. s1' = <<s1'[1]>> /\ s1'[1] \in Dsl!Query
    BY <1>4, <1>11
  <2>3. \A q \in Dsl!Range(s1') : s2' = Dsl!Render(q)
    BY <1>11, <2>1, Zenon
  <2> QED
    BY <1>6, <1>7, <1>8, <1>9, <2>2, <2>3, Zenon DEF Dsl!IInv
<1> QED
  BY <1>3, <1>10, <1>11, Zenon

LEMMA TypeKeepsMeaning ==
    ASSUME Dsl!IInv, NEW text \in Typed, Dsl!AskInText(text)
    PROVE  Dsl!IInv'
<1>1. /\ s5 = "new" /\ s5' = "parse" /\ s2' = text
      /\ s1' = s1 /\ s3' = s3 /\ s4' = s4
  BY Zenon DEF Dsl!AskInText
<1>2. s1 = <<>> /\ s3 = Dsl!ParserStart
  BY <1>1, Zenon DEF Dsl!IInv
<1>3. s2' \in Seq(Dsl!Token)
  <2>1. Typed \subseteq Seq(Dsl!Token)
    BY SentenceAssumption
  <2> HIDE DEF Dsl!Token
  <2> QED
    BY <1>1, <2>1
<1>4. /\ s3' \in [i : 1 .. Len(s2') + 1, at : Dsl!Place, clause : 0 .. 6, q : {s3'.q}, expr : {s3'.expr},
                  depth : Nat, compound : {s3'.compound}, list : {s3'.list}]
      /\ s3'.at = "select" /\ s3'.depth = 0
  <2>1. (/\ s2 \in Seq(Dsl!Token) /\ s3 = Dsl!ParserStart
         => /\ s3 \in [i : 1 .. Len(s2) + 1, at : Dsl!Place, clause : 0 .. 6, q : {s3.q}, expr : {s3.expr},
                       depth : Nat, compound : {s3.compound}, list : {s3.list}]
            /\ s3.at = "select" /\ s3.depth = 0)'
    BY StartIs, PTL
  <2> QED
    BY <1>1, <1>2, <1>3, <2>1, Zenon
<1>5. s1' = <<>> /\ Dsl!Range(s1') = {}
  BY <1>1, <1>2, NoneAsked, Zenon
<1>6. s3'.at # "done" /\ s5' \notin {"new", "ground", "planned"} /\ s3'.at # "error"
  BY <1>1, <1>4
<1> QED
  BY <1>3, <1>4, <1>5, <1>6, Zenon DEF Dsl!IInv

(* A step of the parser. *)
LEMMA ParseKeepsMeaning ==
    ASSUME Dsl!IInv, Dsl!ParseStep
    PROVE  Dsl!IInv'
<1>1. /\ s5 = "parse" /\ s3' = Dsl!Advance /\ s1' = s1 /\ s2' = s2 /\ s4' = s4
      /\ s5' = CASE s3'.at = "error" -> "failed" [] s3'.at = "done" -> "ground" [] OTHER -> "parse"
  BY Zenon DEF Dsl!ParseStep
<1>2. s3.at \notin {"done", "error"}
  BY <1>1, Zenon DEF Dsl!IInv
<1>3. Fits(s3) /\ s2 \in Seq(Dsl!Token)
  BY FitsIs
<1>4. Fits(s3')
  BY <1>1, <1>2, <1>3, AdvanceFits, Zenon
<1>5. /\ s3' \in [i : 1 .. Len(s2') + 1, at : Dsl!Place, clause : 0 .. 6, q : {s3'.q}, expr : {s3'.expr},
                  depth : Nat, compound : {s3'.compound}, list : {s3'.list}]
      /\ s3'.at = "done" => s3'.i = Len(s2') + 1
      /\ s3'.at \notin {"operand", "operator", "error"} => s3'.depth = 0
  BY <1>1, <1>4, FitsAgain, Zenon
<1>6. /\ s5' = "parse" => s3'.at \notin {"done", "error"}
      /\ s5' = "ground" => s3'.at = "done"
      /\ s5' \notin {"new", "planned"}
  <2> DEFINE a == s3'.at
  <2>1. s5' = CASE a = "error" -> "failed" [] a = "done" -> "ground" [] OTHER -> "parse"
    BY <1>1, Zenon
  <2> HIDE DEF a
  <2>2. /\ s5' = "parse" => a \notin {"done", "error"}
        /\ s5' = "ground" => a = "done"
        /\ s5' \notin {"new", "planned"}
    BY <2>1
  <2> QED
    BY <2>2, Zenon DEF a
<1>7. /\ s1 = <<>> \/ (s1 = <<s1[1]>> /\ s1[1] \in Dsl!Query)
      /\ \A q \in Dsl!Range(s1) : Dsl!Expressible(q) => s2 = Dsl!Render(q) /\ Dsl!Reading(q)
  BY Zenon DEF Dsl!IInv
<1>8. ASSUME NEW q \in Dsl!Range(s1), Dsl!Expressible(q) PROVE s2 = Dsl!Render(q) /\ Dsl!Reading(q)'
  <2>1. q \in Dsl!Query
    <3>1. CASE s1 = <<>>
      BY <1>8, <3>1, NoneAsked
    <3>2. CASE s1 = <<s1[1]>> /\ s1[1] \in Dsl!Query
      <4>1. Dsl!Range(s1) = {s1[1]}
        BY <3>2, AskedIs, Zenon
      <4> QED
        BY <1>8, <3>2, <4>1
    <3> QED
      BY <1>7, <3>1, <3>2
  <2>2. s3.i \in Nat /\ s3.i >= 1 /\ Entire(s3)
    <3>1. s3.i \in 1 .. Len(s2) + 1 /\ Entire(s3)
      BY <1>3, Zenon DEF Fits
    <3> QED
      BY <3>1
  <2>3. s2 = Dsl!Render(q) /\ Dsl!Reading(q)
    BY <1>7, <1>8, Zenon
  <2>4. ReadsOn(q)
    BY <1>8, <2>1, <2>2, <2>3, Zenon DEF ReadsOn
  <2>5. s3.at # "done"
    BY <1>2
  <2> QED
    BY <1>1, <2>3, <2>4, <2>5, ReadingStep, Zenon
<1>9. \A q \in Dsl!Range(s1') : Dsl!Expressible(q) => s2' = Dsl!Render(q) /\ Dsl!Reading(q)'
  BY <1>1, <1>8, Zenon
<1>10. s1' = <<>> \/ (s1' = <<s1'[1]>> /\ s1'[1] \in Dsl!Query)
  BY <1>1, <1>7, Zenon
<1>11. s2' \in Seq(Dsl!Token)
  BY <1>1, <1>3, Zenon
<1>12. s5' # "new" /\ s5' # "planned" /\ (s5' \in {"ground", "planned"} => s3'.at = "done")
  BY <1>6
<1> QED
  BY <1>5, <1>6, <1>9, <1>10, <1>11, <1>12, Zenon DEF Dsl!IInv

(* Grounding looks at the query that was read, and at nothing that changes. *)
LEMMA StaysMeant ==
    ASSUME Dsl!IInv, s1' = s1, s2' = s2, s3' = s3,
           s5' = "new" => s5 = "new", s5' = "parse" => s5 = "parse",
           s5' \in {"ground", "planned"} => s3.at = "done",
           s5' = "planned" => Dsl!Grounds(s3.q) /\ s4' = Dsl!Spec0(s3.q)
    PROVE  Dsl!IInv'
<1>1. Fits(s3) /\ s2 \in Seq(Dsl!Token)
  BY FitsIs
<1>2. /\ s3' \in [i : 1 .. Len(s2') + 1, at : Dsl!Place, clause : 0 .. 6, q : {s3'.q}, expr : {s3'.expr},
                  depth : Nat, compound : {s3'.compound}, list : {s3'.list}]
      /\ s3'.at = "done" => s3'.i = Len(s2') + 1
      /\ s3'.at \notin {"operand", "operator", "error"} => s3'.depth = 0
  <2>1. Fits(s3')
    BY <1>1, Zenon
  <2> QED
    BY <2>1, FitsAgain, Zenon
<1>3. /\ s1 = <<>> \/ (s1 = <<s1[1]>> /\ s1[1] \in Dsl!Query)
      /\ s5 = "new" => s1 = <<>> /\ s3 = Dsl!ParserStart
      /\ s5 = "parse" => s3.at \notin {"done", "error"}
      /\ \A q \in Dsl!Range(s1) : Dsl!Expressible(q) => s2 = Dsl!Render(q) /\ Dsl!Reading(q)
  BY Zenon DEF Dsl!IInv
<1>4. \A q \in Dsl!Range(s1') : Dsl!Expressible(q) => s2' = Dsl!Render(q) /\ Dsl!Reading(q)'
  <2>1. \A q : Dsl!Reading(q) => Dsl!Reading(q)'
    BY ReadingStays, Zenon
  <2> QED
    BY <1>3, <2>1, Zenon
<1>5. /\ s1' = <<>> \/ (s1' = <<s1'[1]>> /\ s1'[1] \in Dsl!Query)
      /\ s2' \in Seq(Dsl!Token)
      /\ s5' = "new" => s1' = <<>> /\ s3' = Dsl!ParserStart
      /\ s5' = "parse" => s3'.at \notin {"done", "error"}
      /\ s5' \in {"ground", "planned"} => s3'.at = "done"
      /\ s5' = "planned" => Dsl!Grounds(s3'.q) /\ s4' = Dsl!Spec0(s3'.q)
  BY <1>1, <1>3, Zenon
<1> QED
  BY <1>2, <1>4, <1>5, Zenon DEF Dsl!IInv

LEMMA DslStep == Dsl!IInv /\ [Dsl!Next]_(Dsl!vars) => Dsl!IInv'
<1> SUFFICES ASSUME Dsl!IInv, [Dsl!Next]_(Dsl!vars) PROVE Dsl!IInv'
  OBVIOUS
<1>1. CASE \E s \in Sentence : Dsl!AskInWords(s)
  BY <1>1, AskKeepsMeaning
<1>2. CASE \E text \in Typed : Dsl!AskInText(text)
  BY <1>2, TypeKeepsMeaning
<1>3. CASE Dsl!ParseStep
  BY <1>3, ParseKeepsMeaning
<1>4. CASE Dsl!Ground
  <2>1. /\ s5 = "ground" /\ s1' = s1 /\ s2' = s2 /\ s3' = s3
        /\ \/ s5' = "planned" /\ Dsl!Grounds(s3.q) /\ s4' = Dsl!Spec0(s3.q)
           \/ s5' = "failed"
    BY <1>4, Zenon DEF Dsl!Ground
  <2>2. s3.at = "done"
    <3>1. s5 \in {"ground", "planned"}
      BY <2>1
    <3> QED
      BY <3>1, Zenon DEF Dsl!IInv
  <2>3. /\ s5' # "new" /\ s5' # "parse"
        /\ s5' = "planned" => Dsl!Grounds(s3.q) /\ s4' = Dsl!Spec0(s3.q)
    BY <2>1
  <2> QED
    BY <2>1, <2>2, <2>3, StaysMeant, Zenon
<1>5. CASE UNCHANGED Dsl!vars
  <2>1. s1' = s1 /\ s2' = s2 /\ s3' = s3 /\ s4' = s4 /\ s5' = s5
    BY <1>5 DEF Dsl!vars
  <2>2. /\ s5 \in {"ground", "planned"} => s3.at = "done"
        /\ s5 = "planned" => Dsl!Grounds(s3.q) /\ s4 = Dsl!Spec0(s3.q)
    BY Zenon DEF Dsl!IInv
  <2> QED
    BY <2>1, <2>2, StaysMeant, Zenon
<1> QED
  BY <1>1, <1>2, <1>3, <1>4, <1>5, Zenon DEF Dsl!Next

(* What is planned is what was asked, down to columns of the source. *)
LEMMA TextIsMeant == Dsl!IInv => Dsl!TextMeansQuery
<1> SUFFICES ASSUME Dsl!IInv, NEW q \in Dsl!Range(s1), Dsl!Expressible(q)
             PROVE  (s5 \in {"ground", "planned"} => s3.q = q) /\ s3.at # "error"
  BY Zenon DEF Dsl!TextMeansQuery
<1>1. Dsl!Reading(q) /\ (s5 \in {"ground", "planned"} => s3.at = "done")
  BY Zenon DEF Dsl!IInv
<1>2. \/ s3.at \in {"operand", "operator", "metric", "by", "where", "filterEnd", "since", "order",
                    "limit", "clause"}
      \/ s3 = Dsl!ParserStart
      \/ s3.at = "done" /\ s3.q = q
  <2>1. /\ Dsl!InMetrics(q) => s3.at \in {"operand", "operator", "metric"}
        /\ Dsl!InDimensions(q) => s3.at = "by"
        /\ Dsl!InFilters(q) => s3.at \in {"where", "filterEnd"}
        /\ Dsl!AfterClause(q) => s3.at = "clause"
    BY DEF Dsl!InMetrics, Dsl!InDimensions, Dsl!InFilters, Dsl!AfterClause
  <2>2. /\ Dsl!InWord(q, "since", 3) => s3.at = "since"
        /\ Dsl!InWord(q, "order", 5) => s3.at = "order"
        /\ Dsl!InWord(q, "limit", 6) => s3.at = "limit"
    BY DEF Dsl!InWord
  <2> QED
    BY <1>1, <2>1, <2>2 DEF Dsl!Reading
<1>3. s3 = Dsl!ParserStart => s3.at = "select"
  BY DEF Dsl!ParserStart
<1> QED
  BY <1>1, <1>2, <1>3

LEMMA ColumnsAreReached ==
    ASSUME NEW v, Dsl!Grounds(v), NEW n \in Dsl!Spec0(v).metrics \cap DOMAIN Dsl!Catalog
    PROVE  n \notin Dsl!Depends(Dsl!Catalog, n)
<1> DEFINE C == Dsl!Catalog
           names(m) == IF Dsl!Inline(m) THEN Dsl!InlineNames(m) \cap DOMAIN C ELSE Dsl!ResolveMetric(m)
<1>1. Dsl!Spec0(v).metrics = UNION {names(m) : m \in Dsl!Range(v.metrics)}
  BY DEF Dsl!Spec0
<1>2. PICK m \in Dsl!Range(v.metrics) : n \in names(m)
  BY <1>1
<1>3. PICK i \in DOMAIN v.metrics : m = v.metrics[i]
  BY <1>2 DEF Dsl!Range
<1>4. Dsl!MetricGrounds(m)
  BY <1>3 DEF Dsl!Grounds
<1>5. Dsl!Resolvable(n)
  <2>1. CASE Dsl!Inline(m)
    BY <1>2, <1>4, <2>1 DEF Dsl!MetricGrounds
  <2>2. CASE ~Dsl!Inline(m)
    BY <1>2, <1>4, <2>2 DEF Dsl!MetricGrounds
  <2> QED
    BY <2>1, <2>2
<1>6. ~Dsl!Cyclic(C, n)
  BY <1>5 DEF Dsl!Resolvable
<1> QED
  BY <1>6, Zenon DEF Dsl!Cyclic

LEMMA PlanReachesColumns == Dsl!IInv => Dsl!PlannedEndsInColumns
<1> SUFFICES ASSUME Dsl!IInv, s5 = "planned"
             PROVE  /\ \A n \in s4.metrics \cap DOMAIN Dsl!Catalog : n \notin Dsl!Depends(Dsl!Catalog, n)
                    /\ s3.i = Len(s2) + 1 /\ s3.depth = 0
  BY Zenon DEF Dsl!PlannedEndsInColumns
<1>1. Dsl!Grounds(s3.q) /\ s4 = Dsl!Spec0(s3.q)
  BY Zenon DEF Dsl!IInv
<1>2. \A n \in s4.metrics \cap DOMAIN Dsl!Catalog : n \notin Dsl!Depends(Dsl!Catalog, n)
  BY <1>1, ColumnsAreReached
<1>3. s3.at = "done"
  <2>1. s5 \in {"ground", "planned"}
    OBVIOUS
  <2> QED
    BY <2>1, Zenon DEF Dsl!IInv
<1>4. s3.i = Len(s2) + 1 /\ s3.depth = 0
  <2>1. s3.at \notin {"operand", "operator", "error"}
    BY <1>3
  <2> QED
    BY <1>3, <2>1, Zenon DEF Dsl!IInv
<1> QED
  BY <1>2, <1>4
-----------------------------------------------------------------------------
LEMMA DslPart == [AnalyticsNext]_all => part' = part /\ (part = "dsl" => [Dsl!Next]_(Dsl!vars))
BY DEF AnalyticsNext, all, others, Dsl!vars

(* The text of a question that has a metric, no dates and no reserved word is read
   back as the query it came from, whatever its metrics, dimensions, filters, days,
   order and limit; and a text that is planned was read to its end, outside of all
   parentheses, and its metrics end in columns of the source also when the dataset's
   catalog is layered over the base one (DslQuery.to_text, parse_dsl, _plan). *)
THEOREM QueriesAreMeantAlways == AnalyticsSpec => []QueriesAreMeant
<1> DEFINE J == part = "dsl" => Dsl!IInv
<1>1. AnalyticsInit => J
  BY DslInit DEF AnalyticsInit
<1>2. J /\ [AnalyticsNext]_all => J'
  BY DslStep, DslPart
<1>3. J => QueriesAreMeant
  BY TextIsMeant, PlanReachesColumns DEF QueriesAreMeant
<1> QED
  BY <1>1, <1>2, <1>3, PTL DEF AnalyticsSpec
==============================================================================
