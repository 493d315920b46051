----------------------------- MODULE TurnProofs -----------------------------
(***************************************************************************)
(* What the browser is shown while a model is still writing is what the    *)
(* answer says in the end: for every set of documents, and however the     *)
(* network cuts them into frames.                                          *)
(*                                                                         *)
(* How a document is written: where each field stands in it, and that the  *)
(* key of the text stands nowhere else unless a value spells it.           *)
(*                                                                         *)
(* How it is read: a character is written as one, two or six symbols, and  *)
(* a frame may end between any two of them; what is handed on and what is  *)
(* held are always a place in the value.                                   *)
(*                                                                         *)
(* Where the search stands: a frame leaves the scanner waiting for the     *)
(* key, waiting for the value, past a key that is no name, past a text     *)
(* that is null, or in the text; by where things stand in the whole of     *)
(* what has arrived, not in what the scanner kept of it.                   *)
(*                                                                         *)
(* TurnInv joins the two: the scanner is where it must be after so many    *)
(* symbols, and an answer is shown only when all of them have arrived.     *)
(***************************************************************************)
EXTENDS Turn, FiniteSetTheorems, SequenceTheorems, WellFoundedInduction, TLAPS

\* Sequences of sequences, joined.

LEMMA LeastNumber == ASSUME NEW S, S \subseteq Nat, S # {} PROVE \E m \in S : \A k \in S : m <= k
<1> DEFINE R == OpToRel(<, Nat)
<1>1. IsWellFoundedOn(R, Nat)
  BY NatLessThanWellFounded
<1>2. PICK m \in S : \A n \in S : ~(<<n, m>> \in R)
  <2> HIDE DEF R
  <2> QED BY <1>1, WFMin
<1>3. \A k \in S : k \in Nat /\ m \in Nat /\ ~(k < m)
  BY <1>2 DEF OpToRel
<1> QED BY <1>3

LEMMA Signs ==
  /\ Quote # Backslash /\ Quote # Space /\ Quote # ":" /\ Quote # "te" /\ Quote # "xt" /\ Quote # "null"
  /\ Quote # Comma /\ Quote # Opening /\ Quote # Closing /\ Backslash # Space /\ Backslash # "te" /\ Backslash # "xt"
  /\ Comma \notin {"te", "xt", Space, ":"} /\ Closing \notin {"te", "xt", Space, ":"} /\ Opening \notin {"te", "xt"}
  BY DEF Quote, Backslash, Space, Comma, Closing, Opening

LEMMA KeyIs == Len(key) = 4 /\ key[1] = Quote /\ key[2] = "te" /\ key[3] = "xt" /\ key[4] = Quote
  BY DEF key, TextName

LEMMA ConcatIs ==
  ASSUME NEW T, NEW s \in Seq(T), NEW t \in Seq(T)
  PROVE  /\ s \o t \in Seq(T) /\ Len(s) \in Nat /\ Len(t) \in Nat /\ Len(s \o t) = Len(s) + Len(t)
         /\ \A j \in 1..Len(s) : (s \o t)[j] = s[j]
         /\ \A j \in 1..Len(t) : (s \o t)[Len(s) + j] = t[j]
<1>1. Len(s) \in Nat /\ Len(t) \in Nat /\ s \o t \in Seq(T)
  BY ConcatProperties
<1>2. \A j \in 1..Len(t) : Len(s) + j - Len(s) = j
  BY <1>1
<1> QED BY <1>1, <1>2

LEMMA JoiningExists ==
  ASSUME NEW T, NEW ss \in Seq(Seq(T))
  PROVE  \E f : f = [k \in 0..Len(ss) |-> IF k = 0 THEN << >> ELSE f[k - 1] \o ss[k]]
<1> DEFINE N == Len(ss)
           Upto(m, f) == f = [k \in 0..m |-> IF k = 0 THEN << >> ELSE f[k - 1] \o ss[k]]
           Bad == {m \in Nat : ~\E f : Upto(m, f)}
<1>1. N \in Nat
  OBVIOUS
<1>2. ASSUME Bad # {} PROVE FALSE
  <2>1. PICK m \in Bad : \A k \in Bad : m <= k
    <3> HIDE DEF Upto
    <3> QED BY <1>2, LeastNumber
  <2>2. m # 0
    <3>1. Upto(0, [k \in 0..0 |-> << >>])
      OBVIOUS
    <3> HIDE DEF Upto
    <3> QED BY <3>1
  <2>3. m \in Nat /\ m - 1 \in Nat /\ ~(m <= m - 1)
    BY <2>2
  <2>4. PICK f : Upto(m - 1, f)
    <3> HIDE DEF Upto
    <3> QED BY <2>1, <2>3
  <2> DEFINE g == [k \in 0..m |-> IF k = m THEN f[m - 1] \o ss[m] ELSE f[k]]
  <2>5. Upto(m, g)
    <3>1. \A k \in 0..(m - 1) : f[k] = IF k = 0 THEN << >> ELSE f[k - 1] \o ss[k]
      BY <2>4
    <3>2. g[m] = f[m - 1] \o ss[m] /\ \A k \in 0..(m - 1) : g[k] = f[k]
      <4>1. m \in 0..m /\ \A k \in 0..(m - 1) : k \in 0..m /\ k # m
        BY <2>3
      <4> QED BY <4>1, Zenon
    <3>3. ASSUME NEW k \in 0..m PROVE g[k] = IF k = 0 THEN << >> ELSE g[k - 1] \o ss[k]
      <4>1. CASE k = m
        BY <2>2, <2>3, <3>2, <4>1
      <4>2. CASE k # m
        <5>1. k \in 0..(m - 1) /\ (k # 0 => k - 1 \in 0..(m - 1))
          BY <2>3, <4>2
        <5> HIDE DEF g
        <5> QED BY <3>1, <3>2, <5>1
      <4> QED BY <4>1, <4>2
    <3> QED BY <3>3
  <2> HIDE DEF Upto, g
  <2> QED BY <2>1, <2>5
<1> HIDE DEF Upto
<1>3. \E f : Upto(N, f)
  BY <1>1, <1>2
<1> QED BY <1>3 DEF Upto

LEMMA JoiningIs ==
  ASSUME NEW T, NEW ss \in Seq(Seq(T))
  PROVE  Joining(ss) = [k \in 0..Len(ss) |-> IF k = 0 THEN << >> ELSE Joining(ss)[k - 1] \o ss[k]]
  BY JoiningExists DEF Joining

\* What is joined of the first parts is a sequence, and a part more is added behind it.
LEMMA JoiningAdds ==
  ASSUME NEW T, NEW ss \in Seq(Seq(T))
  PROVE  /\ Joining(ss)[0] = << >>
         /\ \A k \in 0..Len(ss) : Joining(ss)[k] \in Seq(T)
         /\ \A k \in 1..Len(ss) : Joining(ss)[k] = Joining(ss)[k - 1] \o ss[k]
<1> DEFINE N == Len(ss)
           J == Joining(ss)
           Bad == {k \in 0..N : J[k] \notin Seq(T)}
<1>1. N \in Nat /\ \A k \in 1..N : ss[k] \in Seq(T)
  OBVIOUS
<1>2. J = [k \in 0..N |-> IF k = 0 THEN << >> ELSE J[k - 1] \o ss[k]]
  BY JoiningIs
<1> HIDE DEF N, J
<1>3. J[0] = << >> /\ \A k \in 1..N : J[k] = J[k - 1] \o ss[k]
  <2>1. 0 \in 0..N /\ \A k \in 1..N : k \in 0..N /\ k # 0
    BY <1>1
  <2> QED BY <1>2, <2>1, Zenon
<1>4. ASSUME Bad # {} PROVE FALSE
  <2>0. Bad \subseteq Nat
    BY <1>1
  <2>1. PICK m \in Bad : \A k \in Bad : m <= k
    <3> HIDE DEF Bad
    <3> QED BY <1>4, <2>0, LeastNumber
  <2>2. m # 0
    <3>1. J[0] \in Seq(T)
      BY <1>3
    <3> QED BY <3>1
  <2>3. m \in 1..N /\ m - 1 \in 0..N /\ ~(m <= m - 1)
    BY <1>1, <2>2
  <2>4. J[m - 1] \in Seq(T)
    BY <2>1, <2>3
  <2>5. J[m - 1] \o ss[m] \in Seq(T)
    BY <1>1, <2>3, <2>4, ConcatProperties
  <2> QED BY <1>3, <2>3, <2>5
<1> QED BY <1>3, <1>4 DEF N, J

\* The beginning of what is joined stays when more is joined.
LEMMA JoiningGrows ==
  ASSUME NEW T, NEW ss \in Seq(Seq(T)), NEW a \in 0..Len(ss), NEW b \in 0..Len(ss), a <= b
  PROVE  /\ Len(Joining(ss)[a]) <= Len(Joining(ss)[b])
         /\ \A j \in 1..Len(Joining(ss)[a]) : Joining(ss)[b][j] = Joining(ss)[a][j]
<1> DEFINE N == Len(ss)
           J == Joining(ss)
           Same(c) == Len(J[a]) <= Len(J[c]) /\ \A j \in 1..Len(J[a]) : J[c][j] = J[a][j]
           Bad == {c \in a..N : ~Same(c)}
<1>1. N \in Nat /\ \A k \in 1..N : ss[k] \in Seq(T)
  OBVIOUS
<1>2. (\A k \in 0..N : J[k] \in Seq(T)) /\ \A k \in 1..N : J[k] = J[k - 1] \o ss[k]
  BY JoiningAdds
<1>3. a \in 0..N /\ b \in a..N /\ Same(a)
  BY <1>1, <1>2
<1> HIDE DEF N, J
<1>4. ASSUME Bad # {} PROVE FALSE
  <2>0. Bad \subseteq Nat
    BY <1>1, <1>3
  <2>1. PICK m \in Bad : \A k \in Bad : m <= k
    <3> HIDE DEF Bad
    <3> QED BY <1>4, <2>0, LeastNumber
  <2>2. m # a
    <3> HIDE DEF Same
    <3> QED BY <1>3, <2>1
  <2>3. m \in 1..N /\ m \in 0..N /\ m - 1 \in a..N /\ m - 1 \in 0..N /\ ~(m <= m - 1)
    BY <1>1, <1>3, <2>2
  <2>4. Same(m - 1)
    <3> HIDE DEF Same
    <3> QED BY <2>1, <2>3
  <2>5. J[m] = J[m - 1] \o ss[m] /\ J[m - 1] \in Seq(T) /\ ss[m] \in Seq(T) /\ J[a] \in Seq(T)
    BY <1>1, <1>2, <1>3, <2>3
  <2> DEFINE A == J[a]
             B == J[m - 1]
             C == ss[m]
  <2>6. Len(A) \in Nat /\ Len(B) \in Nat /\ Len(C) \in Nat
    BY <2>5
  <2>7. Len(B \o C) = Len(B) + Len(C) /\ \A j \in 1..Len(B) : (B \o C)[j] = B[j]
    BY <2>5, ConcatIs
  <2>8. J[m] = B \o C /\ A = J[a]
    BY <2>5
  <2> HIDE DEF A, B, C
  <2>9. Len(A) <= Len(B) /\ \A j \in 1..Len(A) : B[j] = A[j]
    BY <2>4 DEF A, B
  <2>10. Len(A) <= Len(B \o C) /\ \A j \in 1..Len(A) : (B \o C)[j] = A[j]
    BY <2>6, <2>7, <2>9
  <2>11. Same(m)
    BY <2>8, <2>10
  <2> HIDE DEF Same
  <2> QED BY <2>1, <2>11
<1> HIDE DEF Same
<1>5. Same(b)
  BY <1>3, <1>4
<1> QED BY <1>5 DEF Same, J

LEMMA JoinedEmpty == Joined(<< >>) = << >>
<1>1. << >> \in Seq(Seq({})) /\ Len(<< >>) = 0
  OBVIOUS
<1> QED BY <1>1, JoiningAdds DEF Joined

LEMMA JoinedAppend ==
  ASSUME NEW T, NEW ss \in Seq(Seq(T)), NEW x \in Seq(T)
  PROVE  Joined(Append(ss, x)) = Joined(ss) \o x
<1> DEFINE N == Len(ss)
           longer == Append(ss, x)
           J == Joining(ss)
           L == Joining(longer)
           Bad == {k \in 0..N : L[k] # J[k]}
<1>1. /\ N \in Nat /\ longer \in Seq(Seq(T)) /\ Len(longer) = N + 1 /\ longer[N + 1] = x
      /\ \A k \in 1..N : longer[k] = ss[k]
  OBVIOUS
<1>2. J[0] = << >> /\ \A k \in 1..N : J[k] = J[k - 1] \o ss[k]
  BY JoiningAdds
<1>3. L[0] = << >> /\ \A k \in 1..(N + 1) : L[k] = L[k - 1] \o longer[k]
  <2> HIDE DEF longer
  <2> QED BY <1>1, JoiningAdds
<1>4. Joined(longer) = L[N + 1] /\ Joined(ss) = J[N]
  BY <1>1 DEF Joined
<1> HIDE DEF N, J, L, longer
<1>5. ASSUME Bad # {} PROVE FALSE
  <2>0. Bad \subseteq Nat
    BY <1>1
  <2>1. PICK m \in Bad : \A k \in Bad : m <= k
    <3> HIDE DEF Bad
    <3> QED BY <1>5, <2>0, LeastNumber
  <2>2. m # 0
    BY <1>2, <1>3
  <2>3. m \in 1..N /\ m \in 1..(N + 1) /\ m - 1 \in 0..N /\ ~(m <= m - 1)
    BY <1>1, <2>2
  <2>4. L[m - 1] = J[m - 1]
    BY <2>1, <2>3
  <2>5. L[m] = J[m]
    BY <1>1, <1>2, <1>3, <2>3, <2>4
  <2> QED BY <2>1, <2>5
<1>6. L[N] = J[N]
  <2>1. N \in 0..N
    BY <1>1
  <2> QED BY <1>5, <2>1
<1>7. L[N + 1] = J[N] \o x
  <2> DEFINE p == N + 1
  <2>1. p \in 1..(N + 1) /\ p - 1 = N /\ longer[p] = x
    BY <1>1
  <2> HIDE DEF p
  <2>2. L[p] = L[p - 1] \o longer[p]
    BY <1>3, <2>1
  <2>3. L[p] = J[N] \o x
    BY <1>6, <2>1, <2>2
  <2> QED BY <2>3 DEF p
<1> QED BY <1>4, <1>7 DEF longer

LEMMA JoinedHead ==
  ASSUME NEW T, NEW ss \in Seq(Seq(T)), ss # << >>
  PROVE  /\ Joined(Tail(ss)) \in Seq(T) /\ Joined(ss) \in Seq(T) /\ Head(ss) \in Seq(T)
         /\ Joined(ss) = Head(ss) \o Joined(Tail(ss))
<1> DEFINE h == Head(ss)
           rest == Tail(ss)
           N == Len(rest)
           J == Joining(ss)
           L == Joining(rest)
           Bad == {k \in 0..N : J[k + 1] # h \o L[k]}
<1>1. /\ N \in Nat /\ rest \in Seq(Seq(T)) /\ Len(ss) = N + 1 /\ ss[1] = h /\ h \in Seq(T)
      /\ \A k \in 1..N : ss[k + 1] = rest[k] /\ rest[k] \in Seq(T)
  OBVIOUS
<1>2. J[0] = << >> /\ \A k \in 1..(N + 1) : J[k] = J[k - 1] \o ss[k]
  BY <1>1, JoiningAdds
<1>3. L[0] = << >> /\ (\A k \in 0..N : L[k] \in Seq(T)) /\ \A k \in 1..N : L[k] = L[k - 1] \o rest[k]
  <2> HIDE DEF rest
  <2> QED BY <1>1, JoiningAdds
<1>4. Joined(rest) = L[N] /\ Joined(ss) = J[N + 1]
  BY <1>1 DEF Joined
<1>5. J[N + 1] \in Seq(T)
  <2>1. N + 1 \in 0..Len(ss)
    BY <1>1
  <2> QED BY <2>1, JoiningAdds
<1> HIDE DEF N, J, L, rest, h
<1>9. \A u, w \in Seq(T) : (h \o u) \o w = h \o (u \o w)
  BY <1>1, ConcatAssociative
<1>6. J[1] = h \o L[0]
  <2>1. 1 \in 1..(N + 1) /\ 1 - 1 = 0
    BY <1>1
  <2>2. << >> \o h = h /\ h \o << >> = h
    BY <1>1, ConcatEmptySeq
  <2> QED BY <1>1, <1>2, <1>3, <2>1, <2>2
<1>7. ASSUME Bad # {} PROVE FALSE
  <2>0. Bad \subseteq Nat
    BY <1>1
  <2>1. PICK m \in Bad : \A k \in Bad : m <= k
    <3> HIDE DEF Bad
    <3> QED BY <1>7, <2>0, LeastNumber
  <2>2. m # 0
    BY <1>6
  <2>3. m \in 1..N /\ m + 1 \in 1..(N + 1) /\ m - 1 \in 0..N /\ ~(m <= m - 1) /\ m - 1 + 1 = m /\ m + 1 - 1 = m
    BY <1>1, <2>2
  <2>4. J[m] = h \o L[m - 1]
    BY <2>1, <2>3
  <2>5. J[m + 1] = (h \o L[m - 1]) \o rest[m]
    <3> DEFINE p == m + 1
    <3>1. p \in 1..(N + 1) /\ p - 1 = m /\ ss[p] = rest[m]
      BY <1>1, <2>3
    <3> HIDE DEF p
    <3>2. J[p] = J[p - 1] \o ss[p]
      BY <1>2, <3>1
    <3>3. J[p] = (h \o L[m - 1]) \o rest[m]
      BY <2>4, <3>1, <3>2
    <3> QED BY <3>3 DEF p
  <2>6. (h \o L[m - 1]) \o rest[m] = h \o (L[m - 1] \o rest[m])
    <3> DEFINE u == L[m - 1]
               w == rest[m]
    <3>1. h \in Seq(T) /\ u \in Seq(T) /\ w \in Seq(T)
      BY <1>1, <1>3, <2>3, Zenon
    <3> HIDE DEF u, w
    <3>2. (h \o u) \o w = h \o (u \o w)
      BY <1>9, <3>1
    <3> QED BY <3>2 DEF u, w
  <2>7. J[m + 1] = h \o L[m]
    BY <1>3, <2>3, <2>5, <2>6
  <2> QED BY <2>1, <2>7
<1>8. J[N + 1] = h \o L[N] /\ L[N] \in Seq(T)
  <2>1. N \in 0..N
    BY <1>1
  <2> QED BY <1>3, <1>7, <2>1
<1> QED BY <1>1, <1>4, <1>5, <1>8 DEF h, rest

LEMMA ReadingIs ==
  ASSUME NEW t, NEW s, Len(s) \in Nat
  PROVE  /\ Reading(t, s)[0] = [out |-> << >>, pending |-> t.pending, closed |-> FALSE]
         /\ \A k \in 1..Len(s) : Reading(t, s)[k] = ReadSymbol(Reading(t, s)[k - 1], s[k])
<1> DEFINE N == Len(s)
           start == [out |-> << >>, pending |-> t.pending, closed |-> FALSE]
           Upto(m, f) == f = [k \in 0..m |-> IF k = 0 THEN start ELSE ReadSymbol(f[k - 1], s[k])]
           Bad == {m \in Nat : ~\E f : Upto(m, f)}
<1>1. N \in Nat
  OBVIOUS
<1> HIDE DEF start
<1>2. ASSUME Bad # {} PROVE FALSE
  <2>1. PICK m \in Bad : \A k \in Bad : m <= k
    <3> HIDE DEF Upto
    <3> QED BY <1>2, LeastNumber
  <2>2. m # 0
    <3>1. Upto(0, [k \in 0..0 |-> start])
      OBVIOUS
    <3> HIDE DEF Upto
    <3> QED BY <3>1
  <2>3. m \in Nat /\ m - 1 \in Nat /\ ~(m <= m - 1)
    BY <2>2
  <2>4. PICK f : Upto(m - 1, f)
    <3> HIDE DEF Upto
    <3> QED BY <2>1, <2>3
  <2> DEFINE g == [k \in 0..m |-> IF k = m THEN ReadSymbol(f[m - 1], s[m]) ELSE f[k]]
  <2>5. Upto(m, g)
    <3>1. \A k \in 0..(m - 1) : f[k] = IF k = 0 THEN start ELSE ReadSymbol(f[k - 1], s[k])
      BY <2>4
    <3>2. g[m] = ReadSymbol(f[m - 1], s[m]) /\ \A k \in 0..(m - 1) : g[k] = f[k]
      <4>1. m \in 0..m /\ \A k \in 0..(m - 1) : k \in 0..m /\ k # m
        BY <2>3
      <4> QED BY <4>1, Zenon
    <3>3. ASSUME NEW k \in 0..m PROVE g[k] = IF k = 0 THEN start ELSE ReadSymbol(g[k - 1], s[k])
      <4>1. CASE k = m
        BY <2>2, <2>3, <3>2, <4>1
      <4>2. CASE k # m
        <5>1. k \in 0..(m - 1) /\ (k # 0 => k - 1 \in 0..(m - 1))
          BY <2>3, <4>2
        <5> HIDE DEF g
        <5> QED BY <3>1, <3>2, <5>1
      <4> QED BY <4>1, <4>2
    <3> QED BY <3>3
  <2> HIDE DEF Upto, g
  <2> QED BY <2>1, <2>5
<1> HIDE DEF Upto
<1>3. \E f : Upto(N, f)
  BY <1>1, <1>2
<1> USE DEF Upto
<1>4. Upto(N, Reading(t, s))
  BY <1>3 DEF Reading, start
<1>5. 0 \in 0..N /\ \A k \in 1..N : k \in 0..N /\ k # 0
  BY <1>1
<1>6. Reading(t, s)[0] = start /\ \A k \in 1..N : Reading(t, s)[k] = ReadSymbol(Reading(t, s)[k - 1], s[k])
  BY <1>4, <1>5, Zenon
<1> QED BY <1>6 DEF start

-----------------------------------------------------------------------------
\* How a document is written.

\* The symbols of a document.
Ink == STRING \cup {Quote, Backslash, Space, ":", Comma, Opening, Closing, "n", "u", "0", "e", "9", "null", "te", "xt", "s", "o"}

\* The key stands at p.
Spelled(s, p) ==
  /\ p \in Nat /\ 1 <= p /\ p + 3 <= Len(s)
  /\ s[p] = Quote /\ s[p + 1] = "te" /\ s[p + 2] = "xt" /\ s[p + 3] = Quote

LEMMA InkHas ==
  /\ Quote \in Ink /\ Backslash \in Ink /\ Space \in Ink /\ ":" \in Ink /\ Comma \in Ink /\ Opening \in Ink /\ Closing \in Ink
  /\ "n" \in Ink /\ "u" \in Ink /\ "0" \in Ink /\ "e" \in Ink /\ "9" \in Ink /\ "null" \in Ink
  /\ "te" \in Ink /\ "xt" \in Ink /\ "s" \in Ink /\ "o" \in Ink
  /\ \A c \in STRING : c \in Ink
  BY DEF Ink

LEMMA KeyAtIs == ASSUME NEW T, NEW s \in Seq(T), NEW p PROVE p \in KeyAt(s) <=> Spelled(s, p)
<1>1. DOMAIN s = 1..Len(s) /\ Len(s) \in Nat
  OBVIOUS
<1>2. DOMAIN key = 1..4
  BY DEF key, TextName
<1>3. p \in KeyAt(s) <=> p \in 1..Len(s) /\ p + 4 - 1 <= Len(s) /\ \A j \in 1..4 : s[p + j - 1] = key[j]
  BY <1>1, <1>2, KeyIs DEF KeyAt
<1>4. ASSUME p \in Nat PROVE p + 4 - 1 = p + 3 /\ p + 1 - 1 = p /\ p + 2 - 1 = p + 1 /\ p + 3 - 1 = p + 2
  BY <1>4
<1>5. \A j : j \in 1..4 <=> j \in {1, 2, 3, 4}
  OBVIOUS
<1>6. ASSUME p \in Nat
      PROVE  (\A j \in 1..4 : s[p + j - 1] = key[j])
               <=> s[p] = Quote /\ s[p + 1] = "te" /\ s[p + 2] = "xt" /\ s[p + 3] = Quote
  <2>1. (\A j \in 1..4 : s[p + j - 1] = key[j])
          <=> s[p + 1 - 1] = key[1] /\ s[p + 2 - 1] = key[2] /\ s[p + 3 - 1] = key[3] /\ s[p + 4 - 1] = key[4]
    BY <1>5, Zenon
  <2> QED BY <1>4, <1>6, <2>1, KeyIs, Zenon
<1>7. (p \in 1..Len(s) /\ p + 3 <= Len(s)) <=> (p \in Nat /\ 1 <= p /\ p + 3 <= Len(s))
  BY <1>1
<1>8. p \in 1..Len(s) => p \in Nat
  BY <1>1
<1> QED BY <1>3, <1>4, <1>6, <1>7, <1>8 DEF Spelled

\* What is between two parts and has no symbol of the key in it keeps their keys apart.
LEMMA SpelledApart ==
  ASSUME NEW T, NEW A \in Seq(T), NEW G \in Seq(T), NEW B \in Seq(T), G # << >>,
         \A j \in 1..Len(G) : G[j] \notin {Quote, "te", "xt"},
         NEW p, Spelled((A \o G) \o B, p)
  PROVE  Spelled(A, p) \/ Spelled(B, p - Len(A) - Len(G))
<1> DEFINE a == Len(A)
           g == Len(G)
           b == Len(B)
           s == (A \o G) \o B
<1>1. a \in Nat /\ g \in Nat /\ b \in Nat /\ g >= 1
  BY EmptySeq
<1>2. A \o G \in Seq(T) /\ Len(A \o G) = a + g /\ (\A j \in 1..a : (A \o G)[j] = A[j])
      /\ \A j \in 1..g : (A \o G)[a + j] = G[j]
  BY ConcatIs
<1>3. Len(s) = a + g + b /\ (\A j \in 1..(a + g) : s[j] = (A \o G)[j]) /\ \A j \in 1..b : s[a + g + j] = B[j]
  BY <1>2, ConcatIs
<1>4. \A j \in 1..g : G[j] \notin {Quote, "te", "xt"}
  OBVIOUS
<1>5. Spelled(s, p)
  OBVIOUS
<1> HIDE DEF a, g, b, s
<1>6. \A j \in 1..a : s[j] = A[j]
  <2>1. \A j \in 1..a : j \in 1..(a + g)
    BY <1>1
  <2> QED BY <1>2, <1>3, <2>1
<1>7. ASSUME NEW q \in Nat, a < q, q <= a + g PROVE s[q] \notin {Quote, "te", "xt"}
  <2>1. PICK j \in 1..g : q = a + j
    <3>1. q - a \in 1..g /\ q = a + (q - a)
      BY <1>1, <1>7
    <3> QED BY <3>1
  <2>2. q \in 1..(a + g)
    BY <1>1, <1>7
  <2> QED BY <1>2, <1>3, <1>4, <2>1, <2>2
<1>8. \A q, j \in Nat : 1 <= j /\ j <= b /\ q = a + g + j => s[q] = B[j]
  BY <1>1, <1>3
<1>9. /\ p \in Nat /\ 1 <= p /\ p + 3 <= a + g + b
      /\ s[p] = Quote /\ s[p + 1] = "te" /\ s[p + 2] = "xt" /\ s[p + 3] = Quote
  BY <1>3, <1>5 DEF Spelled
<1>10. CASE p + 3 <= a
  <2>1. p \in 1..a /\ p + 1 \in 1..a /\ p + 2 \in 1..a /\ p + 3 \in 1..a
    BY <1>1, <1>9, <1>10
  <2> QED BY <1>6, <1>9, <1>10, <2>1 DEF Spelled, a
<1>11. CASE p > a + g
  <2> DEFINE r == p - a - g
  <2>1. r \in Nat /\ 1 <= r /\ r + 3 <= b /\ p = a + g + r
    BY <1>1, <1>9, <1>11
  <2> HIDE DEF r
  <2>2. s[p] = B[r] /\ s[p + 1] = B[r + 1] /\ s[p + 2] = B[r + 2] /\ s[p + 3] = B[r + 3]
    <3>1. r + 1 \in Nat /\ r + 2 \in Nat /\ r + 3 \in Nat /\ p \in Nat /\ p + 1 \in Nat /\ p + 2 \in Nat /\ p + 3 \in Nat
      BY <1>9, <2>1
    <3>2. p + 1 = a + g + (r + 1) /\ p + 2 = a + g + (r + 2) /\ p + 3 = a + g + (r + 3)
      BY <1>1, <2>1
    <3> QED BY <1>1, <1>8, <2>1, <3>1, <3>2
  <2>4. Spelled(B, r)
    BY <1>9, <2>1, <2>2 DEF Spelled, b
  <2> QED BY <2>4 DEF r, a, g
<1>12. CASE p + 3 > a /\ p <= a + g
  <2>1. CASE p > a
    BY <1>7, <1>9, <1>12, <2>1
  <2>2. CASE p <= a
    <3>1. a + 1 \in {p + 1, p + 2, p + 3} /\ a + 1 \in Nat /\ a < a + 1 /\ a + 1 <= a + g
      BY <1>1, <1>9, <1>12, <2>2
    <3>2. s[a + 1] \notin {Quote, "te", "xt"}
      BY <1>7, <3>1
    <3> QED BY <1>9, <3>1, <3>2
  <2> QED BY <1>1, <1>9, <2>1, <2>2
<1> QED BY <1>1, <1>9, <1>10, <1>11, <1>12

Character == STRING \ {Quote, Backslash}
ValueParts(v) == [i \in DOMAIN v |-> Written(v[i])]

\* A quotation mark in what is written is behind a backslash.
Escaped(s) == \A j \in 1..Len(s) : s[j] = Quote => j > 1 /\ s[j - 1] = Backslash

LEMMA ListingLength == ASSUME NEW T, NEW n \in Nat, NEW s \in [1..n -> T] PROVE s \in Seq(T) /\ Len(s) = n
<1>1. s \in Seq(T)
  OBVIOUS
<1>2. DOMAIN s = 1..n /\ DOMAIN s = 1..Len(s) /\ Len(s) \in Nat
  BY <1>1, LenProperties
<1> QED BY <1>1, <1>2

LEMMA OneIs == ASSUME NEW T, NEW x \in T PROVE <<x>> \in Seq(T) /\ Len(<<x>>) = 1 /\ <<x>>[1] = x
  OBVIOUS

LEMMA TwoIs ==
  ASSUME NEW T, NEW x \in T, NEW y \in T
  PROVE  <<x, y>> \in Seq(T) /\ Len(<<x, y>>) = 2 /\ <<x, y>>[1] = x /\ <<x, y>>[2] = y
  OBVIOUS

LEMMA SixIs ==
  ASSUME NEW T, NEW a \in T, NEW b \in T, NEW c \in T, NEW d \in T, NEW e \in T, NEW f \in T
  PROVE  LET s == <<a, b, c, d, e, f>> IN
         /\ s \in Seq(T) /\ Len(s) = 6
         /\ s[1] = a /\ s[2] = b /\ s[3] = c /\ s[4] = d /\ s[5] = e /\ s[6] = f
  OBVIOUS

LEMMA QuotedIs ==
  ASSUME NEW body \in Seq(Ink)
  PROVE  LET s == <<Quote>> \o body \o <<Quote>> IN
         /\ s \in Seq(Ink) /\ Len(body) \in Nat /\ Len(s) = Len(body) + 2
         /\ s[1] = Quote /\ s[Len(body) + 2] = Quote
         /\ \A q, j \in Nat : 1 <= j /\ j <= Len(body) /\ q = j + 1 => s[q] = body[j]
<1> DEFINE l == <<Quote>>
           m == l \o body
           s == m \o l
           n == Len(body)
<1>1. l \in Seq(Ink) /\ Len(l) = 1 /\ l[1] = Quote
  BY InkHas, OneIs
<1> HIDE DEF l
<1>2. m \in Seq(Ink) /\ n \in Nat /\ Len(m) = 1 + n /\ (\A j \in 1..1 : m[j] = l[j]) /\ \A j \in 1..n : m[1 + j] = body[j]
  BY <1>1, ConcatIs
<1>3. s \in Seq(Ink) /\ Len(s) = n + 2 /\ (\A j \in 1..(1 + n) : s[j] = m[j]) /\ \A j \in 1..1 : s[1 + n + j] = l[j]
  <2> HIDE DEF m
  <2>1. /\ s \in Seq(Ink) /\ Len(s) = Len(m) + 1 /\ (\A j \in 1..Len(m) : s[j] = m[j])
        /\ \A j \in 1..1 : s[Len(m) + j] = l[j]
    BY <1>1, <1>2, ConcatIs
  <2> HIDE DEF n, s
  <2> QED BY <1>2, <2>1
<1> HIDE DEF m, n, s
<1>4. s[1] = Quote
  BY <1>1, <1>2, <1>3
<1>5. s[n + 2] = Quote
  <2>1. 1 + n + 1 = n + 2
    BY <1>2
  <2> QED BY <1>1, <1>3, <2>1
<1>6. ASSUME NEW q \in Nat, NEW j \in Nat, 1 <= j, j <= n, q = j + 1 PROVE s[q] = body[j]
  <2>1. m[1 + j] = body[j] /\ q \in 1..(1 + n) /\ 1 + j = q
    BY <1>2, <1>6
  <2> QED BY <1>3, <2>1
<1> QED BY <1>2, <1>3, <1>4, <1>5, <1>6 DEF s, m, n, l

LEMMA StringSpelled ==
  ASSUME NEW body \in Seq(Ink), Escaped(body), NEW p, Spelled(<<Quote>> \o body \o <<Quote>>, p)
  PROVE  p + 3 = Len(<<Quote>> \o body \o <<Quote>>) /\ (p = 1 \/ (p > 1 /\ body[p - 1] = Quote))
<1> DEFINE s == <<Quote>> \o body \o <<Quote>>
           n == Len(body)
<1>1. /\ n \in Nat /\ Len(s) = n + 2
      /\ \A q, j \in Nat : 1 <= j /\ j <= n /\ q = j + 1 => s[q] = body[j]
  BY QuotedIs
<1>2. /\ p \in Nat /\ 1 <= p /\ p + 3 <= n + 2
      /\ s[p] = Quote /\ s[p + 1] = "te" /\ s[p + 2] = "xt" /\ s[p + 3] = Quote
  BY <1>1 DEF Spelled
<1>3. \A j \in 1..n : body[j] = Quote => j > 1 /\ body[j - 1] = Backslash
  BY DEF Escaped
<1> HIDE DEF s, n
<1>4. ASSUME p + 3 < n + 2 PROVE FALSE
  <2>1. p + 2 \in 1..n /\ p + 3 \in Nat /\ p + 2 \in Nat /\ p + 1 \in Nat /\ p + 3 = (p + 2) + 1 /\ p + 2 = (p + 1) + 1
        /\ p + 1 <= n /\ p + 2 <= n
    BY <1>1, <1>2, <1>4
  <2>2. s[p + 3] = body[p + 2] /\ s[p + 2] = body[p + 1]
    BY <1>1, <1>2, <2>1
  <2> DEFINE q == p + 2
  <2>3. q \in 1..n /\ body[q] = Quote /\ body[q - 1] = "xt"
    BY <1>2, <2>1, <2>2
  <2> HIDE DEF q
  <2> QED BY <1>3, <2>3, Signs
<1>5. ASSUME p # 1 PROVE p > 1 /\ body[p - 1] = Quote
  <2> DEFINE o == p - 1
  <2>1. o \in Nat /\ 1 <= o /\ o <= n /\ p = o + 1 /\ p > 1
    BY <1>1, <1>2, <1>5
  <2> HIDE DEF o
  <2>2. body[o] = Quote
    BY <1>1, <1>2, <2>1
  <2> QED BY <2>1, <2>2 DEF o
<1>6. p + 3 = Len(s)
  BY <1>1, <1>2, <1>4
<1>7. p = 1 \/ (p > 1 /\ body[p - 1] = Quote)
  BY <1>5
<1> QED BY <1>6, <1>7 DEF s

LEMMA NameSpelled ==
  ASSUME NEW name \in Seq(Plain), NEW p, Spelled(<<Quote>> \o name \o <<Quote>>, p)
  PROVE  p = 1 /\ name = TextName
<1> DEFINE s == <<Quote>> \o name \o <<Quote>>
<1>1. name \in Seq(Ink) /\ \A j \in 1..Len(name) : name[j] # Quote /\ name[j] \in Ink
  <2>1. \A c \in Plain : c \in Ink /\ c # Quote
    BY InkHas DEF Plain
  <2>2. \A j \in 1..Len(name) : name[j] \in Plain
    OBVIOUS
  <2>3. Len(name) \in Nat /\ name \in [1..Len(name) -> Ink]
    <3>1. name = [j \in 1..Len(name) |-> name[j]]
      OBVIOUS
    <3> QED BY <2>1, <2>2, <3>1
  <2> QED BY <2>1, <2>2, <2>3
<1>2. Escaped(name)
  BY <1>1 DEF Escaped
<1>3. p + 3 = Len(s) /\ (p = 1 \/ (p > 1 /\ name[p - 1] = Quote))
  BY <1>1, <1>2, StringSpelled
<1>4. /\ Len(name) \in Nat /\ Len(s) = Len(name) + 2
      /\ \A q, j \in Nat : 1 <= j /\ j <= Len(name) /\ q = j + 1 => s[q] = name[j]
  BY <1>1, QuotedIs
<1>5. p \in Nat /\ s[p + 1] = "te" /\ s[p + 2] = "xt"
  BY DEF Spelled
<1> HIDE DEF s
<1>6. p = 1 /\ Len(name) = 2
  <2>1. p > 1 => p - 1 \in 1..Len(name)
    BY <1>3, <1>4, <1>5
  <2>2. p = 1
    BY <1>1, <1>3, <2>1
  <2> DEFINE n == Len(name)
  <2>3. 1 + 3 = n + 2 /\ n \in Nat
    BY <1>3, <1>4, <2>2
  <2> HIDE DEF n
  <2>4. n = 2
    BY <2>3
  <2> QED BY <2>2, <2>4 DEF n
<1>7. name[1] = "te" /\ name[2] = "xt"
  BY <1>4, <1>5, <1>6
<1>8. name = TextName
  BY <1>6, <1>7 DEF TextName
<1> QED BY <1>6, <1>8

LEMMA WrittenIs ==
  ASSUME NEW ch \in Character
  PROVE  /\ Written(ch) \in Seq(Ink) /\ Len(Written(ch)) \in 1..6 /\ Escaped(Written(ch))
         /\ ch \notin {"newline", "quote", "eacute"} => Written(ch) = <<ch>>
         /\ ch = "newline" => Written(ch) = <<Backslash, "n">>
         /\ ch = "quote" => Written(ch) = <<Backslash, Quote>>
         /\ ch = "eacute" => Written(ch) = <<Backslash, "u", "0", "0", "e", "9">>
<1>1. CASE ch = "newline"
  <2> DEFINE w == <<Backslash, "n">>
  <2>1. Written(ch) = w
    BY <1>1 DEF Written
  <2>2. w \in Seq(Ink) /\ Len(w) = 2 /\ w[1] = Backslash /\ w[2] = "n"
    BY InkHas, TwoIs
  <2>3. "n" # Quote
    BY DEF Quote
  <2> HIDE DEF w
  <2>4. \A j \in 1..2 : w[j] = Quote => j > 1 /\ w[j - 1] = Backslash
    <3>1. w[1] # Quote /\ w[2] # Quote
      BY <2>2, <2>3, Signs
    <3>2. \A j \in 1..2 : w[j] # Quote
      BY <3>1
    <3> QED BY <3>2
  <2>5. Escaped(w) /\ Len(w) \in 1..6
    BY <2>2, <2>4 DEF Escaped
  <2>6. Written(ch) = w /\ w = <<Backslash, "n">>
    BY <2>1 DEF w
  <2> QED BY <1>1, <2>2, <2>5, <2>6
<1>2. CASE ch = "quote"
  <2> DEFINE w == <<Backslash, Quote>>
  <2>1. Written(ch) = w
    BY <1>2 DEF Written
  <2>2. w \in Seq(Ink) /\ Len(w) = 2 /\ w[1] = Backslash /\ w[2] = Quote
    BY InkHas, TwoIs
  <2> HIDE DEF w
  <2>4. \A j \in 1..2 : w[j] = Quote => j > 1 /\ w[j - 1] = Backslash
    <3>1. w[1] # Quote /\ w[1] = Backslash
      BY <2>2, Signs
    <3>2. \A j \in 1..2 : j = 1 \/ (j = 2 /\ j - 1 = 1 /\ j > 1)
      OBVIOUS
    <3> QED BY <3>1, <3>2
  <2>5. Escaped(w) /\ Len(w) \in 1..6
    BY <2>2, <2>4 DEF Escaped
  <2>6. Written(ch) = w /\ w = <<Backslash, Quote>>
    BY <2>1 DEF w
  <2> QED BY <1>2, <2>2, <2>5, <2>6
<1>3. CASE ch = "eacute"
  <2> DEFINE w == <<Backslash, "u", "0", "0", "e", "9">>
  <2>1. Written(ch) = w
    BY <1>3 DEF Written
  <2>2. /\ w \in Seq(Ink) /\ Len(w) = 6
        /\ w[1] = Backslash /\ w[2] = "u" /\ w[3] = "0" /\ w[4] = "0" /\ w[5] = "e" /\ w[6] = "9"
    BY InkHas, SixIs
  <2>3. "u" # Quote /\ "0" # Quote /\ "e" # Quote /\ "9" # Quote
    BY DEF Quote
  <2> HIDE DEF w
  <2>4. \A j \in 1..6 : w[j] # Quote
    <3>1. w[1] # Quote /\ w[2] # Quote /\ w[3] # Quote /\ w[4] # Quote /\ w[5] # Quote /\ w[6] # Quote
      BY <2>2, <2>3, Signs
    <3>2. \A j \in 1..6 : j = 1 \/ j = 2 \/ j = 3 \/ j = 4 \/ j = 5 \/ j = 6
      OBVIOUS
    <3> QED BY <3>1, <3>2
  <2>5. Escaped(w) /\ Len(w) \in 1..6
    BY <2>2, <2>4 DEF Escaped
  <2>6. Written(ch) = w /\ w = <<Backslash, "u", "0", "0", "e", "9">>
    BY <2>1 DEF w
  <2> QED BY <1>3, <2>2, <2>5, <2>6
<1>4. CASE ch \notin {"newline", "quote", "eacute"}
  <2>1. Written(ch) = <<ch>>
    BY <1>4 DEF Written
  <2>2. ch \in Ink /\ ch # Quote
    BY InkHas DEF Character
  <2> DEFINE w == <<ch>>
  <2>3. w \in Seq(Ink) /\ Len(w) = 1 /\ w[1] = ch
    BY <2>2, OneIs
  <2> HIDE DEF w
  <2>4. Escaped(w) /\ Len(w) \in 1..6
    <3>1. \A j \in 1..1 : w[j] # Quote
      BY <2>2, <2>3
    <3> QED BY <2>3, <3>1 DEF Escaped
  <2>5. Written(ch) = w /\ w = <<ch>>
    BY <2>1 DEF w
  <2> QED BY <1>4, <2>3, <2>4, <2>5
<1> QED BY <1>1, <1>2, <1>3, <1>4

LEMMA ConcatEscaped ==
  ASSUME NEW s \in Seq(Ink), NEW t \in Seq(Ink), Escaped(s), Escaped(t)
  PROVE  Escaped(s \o t)
<1> DEFINE a == Len(s)
           b == Len(t)
           u == s \o t
<1>1. /\ a \in Nat /\ b \in Nat /\ Len(u) = a + b /\ (\A j \in 1..a : u[j] = s[j])
      /\ \A j \in 1..b : u[a + j] = t[j]
  BY ConcatIs
<1>2. /\ \A j \in 1..a : s[j] = Quote => j > 1 /\ s[j - 1] = Backslash
      /\ \A j \in 1..b : t[j] = Quote => j > 1 /\ t[j - 1] = Backslash
  BY DEF Escaped
<1> HIDE DEF a, b, u
<1>3. \A q, j \in Nat : 1 <= j /\ j <= b /\ q = a + j => u[q] = t[j]
  BY <1>1
<1>4. ASSUME NEW q \in 1..(a + b), u[q] = Quote PROVE q > 1 /\ u[q - 1] = Backslash
  <2>1. CASE q <= a
    <3>1. q \in 1..a /\ u[q] = s[q] /\ s[q - 1] = Backslash /\ q > 1
      BY <1>1, <1>2, <1>4, <2>1
    <3>2. q - 1 \in 1..a
      BY <1>1, <2>1, <3>1
    <3> QED BY <1>1, <3>1, <3>2
  <2>2. CASE q > a
    <3> DEFINE j == q - a
    <3>1. j \in 1..b /\ j \in Nat /\ q = a + j /\ q \in Nat /\ 1 <= j /\ j <= b
      BY <1>1, <2>2
    <3> HIDE DEF j
    <3>2. t[j] = Quote
      BY <1>3, <1>4, <3>1
    <3>3. j > 1 /\ t[j - 1] = Backslash
      BY <1>2, <3>1, <3>2
    <3>4. j - 1 \in Nat /\ q - 1 \in Nat /\ 1 <= j - 1 /\ j - 1 <= b /\ q - 1 = a + (j - 1) /\ q > 1
      BY <1>1, <3>1, <3>3
    <3>5. u[q - 1] = t[j - 1]
      BY <1>3, <3>4
    <3> QED BY <3>3, <3>4, <3>5
  <2> QED BY <1>1, <2>1, <2>2
<1> QED BY <1>1, <1>4 DEF Escaped, u

\* What is written of a value, character by character.
LEMMA ValueWritten ==
  ASSUME NEW v \in Seq(Character)
  PROVE  /\ ValueParts(v) \in Seq(Seq(Ink)) /\ Len(ValueParts(v)) = Len(v)
         /\ WrittenText(v) = Joining(ValueParts(v))[Len(v)]
         /\ \A k \in 1..Len(v) : ValueParts(v)[k] = Written(v[k]) /\ v[k] \in Character
         /\ WrittenText(v) \in Seq(Ink) /\ Escaped(WrittenText(v))
<1> DEFINE W == ValueParts(v)
           N == Len(v)
           J == Joining(W)
           Bad == {k \in 0..N : ~Escaped(J[k])}
<1>1. N \in Nat /\ DOMAIN v = 1..N /\ \A k \in 1..N : v[k] \in Character
  OBVIOUS
<1>2. \A k \in 1..N : W[k] = Written(v[k]) /\ W[k] \in Seq(Ink) /\ Escaped(W[k])
  BY <1>1, WrittenIs DEF ValueParts
<1>3. W \in Seq(Seq(Ink)) /\ Len(W) = N
  <2>1. W = [i \in 1..N |-> Written(v[i])]
    BY <1>1 DEF ValueParts
  <2> HIDE DEF W
  <2>2. W \in [1..N -> Seq(Ink)]
    BY <1>2, <2>1
  <2> HIDE DEF N
  <2>3. W \in Seq(Seq(Ink))
    BY <1>1, <2>2
  <2>5. Len(W) = N
    BY <1>1, <2>2, ListingLength
  <2> QED BY <2>3, <2>5
<1>4. WrittenText(v) = J[N]
  BY <1>3 DEF WrittenText, Joined, ValueParts
<1> HIDE DEF W, N
<1>5. J[0] = << >> /\ (\A k \in 0..N : J[k] \in Seq(Ink)) /\ \A k \in 1..N : J[k] = J[k - 1] \o W[k]
  BY <1>3, JoiningAdds
<1> HIDE DEF J
<1>6. ASSUME Bad # {} PROVE FALSE
  <2>0. Bad \subseteq Nat
    BY <1>1
  <2>1. PICK m \in Bad : \A k \in Bad : m <= k
    <3> HIDE DEF Bad
    <3> QED BY <1>6, <2>0, LeastNumber
  <2>2. m # 0
    <3>1. Escaped(<< >>)
      BY DEF Escaped
    <3> QED BY <1>5, <3>1
  <2>3. m \in 1..N /\ m - 1 \in 0..N /\ ~(m <= m - 1)
    BY <1>1, <2>2
  <2>4. Escaped(J[m - 1])
    BY <2>1, <2>3
  <2>5. Escaped(J[m])
    BY <1>2, <1>5, <2>3, <2>4, ConcatEscaped
  <2> QED BY <2>1, <2>5
<1>7. N \in 0..N
  BY <1>1
<1>8. J[N] \in Seq(Ink) /\ Escaped(J[N])
  BY <1>5, <1>6, <1>7
<1> QED BY <1>1, <1>2, <1>3, <1>4, <1>8 DEF W, N, J

\* u is s and then t.
Follows(u, s, t) ==
  /\ u \in Seq(Ink) /\ Len(s) \in Nat /\ Len(t) \in Nat /\ Len(u) = Len(s) + Len(t)
  /\ \A j \in 1..Len(s) : u[j] = s[j]
  /\ \A q, j \in Nat : 1 <= j /\ j <= Len(t) /\ q = Len(s) + j => u[q] = t[j]

LEMMA ConcatFollows == ASSUME NEW s \in Seq(Ink), NEW t \in Seq(Ink) PROVE Follows(s \o t, s, t)
<1> DEFINE u == s \o t
           a == Len(s)
           b == Len(t)
<1>1. /\ u \in Seq(Ink) /\ a \in Nat /\ b \in Nat /\ Len(u) = a + b
      /\ (\A j \in 1..a : u[j] = s[j]) /\ \A j \in 1..b : u[a + j] = t[j]
  BY ConcatIs
<1> HIDE DEF u, a, b
<1>2. ASSUME NEW q \in Nat, NEW j \in Nat, 1 <= j, j <= b, q = a + j PROVE u[q] = t[j]
  BY <1>1, <1>2
<1> QED BY <1>1, <1>2 DEF u, a, b, Follows

LEMMA NullIs == WrittenValue(Null) = <<"null">> /\ (\A v : v # Null => WrittenValue(v) = WrittenString(v))
  BY DEF WrittenValue

LEMMA ValueSpelled ==
  ASSUME NEW v \in Seq(Character) \cup {Null}
  PROVE  /\ WrittenValue(v) \in Seq(Ink) /\ Len(WrittenValue(v)) \in Nat \ {0}
         /\ v = Null => WrittenValue(v)[1] = "null"
         /\ v # Null => /\ WrittenValue(v)[1] = Quote /\ Len(WrittenValue(v)) = Len(WrittenText(v)) + 2
                        /\ WrittenValue(v)[Len(WrittenText(v)) + 2] = Quote /\ Len(WrittenText(v)) \in Nat
                        /\ \A q, j \in Nat : 1 <= j /\ j <= Len(WrittenText(v)) /\ q = j + 1
                                               => WrittenValue(v)[q] = WrittenText(v)[j]
         /\ \A p : Spelled(WrittenValue(v), p)
                     => p + 3 = Len(WrittenValue(v)) /\ v # Null /\ KeyAt(WrittenString(v)) # {}
<1>1. CASE v = Null
  <2> DEFINE w == <<"null">>
  <2>1. w \in Seq(Ink) /\ Len(w) = 1 /\ w[1] = "null" /\ WrittenValue(v) = w
    BY <1>1, InkHas, OneIs, NullIs
  <2> HIDE DEF w
  <2>2. \A p : ~Spelled(w, p)
    <3>1. \A p \in Nat : 1 <= p => ~(p + 3 <= 1)
      OBVIOUS
    <3> QED BY <2>1, <3>1 DEF Spelled
  <2> QED BY <1>1, <2>1, <2>2
<1>2. CASE v # Null
  <2> DEFINE body == WrittenText(v)
             w == WrittenString(v)
             n == Len(body)
  <2>1. v \in Seq(Character) /\ WrittenValue(v) = w
    BY <1>2, NullIs
  <2>2. body \in Seq(Ink) /\ Escaped(body)
    BY <2>1, ValueWritten
  <2>3. w = <<Quote>> \o body \o <<Quote>>
    BY DEF WrittenString
  <2> HIDE DEF body, w
  <2>4. /\ w \in Seq(Ink) /\ n \in Nat /\ Len(w) = n + 2 /\ w[1] = Quote /\ w[n + 2] = Quote
        /\ \A q, j \in Nat : 1 <= j /\ j <= n /\ q = j + 1 => w[q] = body[j]
    BY <2>2, <2>3, QuotedIs
  <2>5. ASSUME NEW p, Spelled(w, p) PROVE p + 3 = Len(w) /\ KeyAt(w) # {}
    <3>1. p + 3 = Len(w)
      BY <2>2, <2>3, <2>5, StringSpelled
    <3>2. p \in KeyAt(w)
      BY <2>4, <2>5, KeyAtIs
    <3> QED BY <3>1, <3>2
  <2>6. n + 2 \in Nat \ {0}
    BY <2>4
  <2> QED BY <1>2, <2>1, <2>4, <2>5, <2>6 DEF body, w
<1> QED BY <1>1, <1>2

LEMMA PlainIsInk == ASSUME NEW s \in Seq(Plain) PROVE s \in Seq(Ink)
<1>1. \A c \in Plain : c \in Ink
  BY InkHas DEF Plain
<1>2. Len(s) \in Nat /\ \A j \in 1..Len(s) : s[j] \in Ink
  BY <1>1
<1>3. s \in [1..Len(s) -> Ink]
  <2>1. s = [j \in 1..Len(s) |-> s[j]]
    OBVIOUS
  <2> QED BY <1>2, <2>1
<1> QED BY <1>2, <1>3, ListingLength

LEMMA SpacesAreInk == ASSUME NEW s \in Seq({Space}) PROVE s \in Seq(Ink) /\ \A j \in 1..Len(s) : s[j] = Space
<1>1. Len(s) \in Nat /\ \A j \in 1..Len(s) : s[j] = Space
  OBVIOUS
<1>2. \A j \in 1..Len(s) : s[j] \in Ink
  BY <1>1, InkHas
<1>3. s \in [1..Len(s) -> Ink]
  <2>1. s = [j \in 1..Len(s) |-> s[j]]
    OBVIOUS
  <2> QED BY <1>2, <2>1
<1> QED BY <1>1, <1>3, ListingLength

\* The colon and the spaces around it.
LEMMA GapIs ==
  ASSUME NEW gap \in Seq({Space})
  PROVE  LET G == gap \o <<":">> \o gap IN
         /\ G \in Seq(Ink) /\ Len(gap) \in Nat /\ Len(G) = 2 * Len(gap) + 1
         /\ G[Len(gap) + 1] = ":"
         /\ \A q \in 1..(2 * Len(gap) + 1) : q # Len(gap) + 1 => G[q] = Space
<1> DEFINE l == <<":">>
           g == Len(gap)
           m == gap \o l
           G == m \o gap
<1>1. l \in Seq(Ink) /\ Len(l) = 1 /\ l[1] = ":" /\ gap \in Seq(Ink)
  BY InkHas, OneIs, SpacesAreInk
<1>2. \A j \in 1..g : gap[j] = Space
  BY SpacesAreInk
<1> HIDE DEF l
<1>3. m \in Seq(Ink) /\ g \in Nat /\ Len(m) = g + 1 /\ (\A j \in 1..g : m[j] = gap[j]) /\ m[g + 1] = ":"
  <2>1. Len(gap) = g /\ gap \in Seq(Ink) /\ l \in Seq(Ink) /\ Len(l) = 1
    BY <1>1
  <2> HIDE DEF g
  <2>2. Follows(m, gap, l)
    BY <2>1, ConcatFollows
  <2> HIDE DEF m
  <2>3. /\ m \in Seq(Ink) /\ g \in Nat /\ Len(m) = g + 1 /\ (\A j \in 1..g : m[j] = gap[j])
        /\ \A q, j \in Nat : 1 <= j /\ j <= 1 /\ q = g + j => m[q] = l[j]
    BY <2>1, <2>2 DEF Follows
  <2> QED BY <1>1, <2>3
<1>4. /\ G \in Seq(Ink) /\ Len(G) = g + 1 + g /\ (\A j \in 1..(g + 1) : G[j] = m[j])
      /\ \A q, j \in Nat : 1 <= j /\ j <= g /\ q = g + 1 + j => G[q] = gap[j]
  <2>1. g = Len(gap)
    OBVIOUS
  <2> HIDE DEF g, m
  <2>2. Follows(G, m, gap)
    BY <1>1, <1>3, ConcatFollows
  <2> HIDE DEF G
  <2>3. Len(m) = g + 1 /\ Len(gap) = g
    BY <1>3, <2>1
  <2>4. /\ G \in Seq(Ink) /\ Len(G) = Len(m) + Len(gap) /\ (\A j \in 1..Len(m) : G[j] = m[j])
        /\ \A q, j \in Nat : 1 <= j /\ j <= Len(gap) /\ q = Len(m) + j => G[q] = gap[j]
    BY <2>2 DEF Follows
  <2> QED BY <2>3, <2>4
<1> HIDE DEF g, m, G
<1>5. G[g + 1] = ":"
  BY <1>3, <1>4
<1>6. ASSUME NEW q \in 1..(2 * g + 1), q # g + 1 PROVE G[q] = Space
  <2>1. CASE q <= g
    <3>1. q \in 1..g /\ q \in 1..(g + 1)
      BY <1>3, <2>1
    <3> QED BY <1>2, <1>3, <1>4, <3>1
  <2>2. CASE q > g
    <3> DEFINE j == q - g - 1
    <3>2. j \in 1..g /\ j \in Nat /\ 1 <= j /\ j <= g /\ q \in Nat /\ q = g + 1 + j
      BY <1>3, <1>6, <2>2
    <3> HIDE DEF j
    <3> QED BY <1>2, <1>4, <3>2
  <2> QED BY <1>3, <2>1, <2>2
<1>7. g + 1 + g = 2 * g + 1
  BY <1>3
<1> QED BY <1>3, <1>4, <1>5, <1>6, <1>7 DEF g, G, m, l

LEMMA FieldWritten ==
  ASSUME NEW f \in DocumentField
  PROVE  LET w == WrittenField(f)
             V == WrittenValue(f.value)
             g == Len(f.gap) IN
         /\ w \in Seq(Ink) /\ g \in Nat
         /\ f.name = TextName =>
              /\ Len(w) = 5 + 2 * g + Len(V)
              /\ w[1] = Quote /\ w[2] = "te" /\ w[3] = "xt" /\ w[4] = Quote /\ w[5 + g] = ":"
              /\ \A q \in 5..(5 + 2 * g) : q # 5 + g => w[q] = Space
              /\ \A q, j \in Nat : 1 <= j /\ j <= Len(V) /\ q = 5 + 2 * g + j => w[q] = V[j]
         /\ \A p : Spelled(w, p) =>
              \/ p = 1 /\ f.name = TextName
              \/ p + 3 = Len(w) /\ f.value # Null /\ KeyAt(WrittenString(f.value)) # {}
<1> DEFINE A == <<Quote>> \o f.name \o <<Quote>>
           G == f.gap \o <<":">> \o f.gap
           V == WrittenValue(f.value)
           w == WrittenField(f)
           g == Len(f.gap)
           n == Len(f.name)
<1>1. f.name \in Seq(Plain) /\ f.gap \in Seq({Space}) /\ f.value \in Seq(Character) \cup {Null}
  BY DEF DocumentField, Character
<1>2. w = (A \o G) \o V
  BY DEF WrittenField
<1>3. /\ A \in Seq(Ink) /\ n \in Nat /\ Len(A) = n + 2 /\ A[1] = Quote /\ A[n + 2] = Quote
      /\ \A q, j \in Nat : 1 <= j /\ j <= n /\ q = j + 1 => A[q] = f.name[j]
  BY <1>1, PlainIsInk, QuotedIs
<1>4. /\ G \in Seq(Ink) /\ g \in Nat /\ Len(G) = 2 * g + 1 /\ G[g + 1] = ":"
      /\ \A q \in 1..(2 * g + 1) : q # g + 1 => G[q] = Space
  BY <1>1, GapIs
<1>5. V \in Seq(Ink) /\ Len(V) \in Nat /\ \A p : Spelled(V, p) => p + 3 = Len(V) /\ f.value # Null /\ KeyAt(WrittenString(f.value)) # {}
  BY <1>1, ValueSpelled
<1>6. \A p : Spelled(A, p) => p = 1 /\ f.name = TextName
  BY <1>1, NameSpelled
<1> HIDE DEF A, G, V, w
<1> DEFINE B == A \o G
<1>7. /\ B \in Seq(Ink) /\ Len(B) = n + 2 + (2 * g + 1) /\ (\A j \in 1..(n + 2) : B[j] = A[j])
      /\ \A q, j \in Nat : 1 <= j /\ j <= 2 * g + 1 /\ q = n + 2 + j => B[q] = G[j]
  <2> HIDE DEF n, g
  <2>1. Follows(B, A, G)
    BY <1>3, <1>4, ConcatFollows
  <2> HIDE DEF B
  <2> QED BY <1>3, <1>4, <2>1 DEF Follows
<1>8. /\ w \in Seq(Ink) /\ Len(w) = n + 2 + (2 * g + 1) + Len(V)
      /\ (\A j \in 1..(n + 2 + (2 * g + 1)) : w[j] = B[j])
      /\ \A q, j \in Nat : 1 <= j /\ j <= Len(V) /\ q = n + 2 + (2 * g + 1) + j => w[q] = V[j]
  <2>1. w = B \o V
    BY <1>2
  <2> HIDE DEF B, n, g
  <2>2. Follows(w, B, V)
    BY <1>5, <1>7, <2>1, ConcatFollows
  <2> QED BY <1>7, <2>2 DEF Follows
<1>9. ASSUME NEW p, Spelled(w, p)
      PROVE  \/ p = 1 /\ f.name = TextName
             \/ p + 3 = Len(w) /\ f.value # Null /\ KeyAt(WrittenString(f.value)) # {}
  <2>1. \A j \in 1..Len(G) : G[j] \notin {Quote, "te", "xt"}
    <3>1. Space \notin {Quote, "te", "xt"} /\ ":" \notin {Quote, "te", "xt"}
      BY DEF Space, Quote
    <3> QED BY <1>4, <3>1
  <2>2. G # << >>
    BY <1>4
  <2>3. Spelled(A, p) \/ Spelled(V, p - Len(A) - Len(G))
    BY <1>2, <1>3, <1>4, <1>5, <1>9, <2>1, <2>2, SpelledApart
  <2>4. CASE Spelled(V, p - Len(A) - Len(G))
    <3>1. p \in Nat /\ p - Len(A) - Len(G) + 3 = Len(V)
      BY <1>5, <1>9, <2>4 DEF Spelled
    <3> HIDE DEF n, g
    <3>2. p + 3 = Len(w)
      BY <1>3, <1>4, <1>5, <1>8, <3>1
    <3> QED BY <1>5, <2>4, <3>2
  <2> QED BY <1>6, <2>3, <2>4
<1> HIDE DEF B
<1> DEFINE hasKey ==
              /\ Len(w) = 5 + 2 * g + Len(V)
              /\ w[1] = Quote /\ w[2] = "te" /\ w[3] = "xt" /\ w[4] = Quote /\ w[5 + g] = ":"
              /\ \A q \in 5..(5 + 2 * g) : q # 5 + g => w[q] = Space
              /\ \A q, j \in Nat : 1 <= j /\ j <= Len(V) /\ q = 5 + 2 * g + j => w[q] = V[j]
<1>10. ASSUME f.name = TextName PROVE hasKey
  <2>1. n = 2 /\ f.name[1] = "te" /\ f.name[2] = "xt"
    BY <1>10 DEF TextName
  <2> HIDE DEF n, g
  <2>2. \A j \in 1..4 : w[j] = A[j]
    BY <1>4, <1>7, <1>8, <2>1
  <2>3. A[1] = Quote /\ A[2] = "te" /\ A[3] = "xt" /\ A[4] = Quote
    BY <1>3, <2>1
  <2>4. \A q, j \in Nat : 1 <= j /\ j <= 2 * g + 1 /\ q = 4 + j => w[q] = G[j]
    <3>1. ASSUME NEW q \in Nat, NEW j \in Nat, 1 <= j, j <= 2 * g + 1, q = 4 + j PROVE w[q] = G[j]
      <4>1. q \in 1..(n + 2 + (2 * g + 1)) /\ q = n + 2 + j
        BY <1>4, <2>1, <3>1
      <4> QED BY <1>7, <1>8, <3>1, <4>1
    <3> QED BY <3>1
  <2>5. \A q, j \in Nat : 1 <= j /\ j <= Len(V) /\ q = 5 + 2 * g + j => w[q] = V[j]
    <3>1. ASSUME NEW q \in Nat, NEW j \in Nat, 1 <= j, j <= Len(V), q = 5 + 2 * g + j PROVE w[q] = V[j]
      <4>1. q = n + 2 + (2 * g + 1) + j
        BY <1>4, <1>5, <2>1, <3>1
      <4> QED BY <1>8, <3>1, <4>1
    <3> QED BY <3>1
  <2>6. w[5 + g] = ":"
    <3>1. g + 1 \in Nat /\ 5 + g \in Nat /\ 1 <= g + 1 /\ g + 1 <= 2 * g + 1 /\ 5 + g = 4 + (g + 1)
      BY <1>4
    <3> QED BY <1>4, <2>4, <3>1
  <2>7. ASSUME NEW q \in 5..(5 + 2 * g), q # 5 + g PROVE w[q] = Space
    <3> DEFINE j == q - 4
    <3>1. j \in 1..(2 * g + 1) /\ j \in Nat /\ q \in Nat /\ 1 <= j /\ j <= 2 * g + 1 /\ q = 4 + j /\ j # g + 1
      BY <1>4, <2>7
    <3> HIDE DEF j
    <3> QED BY <1>4, <2>4, <3>1
  <2>8. Len(w) = 5 + 2 * g + Len(V)
    BY <1>4, <1>5, <1>8, <2>1
  <2>9. w[1] = Quote /\ w[2] = "te" /\ w[3] = "xt" /\ w[4] = Quote
    BY <2>2, <2>3
  <2> QED BY <2>5, <2>6, <2>7, <2>8, <2>9
<1> HIDE DEF hasKey
<1>11. w \in Seq(Ink) /\ g \in Nat
  BY <1>4, <1>8
<1>12. f.name = TextName =>
              /\ Len(w) = 5 + 2 * g + Len(V)
              /\ w[1] = Quote /\ w[2] = "te" /\ w[3] = "xt" /\ w[4] = Quote /\ w[5 + g] = ":"
              /\ \A q \in 5..(5 + 2 * g) : q # 5 + g => w[q] = Space
              /\ \A q, j \in Nat : 1 <= j /\ j <= Len(V) /\ q = 5 + 2 * g + j => w[q] = V[j]
  BY <1>10, Zenon DEF hasKey
<1> HIDE DEF g
<1>13. \A p : Spelled(w, p) =>
              \/ p = 1 /\ f.name = TextName
              \/ p + 3 = Len(w) /\ f.value # Null /\ KeyAt(WrittenString(f.value)) # {}
  BY <1>9, Zenon
<1> QED BY <1>11, <1>12, <1>13, Zenon DEF w, V, g

FieldParts(d) == [i \in DOMAIN d |-> <<IF i = 1 THEN Opening ELSE Comma>> \o WrittenField(d[i])]

\* Where the text is in a document: the field, its key, and the quotation mark its value begins with.
TextFields(d) == {i \in DOMAIN d : d[i].name = TextName}
KeyPlace(d, i) == Len(Joining(FieldParts(d))[i - 1]) + 2
OpenPlace(d, i) == KeyPlace(d, i) + 5 + 2 * Len(d[i].gap)

\* The key stands before the text, or at the end of a value that spells it.
KeysAre(d, raw) ==
  \A p : Spelled(raw, p) =>
    \/ \E i \in TextFields(d) : p = KeyPlace(d, i)
    \/ SpellsTheKey(d) /\ p + 4 <= Len(raw) /\ raw[p + 4] \in {Comma, Closing}

TextStands(d, i, raw) ==
  LET K == KeyPlace(d, i)  g == Len(d[i].gap)  O == OpenPlace(d, i)  V == WrittenValue(d[i].value) IN
  /\ K \in Nat /\ K >= 2 /\ g \in Nat /\ O = K + 5 + 2 * g /\ O + Len(V) <= Len(raw)
  /\ raw[K] = Quote /\ raw[K + 1] = "te" /\ raw[K + 2] = "xt" /\ raw[K + 3] = Quote /\ raw[K + 4 + g] = ":"
  /\ \A q \in Nat : K + 4 <= q /\ q < O /\ q # K + 4 + g => raw[q] = Space
  /\ \A q, j \in Nat : 1 <= j /\ j <= Len(V) /\ q = O + j - 1 => raw[q] = V[j]

LEMMA DocumentIs ==
  ASSUME NEW d \in Document
  PROVE  /\ d # Prose /\ Len(d) \in Nat \ {0} /\ DOMAIN d = 1..Len(d) /\ \A i \in 1..Len(d) : d[i] \in DocumentField
         /\ \A i, j \in TextFields(d) : i = j
<1>1. d \in Seq(DocumentField) /\ d # Prose /\ \A i, j \in DOMAIN d : d[i].name = d[j].name => i = j
  BY DocumentAssumption
<1>2. Len(d) # 0
  BY <1>1, EmptySeq DEF Prose
<1> QED BY <1>1, <1>2 DEF TextFields

\* One part: the sign that opens it, and the field.
LEMMA PartIs ==
  ASSUME NEW f \in DocumentField, NEW c \in {Opening, Comma}
  PROVE  /\ <<c>> \in Seq(Ink) /\ <<c>> \o WrittenField(f) \in Seq(Ink) /\ Len(WrittenField(f)) \in Nat
         /\ Len(<<c>> \o WrittenField(f)) = 1 + Len(WrittenField(f)) /\ (<<c>> \o WrittenField(f))[1] = c
         /\ \A q, j \in Nat : 1 <= j /\ j <= Len(WrittenField(f)) /\ q = 1 + j
                                => (<<c>> \o WrittenField(f))[q] = WrittenField(f)[j]
<1> DEFINE l == <<c>>
           w == WrittenField(f)
           u == l \o w
<1>1. c \in Ink
  BY InkHas
<1>2. l \in Seq(Ink) /\ Len(l) = 1 /\ l[1] = c
  BY <1>1, OneIs
<1>3. w \in Seq(Ink)
  BY FieldWritten
<1> HIDE DEF l, w
<1>4. Follows(u, l, w)
  BY <1>2, <1>3, ConcatFollows
<1> HIDE DEF u
<1>5. /\ u \in Seq(Ink) /\ Len(w) \in Nat /\ Len(u) = 1 + Len(w) /\ (\A j \in 1..1 : u[j] = l[j])
      /\ \A q, j \in Nat : 1 <= j /\ j <= Len(w) /\ q = 1 + j => u[q] = w[j]
  BY <1>2, <1>4 DEF Follows
<1>6. u[1] = c
  <2>1. 1 \in 1..1
    OBVIOUS
  <2>2. u[1] = l[1]
    BY <1>5, <2>1, Zenon
  <2> QED BY <1>2, <2>2
<1> QED BY <1>2, <1>5, <1>6 DEF u, l, w

LEMMA PartsAre ==
  ASSUME NEW d \in Document
  PROVE  /\ FieldParts(d) \in Seq(Seq(Ink)) /\ Len(FieldParts(d)) = Len(d)
         /\ \A i \in 1..Len(d) : FieldParts(d)[i] = <<IF i = 1 THEN Opening ELSE Comma>> \o WrittenField(d[i])
<1> DEFINE N == Len(d)
           P == FieldParts(d)
<1>1. N \in Nat /\ DOMAIN d = 1..N /\ \A i \in 1..N : d[i] \in DocumentField
  BY DocumentIs
<1> HIDE DEF N
<1>2. P = [i \in 1..N |-> <<IF i = 1 THEN Opening ELSE Comma>> \o WrittenField(d[i])]
  BY <1>1 DEF FieldParts
<1>3. \A i \in 1..N : P[i] = <<IF i = 1 THEN Opening ELSE Comma>> \o WrittenField(d[i])
  BY <1>2
<1>4. ASSUME NEW i \in 1..N PROVE P[i] \in Seq(Ink)
  <2> DEFINE c == IF i = 1 THEN Opening ELSE Comma
  <2>1. c \in {Opening, Comma} /\ P[i] = <<c>> \o WrittenField(d[i]) /\ d[i] \in DocumentField
    BY <1>1, <1>3
  <2> HIDE DEF c
  <2> QED BY <2>1, PartIs
<1>5. P \in [1..N -> Seq(Ink)]
  <2> HIDE DEF P
  <2>1. DOMAIN P = 1..N /\ P = [i \in 1..N |-> P[i]]
    BY <1>2
  <2> QED BY <1>4, <2>1
<1> HIDE DEF P
<1>6. P \in Seq(Seq(Ink)) /\ Len(P) = N
  BY <1>1, <1>5, ListingLength
<1> QED BY <1>3, <1>6 DEF P, N

\* What is written of the first k fields.
SpelledSoFar(d, k) ==
  \A p : Spelled(Joining(FieldParts(d))[k], p) =>
    \/ \E i \in 1..k : d[i].name = TextName /\ p = KeyPlace(d, i)
    \/ \E i \in 1..k : /\ p + 3 = Len(Joining(FieldParts(d))[i])
                       /\ d[i].value # Null /\ KeyAt(WrittenString(d[i].value)) # {}

LEMMA ThreeInOrder ==
  ASSUME NEW s \in Seq(Ink), NEW t \in Seq(Ink), NEW u \in Seq(Ink) PROVE s \o (t \o u) = (s \o t) \o u
  BY ConcatAssociative

LEMMA OneFieldMore ==
  ASSUME NEW d \in Document, NEW k \in 1..Len(d), SpelledSoFar(d, k - 1)
  PROVE  SpelledSoFar(d, k)
<1> DEFINE J == Joining(FieldParts(d))
           A == J[k - 1]
           c == IF k = 1 THEN Opening ELSE Comma
           l == <<c>>
           w == WrittenField(d[k])
           a == Len(A)
<1>1. k \in Nat /\ d[k] \in DocumentField /\ k - 1 \in 0..Len(d)
  BY DocumentIs
<1>2. J[k] = J[k - 1] \o FieldParts(d)[k] /\ A \in Seq(Ink)
  BY <1>1, PartsAre, JoiningAdds
<1>3. FieldParts(d)[k] = l \o w
  BY PartsAre
<1>4. l \in Seq(Ink) /\ Len(l) = 1 /\ l[1] = c /\ c \in {Opening, Comma} /\ c \notin {Quote, "te", "xt"}
  <2>1. c \in {Opening, Comma} /\ c \in Ink
    BY InkHas
  <2>2. c \notin {Quote, "te", "xt"}
    BY <2>1, Signs
  <2> HIDE DEF c
  <2> QED BY <2>1, <2>2, OneIs
<1>5. w \in Seq(Ink) /\ \A p : Spelled(w, p) =>
              \/ p = 1 /\ d[k].name = TextName
              \/ p + 3 = Len(w) /\ d[k].value # Null /\ KeyAt(WrittenString(d[k].value)) # {}
  BY <1>1, FieldWritten
<1> HIDE DEF A, c, l, w
<1>6. J[k] = (A \o l) \o w
  <2>1. A \o (l \o w) = (A \o l) \o w
    <3>1. A \in Seq(Ink) /\ l \in Seq(Ink) /\ w \in Seq(Ink)
      BY <1>2, <1>4, <1>5
    <3> QED BY <3>1, ThreeInOrder
  <2> QED BY <1>2, <1>3, <2>1 DEF A
<1>7. Follows(A \o l, A, l)
  BY <1>2, <1>4, ConcatFollows
<1>8. Follows((A \o l) \o w, A \o l, w)
  <2>1. A \o l \in Seq(Ink)
    BY <1>7 DEF Follows
  <2> QED BY <1>5, <2>1, ConcatFollows
<1>9. a \in Nat /\ Len(w) \in Nat /\ Len(J[k]) = a + 1 + Len(w)
  BY <1>4, <1>6, <1>7, <1>8 DEF Follows
<1>10. KeyPlace(d, k) = a + 2
  BY DEF KeyPlace, A
<1>11. ASSUME NEW p, Spelled(J[k], p)
       PROVE  \/ \E i \in 1..k : d[i].name = TextName /\ p = KeyPlace(d, i)
              \/ \E i \in 1..k : /\ p + 3 = Len(J[i])
                                 /\ d[i].value # Null /\ KeyAt(WrittenString(d[i].value)) # {}
  <2>1. Spelled(A, p) \/ Spelled(w, p - Len(A) - Len(l))
    <3>1. l # << >> /\ \A j \in 1..Len(l) : l[j] \notin {Quote, "te", "xt"}
      <4>1. \A j \in 1..1 : l[j] = c
        BY <1>4
      <4>2. l # << >>
        BY <1>4
      <4> QED BY <1>4, <4>1, <4>2
    <3>2. Spelled((A \o l) \o w, p)
      BY <1>6, <1>11
    <3> QED BY <1>2, <1>4, <1>5, <3>1, <3>2, SpelledApart
  <2>2. CASE Spelled(A, p)
    <3>1. \A i \in 1..(k - 1) : i \in 1..k
      BY <1>1
    <3>2. \/ \E i \in 1..(k - 1) : d[i].name = TextName /\ p = KeyPlace(d, i)
          \/ \E i \in 1..(k - 1) : /\ p + 3 = Len(J[i])
                                   /\ d[i].value # Null /\ KeyAt(WrittenString(d[i].value)) # {}
      BY <2>2 DEF SpelledSoFar, A
    <3> QED BY <3>1, <3>2
  <2>3. CASE Spelled(w, p - Len(A) - Len(l))
    <3> DEFINE r == p - Len(A) - Len(l)
    <3>0. p \in Nat
      BY <1>11 DEF Spelled
    <3>1. p \in Nat /\ r = p - a - 1 /\ k \in 1..k
      BY <1>1, <1>4, <3>0
    <3>2. Spelled(w, r)
      BY <2>3
    <3> HIDE DEF r, a
    <3>3. CASE r = 1 /\ d[k].name = TextName
      <4>1. p = KeyPlace(d, k)
        BY <1>9, <1>10, <3>1, <3>3
      <4> QED BY <3>1, <3>3, <4>1
    <3>4. CASE r + 3 = Len(w) /\ d[k].value # Null /\ KeyAt(WrittenString(d[k].value)) # {}
      <4>1. p + 3 = Len(J[k])
        BY <1>9, <3>1, <3>4
      <4> QED BY <3>1, <3>4, <4>1
    <3> QED BY <1>5, <3>2, <3>3, <3>4
  <2> QED BY <2>1, <2>2, <2>3
<1> QED BY <1>11 DEF SpelledSoFar

LEMMA SpelledInAll == ASSUME NEW d \in Document PROVE SpelledSoFar(d, Len(d))
<1> DEFINE N == Len(d)
           Bad == {k \in 0..N : ~SpelledSoFar(d, k)}
<1>1. N \in Nat
  BY DocumentIs
<1>2. SpelledSoFar(d, 0)
  <2>1. Joining(FieldParts(d))[0] = << >>
    BY PartsAre, JoiningAdds
  <2>2. \A p : ~Spelled(<< >>, p)
    <3>1. Len(<< >>) = 0 /\ \A p \in Nat : 1 <= p => ~(p + 3 <= 0)
      OBVIOUS
    <3> QED BY <3>1 DEF Spelled
  <2> QED BY <2>1, <2>2 DEF SpelledSoFar
<1>3. ASSUME NEW k \in 1..N, SpelledSoFar(d, k - 1) PROVE SpelledSoFar(d, k)
  BY <1>3, OneFieldMore
<1> HIDE DEF N
<1>4. ASSUME Bad # {} PROVE FALSE
  <2>0. Bad \subseteq Nat
    BY <1>1
  <2>1. PICK m \in Bad : \A k \in Bad : m <= k
    <3> HIDE DEF Bad
    <3> QED BY <1>4, <2>0, LeastNumber
  <2>2. m # 0
    BY <1>2
  <2>3. m \in 1..N /\ m - 1 \in 0..N /\ ~(m <= m - 1)
    BY <1>1, <2>2
  <2>4. SpelledSoFar(d, m - 1)
    BY <2>1, <2>3
  <2> QED BY <1>3, <2>1, <2>3, <2>4
<1>5. N \in 0..N
  BY <1>1
<1> QED BY <1>4, <1>5 DEF N

\* Where one part is in the whole.
LEMMA PartStands ==
  ASSUME NEW d \in Document, NEW i \in 1..Len(d)
  PROVE  LET a == Len(Joining(FieldParts(d))[i - 1])  b == Len(Joining(FieldParts(d))[i])
             w == WrittenField(d[i])  raw == Symbols(d) IN
         /\ raw \in Seq(Ink) /\ a \in Nat /\ b \in Nat /\ Len(raw) \in Nat /\ Len(w) \in Nat
         /\ b = a + 1 + Len(w) /\ b < Len(raw)
         /\ raw[a + 1] = IF i = 1 THEN Opening ELSE Comma
         /\ \A q, j \in Nat : 1 <= j /\ j <= Len(w) /\ q = a + 1 + j => raw[q] = w[j]
         /\ i = Len(d) => b + 1 = Len(raw) /\ raw[b + 1] = Closing
         /\ \A p : Spelled(raw, p) => Spelled(Joining(FieldParts(d))[Len(d)], p)
<1> DEFINE N == Len(d)
           P == FieldParts(d)
           J == Joining(P)
           A == J[i - 1]
           B == J[i]
           C == J[N]
           a == Len(A)
           b == Len(B)
           w == WrittenField(d[i])
           raw == Symbols(d)
           c == IF i = 1 THEN Opening ELSE Comma
           u == <<c>> \o w
           l == <<Closing>>
<1>1. N \in Nat /\ d # Prose /\ d[i] \in DocumentField /\ DOMAIN d = 1..N
  BY DocumentIs
<1>2. P \in Seq(Seq(Ink)) /\ Len(P) = N /\ P[i] = u
  BY PartsAre
<1>3. raw = C \o l
  <2>1. WrittenFields(d) = C
    BY <1>2 DEF WrittenFields, FieldParts, Joined
  <2> QED BY <1>1, <2>1 DEF Symbols
<1>4. l \in Seq(Ink) /\ Len(l) = 1 /\ l[1] = Closing
  BY InkHas, OneIs
<1>5. c \in {Opening, Comma}
  OBVIOUS
<1> HIDE DEF c
<1>6. u \in Seq(Ink) /\ Len(w) \in Nat /\ Len(u) = 1 + Len(w) /\ u[1] = c
      /\ \A q, j \in Nat : 1 <= j /\ j <= Len(w) /\ q = 1 + j => u[q] = w[j]
  BY <1>1, <1>5, PartIs
<1> HIDE DEF u, w, l, P, raw
<1>7. i - 1 \in 0..N /\ i \in 0..N /\ N \in 0..N /\ i <= N /\ i \in 1..N /\ i \in Nat
  BY <1>1
<1>8. A \in Seq(Ink) /\ B \in Seq(Ink) /\ C \in Seq(Ink) /\ B = A \o u
  <2>1. A \in Seq(Ink) /\ B \in Seq(Ink) /\ C \in Seq(Ink)
    <3> HIDE DEF N
    <3> QED BY <1>2, <1>7, JoiningAdds
  <2>2. B = A \o P[i]
    <3> HIDE DEF N
    <3> QED BY <1>2, <1>7, JoiningAdds
  <2> QED BY <1>2, <2>1, <2>2
<1>9. b <= Len(C) /\ \A j \in 1..b : C[j] = B[j]
  <2> HIDE DEF N
  <2> QED BY <1>2, <1>7, JoiningGrows
<1>10. i = N => B = C
  OBVIOUS
<1> HIDE DEF J, A, B, C
<1>11. Follows(B, A, u)
  BY <1>6, <1>8, ConcatFollows
<1>12. Follows(raw, C, l)
  BY <1>3, <1>4, <1>8, ConcatFollows
<1>13. /\ a \in Nat /\ b = a + (1 + Len(w)) /\ b \in Nat
       /\ \A q, j \in Nat : 1 <= j /\ j <= 1 + Len(w) /\ q = a + j => B[q] = u[j]
  BY <1>6, <1>8, <1>11 DEF Follows
<1>14. /\ raw \in Seq(Ink) /\ Len(C) \in Nat /\ Len(raw) = Len(C) + 1 /\ (\A j \in 1..Len(C) : raw[j] = C[j])
       /\ \A q, j \in Nat : 1 <= j /\ j <= 1 /\ q = Len(C) + j => raw[q] = l[j]
  BY <1>4, <1>12 DEF Follows
<1> HIDE DEF a, b, N
<1>15. raw[Len(C) + 1] = Closing
  BY <1>4, <1>14
<1>16. \A q, j \in Nat : 1 <= j /\ j <= 1 + Len(w) /\ q = a + j => raw[q] = u[j]
  <2>1. ASSUME NEW q \in Nat, NEW j \in Nat, 1 <= j, j <= 1 + Len(w), q = a + j PROVE raw[q] = u[j]
    <3>1. q \in 1..b /\ q \in 1..Len(C)
      BY <1>6, <1>9, <1>13, <1>14, <2>1
    <3>2. raw[q] = C[q] /\ C[q] = B[q] /\ B[q] = u[j]
      BY <1>9, <1>13, <1>14, <2>1, <3>1
    <3> QED BY <3>2
  <2> QED BY <2>1
<1>17. raw[a + 1] = c
  <2>1. 1 \in Nat /\ a + 1 \in Nat /\ 1 <= 1 + Len(w)
    BY <1>6, <1>13
  <2> QED BY <1>6, <1>16, <2>1
<1>18. ASSUME NEW q \in Nat, NEW j \in Nat, 1 <= j, j <= Len(w), q = a + 1 + j PROVE raw[q] = w[j]
  <2> DEFINE k == 1 + j
  <2>1. k \in Nat /\ 1 <= k /\ k <= 1 + Len(w) /\ q = a + k
    BY <1>6, <1>13, <1>18
  <2>2. u[k] = w[j]
    BY <1>6, <1>18, <2>1
  <2> HIDE DEF k
  <2> QED BY <1>16, <2>1, <2>2
<1>19. b < Len(raw) /\ (i = N => b + 1 = Len(raw) /\ raw[b + 1] = Closing)
  <2>1. i = N => b = Len(C)
    BY <1>10 DEF b
  <2> QED BY <1>9, <1>13, <1>14, <1>15, <2>1
<1>20. ASSUME NEW p, Spelled(raw, p) PROVE Spelled(C, p)
  <2>1. /\ p \in Nat /\ 1 <= p /\ p + 3 <= Len(C) + 1 /\ raw[p] = Quote /\ raw[p + 1] = "te"
        /\ raw[p + 2] = "xt" /\ raw[p + 3] = Quote
    BY <1>14, <1>20 DEF Spelled
  <2>2. p + 3 # Len(C) + 1
    <3>1. Closing # Quote
      BY Signs
    <3> QED BY <1>15, <2>1, <3>1
  <2>3. p + 3 <= Len(C) /\ p \in 1..Len(C) /\ p + 1 \in 1..Len(C) /\ p + 2 \in 1..Len(C) /\ p + 3 \in 1..Len(C)
    BY <1>14, <2>1, <2>2
  <2> QED BY <1>14, <2>1, <2>3 DEF Spelled
<1>21. /\ raw \in Seq(Ink) /\ Len(raw) \in Nat /\ b = a + 1 + Len(w)
  BY <1>6, <1>13, <1>14
<1> QED BY <1>6, <1>13, <1>17, <1>18, <1>19, <1>20, <1>21, Zenon DEF raw, a, b, w, c, C, B, A, J, P, N

LEMMA KeysAreWhereTheyAre == ASSUME NEW d \in Document PROVE KeysAre(d, Symbols(d))
<1> DEFINE raw == Symbols(d)
           N == Len(d)
           J == Joining(FieldParts(d))
<1>1. N \in Nat \ {0} /\ DOMAIN d = 1..N
  BY DocumentIs
<1>2. SUFFICES ASSUME NEW p, Spelled(raw, p)
               PROVE  \/ \E i \in TextFields(d) : p = KeyPlace(d, i)
                      \/ SpellsTheKey(d) /\ p + 4 <= Len(raw) /\ raw[p + 4] \in {Comma, Closing}
  BY DEF KeysAre
<1>3. Spelled(J[N], p)
  <2>1. N \in 1..Len(d)
    BY <1>1
  <2> QED BY <1>2, <2>1, PartStands
<1>4. \/ \E i \in 1..N : d[i].name = TextName /\ p = KeyPlace(d, i)
      \/ \E i \in 1..N : /\ p + 3 = Len(J[i])
                         /\ d[i].value # Null /\ KeyAt(WrittenString(d[i].value)) # {}
  BY <1>3, SpelledInAll DEF SpelledSoFar
<1>5. CASE \E i \in 1..N : d[i].name = TextName /\ p = KeyPlace(d, i)
  BY <1>1, <1>5 DEF TextFields
<1>7. \A i \in 1..N : i # N => \E k \in 1..N : k # 1 /\ k - 1 = i
  <2> HIDE DEF N
  <2>1. \A i \in 1..N : i # N => i + 1 \in 1..N /\ i + 1 # 1 /\ i + 1 - 1 = i
    BY <1>1
  <2> QED BY <2>1
<1>6. ASSUME NEW i \in 1..N, p + 3 = Len(J[i]), d[i].value # Null, KeyAt(WrittenString(d[i].value)) # {}
      PROVE  SpellsTheKey(d) /\ p + 4 <= Len(raw) /\ raw[p + 4] \in {Comma, Closing}
  <2>1. SpellsTheKey(d)
    BY <1>1, <1>6 DEF SpellsTheKey
  <2> DEFINE b == Len(J[i])
  <2>2. b \in Nat /\ b < Len(raw) /\ Len(raw) \in Nat /\ (i = N => raw[b + 1] = Closing)
    BY PartStands
  <2>3. i # N => raw[b + 1] = Comma
    <3>1. ASSUME i # N PROVE raw[b + 1] = Comma
      <4>1. PICK k \in 1..Len(d) : k # 1 /\ k - 1 = i
        BY <1>7, <3>1
      <4>2. raw[Len(J[k - 1]) + 1] = Comma
        BY <4>1, PartStands
      <4> QED BY <4>1, <4>2
    <3> QED BY <3>1
  <2>4. p \in Nat
    BY <1>2 DEF Spelled
  <2>5. p + 3 = b
    BY <1>6
  <2> HIDE DEF b, raw
  <2>6. p + 4 = b + 1
    BY <2>2, <2>4, <2>5
  <2> QED BY <2>1, <2>2, <2>3, <2>6
<1> QED BY <1>4, <1>5, <1>6

LEMMA TextIsWhereItIs == ASSUME NEW d \in Document, NEW i \in TextFields(d) PROVE TextStands(d, i, Symbols(d))
<1> DEFINE raw == Symbols(d)
           w == WrittenField(d[i])
           V == WrittenValue(d[i].value)
           g == Len(d[i].gap)
           a == Len(Joining(FieldParts(d))[i - 1])
           K == KeyPlace(d, i)
           O == OpenPlace(d, i)
<1>1. i \in 1..Len(d) /\ d[i] \in DocumentField /\ d[i].name = TextName
  BY DocumentIs DEF TextFields
<1>2. /\ a \in Nat /\ Len(w) \in Nat /\ Len(raw) \in Nat /\ a + 1 + Len(w) < Len(raw)
      /\ \A q, j \in Nat : 1 <= j /\ j <= Len(w) /\ q = a + 1 + j => raw[q] = w[j]
  BY <1>1, PartStands
<1>3. /\ g \in Nat /\ Len(w) = 5 + 2 * g + Len(V)
      /\ w[1] = Quote /\ w[2] = "te" /\ w[3] = "xt" /\ w[4] = Quote /\ w[5 + g] = ":"
      /\ \A q \in 5..(5 + 2 * g) : q # 5 + g => w[q] = Space
      /\ \A q, j \in Nat : 1 <= j /\ j <= Len(V) /\ q = 5 + 2 * g + j => w[q] = V[j]
  BY <1>1, FieldWritten
<1>4. Len(V) \in Nat \ {0}
  <2>1. d[i].value \in Seq(Character) \cup {Null}
    BY <1>1 DEF DocumentField, Character
  <2> QED BY <2>1, ValueSpelled
<1>5. K = a + 2 /\ O = K + 5 + 2 * g
  BY DEF KeyPlace, OpenPlace
<1> HIDE DEF raw, w, V, g, a, K, O
<1>6. K \in Nat /\ K >= 2 /\ O + Len(V) <= Len(raw)
  BY <1>2, <1>3, <1>4, <1>5
<1>7. \A q, j \in Nat : 1 <= j /\ j <= Len(w) /\ q = K + j - 1 => raw[q] = w[j]
  BY <1>2, <1>5
<1>8. raw[K] = Quote /\ raw[K + 1] = "te" /\ raw[K + 2] = "xt" /\ raw[K + 3] = Quote /\ raw[K + 4 + g] = ":"
  <2>1. K + 1 \in Nat /\ K + 2 \in Nat /\ K + 3 \in Nat /\ K + 4 + g \in Nat /\ 5 + g \in Nat /\ 5 + g <= Len(w) /\ 4 <= Len(w)
        /\ K = K + 1 - 1 /\ K + 1 = K + 2 - 1 /\ K + 2 = K + 3 - 1 /\ K + 3 = K + 4 - 1 /\ K + 4 + g = K + (5 + g) - 1
    BY <1>3, <1>4, <1>6
  <2>2. raw[K] = w[1] /\ raw[K + 1] = w[2] /\ raw[K + 2] = w[3] /\ raw[K + 3] = w[4]
    <3>1. /\ 1 \in Nat /\ 2 \in Nat /\ 3 \in Nat /\ 4 \in Nat
          /\ 1 <= 1 /\ 1 <= 2 /\ 1 <= 3 /\ 1 <= 4
          /\ 1 <= Len(w) /\ 2 <= Len(w) /\ 3 <= Len(w) /\ 4 <= Len(w)
      BY <1>3, <2>1
    <3>2. raw[K] = w[1]
      BY <1>6, <1>7, <2>1, <3>1, Zenon
    <3>3. raw[K + 1] = w[2]
      BY <1>7, <2>1, <3>1, Zenon
    <3>4. raw[K + 2] = w[3]
      BY <1>7, <2>1, <3>1, Zenon
    <3>5. raw[K + 3] = w[4]
      BY <1>7, <2>1, <3>1, Zenon
    <3> QED BY <3>2, <3>3, <3>4, <3>5
  <2>3. raw[K + 4 + g] = w[5 + g]
    BY <1>3, <1>6, <1>7, <2>1
  <2> QED BY <1>3, <2>2, <2>3
<1>9. ASSUME NEW q \in Nat, K + 4 <= q, q < O, q # K + 4 + g PROVE raw[q] = Space
  <2> DEFINE j == q - K + 1
  <2>0. g \in Nat /\ K \in Nat /\ K + 4 <= q /\ q < K + 5 + 2 * g /\ q # K + 4 + g /\ Len(V) \in Nat
    BY <1>3, <1>4, <1>5, <1>6, <1>9
  <2>1. j \in Nat /\ 1 <= j /\ j <= 5 + 2 * g + Len(V) /\ q = K + j - 1 /\ j \in 5..(5 + 2 * g) /\ j # 5 + g
    BY <2>0
  <2> HIDE DEF j
  <2>2. w[j] = Space /\ j <= Len(w)
    BY <1>3, <2>1
  <2> QED BY <1>7, <2>1, <2>2
<1>10. ASSUME NEW q \in Nat, NEW j \in Nat, 1 <= j, j <= Len(V), q = O + j - 1 PROVE raw[q] = V[j]
  <2> DEFINE k == 5 + 2 * g + j
  <2>1. k \in Nat /\ 1 <= k /\ k <= Len(w) /\ q = K + k - 1
    BY <1>3, <1>4, <1>5, <1>6, <1>10
  <2>2. w[k] = V[j]
    BY <1>3, <1>10, <2>1
  <2> HIDE DEF k
  <2> QED BY <1>7, <2>1, <2>2
<1> QED BY <1>3, <1>5, <1>6, <1>8, <1>9, <1>10, Zenon DEF TextStands, raw, V, g, K, O

-----------------------------------------------------------------------------
\* How it is read.

\* After m symbols of a value: what was handed on is its beginning, what is held the beginning of an escape.
InText(v, m, out, held) ==
  \E k \in 0..Len(v) :
    /\ out = SubSeq(v, 1, k)
    /\ m = Len(Joining(ValueParts(v))[k]) + Len(held)
    /\ held # << >> => /\ k < Len(v) /\ Len(held) < Len(Written(v[k + 1]))
                       /\ held = SubSeq(Written(v[k + 1]), 1, Len(held))

\* What stands in s behind its first b places, up to the n-th.
Cut(s, b, n) == SubSeq(s, b + 1, n)

\* The scanner after n symbols of a document.
Sought(d, n, t, out) ==
  /\ out = << >> /\ t.pending = << >>
  /\ \E b \in 0..n :
       /\ t.buf = Cut(Symbols(d), b, n)
       /\ \A i \in TextFields(d) : b < KeyPlace(d, i) /\ (~SpellsTheKey(d) => n < OpenPlace(d, i))

ReadSoFar(d, n, t, out) ==
  \E i \in TextFields(d) :
    d[i].value # Null /\ n >= OpenPlace(d, i) /\ InText(d[i].value, n - OpenPlace(d, i), out, t.pending)

ReadToTheEnd(d, out) ==
  \E i \in TextFields(d) : out = IF d[i].value = Null THEN << >> ELSE d[i].value

ScanInv(d, n, t, out) ==
  \/ t.state = "seekingKey" /\ Sought(d, n, t, out)
  \/ t.state = "inValue" /\ ReadSoFar(d, n, t, out)
  \/ t.state = "finished" /\ ReadToTheEnd(d, out)

\* The scanner, of a type and where it stands.
Scanner == [state : {"seekingKey", "inValue", "finished"}, buf : Seq(Ink), pending : Seq(Ink)]
Scans(d, n, t, out) == t \in Scanner /\ out \in Seq(Character) /\ ScanInv(d, n, t, out)

Accumulator == [out : Seq(Character), pending : Seq(Ink), closed : BOOLEAN]

LEMMA BeginningIs ==
  ASSUME NEW T, NEW s \in Seq(T), NEW k \in 0..Len(s)
  PROVE  /\ SubSeq(s, 1, k) \in Seq(T) /\ Len(SubSeq(s, 1, k)) = k /\ \A j \in 1..k : SubSeq(s, 1, k)[j] = s[j]
         /\ k = 0 => SubSeq(s, 1, k) = << >>
         /\ k = Len(s) => SubSeq(s, 1, k) = s
<1> DEFINE n == Len(s)
           u == SubSeq(s, 1, k)
<1>1. n \in Nat /\ k \in Nat /\ k <= n
  OBVIOUS
<1>2. u \in Seq(T) /\ Len(u) = k /\ \A j \in 1..k : u[j] = s[j]
  BY SubSeqProperties
<1>3. k = 0 => u = << >>
  BY <1>2, EmptySeq
<1>4. k = n => u = s
  BY <1>2, SeqEqual
<1> QED BY <1>2, <1>3, <1>4

LEMMA BeginningGrows ==
  ASSUME NEW T, NEW s \in Seq(T), NEW k \in 0..Len(s), k < Len(s)
  PROVE  Append(SubSeq(s, 1, k), s[k + 1]) = SubSeq(s, 1, k + 1) /\ k + 1 \in 0..Len(s) /\ s[k + 1] \in T
<1> DEFINE n == Len(s)
           u == SubSeq(s, 1, k)
           w == SubSeq(s, 1, k + 1)
           x == s[k + 1]
           a == Append(u, x)
<1>1. n \in Nat /\ k \in Nat /\ k < n /\ k + 1 \in 0..n /\ k + 1 \in 1..n
  OBVIOUS
<1>2. x \in T
  BY <1>1
<1>3. u \in Seq(T) /\ Len(u) = k /\ \A j \in 1..k : u[j] = s[j]
  BY BeginningIs
<1>4. w \in Seq(T) /\ Len(w) = k + 1 /\ \A j \in 1..(k + 1) : w[j] = s[j]
  BY <1>1, BeginningIs
<1> HIDE DEF u, w
<1>5. a \in Seq(T) /\ Len(a) = k + 1 /\ (\A j \in 1..k : a[j] = u[j]) /\ a[k + 1] = x
  BY <1>2, <1>3, AppendProperties
<1> HIDE DEF a, n
<1>6. \A j \in 1..(k + 1) : a[j] = w[j]
  <2>1. \A j \in 1..(k + 1) : j \in 1..k \/ j = k + 1
    BY <1>1
  <2>2. w[k + 1] = x
    BY <1>1, <1>4
  <2> HIDE DEF x
  <2> QED BY <1>3, <1>4, <1>5, <2>1, <2>2
<1>7. a = w
  BY <1>4, <1>5, <1>6, SeqEqual
<1> QED BY <1>1, <1>2, <1>7 DEF a, u, w, n, x

\* What the scanner does with a symbol, by what it holds.
LEMMA OneIsNotNone == \A c : << >> # <<c>>
<1>1. ASSUME NEW c PROVE Len(<< >>) = 0 /\ Len(<<c>>) = 1
  OBVIOUS
<1> QED BY <1>1

LEMMA ReadPlain ==
  ASSUME NEW acc \in Accumulator, ~acc.closed, acc.pending = << >>, NEW c, c \notin {Quote, Backslash}
  PROVE  ReadSymbol(acc, c) = [acc EXCEPT !.out = Append(@, c)]
<1>1. acc.pending # <<Backslash>> /\ ~(acc.pending # << >>)
  BY OneIsNotNone
<1> QED BY <1>1, Zenon DEF ReadSymbol

LEMMA ReadEnd ==
  ASSUME NEW acc \in Accumulator, ~acc.closed, acc.pending = << >>
  PROVE  ReadSymbol(acc, Quote) = [acc EXCEPT !.closed = TRUE]
<1>1. acc.pending # <<Backslash>> /\ ~(acc.pending # << >>) /\ Quote # Backslash
  BY OneIsNotNone, Signs
<1> QED BY <1>1, Zenon DEF ReadSymbol

LEMMA ReadClosed == ASSUME NEW acc \in Accumulator, acc.closed, NEW c PROVE ReadSymbol(acc, c) = acc
  BY Zenon DEF ReadSymbol

LEMMA ReadBackslash ==
  ASSUME NEW acc \in Accumulator, ~acc.closed, acc.pending = << >>
  PROVE  ReadSymbol(acc, Backslash) = [acc EXCEPT !.pending = Append(acc.pending, Backslash)]
<1>1. Backslash # Quote
  BY Signs
<1> QED BY <1>1 DEF ReadSymbol

LEMMA ReadEscape ==
  ASSUME NEW acc \in Accumulator, ~acc.closed, acc.pending = <<Backslash>>, NEW c, c # "u"
  PROVE  ReadSymbol(acc, c) = [acc EXCEPT !.out = Append(@, Unescaped(c)), !.pending = << >>]
<1>1. acc.pending # << >> /\ ~(Len(acc.pending) > 1) /\ Len(Append(acc.pending, c)) # 6
  <2>1. Len(<<Backslash>>) = 1 /\ Len(Append(<<Backslash>>, c)) = 2
    OBVIOUS
  <2> QED BY <2>1, OneIsNotNone
<1> QED BY <1>1, Zenon DEF ReadSymbol

LEMMA ReadHex ==
  ASSUME NEW acc \in Accumulator, ~acc.closed, acc.pending # << >>, NEW c \in Ink,
         acc.pending = <<Backslash>> => c = "u", Len(acc.pending) > 1 \/ c = "u", Len(acc.pending) < 5
  PROVE  ReadSymbol(acc, c) = [acc EXCEPT !.pending = Append(acc.pending, c)]
<1>1. Len(Append(acc.pending, c)) < 6 /\ Len(Append(acc.pending, c)) # 6
  <2>1. acc.pending \in Seq(Ink)
    BY DEF Accumulator
  <2>2. Len(acc.pending) \in Nat /\ Len(Append(acc.pending, c)) = Len(acc.pending) + 1
    BY <2>1, AppendProperties
  <2> QED BY <2>2
<1> QED BY <1>1, Zenon DEF ReadSymbol

LEMMA ReadLast ==
  ASSUME NEW acc \in Accumulator, ~acc.closed, Len(acc.pending) = 5, NEW c \in Ink
  PROVE  ReadSymbol(acc, c) =
           [acc EXCEPT !.out = Append(@, decodeHex4(From(Append(acc.pending, c), 3))), !.pending = << >>]
<1>0. acc.pending \in Seq(Ink)
  BY DEF Accumulator
<1>1. acc.pending # << >> /\ acc.pending # <<Backslash>>
  <2>1. Len(<< >>) = 0 /\ Len(<<Backslash>>) = 1 /\ 0 # 5 /\ 1 # 5
    OBVIOUS
  <2> QED BY <2>1
<1>2. Len(Append(acc.pending, c)) = 6 /\ ~(Len(Append(acc.pending, c)) < 6)
  <2> DEFINE p == acc.pending
  <2>1. p \in Seq(Ink) /\ Len(p) = 5
    BY <1>0
  <2> HIDE DEF p
  <2>2. \A q \in Seq(Ink) : Len(Append(q, c)) = Len(q) + 1
    BY AppendProperties
  <2>3. Len(Append(p, c)) = Len(p) + 1
    BY <2>1, <2>2, Zenon
  <2>4. Len(p) + 1 = 6
    BY <2>1
  <2>5. Len(Append(p, c)) = 6 /\ ~(6 < 6)
    BY <2>3, <2>4
  <2> QED BY <2>5 DEF p
<1> QED BY <1>1, <1>2, Zenon DEF ReadSymbol

LEMMA PieceIs ==
  ASSUME NEW T, NEW s \in Seq(T), NEW a \in Nat, NEW b \in Nat, 1 <= a, a <= b + 1, b <= Len(s)
  PROVE  /\ SubSeq(s, a, b) \in Seq(T) /\ Len(SubSeq(s, a, b)) = b - a + 1
         /\ \A q, j \in Nat : 1 <= j /\ j <= b - a + 1 /\ q + 1 = a + j => SubSeq(s, a, b)[j] = s[q]
<1> DEFINE u == SubSeq(s, a, b)
           n == Len(s)
<1>1. n \in Nat /\ a \in Int /\ b \in Int /\ b <= n
  OBVIOUS
<1>2. \A i \in a..b : s[i] \in T
  <2>1. \A i \in a..b : i \in 1..n
    BY <1>1
  <2>2. \A i \in 1..n : s[i] \in T
    OBVIOUS
  <2> QED BY <2>1, <2>2
<1>3. u \in Seq(T) /\ Len(u) = (IF a <= b THEN b - a + 1 ELSE 0) /\ \A i \in 1..(b - a + 1) : u[i] = s[a + i - 1]
  BY <1>1, <1>2, SubSeqProperties
<1> HIDE DEF u
<1>4. Len(u) = b - a + 1
  BY <1>3
<1>5. ASSUME NEW q \in Nat, NEW j \in Nat, 1 <= j, j <= b - a + 1, q + 1 = a + j PROVE u[j] = s[q]
  <2>1. j \in 1..(b - a + 1) /\ a + j - 1 = q
    BY <1>5
  <2> QED BY <1>3, <2>1
<1> QED BY <1>3, <1>4, <1>5 DEF u

\* One symbol of what a character is written as: it is held until the last one, which hands the character on.
OneSymbolOf(ch, h, acc) ==
  LET W == Written(ch) IN
  ReadSymbol(acc, W[h + 1]) =
    IF h + 1 < Len(W) THEN [acc EXCEPT !.pending = SubSeq(W, 1, h + 1)]
    ELSE [acc EXCEPT !.out = Append(@, ch), !.pending = << >>]

LEMMA ReadPlainCharacter ==
  ASSUME NEW acc \in Accumulator, ~acc.closed, NEW ch \in Character, ch \notin {"newline", "quote", "eacute"},
         acc.pending = << >>
  PROVE  OneSymbolOf(ch, 0, acc)
<1>1. Written(ch) = <<ch>> /\ ch \notin {Quote, Backslash}
  BY WrittenIs DEF Character
<1>2. Len(<<ch>>) = 1 /\ <<ch>>[0 + 1] = ch /\ ~(0 + 1 < 1)
  OBVIOUS
<1>3. ReadSymbol(acc, ch) = [acc EXCEPT !.out = Append(@, ch)]
  BY <1>1, ReadPlain
<1>4. [acc EXCEPT !.out = Append(@, ch)] = [acc EXCEPT !.out = Append(@, ch), !.pending = << >>]
  BY DEF Accumulator
<1> QED BY <1>1, <1>2, <1>3, <1>4 DEF OneSymbolOf

LEMMA ReadShortEscape ==
  ASSUME NEW acc \in Accumulator, ~acc.closed, NEW ch \in Character, NEW e \in Ink, e # "u", Unescaped(e) = ch,
         Written(ch) = <<Backslash, e>>, NEW h \in 0..1, acc.pending = SubSeq(Written(ch), 1, h)
  PROVE  OneSymbolOf(ch, h, acc)
<1> DEFINE W == Written(ch)
<1>1. W \in Seq(Ink) /\ Len(W) = 2 /\ W[1] = Backslash /\ W[2] = e
  BY InkHas, TwoIs
<1>2. CASE h = 0
  <2>1. acc.pending = << >> /\ Append(SubSeq(W, 1, 0), W[0 + 1]) = SubSeq(W, 1, 0 + 1) /\ SubSeq(W, 1, 0) = << >>
    <3>1. 0 \in 0..Len(W) /\ 0 < Len(W)
      BY <1>1
    <3> HIDE DEF W
    <3>2. SubSeq(W, 1, 0) = << >>
      BY <1>1, <3>1, BeginningIs
    <3>3. Append(SubSeq(W, 1, 0), W[0 + 1]) = SubSeq(W, 1, 0 + 1)
      BY <1>1, <3>1, BeginningGrows
    <3> QED BY <1>2, <3>2, <3>3 DEF W
  <2> HIDE DEF W
  <2>2. W[0 + 1] = Backslash /\ 0 + 1 < Len(W)
    BY <1>1
  <2>3. ReadSymbol(acc, Backslash) = [acc EXCEPT !.pending = Append(acc.pending, Backslash)]
    BY <2>1, ReadBackslash
  <2>4. Append(acc.pending, Backslash) = SubSeq(W, 1, 0 + 1)
    BY <2>1, <2>2
  <2> QED BY <1>2, <2>2, <2>3, <2>4 DEF OneSymbolOf, W
<1>3. CASE h = 1
  <2> HIDE DEF W
  <2>1. W[1 + 1] = e /\ ~(1 + 1 < Len(W))
    BY <1>1
  <2>2. SubSeq(W, 1, 1) = <<Backslash>>
    <3>1. 1 \in 0..Len(W)
      BY <1>1
    <3>2. SubSeq(W, 1, 1) \in Seq(Ink) /\ Len(SubSeq(W, 1, 1)) = 1 /\ SubSeq(W, 1, 1)[1] = Backslash
      BY <1>1, <3>1, BeginningIs
    <3> DEFINE u == SubSeq(W, 1, 1)
    <3> HIDE DEF u
    <3>3. u \in Seq(Ink) /\ Len(u) = 1 /\ u[1] = Backslash
      BY <3>2 DEF u
    <3>4. <<Backslash>> \in Seq(Ink) /\ Len(<<Backslash>>) = 1 /\ <<Backslash>>[1] = Backslash
      BY InkHas, OneIs
    <3>5. u = <<Backslash>>
      BY <3>3, <3>4, SeqEqual
    <3> QED BY <3>5 DEF u
  <2>3. acc.pending = <<Backslash>>
    BY <1>3, <2>2 DEF W
  <2>4. ReadSymbol(acc, e) = [acc EXCEPT !.out = Append(@, Unescaped(e)), !.pending = << >>]
    BY <2>3, ReadEscape
  <2> QED BY <1>3, <2>1, <2>4 DEF OneSymbolOf, W
<1> QED BY <1>2, <1>3

LEMMA ReadLongEscape ==
  ASSUME NEW acc \in Accumulator, ~acc.closed, NEW h \in 0..5, acc.pending = SubSeq(Written("eacute"), 1, h),
         "eacute" \in Character
  PROVE  OneSymbolOf("eacute", h, acc)
<1> DEFINE W == Written("eacute")
           c == W[h + 1]
<1>1. /\ W \in Seq(Ink) /\ Len(W) = 6 /\ W[1] = Backslash /\ W[2] = "u" /\ W[3] = "0" /\ W[4] = "0" /\ W[5] = "e"
      /\ W[6] = "9"
  <2> DEFINE s == <<Backslash, "u", "0", "0", "e", "9">>
  <2>1. W = s
    BY WrittenIs
  <2>2. /\ s \in Seq(Ink) /\ Len(s) = 6
        /\ s[1] = Backslash /\ s[2] = "u" /\ s[3] = "0" /\ s[4] = "0" /\ s[5] = "e" /\ s[6] = "9"
    BY InkHas, SixIs
  <2> HIDE DEF W, s
  <2> QED BY <2>1, <2>2
<1> HIDE DEF W
<1>2. h \in 0..Len(W) /\ h < Len(W) /\ h + 1 \in 0..Len(W) /\ h + 1 \in 1..6
  BY <1>1
<1>3. Append(SubSeq(W, 1, h), c) = SubSeq(W, 1, h + 1) /\ c \in Ink
  BY <1>1, <1>2, BeginningGrows
<1>4. SubSeq(W, 1, h) \in Seq(Ink) /\ Len(SubSeq(W, 1, h)) = h /\ (h = 0 => SubSeq(W, 1, h) = << >>)
  BY <1>1, <1>2, BeginningIs
<1>5. acc.pending = SubSeq(W, 1, h)
  BY DEF W
<1>6. CASE h = 0
  <2>1. c = Backslash /\ h + 1 < Len(W) /\ acc.pending = << >>
    BY <1>1, <1>4, <1>5, <1>6
  <2>2. ReadSymbol(acc, Backslash) = [acc EXCEPT !.pending = Append(acc.pending, Backslash)]
    BY <2>1, ReadBackslash
  <2> QED BY <1>3, <1>5, <2>1, <2>2 DEF OneSymbolOf, W
<1>7. CASE h \in 1..4
  <2>1. h + 1 < Len(W) /\ Len(acc.pending) = h /\ Len(acc.pending) < 5 /\ acc.pending # << >>
    <3>1. h + 1 < Len(W) /\ h < 5 /\ h # 0
      BY <1>1, <1>7
    <3>2. Len(<< >>) = 0
      OBVIOUS
    <3> QED BY <1>4, <1>5, <3>1, <3>2
  <2>2. h = 1 => c = "u"
    BY <1>1
  <2>3. acc.pending = <<Backslash>> => c = "u"
    <3>1. Len(<<Backslash>>) = 1
      OBVIOUS
    <3> QED BY <2>1, <2>2, <3>1
  <2>4. Len(acc.pending) > 1 \/ c = "u"
    BY <1>7, <2>1, <2>2
  <2> HIDE DEF c
  <2>5. ReadSymbol(acc, c) = [acc EXCEPT !.pending = Append(acc.pending, c)]
    BY <1>3, <2>1, <2>3, <2>4, ReadHex
  <2> QED BY <1>3, <1>5, <2>1, <2>5 DEF OneSymbolOf, W, c
<1>8. CASE h = 5
  <2>1. ~(h + 1 < Len(W)) /\ Len(acc.pending) = 5 /\ SubSeq(W, 1, h + 1) = W
    <3>1. h + 1 = Len(W)
      BY <1>1, <1>8
    <3>2. SubSeq(W, 1, h + 1) = W
      BY <1>1, <1>2, <3>1, BeginningIs
    <3>3. ~(h + 1 < Len(W)) /\ Len(acc.pending) = 5
      BY <1>1, <1>4, <1>5, <1>8
    <3> QED BY <3>2, <3>3
  <2>2. From(W, 3) = <<"0", "0", "e", "9">>
    <3> DEFINE u == SubSeq(W, 3, Len(W))
    <3>1. u \in Seq(Ink) /\ Len(u) = 4 /\ u[1] = "0" /\ u[2] = "0" /\ u[3] = "e" /\ u[4] = "9"
      <4> DEFINE n == Len(W)
      <4>0. W \in Seq(Ink) /\ n = 6 /\ n \in Nat /\ 3 <= n + 1 /\ n <= Len(W)
        BY <1>1
      <4> HIDE DEF n
      <4>1. /\ SubSeq(W, 3, n) \in Seq(Ink) /\ Len(SubSeq(W, 3, n)) = n - 3 + 1
            /\ \A q, j \in Nat : 1 <= j /\ j <= n - 3 + 1 /\ q + 1 = 3 + j => SubSeq(W, 3, n)[j] = W[q]
        BY <4>0, PieceIs
      <4>2. u \in Seq(Ink) /\ Len(u) = 4 /\ \A q, j \in Nat : 1 <= j /\ j <= 4 /\ q + 1 = 3 + j => u[j] = W[q]
        BY <4>0, <4>1 DEF n
      <4> HIDE DEF u
      <4>3. u[1] = W[3] /\ u[2] = W[4] /\ u[3] = W[5] /\ u[4] = W[6]
        BY <4>2
      <4> QED BY <1>1, <4>2, <4>3
    <3>2. u = <<"0", "0", "e", "9">>
      <4> HIDE DEF u
      <4>1. <<"0", "0", "e", "9">> \in Seq(Ink) /\ Len(<<"0", "0", "e", "9">>) = 4
        BY InkHas
      <4>2. \A i \in 1..4 : u[i] = <<"0", "0", "e", "9">>[i]
        BY <3>1
      <4> QED BY <3>1, <4>1, <4>2, SeqEqual
    <3> QED BY <3>2 DEF From
  <2>3. decodeHex4(From(Append(acc.pending, c), 3)) = "eacute"
    BY <1>3, <1>5, <2>1, <2>2 DEF decodeHex4
  <2> HIDE DEF c
  <2>4. ReadSymbol(acc, c) = [acc EXCEPT !.out = Append(@, decodeHex4(From(Append(acc.pending, c), 3))), !.pending = << >>]
    BY <1>3, <2>1, ReadLast
  <2> QED BY <2>1, <2>3, <2>4 DEF OneSymbolOf, W, c
<1>9. h = 0 \/ h \in 1..4 \/ h = 5
  OBVIOUS
<1> QED BY <1>6, <1>7, <1>8, <1>9

LEMMA QuoteIsNoLetter == Quote # "n" /\ Quote # "u"
  BY Zenon DEF Quote

\* Whatever the character, and wherever in it the frame ended.
LEMMA ReadUnit ==
  ASSUME NEW acc \in Accumulator, ~acc.closed, NEW ch \in Character, NEW h \in Nat, h < Len(Written(ch)),
         acc.pending = SubSeq(Written(ch), 1, h)
  PROVE  OneSymbolOf(ch, h, acc)
<1>0. Written(ch) \in Seq(Ink)
  BY WrittenIs
<1>1. CASE ch \notin {"newline", "quote", "eacute"}
  <2>1. Written(ch) = <<ch>> /\ Len(<<ch>>) = 1
    BY <1>1, WrittenIs
  <2>2. h = 0
    BY <2>1
  <2>3. acc.pending = << >>
    BY <1>0, <2>2, BeginningIs
  <2>4. OneSymbolOf(ch, 0, acc)
    BY <1>1, <2>3, ReadPlainCharacter
  <2> QED BY <2>2, <2>4
<1>2. CASE ch = "newline"
  <2>1. Written(ch) = <<Backslash, "n">> /\ Len(<<Backslash, "n">>) = 2
    BY <1>2, WrittenIs
  <2>2. h \in 0..1
    BY <2>1
  <2>3. Unescaped("n") = ch /\ "n" # "u" /\ "n" \in Ink
    <3>1. Quote # "n"
      BY QuoteIsNoLetter
    <3>2. Unescaped("n") = "newline"
      BY <3>1 DEF Unescaped
    <3>3. "n" # "u" /\ "n" \in Ink
      BY InkHas
    <3> QED BY <1>2, <3>2, <3>3
  <2> QED BY <2>1, <2>2, <2>3, ReadShortEscape
<1>3. CASE ch = "quote"
  <2>1. Written(ch) = <<Backslash, Quote>> /\ Len(<<Backslash, Quote>>) = 2
    BY <1>3, WrittenIs
  <2>2. h \in 0..1
    BY <2>1
  <2>3. Unescaped(Quote) = ch /\ Quote # "u" /\ Quote \in Ink
    BY <1>3, InkHas, QuoteIsNoLetter, Zenon DEF Unescaped
  <2> QED BY <2>1, <2>2, <2>3, ReadShortEscape
<1>4. CASE ch = "eacute"
  <2>1. Written(ch) = <<Backslash, "u", "0", "0", "e", "9">> /\ Len(<<Backslash, "u", "0", "0", "e", "9">>) = 6
    BY <1>4, WrittenIs
  <2>2. h \in 0..5
    BY <2>1
  <2> QED BY <1>4, <2>2, ReadLongEscape
<1> QED BY <1>1, <1>2, <1>3, <1>4

LEMMA AppendToConcat ==
  ASSUME NEW S, NEW s \in Seq(S), NEW t \in Seq(S), NEW e \in S
  PROVE  s \o Append(t, e) = Append(s \o t, e)
<1> DEFINE l == <<e>>
<1>1. l \in Seq(S)
  OBVIOUS
<1>2. Append(t, e) = t \o l
  BY AppendIsConcat
<1>3. s \o t \in Seq(S)
  BY ConcatProperties
<1>4. Append(s \o t, e) = (s \o t) \o l
  BY <1>3, AppendIsConcat
<1> HIDE DEF l
<1>5. (s \o t) \o l = s \o (t \o l)
  BY <1>1, ConcatAssociative
<1> QED BY <1>2, <1>4, <1>5

\* One symbol more of a value: another beginning of it, or its end.
OneMore(v, m, e, r) ==
  /\ r \in Accumulator
  /\ m < Len(WrittenText(v)) => ~r.closed /\ InText(v, m + 1, e \o r.out, r.pending)
  /\ m = Len(WrittenText(v)) => r.closed /\ r.pending = << >> /\ e \o r.out = v

LEMMA CharacterAdded ==
  ASSUME NEW s \in Seq(Character), NEW t \in Seq(Character), NEW ch \in Character
  PROVE  s \o Append(t, ch) = Append(s \o t, ch)
  BY AppendToConcat

LastOf(a, l, b, h, m) == a \in Nat /\ l \in Nat /\ b = a + l /\ m + 1 = a + (h + 1) /\ h < l /\ ~(h + 1 < l)

LEMMA LastPlace == ASSUME NEW a, NEW l, NEW b, NEW h \in Nat, NEW m \in Nat, LastOf(a, l, b, h, m) PROVE b = m + 1 /\ m + 1 = b + 0
  BY DEF LastOf

LEMMA InsideCharacter ==
  ASSUME NEW v \in Seq(Character), NEW acc \in Accumulator, ~acc.closed, NEW e \in Seq(Character),
         NEW k \in 0..Len(v), k < Len(v), e \o acc.out = SubSeq(v, 1, k),
         NEW h \in Nat, h < Len(Written(v[k + 1])), acc.pending = SubSeq(Written(v[k + 1]), 1, h),
         NEW m \in Nat, m = Len(Joining(ValueParts(v))[k]) + h,
         NEW c, m < Len(WrittenText(v)) => c = WrittenText(v)[m + 1]
  PROVE  m < Len(WrittenText(v)) /\ OneMore(v, m, e, ReadSymbol(acc, c))
<1> DEFINE ch == v[k + 1]
           W == Written(v[k + 1])
           J == Joining(ValueParts(v))
           n == Len(v)
           total == WrittenText(v)
           r == ReadSymbol(acc, c)
<1>1. n \in Nat /\ k \in Nat /\ k < n /\ k + 1 \in 1..n /\ k + 1 \in 0..n /\ n \in 0..n /\ (k + 1) - 1 = k /\ k \in 0..n
  OBVIOUS
<1>2. ch \in Character /\ W \in Seq(Ink) /\ Len(W) \in Nat
  <2>1. ch \in Character
    BY <1>1
  <2>2. W \in Seq(Ink)
    BY <2>1, WrittenIs
  <2> QED BY <2>1, <2>2
<1>3. J[k + 1] = J[k] \o W /\ J[k] \in Seq(Ink) /\ J[k + 1] \in Seq(Ink) /\ J[n] = total
  <2> DEFINE P == ValueParts(v)
  <2>1. P \in Seq(Seq(Ink)) /\ Len(P) = n /\ total = J[n] /\ P[k + 1] = W
    BY <1>1, ValueWritten
  <2> HIDE DEF W, total, ch, n, P
  <2>2. /\ (\A i \in 0..Len(P) : Joining(P)[i] \in Seq(Ink))
        /\ \A i \in 1..Len(P) : Joining(P)[i] = Joining(P)[i - 1] \o P[i]
    BY <2>1, JoiningAdds
  <2>3. /\ (\A i \in 0..n : J[i] \in Seq(Ink)) /\ \A i \in 1..n : J[i] = J[i - 1] \o P[i]
    BY <2>1, <2>2 DEF P
  <2> HIDE DEF J
  <2>4. J[k + 1] = J[(k + 1) - 1] \o P[k + 1]
    BY <1>1, <2>3
  <2> QED BY <1>1, <2>1, <2>3, <2>4
<1>4. Len(J[k + 1]) <= Len(total) /\ \A j \in 1..Len(J[k + 1]) : total[j] = J[k + 1][j]
  <2> DEFINE P == ValueParts(v)
  <2>1. P \in Seq(Seq(Ink)) /\ Len(P) = n
    BY ValueWritten
  <2> HIDE DEF n, P
  <2>2. k + 1 \in 0..Len(P) /\ n \in 0..Len(P) /\ k + 1 <= n
    BY <1>1, <2>1
  <2>3. Len(Joining(P)[k + 1]) <= Len(Joining(P)[n]) /\ \A j \in 1..Len(Joining(P)[k + 1]) : Joining(P)[n][j] = Joining(P)[k + 1][j]
    BY <2>1, <2>2, JoiningGrows
  <2>4. Len(J[k + 1]) <= Len(J[n]) /\ \A j \in 1..Len(J[k + 1]) : J[n][j] = J[k + 1][j]
    BY <2>3 DEF P
  <2> QED BY <1>3, <2>4
<1>5. OneSymbolOf(ch, h, acc)
  BY <1>2, ReadUnit
<1>6. h \in 0..Len(W) /\ h < Len(W) /\ h + 1 \in 0..Len(W) /\ h + 1 \in 1..Len(W)
  BY <1>2
<1> HIDE DEF W, J, total, ch
<1>7. Len(J[k + 1]) = Len(J[k]) + Len(W) /\ Len(J[k]) \in Nat /\ \A q, j \in Nat : 1 <= j /\ j <= Len(W) /\ q = Len(J[k]) + j => J[k + 1][q] = W[j]
  <2>1. Follows(J[k] \o W, J[k], W)
    BY <1>2, <1>3, ConcatFollows
  <2>2. Follows(J[k + 1], J[k], W)
    BY <1>3, <2>1
  <2>3. /\ Len(J[k + 1]) = Len(J[k]) + Len(W) /\ Len(J[k]) \in Nat
        /\ \A q, j \in Nat : 1 <= j /\ j <= Len(W) /\ q = Len(J[k]) + j => J[k + 1][q] = W[j]
    BY <2>2, Zenon DEF Follows
  <2> QED BY <2>3
<1>8. m = Len(J[k]) + h
  BY DEF J
<1>9. m < Len(total) /\ m + 1 <= Len(J[k + 1]) /\ m + 1 = Len(J[k]) + (h + 1)
  <2>1. Len(total) \in Nat
    BY <1>3, <1>1, ValueWritten DEF total
  <2> DEFINE a == Len(J[k])
             b == Len(J[k + 1])
             l == Len(W)
             z == Len(total)
  <2>2. a \in Nat /\ l \in Nat /\ z \in Nat /\ b = a + l /\ b <= z /\ m = a + h /\ h < l
    BY <1>2, <1>4, <1>6, <1>7, <1>8, <2>1
  <2> HIDE DEF a, b, l, z
  <2>3. m < z /\ m + 1 <= b /\ m + 1 = a + (h + 1)
    BY <2>2
  <2> QED BY <2>3 DEF a, b, l, z
<1>10. c = W[h + 1]
  <2>1. c = total[m + 1]
    BY <1>9 DEF total
  <2>2. total[m + 1] = J[k + 1][m + 1]
    <3>1. m + 1 \in 1..Len(J[k + 1])
      <4>1. Len(J[k + 1]) \in Nat
        BY <1>2, <1>7
      <4> QED BY <1>9, <4>1
    <3> QED BY <1>4, <3>1
  <2>3. J[k + 1][m + 1] = W[h + 1]
    <3>1. m + 1 \in Nat /\ h + 1 \in Nat /\ 1 <= h + 1 /\ h + 1 <= Len(W)
      BY <1>6
    <3> QED BY <1>7, <1>9, <3>1
  <2> QED BY <2>1, <2>2, <2>3
<1>11. acc.out \in Seq(Character) /\ acc.pending \in Seq(Ink) /\ acc.closed = FALSE
  BY DEF Accumulator
<1>12. CASE h + 1 < Len(W)
  <2> DEFINE now == SubSeq(W, 1, h + 1)
  <2>1. r = [acc EXCEPT !.pending = now]
    BY <1>5, <1>10, <1>12 DEF OneSymbolOf, W, ch
  <2>2. now \in Seq(Ink) /\ Len(now) = h + 1
    BY <1>2, <1>6, BeginningIs
  <2> HIDE DEF now, r
  <2>3. r \in Accumulator /\ ~r.closed /\ r.out = acc.out /\ r.pending = now
    BY <2>1, <2>2 DEF Accumulator
  <2>4. InText(v, m + 1, e \o r.out, r.pending)
    <3>1. m + 1 = Len(J[k]) + Len(now) /\ now = SubSeq(W, 1, Len(now)) /\ Len(now) < Len(W)
      BY <1>9, <1>12, <2>2 DEF now
    <3> QED BY <1>1, <2>3, <3>1 DEF InText, J, W, ch
  <2>5. ~(m = Len(total))
    BY <1>9, <1>3, ValueWritten DEF total
  <2> QED BY <1>9, <2>3, <2>4, <2>5 DEF OneMore, r, total
<1>13. CASE ~(h + 1 < Len(W))
  <2>1. r = [acc EXCEPT !.out = Append(@, ch), !.pending = << >>]
    BY <1>5, <1>10, <1>13 DEF OneSymbolOf, W, ch
  <2>2. Append(acc.out, ch) \in Seq(Character) /\ << >> \in Seq(Ink)
    BY <1>2, <1>11, AppendProperties, EmptySeq
  <2> HIDE DEF r
  <2>3. r \in Accumulator /\ ~r.closed /\ r.out = Append(acc.out, ch) /\ r.pending = << >>
    BY <2>1, <2>2 DEF Accumulator
  <2>4. e \o Append(acc.out, ch) = Append(e \o acc.out, ch)
    <3> DEFINE o == acc.out
    <3>1. o \in Seq(Character)
      BY <1>11
    <3> HIDE DEF o
    <3>2. e \o Append(o, ch) = Append(e \o o, ch)
      <4>1. \A x \in Character : e \o Append(o, x) = Append(e \o o, x)
        BY <3>1, CharacterAdded, Zenon
      <4> QED BY <1>2, <4>1
    <3> QED BY <3>2 DEF o
  <2>5. Append(SubSeq(v, 1, k), ch) = SubSeq(v, 1, k + 1)
    BY <1>1, BeginningGrows DEF ch
  <2>6. e \o r.out = SubSeq(v, 1, k + 1)
    BY <2>3, <2>4, <2>5
  <2>7. m + 1 = Len(J[k + 1]) + Len(<< >>)
    <3> DEFINE a == Len(J[k])
               l == Len(W)
               b == Len(J[k + 1])
    <3>1. a \in Nat /\ l \in Nat /\ b = a + l /\ m + 1 = a + (h + 1)
      BY <1>2, <1>7, <1>9
    <3>2. h < l /\ ~(h + 1 < l)
      BY <1>6, <1>13, Zenon
    <3>3. LastOf(a, l, b, h, m)
      BY <3>1, <3>2, Zenon DEF LastOf
    <3> HIDE DEF a, l, b
    <3>4. b = m + 1 /\ m + 1 = b + 0
      BY <3>3, LastPlace
    <3>5. Len(<< >>) = 0
      OBVIOUS
    <3> QED BY <3>4, <3>5 DEF b
  <2>8. InText(v, m + 1, e \o r.out, r.pending)
    BY <1>1, <2>3, <2>6, <2>7 DEF InText, J
  <2>9. ~(m = Len(total))
    BY <1>9, <1>3, ValueWritten DEF total
  <2> QED BY <1>9, <2>3, <2>8, <2>9 DEF OneMore, r, total
<1> QED BY <1>9, <1>12, <1>13 DEF total, r

LEMMA ReadOneMore ==
  ASSUME NEW v \in Seq(Character), NEW acc \in Accumulator, ~acc.closed, NEW e \in Seq(Character), NEW m \in Nat,
         InText(v, m, e \o acc.out, acc.pending),
         NEW c, m < Len(WrittenText(v)) => c = WrittenText(v)[m + 1], m = Len(WrittenText(v)) => c = Quote
  PROVE  m <= Len(WrittenText(v)) /\ OneMore(v, m, e, ReadSymbol(acc, c))
<1> DEFINE J == Joining(ValueParts(v))
           held == acc.pending
           total == WrittenText(v)
<1>1. PICK k \in 0..Len(v) :
        /\ e \o acc.out = SubSeq(v, 1, k)
        /\ m = Len(J[k]) + Len(held)
        /\ held # << >> => /\ k < Len(v) /\ Len(held) < Len(Written(v[k + 1]))
                           /\ held = SubSeq(Written(v[k + 1]), 1, Len(held))
  BY DEF InText
<1>2. held \in Seq(Ink) /\ Len(held) \in Nat /\ Len(v) \in Nat /\ Len(<< >>) = 0 /\ total \in Seq(Ink) /\ Len(total) \in Nat
  BY ValueWritten DEF Accumulator
<1>3. CASE k < Len(v)
  <2> DEFINE W == Written(v[k + 1])
  <2>1. W \in Seq(Ink) /\ Len(W) \in 1..6
    <3>1. k + 1 \in 1..Len(v)
      BY <1>2, <1>3
    <3>2. v[k + 1] \in Character
      BY <3>1
    <3> QED BY <3>2, WrittenIs
  <2> HIDE DEF W
  <2>2. Len(held) < Len(W) /\ held = SubSeq(W, 1, Len(held))
    <3>1. CASE held # << >>
      BY <1>1, <3>1 DEF W
    <3>2. CASE held = << >>
      <4>1. Len(held) = 0 /\ 0 \in 0..Len(W)
        BY <2>1, <3>2
      <4>2. SubSeq(W, 1, 0) = << >>
        BY <2>1, <4>1, BeginningIs
      <4>3. 0 < Len(W)
        <5>1. \A n \in 1..6 : 0 < n
          OBVIOUS
        <5> QED BY <2>1, <5>1, Zenon
      <4> QED BY <3>2, <4>1, <4>2, <4>3
    <3> QED BY <3>1, <3>2
  <2> HIDE DEF held, J, total
  <2>3. m < Len(total) /\ OneMore(v, m, e, ReadSymbol(acc, c))
    BY <1>1, <1>2, <1>3, <2>2, InsideCharacter DEF W, J, total, held
  <2>4. m <= Len(total)
    BY <1>2, <2>3
  <2> QED BY <2>3, <2>4 DEF total
<1>4. CASE ~(k < Len(v))
  <2>1. held = << >> /\ k = Len(v)
    BY <1>1, <1>2, <1>4
  <2>2. e \o acc.out = v
    BY <1>1, <1>2, <2>1, BeginningIs
  <2>3. J[Len(v)] = total
    BY ValueWritten
  <2> HIDE DEF total, J
  <2>4. m = Len(total)
    BY <1>1, <1>2, <2>1, <2>3
  <2>5. ReadSymbol(acc, Quote) = [acc EXCEPT !.closed = TRUE]
    BY <2>1, ReadEnd
  <2>6. c = Quote
    BY <2>4 DEF total
  <2> DEFINE r == ReadSymbol(acc, c)
  <2>7. r \in Accumulator /\ r.closed /\ r.out = acc.out /\ r.pending = << >>
    BY <2>1, <2>5, <2>6 DEF Accumulator
  <2> HIDE DEF r
  <2>8. ~(m < Len(total)) /\ m <= Len(total)
    BY <1>2, <2>4
  <2>9. e \o r.out = v
    BY <2>2, <2>7
  <2> QED BY <2>7, <2>8, <2>9 DEF OneMore, total, r
<1> QED BY <1>3, <1>4

\* What k symbols, read from where a value stands after m of its own, make of it.
ReadTo(v, m, e, r) ==
  /\ r \in Accumulator
  /\ r.closed => r.pending = << >> /\ e \o r.out = v
  /\ ~r.closed => InText(v, m, e \o r.out, r.pending)

\* The symbols of s stand in the value behind the first m.
Behind(v, m, s) ==
  \A j \in 1..Len(s) : \A q \in Nat : q + 1 = m + j =>
    /\ q < Len(WrittenText(v)) => s[j] = WrittenText(v)[q + 1]
    /\ q = Len(WrittenText(v)) => s[j] = Quote

LEMMA ReadToOneMore ==
  ASSUME NEW v \in Seq(Character), NEW e \in Seq(Character), NEW m \in Nat, NEW r, ReadTo(v, m, e, r), NEW c,
         m < Len(WrittenText(v)) => c = WrittenText(v)[m + 1], m = Len(WrittenText(v)) => c = Quote
  PROVE  ReadTo(v, m + 1, e, ReadSymbol(r, c))
<1> DEFINE total == WrittenText(v)
           x == ReadSymbol(r, c)
<1>1. Len(total) \in Nat /\ r \in Accumulator
  BY ValueWritten DEF ReadTo
<1>2. CASE r.closed
  <2>1. x = r
    BY <1>1, <1>2, ReadClosed
  <2> QED BY <1>2, <2>1 DEF ReadTo
<1>3. CASE ~r.closed
  <2>1. m <= Len(total) /\ OneMore(v, m, e, x)
    BY <1>1, <1>3, ReadOneMore DEF ReadTo
  <2> HIDE DEF total
  <2>2. m < Len(total) \/ m = Len(total)
    BY <1>1, <2>1
  <2> HIDE DEF x
  <2> QED BY <2>1, <2>2 DEF OneMore, ReadTo, total, x
<1> QED BY <1>2, <1>3

LEMMA ReadingValue ==
  ASSUME NEW v \in Seq(Character), NEW e \in Seq(Character), NEW m \in Nat, NEW T, NEW s \in Seq(T),
         NEW t, t.pending \in Seq(Ink), InText(v, m, e, t.pending), Behind(v, m, s)
  PROVE  \A k \in 0..Len(s) : ReadTo(v, m + k, e, Reading(t, s)[k])
<1> DEFINE R == Reading(t, s)
           n == Len(s)
           bad == {k \in 0..n : ~ReadTo(v, m + k, e, R[k])}
<1>1. /\ n \in Nat /\ R[0] = [out |-> << >>, pending |-> t.pending, closed |-> FALSE]
      /\ \A k \in 1..n : R[k] = ReadSymbol(R[k - 1], s[k])
  BY ReadingIs
<1>2. ReadTo(v, m + 0, e, R[0])
  <2>1. R[0] \in Accumulator /\ R[0].out = << >> /\ R[0].pending = t.pending /\ R[0].closed = FALSE
    <3>1. << >> \in Seq(Character)
      BY EmptySeq
    <3> QED BY <1>1, <3>1 DEF Accumulator
  <2>2. e \o << >> = e
    BY ConcatEmptySeq
  <2>3. m + 0 = m
    OBVIOUS
  <2> HIDE DEF R
  <2> QED BY <2>1, <2>2, <2>3 DEF ReadTo
<1> HIDE DEF R, n
<1>3. ASSUME NEW k \in 1..n, ReadTo(v, m + (k - 1), e, R[k - 1]) PROVE ReadTo(v, m + k, e, R[k])
  <2> DEFINE q == m + (k - 1)
  <2>1. q \in Nat /\ q + 1 = m + k
    BY <1>1
  <2>2. (q < Len(WrittenText(v)) => s[k] = WrittenText(v)[q + 1]) /\ (q = Len(WrittenText(v)) => s[k] = Quote)
    BY <2>1 DEF Behind, n
  <2>3. ReadTo(v, q, e, R[k - 1])
    BY <1>3
  <2> HIDE DEF q
  <2>4. ReadTo(v, q + 1, e, ReadSymbol(R[k - 1], s[k]))
    BY <2>1, <2>2, <2>3, ReadToOneMore
  <2> QED BY <1>1, <2>1, <2>4
<1>4. bad = {}
  <2> SUFFICES ASSUME bad # {} PROVE FALSE
    OBVIOUS
  <2>1. bad \subseteq Nat
    BY <1>1
  <2>2. PICK k \in bad : \A i \in bad : k <= i
    <3> HIDE DEF bad
    <3> QED BY <2>1, LeastNumber
  <2>3. k \in 0..n /\ ~ReadTo(v, m + k, e, R[k])
    OBVIOUS
  <2>4. k # 0
    BY <1>2, <2>3
  <2>5. k \in 1..n /\ k - 1 \in 0..n /\ ~(k <= k - 1)
    BY <1>1, <2>3, <2>4
  <2>6. k - 1 \notin bad
    BY <2>2, <2>5, Zenon
  <2>7. ReadTo(v, m + (k - 1), e, R[k - 1])
    BY <2>5, <2>6
  <2> QED BY <1>3, <2>3, <2>5, <2>7
<1>5. \A k \in 0..n : ReadTo(v, m + k, e, R[k])
  BY <1>4
<1> QED BY <1>5 DEF R, n

\* However a frame is cut, a value in it is read to the beginning it holds, or to its end.
LEMMA ConsumeReads ==
  ASSUME NEW v \in Seq(Character), NEW e \in Seq(Character), NEW m \in Nat, NEW T, NEW s \in Seq(T),
         NEW t, t.pending \in Seq(Ink), InText(v, m, e, t.pending), Behind(v, m, s)
  PROVE  LET r == consume(t, s) IN
         /\ r.out \in Seq(Character) /\ r.t.pending \in Seq(Ink)
         /\ \/ r.t.state = "finished" /\ e \o r.out = v
            \/ r.t.state = "inValue" /\ InText(v, m + Len(s), e \o r.out, r.t.pending)
<1> DEFINE a == Reading(t, s)[Len(s)]
           r == consume(t, s)
<1>1. ReadTo(v, m + Len(s), e, a)
  <2>1. Len(s) \in 0..Len(s)
    OBVIOUS
  <2>2. \A k \in 0..Len(s) : ReadTo(v, m + k, e, Reading(t, s)[k])
    BY ReadingValue
  <2> QED BY <2>1, <2>2
<1>2. r = [t |-> [state |-> IF a.closed THEN "finished" ELSE "inValue", buf |-> << >>,
                  pending |-> IF a.closed THEN << >> ELSE a.pending],
           out |-> a.out]
  BY DEF consume, ReadAll
<1>3. a.out \in Seq(Character) /\ a.pending \in Seq(Ink) /\ << >> \in Seq(Ink)
  <2>1. a \in Accumulator
    BY <1>1 DEF ReadTo
  <2> HIDE DEF a
  <2> QED BY <2>1, EmptySeq DEF Accumulator
<1> HIDE DEF a
<1>4. /\ r.out = a.out /\ r.t.state = (IF a.closed THEN "finished" ELSE "inValue")
      /\ r.t.pending = (IF a.closed THEN << >> ELSE a.pending)
  BY <1>2
<1> HIDE DEF r
<1>5. CASE a.closed
  BY <1>1, <1>3, <1>4, <1>5 DEF ReadTo, r
<1>6. CASE ~a.closed
  BY <1>1, <1>3, <1>4, <1>6 DEF ReadTo, r
<1> QED BY <1>5, <1>6

-----------------------------------------------------------------------------
\* What the scanner has of what arrived, and where it searches.

LEMMA CutIs ==
  ASSUME NEW T, NEW s \in Seq(T), NEW b \in Nat, NEW n \in Nat, b <= n, n <= Len(s)
  PROVE  /\ Cut(s, b, n) \in Seq(T) /\ Len(Cut(s, b, n)) \in Nat /\ b + Len(Cut(s, b, n)) = n
         /\ \A q, j \in Nat : 1 <= j /\ j <= Len(Cut(s, b, n)) /\ q = b + j => Cut(s, b, n)[j] = s[q]
<1> DEFINE a == b + 1
           u == SubSeq(s, a, n)
<1>1. a \in Nat /\ 1 <= a /\ a <= n + 1
  OBVIOUS
<1> HIDE DEF a
<1>2. u \in Seq(T) /\ Len(u) = n - a + 1 /\ \A q, j \in Nat : 1 <= j /\ j <= n - a + 1 /\ q + 1 = a + j => u[j] = s[q]
  BY <1>1, PieceIs
<1> HIDE DEF u
<1>3. n - a + 1 = n - b /\ n - b \in Nat /\ b + (n - b) = n
  BY DEF a
<1>4. ASSUME NEW q \in Nat, NEW j \in Nat, 1 <= j, j <= n - b, q = b + j PROVE u[j] = s[q]
  <2>1. q + 1 = a + j /\ j <= n - a + 1
    BY <1>3, <1>4 DEF a
  <2> QED BY <1>2, <1>4, <2>1
<1>5. u = Cut(s, b, n)
  BY DEF u, a, Cut
<1>6. /\ u \in Seq(T) /\ Len(u) \in Nat /\ b + Len(u) = n
      /\ \A q, j \in Nat : 1 <= j /\ j <= Len(u) /\ q = b + j => u[j] = s[q]
  <2>1. Len(u) = n - b
    BY <1>2, <1>3
  <2>2. \A q, j \in Nat : 1 <= j /\ j <= Len(u) /\ q = b + j => u[j] = s[q]
    BY <1>4, <2>1
  <2> QED BY <1>2, <1>3, <2>1, <2>2
<1> QED BY <1>5, <1>6

LEMMA CutFrom ==
  ASSUME NEW T, NEW s \in Seq(T), NEW b \in Nat, NEW n \in Nat, b <= n, n <= Len(s),
         NEW c \in Nat, NEW j \in Nat, b <= c, c <= n, b + j = c + 1
  PROVE  From(Cut(s, b, n), j) = Cut(s, c, n)
<1> DEFINE u == Cut(s, b, n)
           l == Len(u)
           w == SubSeq(u, j, l)
           x == Cut(s, c, n)
<1>1. u \in Seq(T) /\ l \in Nat /\ b + l = n /\ \A q, i \in Nat : 1 <= i /\ i <= l /\ q = b + i => u[i] = s[q]
  <2>1. u \in Seq(T) /\ Len(u) \in Nat /\ b + Len(u) = n
    BY CutIs
  <2>2. \A q, i \in Nat : 1 <= i /\ i <= Len(u) /\ q = b + i => u[i] = s[q]
    BY CutIs
  <2> QED BY <2>1, <2>2
<1>2. x \in Seq(T) /\ Len(x) \in Nat /\ c + Len(x) = n /\ \A q, i \in Nat : 1 <= i /\ i <= Len(x) /\ q = c + i => x[i] = s[q]
  BY CutIs
<1> HIDE DEF u, x
<1>3. l <= Len(u)
  BY <1>1
<1> HIDE DEF l
<1>4. 1 <= j /\ j <= l + 1
  BY <1>1
<1>5. w \in Seq(T) /\ Len(w) = l - j + 1 /\ \A q, i \in Nat : 1 <= i /\ i <= l - j + 1 /\ q + 1 = j + i => w[i] = u[q]
  BY <1>1, <1>3, <1>4, PieceIs
<1> HIDE DEF w
<1>6. Len(w) = Len(x)
  <2> DEFINE m == Len(x)
             k == Len(w)
  <2>1. m \in Nat /\ c + m = n /\ k = l - j + 1 /\ b + l = n /\ l \in Nat
    BY <1>1, <1>2, <1>5
  <2> HIDE DEF m, k
  <2>2. k = m
    BY <2>1
  <2> QED BY <2>2 DEF m, k
<1>7. ASSUME NEW i \in 1..Len(w) PROVE w[i] = x[i]
  <2> DEFINE q == j + i - 1
             p == c + i
             k == Len(w)
  <2>1. k \in Nat /\ k = l - j + 1 /\ i \in 1..k
    BY <1>2, <1>5, <1>6, <1>7
  <2> HIDE DEF k
  <2>2. q \in Nat /\ p \in Nat /\ i \in Nat /\ 1 <= i /\ i <= k /\ q + 1 = j + i /\ 1 <= q /\ q <= l /\ p = b + q
    BY <1>1, <1>4, <2>1
  <2> HIDE DEF q, p
  <2>3. w[i] = u[q]
    BY <1>5, <2>1, <2>2
  <2>4. u[q] = s[p]
    BY <1>1, <2>2
  <2>5. x[i] = s[p]
    BY <1>2, <1>6, <2>2 DEF k, p
  <2> QED BY <2>3, <2>4, <2>5
<1>8. w = x
  BY <1>2, <1>5, <1>6, <1>7, SeqEqual
<1>9. From(Cut(s, b, n), j) = w
  BY DEF From, w, u, l
<1> QED BY <1>8, <1>9 DEF x

LEMMA CutConcat ==
  ASSUME NEW s \in Seq(Ink), NEW b \in Nat, NEW c \in Nat, NEW n \in Nat, b <= c, c <= n, n <= Len(s)
  PROVE  Cut(s, b, c) \o Cut(s, c, n) = Cut(s, b, n)
<1> DEFINE u == Cut(s, b, c)
           w == Cut(s, c, n)
           x == Cut(s, b, n)
           y == u \o w
           z == Len(s)
<1>0. z \in Nat /\ n <= z /\ c <= z /\ b <= n
  OBVIOUS
<1>1. u \in Seq(Ink) /\ Len(u) \in Nat /\ b + Len(u) = c /\ \A q, j \in Nat : 1 <= j /\ j <= Len(u) /\ q = b + j => u[j] = s[q]
  BY <1>0, CutIs
<1>2. w \in Seq(Ink) /\ Len(w) \in Nat /\ c + Len(w) = n /\ \A q, j \in Nat : 1 <= j /\ j <= Len(w) /\ q = c + j => w[j] = s[q]
  BY <1>0, CutIs
<1>3. x \in Seq(Ink) /\ Len(x) \in Nat /\ b + Len(x) = n /\ \A q, j \in Nat : 1 <= j /\ j <= Len(x) /\ q = b + j => x[j] = s[q]
  BY <1>0, CutIs
<1> HIDE DEF u, w, x
<1>4. Follows(y, u, w)
  BY <1>1, <1>2, ConcatFollows
<1> HIDE DEF y
<1>5. y \in Seq(Ink) /\ Len(y) = Len(u) + Len(w)
  BY <1>4 DEF Follows
<1>6. \A j \in 1..Len(u) : y[j] = u[j]
  BY <1>4 DEF Follows
<1>7. \A q, j \in Nat : 1 <= j /\ j <= Len(w) /\ q = Len(u) + j => y[q] = w[j]
  BY <1>4, Zenon DEF Follows
<1> DEFINE lu == Len(u)
           lw == Len(w)
           lx == Len(x)
           ly == Len(y)
<1>8. lu \in Nat /\ lw \in Nat /\ lx \in Nat /\ ly = lu + lw /\ b + lu = c /\ c + lw = n /\ b + lx = n
  BY <1>1, <1>2, <1>3, <1>5
<1> HIDE DEF lu, lw, lx, ly
<1>9. lx = ly
  BY <1>8
<1>10. ASSUME NEW i \in 1..ly PROVE y[i] = x[i]
  <2> DEFINE p == b + i
  <2>1. p \in Nat /\ i \in Nat /\ 1 <= i /\ i <= lx
    BY <1>8, <1>9
  <2> HIDE DEF p
  <2>2. x[i] = s[p]
    BY <1>3, <2>1 DEF lx, p
  <2>3. CASE i <= lu
    <3>1. i \in 1..lu
      BY <1>8, <2>1, <2>3
    <3>2. u[i] = s[p]
      BY <1>1, <2>1, <2>3 DEF lu, p
    <3> QED BY <1>6, <2>2, <3>1, <3>2 DEF lu
  <2>4. CASE ~(i <= lu)
    <3> DEFINE k == i - lu
    <3>1. k \in Nat /\ 1 <= k /\ k <= lw /\ i = lu + k /\ p = c + k
      BY <1>8, <1>9, <2>1, <2>4 DEF p
    <3> HIDE DEF k
    <3>2. y[i] = w[k]
      BY <1>7, <2>1, <3>1 DEF lu, lw
    <3>3. w[k] = s[p]
      BY <1>2, <2>1, <3>1 DEF lw
    <3> QED BY <2>2, <3>2, <3>3
  <2> QED BY <2>3, <2>4
<1>11. Len(y) = Len(x) /\ \A i \in 1..Len(y) : y[i] = x[i]
  BY <1>9, <1>10 DEF lx, ly
<1>12. y = x
  BY <1>3, <1>5, <1>11, SeqEqual
<1> QED BY <1>12 DEF y, x, u, w

LEMMA FirstIs == ASSUME NEW S, S \subseteq Nat, S # {} PROVE First(S) \in S /\ \A j \in S : First(S) <= j
<1>1. \E m \in S : \A k \in S : m <= k
  BY LeastNumber
<1> QED BY <1>1 DEF First

\* Only spaces from one place to before another.
Blank(s, x, y) == \A q \in Nat : x <= q /\ q < y => s[q] = Space

LEMMA SkipIs ==
  ASSUME NEW s \in Seq(Ink), NEW i \in Nat, 1 <= i
  PROVE  LET c == SkipSpace(s, i) IN
         /\ c \in Nat /\ 1 <= c
         /\ \/ c > Len(s) /\ Blank(s, i, Len(s) + 1)
            \/ i <= c /\ c <= Len(s) /\ s[c] # Space /\ Blank(s, i, c)
<1> DEFINE n == Len(s)
           S == {j \in i..(n + 1) : j > n \/ (j >= i /\ s[j] # Space)} \cup {n + 1}
           c == First(S)
<1>1. n \in Nat
  OBVIOUS
<1> HIDE DEF n
<1>2. S \subseteq Nat /\ S # {} /\ \A j \in S : 1 <= j
  BY <1>1
<1>3. \A q \in Nat : i <= q /\ q <= n /\ s[q] # Space => q \in S
  BY <1>1
<1>4. \A j \in S : j = n + 1 \/ (i <= j /\ j <= n /\ s[j] # Space)
  BY <1>1
<1>5. SkipSpace(s, i) = c
  BY DEF SkipSpace, n
<1> HIDE DEF S
<1>6. c \in S /\ \A j \in S : c <= j
  BY <1>2, FirstIs
<1> HIDE DEF c
<1>7. c \in Nat /\ 1 <= c
  BY <1>2, <1>6
<1>8. \A q \in Nat : i <= q /\ q <= n /\ q < c => s[q] = Space
  <2>1. \A q \in Nat : q < c => q \notin S
    BY <1>6, <1>7
  <2> QED BY <1>3, <2>1
<1>9. CASE c = n + 1
  <2>1. c > n /\ \A q \in Nat : q < n + 1 => q <= n /\ q < c
    BY <1>1, <1>9
  <2>2. Blank(s, i, n + 1)
    BY <1>8, <2>1 DEF Blank
  <2> QED BY <1>5, <1>7, <2>1, <2>2 DEF n
<1>10. CASE i <= c /\ c <= n /\ s[c] # Space
  <2>1. \A q \in Nat : q < c => q <= n
    BY <1>1, <1>7, <1>10
  <2>2. Blank(s, i, c)
    BY <1>8, <2>1 DEF Blank
  <2> QED BY <1>5, <1>7, <1>10, <2>2 DEF n
<1> QED BY <1>4, <1>6, <1>9, <1>10

\* Skipping spaces from place i of rest, which stands behind the first a places of s.
SkipsTo(s, rest, a, n, i, c) ==
  /\ c \in Nat /\ 1 <= c
  /\ \/ c > Len(rest) /\ Blank(s, a + i, n + 1)
     \/ /\ c <= Len(rest) /\ i <= c /\ a + c <= n /\ rest[c] = s[a + c] /\ s[a + c] # Space
        /\ Blank(s, a + i, a + c)

LEMMA SkipInCut ==
  ASSUME NEW s \in Seq(Ink), NEW a \in Nat, NEW n \in Nat, a <= n, n <= Len(s), NEW i \in Nat, 1 <= i
  PROVE  SkipsTo(s, Cut(s, a, n), a, n, i, SkipSpace(Cut(s, a, n), i))
<1> DEFINE rest == Cut(s, a, n)
           l == Len(rest)
           c == SkipSpace(rest, i)
<1>1. rest \in Seq(Ink) /\ Len(rest) \in Nat /\ a + Len(rest) = n
  BY CutIs
<1>2. \A q, j \in Nat : 1 <= j /\ j <= Len(rest) /\ q = a + j => rest[j] = s[q]
  BY CutIs
<1> HIDE DEF rest
<1>3. /\ c \in Nat /\ 1 <= c
      /\ \/ c > l /\ Blank(rest, i, l + 1)
         \/ i <= c /\ c <= l /\ rest[c] # Space /\ Blank(rest, i, c)
  BY <1>1, SkipIs
<1>4. l \in Nat /\ a + l = n
  BY <1>1
<1> HIDE DEF c, l
<1>5. ASSUME NEW y \in Nat, y <= l + 1, Blank(rest, i, y), NEW z, z = a + y PROVE Blank(s, a + i, z)
  <2> SUFFICES ASSUME NEW q \in Nat, a + i <= q, q < z PROVE s[q] = Space
    BY DEF Blank
  <2> DEFINE j == q - a
  <2>1. j \in Nat /\ q = a + j /\ i <= j /\ j < y /\ 1 <= j /\ j <= l
    BY <1>4, <1>5
  <2> HIDE DEF j
  <2>2. rest[j] = Space
    BY <1>5, <2>1 DEF Blank
  <2>3. rest[j] = s[q]
    BY <1>2, <2>1 DEF l
  <2> QED BY <2>2, <2>3
<1>6. CASE c > l /\ Blank(rest, i, l + 1)
  <2>1. l + 1 \in Nat /\ l + 1 <= l + 1 /\ n + 1 = a + (l + 1)
    BY <1>4
  <2>2. Blank(s, a + i, n + 1)
    BY <1>5, <1>6, <2>1
  <2> QED BY <1>3, <1>6, <2>2 DEF c, l, rest, SkipsTo
<1>7. CASE i <= c /\ c <= l /\ rest[c] # Space /\ Blank(rest, i, c)
  <2>1. c <= l + 1 /\ a + c <= n /\ a + c \in Nat
    BY <1>3, <1>4, <1>7
  <2>2. Blank(s, a + i, a + c)
    BY <1>3, <1>5, <1>7, <2>1
  <2>3. rest[c] = s[a + c]
    BY <1>2, <1>3, <1>7, <2>1 DEF l
  <2> QED BY <1>3, <1>7, <2>1, <2>2, <2>3 DEF c, l, rest, SkipsTo
<1> QED BY <1>3, <1>6, <1>7

LEMMA SpelledInCut ==
  ASSUME NEW s \in Seq(Ink), NEW b \in Nat, NEW n \in Nat, b <= n, n <= Len(s), NEW p \in Nat, NEW P \in Nat, P = b + p
  PROVE  p \in KeyAt(Cut(s, b, n)) <=> 1 <= p /\ P + 3 <= n /\ Spelled(s, P)
<1> DEFINE u == Cut(s, b, n)
           l == Len(u)
           z == Len(s)
<1>1. u \in Seq(Ink) /\ Len(u) \in Nat /\ b + Len(u) = n
  BY CutIs
<1>2. \A q, j \in Nat : 1 <= j /\ j <= Len(u) /\ q = b + j => u[j] = s[q]
  BY CutIs
<1> HIDE DEF u
<1>3. p \in KeyAt(u) <=> Spelled(u, p)
  BY <1>1, KeyAtIs
<1>4. l \in Nat /\ b + l = n /\ z \in Nat /\ n <= z
  BY <1>1
<1> HIDE DEF l, z
<1>5. p + 3 <= l <=> P + 3 <= n
  BY <1>4
<1>6. ASSUME 1 <= p, p + 3 <= l PROVE u[p] = s[P] /\ u[p + 1] = s[P + 1] /\ u[p + 2] = s[P + 2] /\ u[p + 3] = s[P + 3]
  <2>1. ASSUME NEW i \in 0..3 PROVE u[p + i] = s[P + i]
    <3>1. p + i \in Nat /\ P + i \in Nat /\ 1 <= p + i /\ p + i <= l /\ P + i = b + (p + i)
      BY <1>4, <1>6
    <3> QED BY <1>2, <3>1 DEF l
  <2>2. u[p + 0] = s[P + 0] /\ u[p + 1] = s[P + 1] /\ u[p + 2] = s[P + 2] /\ u[p + 3] = s[P + 3]
    BY <2>1
  <2> QED BY <2>2
<1>7. 1 <= p /\ P + 3 <= n => 1 <= P /\ P + 3 <= z
  BY <1>4
<1>8. Spelled(u, p) <=> 1 <= p /\ p + 3 <= l /\ u[p] = Quote /\ u[p + 1] = "te" /\ u[p + 2] = "xt" /\ u[p + 3] = Quote
  BY DEF Spelled, l
<1>9. Spelled(s, P) <=> 1 <= P /\ P + 3 <= z /\ s[P] = Quote /\ s[P + 1] = "te" /\ s[P + 2] = "xt" /\ s[P + 3] = Quote
  BY DEF Spelled, z
<1>10. CASE 1 <= p /\ p + 3 <= l
  BY <1>3, <1>5, <1>6, <1>7, <1>8, <1>9, <1>10 DEF u
<1>11. CASE ~(1 <= p /\ p + 3 <= l)
  BY <1>3, <1>5, <1>8, <1>11 DEF u
<1> QED BY <1>10, <1>11

\* The first key that stands whole behind the first b places and before the n-th.
FirstKey(s, b, n, P) ==
  /\ P \in Nat /\ b < P /\ P + 3 <= n /\ Spelled(s, P)
  /\ \A K \in Nat : Spelled(s, K) /\ b < K /\ K + 3 <= n => P <= K

\* The five ways a search can go, by where things stand in the whole of what arrived.
WaitsForKey(t, s, b, n, r) ==
  /\ \A K \in Nat : Spelled(s, K) /\ b < K => n < K + 3
  /\ \E c \in Nat : b <= c /\ c <= n /\ (c = b \/ c + 4 = n) /\ r = Silent([t EXCEPT !.buf = Cut(s, c, n)])

WaitsForValue(t, s, b, n, r) ==
  \E c, P \in Nat :
    /\ P = c + 1 /\ FirstKey(s, b, n, P) /\ r = Silent([t EXCEPT !.buf = Cut(s, c, n)])
    /\ \/ Blank(s, P + 4, n + 1)
       \/ \E C \in Nat : P + 4 <= C /\ C <= n /\ s[C] = ":" /\ Blank(s, P + 4, C) /\ Blank(s, C + 1, n + 1)

NoName(t, s, b, n, r) ==
  \E c, P, C \in Nat :
    /\ c = P + 3 /\ FirstKey(s, b, n, P) /\ r = Silent([t EXCEPT !.buf = Cut(s, c, n)])
    /\ P + 4 <= C /\ C <= n /\ s[C] # Space /\ s[C] # ":" /\ Blank(s, P + 4, C)

AtValue(s, b, n, P, C, O) ==
  /\ FirstKey(s, b, n, P) /\ P + 4 <= C /\ s[C] = ":" /\ Blank(s, P + 4, C)
  /\ C < O /\ O <= n /\ Blank(s, C + 1, O) /\ s[O] # Space

NoText(t, s, b, n, r) ==
  \E P, C, O \in Nat : AtValue(s, b, n, P, C, O) /\ s[O] # Quote /\ r = Silent([t EXCEPT !.state = "finished"])

ReadsText(t, s, b, n, r) ==
  \E P, C, O \in Nat : /\ AtValue(s, b, n, P, C, O) /\ s[O] = Quote
                       /\ r = consume([t EXCEPT !.state = "inValue", !.buf = << >>], Cut(s, O, n))

LEMMA FirstKeyIs ==
  ASSUME NEW s \in Seq(Ink), NEW b \in Nat, NEW n \in Nat, b <= n, n <= Len(s), KeyAt(Cut(s, b, n)) # {}
  PROVE  LET i == First(KeyAt(Cut(s, b, n))) IN i \in Nat /\ 1 <= i /\ FirstKey(s, b, n, b + i)
<1> DEFINE S == KeyAt(Cut(s, b, n))
           i == First(S)
<1>1. \A p, P \in Nat : P = b + p => (p \in S <=> 1 <= p /\ P + 3 <= n /\ Spelled(s, P))
  BY SpelledInCut
<1>2. S \subseteq Nat
  <2>1. Cut(s, b, n) \in Seq(Ink)
    BY CutIs
  <2>2. \A p \in S : Spelled(Cut(s, b, n), p)
    BY <2>1, KeyAtIs
  <2> QED BY <2>2 DEF Spelled
<1> HIDE DEF S
<1>3. i \in S /\ \A p \in S : i <= p
  BY <1>2, FirstIs DEF S
<1> HIDE DEF i
<1> DEFINE P == b + i
<1>4. i \in Nat /\ P \in Nat /\ P = b + i
  BY <1>2, <1>3
<1> HIDE DEF P
<1>5. 1 <= i /\ P + 3 <= n /\ Spelled(s, P)
  BY <1>1, <1>3, <1>4
<1>6. b < P
  BY <1>4, <1>5
<1>7. ASSUME NEW K \in Nat, Spelled(s, K), b < K, K + 3 <= n PROVE P <= K
  <2> DEFINE p == K - b
  <2>1. p \in Nat /\ K = b + p /\ 1 <= p
    BY <1>7
  <2> HIDE DEF p
  <2>2. p \in S
    BY <1>1, <1>7, <2>1
  <2>3. i <= p
    BY <1>3, <2>2
  <2> QED BY <1>4, <2>1, <2>3
<1>8. FirstKey(s, b, n, P)
  BY <1>4, <1>5, <1>6, <1>7 DEF FirstKey
<1> QED BY <1>4, <1>5, <1>8 DEF P, i, S

LEMMA SeekWaits ==
  ASSUME NEW s \in Seq(Ink), NEW b \in Nat, NEW n \in Nat, b <= n, n <= Len(s), NEW t, NEW chunk,
         t.buf \o chunk = Cut(s, b, n), KeyAt(Cut(s, b, n)) = {}
  PROVE  WaitsForKey(t, s, b, n, Seek(t, chunk))
<1> DEFINE u == Cut(s, b, n)
           l == Len(u)
           keep == IF Len(u) > Len(key) THEN From(u, Len(u) - Len(key) + 1) ELSE u
<1>1. Len(u) \in Nat /\ b + Len(u) = n
  BY CutIs
<1>2. Seek(t, chunk) = Silent([t EXCEPT !.buf = keep])
  <2> HIDE DEF u
  <2>1. KeyAt(u) = {} /\ t.buf \o chunk = u
    BY DEF u
  <2> QED BY <2>1 DEF Seek
<1>3. \A K \in Nat : Spelled(s, K) /\ b < K => n < K + 3
  <2> SUFFICES ASSUME NEW K \in Nat, Spelled(s, K), b < K, K + 3 <= n PROVE FALSE
    OBVIOUS
  <2> DEFINE p == K - b
  <2>1. p \in Nat /\ K = b + p /\ 1 <= p
    OBVIOUS
  <2> HIDE DEF p
  <2>2. p \in KeyAt(Cut(s, b, n)) <=> 1 <= p /\ K + 3 <= n /\ Spelled(s, K)
    BY <2>1, SpelledInCut
  <2> QED BY <2>1, <2>2
<1>4. \E c \in Nat : b <= c /\ c <= n /\ (c = b \/ c + 4 = n) /\ keep = Cut(s, c, n)
  <2>1. CASE l > 4
    <3> DEFINE c == n - 4
               j == l - 4 + 1
    <3>1. c \in Nat /\ j \in Nat /\ b <= c /\ c <= n /\ b + j = c + 1 /\ c + 4 = n
      BY <1>1, <2>1
    <3> HIDE DEF c, j
    <3>2. From(Cut(s, b, n), j) = Cut(s, c, n)
      BY <3>1, CutFrom
    <3>3. keep = Cut(s, c, n)
      BY <2>1, <3>2, KeyIs DEF j
    <3> QED BY <3>1, <3>3
  <2>2. CASE ~(l > 4)
    <3>1. keep = Cut(s, b, n)
      BY <2>2, KeyIs
    <3> QED BY <3>1
  <2> QED BY <2>1, <2>2
<1> HIDE DEF keep
<1> QED BY <1>2, <1>3, <1>4 DEF WaitsForKey

\* What Seek is, once there is a key.
KeyLeads(t, u, i, rest, colon, open, r) ==
  /\ ~(colon <= Len(rest)) /\ colon > Len(rest) => r = Silent([t EXCEPT !.buf = From(u, i)])
  /\ colon <= Len(rest) /\ ~(colon > Len(rest)) =>
       /\ rest[colon] # ":" => r = Silent([t EXCEPT !.buf = rest])
       /\ rest[colon] = ":" =>
            /\ open > Len(rest) /\ ~(open <= Len(rest)) => r = Silent([t EXCEPT !.buf = From(u, i)])
            /\ open <= Len(rest) /\ ~(open > Len(rest)) =>
                 /\ rest[open] # Quote => r = Silent([t EXCEPT !.state = "finished"])
                 /\ rest[open] = Quote =>
                      r = consume([t EXCEPT !.state = "inValue", !.buf = << >>], From(rest, open + 1))

LEMMA SeekAtKey ==
  ASSUME NEW t, NEW chunk, NEW u, u = t.buf \o chunk, KeyAt(u) # {}, NEW i, i = First(KeyAt(u)),
         NEW rest, rest = From(u, i + Len(key)), NEW colon, colon = SkipSpace(rest, 1),
         NEW open, open = SkipSpace(rest, colon + 1), open <= Len(rest) => colon <= Len(rest)
  PROVE  KeyLeads(t, u, i, rest, colon, open, Seek(t, chunk))
<1>1. Seek(t, chunk) =
        CASE KeyAt(u) = {} ->
               Silent([t EXCEPT !.buf = IF Len(u) > Len(key) THEN From(u, Len(u) - Len(key) + 1) ELSE u])
          [] KeyAt(u) # {} /\ colon > Len(rest) -> Silent([t EXCEPT !.buf = From(u, i)])
          [] KeyAt(u) # {} /\ colon <= Len(rest) /\ rest[colon] # ":" -> Silent([t EXCEPT !.buf = rest])
          [] KeyAt(u) # {} /\ colon <= Len(rest) /\ rest[colon] = ":" /\ open > Len(rest) ->
               Silent([t EXCEPT !.buf = From(u, i)])
          [] KeyAt(u) # {} /\ open <= Len(rest) /\ rest[colon] = ":" /\ rest[open] # Quote ->
               Silent([t EXCEPT !.state = "finished"])
          [] OTHER -> consume([t EXCEPT !.state = "inValue", !.buf = << >>], From(rest, open + 1))
  BY Zenon DEF Seek
<1> DEFINE far == colon > Len(rest)
           near == colon <= Len(rest)
           past == open > Len(rest)
           within == open <= Len(rest)
           A == Silent([t EXCEPT !.buf = From(u, i)])
           B == Silent([t EXCEPT !.buf = rest])
           C == Silent([t EXCEPT !.state = "finished"])
           D == consume([t EXCEPT !.state = "inValue", !.buf = << >>], From(rest, open + 1))
           E == Silent([t EXCEPT !.buf = IF Len(u) > Len(key) THEN From(u, Len(u) - Len(key) + 1) ELSE u])
           r == Seek(t, chunk)
<1>2. within => near
  OBVIOUS
<1>3. KeyAt(u) # {}
  OBVIOUS
<1>4. r = CASE KeyAt(u) = {} -> E
            [] KeyAt(u) # {} /\ far -> A
            [] KeyAt(u) # {} /\ near /\ rest[colon] # ":" -> B
            [] KeyAt(u) # {} /\ near /\ rest[colon] = ":" /\ past -> A
            [] KeyAt(u) # {} /\ within /\ rest[colon] = ":" /\ rest[open] # Quote -> C
            [] OTHER -> D
  BY <1>1, Zenon
<1> HIDE DEF far, near, past, within, A, B, C, D, E, r
<1>5. ~near /\ far => r = A
  BY <1>2, <1>3, <1>4, Zenon
<1>6. near /\ ~far /\ rest[colon] # ":" => r = B
  BY <1>3, <1>4, Zenon
<1>7. near /\ ~far /\ rest[colon] = ":" /\ past /\ ~within => r = A
  BY <1>3, <1>4, Zenon
<1>8. near /\ ~far /\ rest[colon] = ":" /\ within /\ ~past /\ rest[open] # Quote => r = C
  BY <1>3, <1>4, Zenon
<1>9. near /\ ~far /\ rest[colon] = ":" /\ within /\ ~past /\ rest[open] = Quote => r = D
  BY <1>3, <1>4, Zenon
<1> QED BY <1>5, <1>6, <1>7, <1>8, <1>9, Zenon DEF far, near, past, within, A, B, C, D, r, KeyLeads

LEMMA SeekDoes ==
  ASSUME NEW s \in Seq(Ink), NEW b \in Nat, NEW n \in Nat, b <= n, n <= Len(s), NEW t, NEW chunk,
         t.buf \o chunk = Cut(s, b, n)
  PROVE  LET r == Seek(t, chunk) IN
         \/ WaitsForKey(t, s, b, n, r) \/ WaitsForValue(t, s, b, n, r) \/ NoName(t, s, b, n, r)
         \/ NoText(t, s, b, n, r) \/ ReadsText(t, s, b, n, r)
<1> DEFINE u == Cut(s, b, n)
           r == Seek(t, chunk)
<1>1. CASE KeyAt(u) = {}
  BY <1>1, SeekWaits
<1>2. CASE KeyAt(u) # {}
  <2> DEFINE i == First(KeyAt(u))
             P == b + i
             a == P + 3
             rest == From(u, i + Len(key))
             colon == SkipSpace(rest, 1)
             open == SkipSpace(rest, colon + 1)
             C == a + colon
             O == a + open
             l == Len(rest)
  <2>1. i \in Nat /\ 1 <= i /\ FirstKey(s, b, n, P)
    BY <1>2, FirstKeyIs
  <2>2. u = t.buf \o chunk
    OBVIOUS
  <2> HIDE DEF u, i
  <2>3. P \in Nat /\ P + 3 <= n /\ P = b + i
    BY <2>1 DEF FirstKey
  <2> HIDE DEF P
  <2>4. From(u, i) = Cut(s, P - 1, n)
    <3> DEFINE c == P - 1
    <3>1. c \in Nat /\ b <= c /\ c <= n /\ b + i = c + 1
      BY <2>1, <2>3
    <3> HIDE DEF c
    <3>2. From(Cut(s, b, n), i) = Cut(s, c, n)
      BY <2>1, <3>1, CutFrom
    <3> QED BY <3>2 DEF c, u
  <2>5. a \in Nat /\ a <= n /\ a = P + 3
    BY <2>3
  <2> HIDE DEF a
  <2>6. rest = Cut(s, a, n)
    <3> DEFINE j == i + 4
    <3>1. j \in Nat /\ b <= a /\ b + j = a + 1
      BY <2>1, <2>3, <2>5
    <3> HIDE DEF j
    <3>2. From(Cut(s, b, n), j) = Cut(s, a, n)
      BY <2>5, <3>1, CutFrom
    <3> QED BY <3>2, KeyIs DEF j, u
  <2> HIDE DEF rest
  <2>7. SkipsTo(s, rest, a, n, 1, colon)
    <3>1. 1 \in Nat /\ 1 <= 1
      OBVIOUS
    <3>2. SkipsTo(s, Cut(s, a, n), a, n, 1, SkipSpace(Cut(s, a, n), 1))
      BY <2>5, <3>1, SkipInCut
    <3> QED BY <2>6, <3>2
  <2> HIDE DEF colon
  <2>8. SkipsTo(s, rest, a, n, colon + 1, open)
    <3> DEFINE j == colon + 1
    <3>1. j \in Nat /\ 1 <= j
      BY <2>7 DEF SkipsTo
    <3>2. open = SkipSpace(rest, j)
      OBVIOUS
    <3> HIDE DEF j, open
    <3>3. SkipsTo(s, Cut(s, a, n), a, n, j, SkipSpace(Cut(s, a, n), j))
      BY <2>5, <3>1, SkipInCut
    <3>4. SkipsTo(s, rest, a, n, j, open)
      BY <2>6, <3>2, <3>3
    <3> QED BY <3>4 DEF j
  <2> HIDE DEF open
  <2>9. l \in Nat
    <3>1. Len(Cut(s, a, n)) \in Nat
      BY <2>5, CutIs
    <3> QED BY <2>6, <3>1
  <2> HIDE DEF l
  <2>10. colon \in Nat /\ 1 <= colon /\ open \in Nat
    BY <2>7, <2>8 DEF SkipsTo
  <2>10a. C \in Nat /\ O \in Nat /\ C = a + colon /\ O = a + open /\ C + 1 = a + (colon + 1) /\ P + 4 = a + 1
    BY <2>3, <2>5, <2>10
  <2> HIDE DEF C, O
  <2>10b. (colon > l => ~(colon <= l)) /\ (colon <= l => ~(colon > l)) /\ P + 4 <= C
    BY <2>3, <2>5, <2>9, <2>10, <2>10a
  <2>10c. (open > l => ~(open <= l)) /\ (open <= l => ~(open > l)) /\ (open <= l /\ colon + 1 <= open => colon <= l /\ C < O)
    BY <2>5, <2>9, <2>10, <2>10a
  <2>11. \/ colon > l /\ ~(colon <= l) /\ Blank(s, P + 4, n + 1)
         \/ /\ colon <= l /\ ~(colon > l) /\ P + 4 <= C /\ C <= n /\ rest[colon] = s[C] /\ s[C] # Space
            /\ Blank(s, P + 4, C)
    BY <2>7, <2>10a, <2>10b DEF SkipsTo, l
  <2>12. \/ open > l /\ ~(open <= l) /\ Blank(s, C + 1, n + 1)
         \/ /\ open <= l /\ ~(open > l) /\ colon <= l /\ C < O /\ O <= n /\ rest[open] = s[O] /\ s[O] # Space
            /\ Blank(s, C + 1, O)
    BY <2>8, <2>10a, <2>10c DEF SkipsTo, l
  <2>13. open <= l => colon <= l
    BY <2>12
  <2>14. /\ ~(colon <= l) /\ colon > l => r = Silent([t EXCEPT !.buf = From(u, i)])
         /\ colon <= l /\ ~(colon > l) =>
              /\ rest[colon] # ":" => r = Silent([t EXCEPT !.buf = rest])
              /\ rest[colon] = ":" =>
                   /\ open > l /\ ~(open <= l) => r = Silent([t EXCEPT !.buf = From(u, i)])
                   /\ open <= l /\ ~(open > l) =>
                        /\ rest[open] # Quote => r = Silent([t EXCEPT !.state = "finished"])
                        /\ rest[open] = Quote =>
                             r = consume([t EXCEPT !.state = "inValue", !.buf = << >>], From(rest, open + 1))
    <3>1. i = First(KeyAt(u)) /\ rest = From(u, i + Len(key)) /\ colon = SkipSpace(rest, 1)
          /\ open = SkipSpace(rest, colon + 1)
      BY DEF i, rest, colon, open
    <3>2. open <= Len(rest) => colon <= Len(rest)
      BY <2>13 DEF l
    <3>3. KeyAt(u) # {}
      BY <1>2 DEF u
    <3>4. KeyLeads(t, u, i, rest, colon, open, Seek(t, chunk))
      <4> HIDE DEF r
      <4> QED BY <2>2, <3>1, <3>2, <3>3, SeekAtKey
    <3> QED BY <3>4 DEF l, KeyLeads
  <2> HIDE DEF r
  <2> DEFINE c == P - 1
  <2>15. c \in Nat /\ P = c + 1 /\ From(u, i) = Cut(s, c, n)
    <3>1. b < P
      BY <2>1 DEF FirstKey
    <3> QED BY <2>3, <2>4, <3>1
  <2> HIDE DEF c
  <2>16. CASE colon > l /\ ~(colon <= l) /\ Blank(s, P + 4, n + 1)
    <3>1. r = Silent([t EXCEPT !.buf = Cut(s, c, n)])
      BY <2>14, <2>15, <2>16
    <3>2. WaitsForValue(t, s, b, n, r)
      BY <2>1, <2>3, <2>15, <2>16, <3>1 DEF WaitsForValue
    <3> QED BY <3>2 DEF r
  <2>17. CASE /\ colon <= l /\ ~(colon > l) /\ P + 4 <= C /\ C <= n /\ rest[colon] = s[C] /\ s[C] # Space
              /\ Blank(s, P + 4, C)
    <3>1. CASE s[C] # ":"
      <4>1. r = Silent([t EXCEPT !.buf = Cut(s, a, n)])
        BY <2>6, <2>14, <2>17, <3>1
      <4>2. NoName(t, s, b, n, r)
        BY <2>1, <2>3, <2>5, <2>10a, <2>17, <3>1, <4>1 DEF NoName
      <4> QED BY <4>2 DEF r
    <3>2. CASE s[C] = ":" /\ open > l /\ ~(open <= l) /\ Blank(s, C + 1, n + 1)
      <4>1. r = Silent([t EXCEPT !.buf = Cut(s, c, n)])
        BY <2>14, <2>15, <2>17, <3>2
      <4>2. WaitsForValue(t, s, b, n, r)
        BY <2>1, <2>3, <2>10a, <2>15, <2>17, <3>2, <4>1 DEF WaitsForValue
      <4> QED BY <4>2 DEF r
    <3>3. CASE /\ s[C] = ":" /\ open <= l /\ ~(open > l) /\ C < O /\ O <= n /\ rest[open] = s[O] /\ s[O] # Space
               /\ Blank(s, C + 1, O)
      <4>1. AtValue(s, b, n, P, C, O)
        BY <2>1, <2>17, <3>3 DEF AtValue
      <4>2. CASE s[O] # Quote
        <5>1. r = Silent([t EXCEPT !.state = "finished"])
          BY <2>14, <2>17, <3>3, <4>2
        <5>2. NoText(t, s, b, n, r)
          BY <2>3, <2>10a, <4>1, <4>2, <5>1 DEF NoText
        <5> QED BY <5>2 DEF r
      <4>3. CASE s[O] = Quote
        <5>1. r = consume([t EXCEPT !.state = "inValue", !.buf = << >>], From(rest, open + 1))
          BY <2>14, <2>17, <3>3, <4>3
        <5>2. From(rest, open + 1) = Cut(s, O, n)
          <6> DEFINE j == open + 1
          <6>1. j \in Nat /\ a \in Nat /\ O \in Nat /\ a <= n /\ a <= O /\ O <= n /\ a + j = O + 1
            <7>1. a \in Nat /\ a <= n /\ open \in Nat /\ O \in Nat /\ O = a + open
              BY <2>5, <2>10, <2>10a
            <7>2. O <= n
              BY <3>3
            <7>3. j \in Nat /\ a <= O /\ a + j = O + 1
              BY <7>1
            <7> QED BY <7>1, <7>2, <7>3
          <6> HIDE DEF j
          <6>2. From(Cut(s, a, n), j) = Cut(s, O, n)
            BY <6>1, CutFrom
          <6> QED BY <2>6, <6>2 DEF j
        <5>3. ReadsText(t, s, b, n, r)
          <6>1. r = consume([t EXCEPT !.state = "inValue", !.buf = << >>], Cut(s, O, n))
            BY <5>1, <5>2
          <6> QED BY <2>3, <2>10a, <4>1, <4>3, <6>1 DEF ReadsText
        <5> QED BY <5>3 DEF r
      <4> QED BY <4>2, <4>3
    <3> QED BY <2>12, <3>1, <3>2, <3>3
  <2> QED BY <2>11, <2>16, <2>17
<1> QED BY <1>1, <1>2

LEMMA ColonIsNoSpace == ":" # Space
  BY Zenon DEF Space

LEMMA SymbolsAre == ASSUME NEW d \in Document \cup {Prose} PROVE Symbols(d) \in Seq(Ink) /\ Len(Symbols(d)) \in Nat
<1>1. CASE d \in Document
  <2>1. Len(d) \in Nat \ {0}
    BY <1>1, DocumentIs
  <2>2. 1 \in 1..Len(d)
    BY <2>1
  <2>3. Symbols(d) \in Seq(Ink)
    BY <1>1, <2>2, PartStands
  <2> QED BY <2>3
<1>2. CASE d = Prose
  <2>1. Symbols(d) = <<"s", "o">>
    BY <1>2 DEF Symbols
  <2>2. <<"s", "o">> \in Seq(Ink)
    BY InkHas, TwoIs
  <2> QED BY <2>1, <2>2
<1> QED BY <1>1, <1>2

LEMMA ProseHasNoKey == TextFields(Prose) = {} /\ \A p : ~Spelled(Symbols(Prose), p)
<1>1. DOMAIN Prose = {}
  BY DEF Prose
<1>2. Len(Symbols(Prose)) = 2
  <2>1. Symbols(Prose) = <<"s", "o">>
    BY DEF Symbols
  <2> QED BY <2>1
<1>3. \A p : ~Spelled(Symbols(Prose), p)
  BY <1>2 DEF Spelled
<1> QED BY <1>1, <1>3 DEF TextFields

-----------------------------------------------------------------------------
\* Where the search stands in a document.

\* Where the text field of a document stands: its key, its colon and the first symbol of its value.
TextPlaces(d, i, raw, K, C, O) ==
  /\ K \in Nat /\ C \in Nat /\ O \in Nat /\ Spelled(raw, K) /\ O <= Len(raw) /\ K + 4 <= C /\ C < O
  /\ raw[K + 1] = "te" /\ raw[C] = ":" /\ Blank(raw, K + 4, C) /\ Blank(raw, C + 1, O) /\ raw[O] # Space
  /\ raw[O] = Quote <=> d[i].value # Null
  /\ K = KeyPlace(d, i) /\ O = OpenPlace(d, i)

LEMMA ValueIs == ASSUME NEW d \in Document, NEW i \in TextFields(d) PROVE d[i].value \in Seq(Character) \cup {Null}
<1>1. d[i] \in DocumentField
  BY DocumentIs DEF TextFields
<1> QED BY <1>1 DEF DocumentField, Character

LEMMA TextHasPlaces ==
  ASSUME NEW d \in Document, NEW i \in TextFields(d)
  PROVE  \E K, C, O : TextPlaces(d, i, Symbols(d), K, C, O)
<1> DEFINE raw == Symbols(d)
           v == d[i].value
           K == KeyPlace(d, i)
           g == Len(d[i].gap)
           O == OpenPlace(d, i)
           V == WrittenValue(v)
           l == Len(V)
           z == Len(raw)
           C == K + 4 + g
<1>1. TextStands(d, i, raw)
  BY TextIsWhereItIs
<1>2. V \in Seq(Ink) /\ l \in Nat \ {0} /\ (v = Null => V[1] = "null") /\ (v # Null => V[1] = Quote)
  BY ValueIs, ValueSpelled
<1>3. z \in Nat
  BY SymbolsAre
<1>4. /\ K \in Nat /\ K >= 2 /\ g \in Nat /\ O = K + 5 + 2 * g /\ O + l <= z
      /\ raw[K] = Quote /\ raw[K + 1] = "te" /\ raw[K + 2] = "xt" /\ raw[K + 3] = Quote /\ raw[K + 4 + g] = ":"
  BY <1>1 DEF TextStands
<1>5. \A q \in Nat : K + 4 <= q /\ q < O /\ q # K + 4 + g => raw[q] = Space
  BY <1>1 DEF TextStands
<1>6. \A q, j \in Nat : 1 <= j /\ j <= l /\ q = O + j - 1 => raw[q] = V[j]
  BY <1>1 DEF TextStands
<1> HIDE DEF raw, v, K, g, O, V, l, z
<1>7. /\ C \in Nat /\ O \in Nat /\ O <= z /\ K + 4 <= C /\ C < O /\ 1 <= K /\ K + 3 <= z /\ C = K + 4 + g
      /\ 1 <= 1 /\ 1 <= l /\ O = O + 1 - 1 /\ 1 \in Nat
  BY <1>2, <1>3, <1>4
<1>8. raw[C] = ":"
  BY <1>4
<1> HIDE DEF C
<1>9. Spelled(raw, K)
  BY <1>4, <1>7 DEF Spelled, z
<1>10. Blank(raw, K + 4, C)
  <2>1. \A q \in Nat : K + 4 <= q /\ q < C => K + 4 <= q /\ q < O /\ q # K + 4 + g
    BY <1>4, <1>7
  <2> QED BY <1>5, <2>1 DEF Blank
<1>11. Blank(raw, C + 1, O)
  <2>1. \A q \in Nat : C + 1 <= q /\ q < O => K + 4 <= q /\ q < O /\ q # K + 4 + g
    BY <1>4, <1>7
  <2> QED BY <1>5, <2>1 DEF Blank
<1>12. raw[O] = V[1]
  BY <1>6, <1>7
<1>13. raw[O] # Space
  <2>1. "null" # Space /\ Quote # Space
    <3>1. "null" # Space
      BY Zenon DEF Space
    <3> QED BY <3>1, Signs
  <2> QED BY <1>2, <1>12, <2>1
<1>14. raw[O] = Quote <=> v # Null
  BY <1>2, <1>12, Signs
<1>15. TextPlaces(d, i, raw, K, C, O)
  BY <1>4, <1>7, <1>8, <1>9, <1>10, <1>11, <1>13, <1>14 DEF TextPlaces, z, v, K, O
<1> QED BY <1>15 DEF raw

\* Each symbol of u is the one n places further in s.
CutStands(u, s, n) == \A q, j \in Nat : 1 <= j /\ j <= Len(u) /\ q = n + j => u[j] = s[q]

LEMMA CutHas ==
  ASSUME NEW s \in Seq(Ink), NEW a \in Nat, NEW n \in Nat, a <= n, n <= Len(s)
  PROVE  CutStands(Cut(s, a, n), s, a)
<1> DEFINE u == Cut(s, a, n)
<1>1. u \in Seq(Ink) /\ Len(u) \in Nat /\ a + Len(u) = n
  BY CutIs
<1>2. \A q, j \in Nat : 1 <= j /\ j <= Len(u) /\ q = a + j => u[j] = s[q]
  BY CutIs
<1> HIDE DEF u
<1>3. CutStands(u, s, a)
  BY <1>2 DEF CutStands
<1> QED BY <1>3 DEF u

LEMMA CutEnds ==
  ASSUME NEW s \in Seq(Ink), NEW a \in Nat, NEW n \in Nat, a <= n, n <= Len(s)
  PROVE  Cut(s, a, n) \in Seq(Ink) /\ Len(Cut(s, a, n)) \in Nat /\ a + Len(Cut(s, a, n)) = n
  BY CutIs

\* The symbols behind the opening quotation mark are those of the value.
LEMMA ValueBehind ==
  ASSUME NEW d \in Document, NEW i \in TextFields(d), d[i].value # Null, NEW m \in Nat, NEW n \in Nat,
         n = OpenPlace(d, i) + m, NEW k \in Nat, n <= k, k <= Len(Symbols(d))
  PROVE  Behind(d[i].value, m, Cut(Symbols(d), n, k))
<1> DEFINE raw == Symbols(d)
           v == d[i].value
           O == OpenPlace(d, i)
           V == WrittenValue(v)
           W == WrittenText(v)
           s == Cut(raw, n, k)
           l == Len(V)
           w == Len(W)
<1>1. TextStands(d, i, raw)
  BY TextIsWhereItIs
<1>2. O \in Nat /\ \A q, j \in Nat : 1 <= j /\ j <= l /\ q = O + j - 1 => raw[q] = V[j]
  <2>1. \A q, j \in Nat : 1 <= j /\ j <= l /\ q = O + j - 1 => raw[q] = V[j]
    BY <1>1 DEF TextStands
  <2>2. KeyPlace(d, i) \in Nat /\ Len(d[i].gap) \in Nat /\ O = KeyPlace(d, i) + 5 + 2 * Len(d[i].gap)
    BY <1>1 DEF TextStands
  <2>3. O \in Nat
    BY <2>2
  <2> QED BY <2>1, <2>3
<1>3. /\ l = w + 2 /\ V[w + 2] = Quote /\ w \in Nat
      /\ \A q, j \in Nat : 1 <= j /\ j <= w /\ q = j + 1 => V[q] = W[j]
  BY ValueIs, ValueSpelled
<1>4. raw \in Seq(Ink)
  BY SymbolsAre
<1>5. \A q, j \in Nat : 1 <= j /\ j <= Len(s) /\ q = n + j => s[j] = raw[q]
  <2>1. k <= Len(raw)
    OBVIOUS
  <2> HIDE DEF raw
  <2>2. CutStands(Cut(raw, n, k), raw, n)
    BY <1>4, <2>1, CutHas
  <2> QED BY <2>2 DEF CutStands
<1>6. Len(s) \in Nat /\ n = O + m
  BY <1>4, CutIs
<1> HIDE DEF raw, V, W, s, l, w, O, v
<1>7. ASSUME NEW j \in 1..Len(s), NEW q \in Nat, q + 1 = m + j PROVE (q < w => s[j] = W[q + 1]) /\ (q = w => s[j] = Quote)
  <2> DEFINE p == n + j
             x == q + 2
             y == q + 1
  <2>1. j \in Nat /\ 1 <= j /\ j <= Len(s) /\ p \in Nat /\ x \in Nat /\ y \in Nat /\ 1 <= x /\ 1 <= y /\ x = y + 1
        /\ p = O + x - 1 /\ (q < w => y <= w /\ x <= l) /\ (q = w => x <= l /\ x = w + 2) /\ p = n + j
    BY <1>2, <1>3, <1>6, <1>7
  <2> HIDE DEF p, x, y
  <2>2. s[j] = raw[p]
    BY <1>5, <2>1
  <2>3. x <= l => raw[p] = V[x]
    BY <1>2, <2>1
  <2>4. y <= w => V[x] = W[y]
    BY <1>3, <2>1
  <2> QED BY <1>3, <2>1, <2>2, <2>3, <2>4 DEF y
<1>8. Behind(v, m, s)
  BY <1>7 DEF Behind, w, W
<1> QED BY <1>8 DEF v, s, raw

LEMMA SilentIs == ASSUME NEW t PROVE Silent(t).t = t /\ Silent(t).out = << >>
  BY DEF Silent

LEMMA ConsumeIsScanner ==
  ASSUME NEW t, NEW s, consume(t, s).t.pending \in Seq(Ink)
  PROVE  consume(t, s).t \in Scanner
<1> DEFINE a == ReadAll(t, s)
           x == [state |-> IF a.closed THEN "finished" ELSE "inValue", buf |-> << >>,
                 pending |-> IF a.closed THEN << >> ELSE a.pending]
<1>1. consume(t, s).t = x
  BY DEF consume
<1>2. x.pending \in Seq(Ink) /\ << >> \in Seq(Ink)
  <2>1. << >> \in Seq(Ink)
    BY EmptySeq
  <2> QED BY <1>1, <2>1
<1> HIDE DEF a
<1>3. x \in Scanner
  BY <1>2 DEF Scanner
<1> QED BY <1>1, <1>3

\* A key that was found is the text field's, or the end of a value that spells it.
LEMMA KeyFound ==
  ASSUME NEW d \in Document, NEW P \in Nat, Spelled(Symbols(d), P)
  PROVE  \/ \E i \in TextFields(d) : P = KeyPlace(d, i)
         \/ SpellsTheKey(d) /\ Symbols(d)[P + 4] \in {Comma, Closing}
  BY KeysAreWhereTheyAre DEF KeysAre

LEMMA FirstKeyFirst ==
  ASSUME NEW s, NEW b \in Nat, NEW n \in Nat, NEW P, FirstKey(s, b, n, P), NEW K \in Nat, Spelled(s, K), b < K
  PROVE  P <= K /\ P \in Nat /\ P + 3 <= n
<1>1. P \in Nat /\ P + 3 <= n /\ (K + 3 <= n => P <= K)
  BY DEF FirstKey
<1> QED BY <1>1

\* Where a value is met, the key before it is the text field's, and the value is its.
LEMMA AtTheText ==
  ASSUME NEW d \in Document, NEW b \in Nat, NEW n \in Nat, NEW P \in Nat, NEW C \in Nat, NEW O \in Nat,
         AtValue(Symbols(d), b, n, P, C, O)
  PROVE  \E i \in TextFields(d) : O = OpenPlace(d, i) /\ (Symbols(d)[O] = Quote <=> d[i].value # Null)
<1> DEFINE raw == Symbols(d)
<1>1. /\ Spelled(raw, P) /\ P + 4 <= C /\ raw[C] = ":" /\ Blank(raw, P + 4, C)
      /\ C < O /\ O <= n /\ Blank(raw, C + 1, O) /\ raw[O] # Space
  BY DEF AtValue, FirstKey
<1>2. PICK i \in TextFields(d) : P = KeyPlace(d, i)
  <2>1. raw[P + 4] \notin {Comma, Closing}
    <3>1. C = P + 4 \/ P + 4 < C
      BY <1>1
    <3>2. CASE C = P + 4
      BY <1>1, <3>2, Signs
    <3>3. CASE P + 4 < C
      <4>1. P + 4 \in Nat /\ P + 4 <= P + 4
        OBVIOUS
      <4>2. raw[P + 4] = Space
        BY <1>1, <3>3, <4>1 DEF Blank
      <4> QED BY <4>2, Signs
    <3> QED BY <3>1, <3>2, <3>3
  <2> QED BY <1>1, <2>1, KeyFound
<1>3. PICK K, A, E : TextPlaces(d, i, raw, K, A, E)
  BY TextHasPlaces
<1> HIDE DEF raw
<1>4. /\ K = P /\ K \in Nat /\ A \in Nat /\ E \in Nat /\ K + 4 <= A /\ A < E
      /\ raw[A] = ":" /\ Blank(raw, K + 4, A) /\ Blank(raw, A + 1, E) /\ raw[E] # Space
      /\ (raw[E] = Quote <=> d[i].value # Null) /\ E = OpenPlace(d, i)
  BY <1>2, <1>3 DEF TextPlaces
<1>5. A = C
  <2>1. A < C => raw[A] = Space
    BY <1>1, <1>4 DEF Blank
  <2>2. C < A => raw[C] = Space
    BY <1>1, <1>4 DEF Blank
  <2>3. ~(A < C) /\ ~(C < A)
    BY <1>1, <1>4, <2>1, <2>2, ColonIsNoSpace
  <2> QED BY <1>4, <2>3
<1>6. E = O
  <2>1. E < O => raw[E] = Space
    BY <1>1, <1>4, <1>5 DEF Blank
  <2>2. O < E => raw[O] = Space
    BY <1>1, <1>4, <1>5 DEF Blank
  <2>3. ~(E < O) /\ ~(O < E)
    BY <1>1, <1>4, <2>1, <2>2
  <2> QED BY <1>4, <2>3
<1>7. O = OpenPlace(d, i) /\ (raw[O] = Quote <=> d[i].value # Null)
  BY <1>4, <1>6
<1> QED BY <1>7 DEF raw

\* What the search may give up, and what it must not have reached.
Searched(d, c, n) ==
  \A i \in TextFields(d) : c < KeyPlace(d, i) /\ (~SpellsTheKey(d) => n < OpenPlace(d, i))

LEMMA SearchedWaitingForKey ==
  ASSUME NEW d \in Document, NEW b \in Nat, NEW n \in Nat, NEW c \in Nat, c = b \/ c + 4 = n,
         \A i \in TextFields(d) : b < KeyPlace(d, i), \A K \in Nat : Spelled(Symbols(d), K) /\ b < K => n < K + 3
  PROVE  Searched(d, c, n)
<1> SUFFICES ASSUME NEW i \in TextFields(d) PROVE c < KeyPlace(d, i) /\ n < OpenPlace(d, i)
  BY DEF Searched
<1>1. PICK K, A, E : TextPlaces(d, i, Symbols(d), K, A, E)
  BY TextHasPlaces
<1>2. K \in Nat /\ A \in Nat /\ E \in Nat /\ K + 4 <= A /\ A < E /\ K = KeyPlace(d, i) /\ E = OpenPlace(d, i)
      /\ Spelled(Symbols(d), K)
  BY <1>1 DEF TextPlaces
<1>3. b < K
  BY <1>2
<1>4. n < K + 3
  BY <1>2, <1>3
<1>5. c < K /\ n < E
  BY <1>2, <1>3, <1>4
<1> QED BY <1>2, <1>5

LEMMA SearchedWaitingForValue ==
  ASSUME NEW d \in Document, NEW b \in Nat, NEW n \in Nat, NEW c \in Nat, NEW P \in Nat, P = c + 1,
         FirstKey(Symbols(d), b, n, P), \A i \in TextFields(d) : b < KeyPlace(d, i),
         \/ Blank(Symbols(d), P + 4, n + 1)
         \/ \E C \in Nat : /\ P + 4 <= C /\ C <= n /\ Symbols(d)[C] = ":" /\ Blank(Symbols(d), P + 4, C)
                           /\ Blank(Symbols(d), C + 1, n + 1)
  PROVE  Searched(d, c, n)
<1> SUFFICES ASSUME NEW i \in TextFields(d) PROVE c < KeyPlace(d, i) /\ (~SpellsTheKey(d) => n < OpenPlace(d, i))
  BY DEF Searched
<1> DEFINE raw == Symbols(d)
<1>1. PICK K, A, E : TextPlaces(d, i, raw, K, A, E)
  BY TextHasPlaces
<1>2. /\ K \in Nat /\ A \in Nat /\ E \in Nat /\ K + 4 <= A /\ A < E /\ K = KeyPlace(d, i) /\ E = OpenPlace(d, i)
      /\ Spelled(raw, K) /\ raw[A] = ":" /\ Blank(raw, K + 4, A) /\ Blank(raw, A + 1, E) /\ raw[E] # Space
  BY <1>1 DEF TextPlaces
<1>3. P <= K
  <2>1. b < K
    BY <1>2
  <2> QED BY <1>2, <2>1, FirstKeyFirst
<1>4. c < K
  BY <1>2, <1>3
<1>5. ASSUME ~SpellsTheKey(d) PROVE n < E
  <2>1. P = K
    <3>1. Spelled(raw, P)
      BY DEF FirstKey
    <3>2. PICK j \in TextFields(d) : P = KeyPlace(d, j)
      BY <1>5, <3>1, KeyFound
    <3>3. j = i
      BY DocumentIs
    <3> QED BY <1>2, <3>2, <3>3
  <2> SUFFICES ASSUME E <= n PROVE FALSE
    BY <1>2
  <2> HIDE DEF raw
  <2>2. CASE Blank(raw, P + 4, n + 1)
    <3>1. raw[A] = Space
      BY <1>2, <2>1, <2>2 DEF Blank
    <3> QED BY <1>2, <3>1, ColonIsNoSpace
  <2>3. CASE \E C \in Nat : P + 4 <= C /\ C <= n /\ raw[C] = ":" /\ Blank(raw, P + 4, C) /\ Blank(raw, C + 1, n + 1)
    <3>1. PICK C \in Nat : P + 4 <= C /\ C <= n /\ raw[C] = ":" /\ Blank(raw, P + 4, C) /\ Blank(raw, C + 1, n + 1)
      BY <2>3
    <3>2. A < C => raw[A] = Space
      BY <1>2, <2>1, <3>1 DEF Blank
    <3>3. C < A => raw[C] = Space
      BY <1>2, <2>1, <3>1 DEF Blank
    <3>4. ~(A < C) /\ ~(C < A)
      BY <1>2, <3>1, <3>2, <3>3, ColonIsNoSpace
    <3>5. raw[E] = Space
      <4>1. C + 1 <= E /\ E < n + 1
        BY <1>2, <3>1, <3>4
      <4> QED BY <1>2, <3>1, <4>1 DEF Blank
    <3> QED BY <1>2, <3>5
  <2> QED BY <2>2, <2>3 DEF raw
<1> QED BY <1>2, <1>4, <1>5

LEMMA SearchedNoName ==
  ASSUME NEW d \in Document, NEW b \in Nat, NEW n \in Nat, NEW c \in Nat, NEW P \in Nat, NEW C \in Nat, c = P + 3,
         FirstKey(Symbols(d), b, n, P), \A i \in TextFields(d) : b < KeyPlace(d, i),
         P + 4 <= C, Symbols(d)[C] # Space, Symbols(d)[C] # ":", Blank(Symbols(d), P + 4, C)
  PROVE  Searched(d, c, n)
<1> SUFFICES ASSUME NEW i \in TextFields(d) PROVE c < KeyPlace(d, i) /\ SpellsTheKey(d)
  BY DEF Searched
<1> DEFINE raw == Symbols(d)
<1>1. PICK K, A, E : TextPlaces(d, i, raw, K, A, E)
  BY TextHasPlaces
<1>2. /\ K \in Nat /\ A \in Nat /\ K + 4 <= A /\ K = KeyPlace(d, i)
      /\ Spelled(raw, K) /\ raw[A] = ":" /\ Blank(raw, K + 4, A) /\ raw[K] = Quote /\ raw[K + 1] = "te"
  BY <1>1 DEF TextPlaces, Spelled
<1>3. P <= K
  <2>1. b < K
    BY <1>2
  <2> QED BY <1>2, <2>1, FirstKeyFirst
<1>4. Spelled(raw, P)
  BY DEF FirstKey
<1>5. P # K
  <2> SUFFICES ASSUME P = K PROVE FALSE
    OBVIOUS
  <2>1. A < C => raw[A] = Space
    BY <1>2 DEF Blank
  <2>2. C < A => raw[C] = Space
    BY <1>2 DEF Blank
  <2>3. A # C
    BY <1>2
  <2> QED BY <1>2, <2>1, <2>2, <2>3, ColonIsNoSpace
<1>6. SpellsTheKey(d) /\ raw[P + 4] \in {Comma, Closing}
  <2>1. \A j \in TextFields(d) : j = i
    BY DocumentIs
  <2>2. ~(\E j \in TextFields(d) : P = KeyPlace(d, j))
    BY <1>2, <1>5, <2>1
  <2> QED BY <1>4, <2>2, KeyFound
<1>7. P + 3 < K
  <2>1. raw[P + 1] = "te" /\ raw[P + 2] = "xt"
    BY <1>4 DEF Spelled
  <2>2. K # P + 1 /\ K # P + 2
    BY <1>2, <2>1, Signs
  <2>3. K # P + 3
    <3>1. P + 3 = K => P + 4 = K + 1
      OBVIOUS
    <3> QED BY <1>2, <1>6, <3>1, Signs
  <2> QED BY <1>2, <1>3, <1>5, <2>2, <2>3
<1> QED BY <1>2, <1>6, <1>7

LEMMA SearchGoesOn ==
  ASSUME NEW d \in Document \cup {Prose}, NEW n \in Nat, n <= Len(Symbols(d)), NEW t \in Scanner,
         t.state = "seekingKey", t.pending = << >>, NEW c \in Nat, c <= n, Searched(d, c, n),
         NEW r, r = Silent([t EXCEPT !.buf = Cut(Symbols(d), c, n)])
  PROVE  Scans(d, n, r.t, << >> \o r.out) /\ r.out \in Seq(Character)
<1> DEFINE u == Cut(Symbols(d), c, n)
           x == [t EXCEPT !.buf = u]
<1>1. u \in Seq(Ink)
  BY SymbolsAre, CutIs
<1> HIDE DEF u
<1>2. x \in Scanner /\ x.buf = u /\ x.state = "seekingKey" /\ x.pending = << >>
  BY <1>1 DEF Scanner
<1>3. r.t = x /\ r.out = << >>
  BY SilentIs DEF u
<1> HIDE DEF x
<1>4. << >> \o r.out = << >> /\ << >> \in Seq(Character)
  <2>1. << >> \in Seq(Character)
    BY EmptySeq
  <2> QED BY <1>3, <2>1, ConcatEmptySeq
<1>5. Sought(d, n, x, << >>)
  <2>1. c \in 0..n
    OBVIOUS
  <2> QED BY <1>2, <2>1 DEF Sought, Searched, u
<1> QED BY <1>2, <1>3, <1>4, <1>5 DEF Scans, ScanInv

LEMMA SeekKeeps ==
  ASSUME NEW d \in Document \cup {Prose}, NEW n \in Nat, NEW k \in Nat, n <= k, k <= Len(Symbols(d)),
         NEW t, NEW e, Scans(d, n, t, e), t.state = "seekingKey"
  PROVE  LET r == Seek(t, Cut(Symbols(d), n, k)) IN Scans(d, k, r.t, e \o r.out) /\ r.out \in Seq(Character)
<1> DEFINE raw == Symbols(d)
           chunk == Cut(raw, n, k)
           r == Seek(t, chunk)
<1>1. Sought(d, n, t, e) /\ t \in Scanner
  BY DEF Scans, ScanInv
<1>2. PICK b \in 0..n : t.buf = Cut(raw, b, n) /\ \A i \in TextFields(d) : b < KeyPlace(d, i)
  BY <1>1 DEF Sought
<1>3. raw \in Seq(Ink) /\ b \in Nat /\ b <= n /\ b <= k /\ e = << >> /\ t.pending = << >>
  BY <1>1, SymbolsAre DEF Sought
<1>4. t.buf \o chunk = Cut(raw, b, k)
  <2>1. k <= Len(raw)
    OBVIOUS
  <2> HIDE DEF raw
  <2> QED BY <1>2, <1>3, <2>1, CutConcat
<1>5. \/ WaitsForKey(t, raw, b, k, r) \/ WaitsForValue(t, raw, b, k, r) \/ NoName(t, raw, b, k, r)
      \/ NoText(t, raw, b, k, r) \/ ReadsText(t, raw, b, k, r)
  <2>1. k <= Len(raw)
    OBVIOUS
  <2> HIDE DEF raw, chunk
  <2> QED BY <1>3, <1>4, <2>1, SeekDoes
<1> HIDE DEF r
<1>6. d \in Document \/ d = Prose
  OBVIOUS
<1>7. CASE WaitsForKey(t, raw, b, k, r)
  <2>1. PICK c \in Nat : b <= c /\ c <= k /\ (c = b \/ c + 4 = k) /\ r = Silent([t EXCEPT !.buf = Cut(raw, c, k)])
    BY <1>7 DEF WaitsForKey
  <2>2. \A K \in Nat : Spelled(raw, K) /\ b < K => k < K + 3
    BY <1>7 DEF WaitsForKey
  <2>3. Searched(d, c, k)
    <3>1. CASE d \in Document
      BY <1>2, <1>3, <2>1, <2>2, <3>1, SearchedWaitingForKey
    <3>2. CASE d = Prose
      BY <3>2, ProseHasNoKey DEF Searched
    <3> QED BY <1>6, <3>1, <3>2
  <2>4. Scans(d, k, r.t, << >> \o r.out) /\ r.out \in Seq(Character)
    BY <1>1, <1>3, <2>1, <2>3, SearchGoesOn
  <2> QED BY <1>3, <2>4 DEF r
<1>8. CASE WaitsForValue(t, raw, b, k, r)
  <2>1. PICK c, P \in Nat :
          /\ P = c + 1 /\ FirstKey(raw, b, k, P) /\ r = Silent([t EXCEPT !.buf = Cut(raw, c, k)])
          /\ \/ Blank(raw, P + 4, k + 1)
             \/ \E C \in Nat : P + 4 <= C /\ C <= k /\ raw[C] = ":" /\ Blank(raw, P + 4, C) /\ Blank(raw, C + 1, k + 1)
    BY <1>8 DEF WaitsForValue
  <2>2. d \in Document /\ c <= k
    <3>1. P + 3 <= k /\ Spelled(raw, P)
      BY <2>1 DEF FirstKey
    <3>2. c <= k
      BY <2>1, <3>1
    <3> QED BY <1>6, <3>1, <3>2, ProseHasNoKey
  <2>3. Searched(d, c, k)
    BY <1>2, <1>3, <2>1, <2>2, SearchedWaitingForValue
  <2>4. Scans(d, k, r.t, << >> \o r.out) /\ r.out \in Seq(Character)
    BY <1>1, <1>3, <2>1, <2>2, <2>3, SearchGoesOn
  <2> QED BY <1>3, <2>4 DEF r
<1>9. CASE NoName(t, raw, b, k, r)
  <2>1. PICK c, P, C \in Nat :
          /\ c = P + 3 /\ FirstKey(raw, b, k, P) /\ r = Silent([t EXCEPT !.buf = Cut(raw, c, k)])
          /\ P + 4 <= C /\ C <= k /\ raw[C] # Space /\ raw[C] # ":" /\ Blank(raw, P + 4, C)
    BY <1>9 DEF NoName
  <2>2. d \in Document /\ c <= k
    <3>1. P + 3 <= k /\ Spelled(raw, P)
      BY <2>1 DEF FirstKey
    <3>2. c <= k
      BY <2>1, <3>1
    <3> QED BY <1>6, <3>1, <3>2, ProseHasNoKey
  <2>3. Searched(d, c, k)
    BY <1>2, <1>3, <2>1, <2>2, SearchedNoName
  <2>4. Scans(d, k, r.t, << >> \o r.out) /\ r.out \in Seq(Character)
    BY <1>1, <1>3, <2>1, <2>2, <2>3, SearchGoesOn
  <2> QED BY <1>3, <2>4 DEF r
<1>10. ASSUME NEW P \in Nat, NEW C \in Nat, NEW O \in Nat, AtValue(raw, b, k, P, C, O)
       PROVE  /\ d \in Document /\ O <= k
              /\ \E i \in TextFields(d) : O = OpenPlace(d, i) /\ (raw[O] = Quote <=> d[i].value # Null)
  <2>1. Spelled(raw, P) /\ O <= k
    BY <1>10 DEF AtValue, FirstKey
  <2>2. d \in Document
    BY <1>6, <2>1, ProseHasNoKey
  <2> QED BY <1>3, <1>10, <2>1, <2>2, AtTheText
<1>11. CASE NoText(t, raw, b, k, r)
  <2>1. PICK P, C, O \in Nat : AtValue(raw, b, k, P, C, O) /\ raw[O] # Quote /\ r = Silent([t EXCEPT !.state = "finished"])
    BY <1>11 DEF NoText
  <2>2. PICK i \in TextFields(d) : O = OpenPlace(d, i) /\ (raw[O] = Quote <=> d[i].value # Null)
    BY <1>10, <2>1
  <2> DEFINE x == [t EXCEPT !.state = "finished"]
  <2>3. x \in Scanner /\ x.state = "finished" /\ r.t = x /\ r.out = << >>
    BY <1>1, <2>1, SilentIs DEF Scanner
  <2> HIDE DEF x
  <2>4. e \o r.out = << >> /\ << >> \in Seq(Character)
    <3>1. << >> \in Seq(Character)
      BY EmptySeq
    <3> QED BY <1>3, <2>3, <3>1, ConcatEmptySeq
  <2>5. ReadToTheEnd(d, << >>)
    BY <2>1, <2>2 DEF ReadToTheEnd
  <2>6. Scans(d, k, r.t, e \o r.out)
    BY <2>3, <2>4, <2>5 DEF Scans, ScanInv
  <2> QED BY <2>3, <2>4, <2>6 DEF r
<1>12. CASE ReadsText(t, raw, b, k, r)
  <2>1. PICK P, C, O \in Nat : /\ AtValue(raw, b, k, P, C, O) /\ raw[O] = Quote
                               /\ r = consume([t EXCEPT !.state = "inValue", !.buf = << >>], Cut(raw, O, k))
    BY <1>12 DEF ReadsText
  <2>2. d \in Document /\ O <= k
    BY <1>10, <2>1
  <2>3. PICK i \in TextFields(d) : O = OpenPlace(d, i) /\ (raw[O] = Quote <=> d[i].value # Null)
    BY <1>10, <2>1
  <2> DEFINE x == [t EXCEPT !.state = "inValue", !.buf = << >>]
             s == Cut(raw, O, k)
             v == d[i].value
  <2>4. v # Null /\ v \in Seq(Character)
    BY <2>1, <2>2, <2>3, ValueIs
  <2>5. x.pending = << >> /\ << >> \in Seq(Ink) /\ << >> \in Seq(Character)
    <3>1. << >> \in Seq(Ink) /\ << >> \in Seq(Character)
      BY EmptySeq
    <3> QED BY <1>1, <1>3, <3>1 DEF Scanner
  <2>6. s \in Seq(Ink) /\ Len(s) \in Nat /\ O + Len(s) = k
    <3>1. k <= Len(raw)
      OBVIOUS
    <3> HIDE DEF raw
    <3> QED BY <1>3, <2>2, <3>1, CutEnds
  <2>7. Behind(v, 0, s)
    <3>1. 0 \in Nat /\ O = OpenPlace(d, i) + 0
      BY <2>3
    <3> QED BY <2>2, <2>4, <3>1, ValueBehind
  <2>8. InText(v, 0, << >>, << >>)
    <3>1. 0 \in 0..Len(v)
      BY <2>4
    <3>2. SubSeq(v, 1, 0) = << >>
      BY <2>4, <3>1, BeginningIs
    <3>3. Joining(ValueParts(v))[0] = << >>
      <4>1. ValueParts(v) \in Seq(Seq(Ink))
        BY <2>4, ValueWritten
      <4> HIDE DEF v
      <4> QED BY <4>1, JoiningAdds
    <3>4. 0 = Len(<< >>) + Len(<< >>)
      OBVIOUS
    <3> HIDE DEF v
    <3> QED BY <3>1, <3>2, <3>3, <3>4 DEF InText
  <2>9. r = consume(x, s)
    BY <2>1
  <2> HIDE DEF x, s, v
  <2>10. /\ r.out \in Seq(Character) /\ r.t \in Scanner
         /\ \/ r.t.state = "finished" /\ << >> \o r.out = v
            \/ r.t.state = "inValue" /\ InText(v, 0 + Len(s), << >> \o r.out, r.t.pending)
    <3>1. /\ consume(x, s).out \in Seq(Character) /\ consume(x, s).t.pending \in Seq(Ink)
          /\ \/ consume(x, s).t.state = "finished" /\ << >> \o consume(x, s).out = v
             \/ /\ consume(x, s).t.state = "inValue"
                /\ InText(v, 0 + Len(s), << >> \o consume(x, s).out, consume(x, s).t.pending)
      <4>1. x.pending \in Seq(Ink) /\ InText(v, 0, << >>, x.pending) /\ 0 \in Nat
        BY <2>5, <2>8
      <4> QED BY <2>4, <2>5, <2>6, <2>7, <4>1, ConsumeReads
    <3>2. consume(x, s).t \in Scanner
      BY <3>1, ConsumeIsScanner
    <3> QED BY <2>9, <3>1, <3>2
  <2>11. << >> \o r.out = r.out /\ 0 + Len(s) = Len(s)
    <3>1. << >> \o r.out = r.out
      BY <2>10, ConcatEmptySeq
    <3> QED BY <2>6, <3>1
  <2>12. CASE r.t.state = "finished" /\ r.out = v
    <3>1. ReadToTheEnd(d, r.out)
      BY <2>4, <2>12 DEF ReadToTheEnd, v
    <3>2. Scans(d, k, r.t, e \o r.out)
      BY <1>3, <2>10, <2>11, <2>12, <3>1 DEF Scans, ScanInv
    <3> QED BY <2>10, <3>2 DEF r
  <2>13. CASE r.t.state = "inValue" /\ InText(v, Len(s), r.out, r.t.pending)
    <3>1. k >= OpenPlace(d, i) /\ k - OpenPlace(d, i) = Len(s)
      BY <2>2, <2>3, <2>6
    <3>2. ReadSoFar(d, k, r.t, r.out)
      BY <2>4, <2>13, <3>1 DEF ReadSoFar, v
    <3>3. Scans(d, k, r.t, e \o r.out)
      BY <1>3, <2>10, <2>11, <2>13, <3>2 DEF Scans, ScanInv
    <3> QED BY <2>10, <3>3 DEF r
  <2> QED BY <2>10, <2>11, <2>12, <2>13
<1> QED BY <1>5, <1>7, <1>8, <1>9, <1>11, <1>12

LEMMA ConsumeKeeps ==
  ASSUME NEW d \in Document \cup {Prose}, NEW n \in Nat, NEW k \in Nat, n <= k, k <= Len(Symbols(d)),
         NEW t, NEW e, Scans(d, n, t, e), t.state = "inValue"
  PROVE  LET r == consume(t, Cut(Symbols(d), n, k)) IN Scans(d, k, r.t, e \o r.out) /\ r.out \in Seq(Character)
<1> DEFINE raw == Symbols(d)
           s == Cut(raw, n, k)
           r == consume(t, s)
<1>1. t \in Scanner /\ e \in Seq(Character) /\ ReadSoFar(d, n, t, e)
  BY DEF Scans, ScanInv
<1>2. PICK i \in TextFields(d) :
        d[i].value # Null /\ n >= OpenPlace(d, i) /\ InText(d[i].value, n - OpenPlace(d, i), e, t.pending)
  BY <1>1 DEF ReadSoFar
<1>3. d \in Document
  BY ProseHasNoKey
<1> DEFINE v == d[i].value
           O == OpenPlace(d, i)
           m == n - O
<1>4. v \in Seq(Character) /\ v # Null /\ t.pending \in Seq(Ink)
  BY <1>1, <1>2, <1>3, ValueIs DEF Scanner
<1>5. O \in Nat
  <2>1. PICK K, A, E : TextPlaces(d, i, raw, K, A, E)
    BY <1>3, TextHasPlaces
  <2> QED BY <2>1 DEF TextPlaces
<1>6. m \in Nat /\ n = O + m
  BY <1>2, <1>5
<1>7. s \in Seq(Ink) /\ Len(s) \in Nat /\ n + Len(s) = k
  <2>1. raw \in Seq(Ink) /\ k <= Len(raw)
    BY SymbolsAre
  <2> HIDE DEF raw
  <2> QED BY <2>1, CutEnds
<1> HIDE DEF m
<1>8. Behind(v, m, s)
  BY <1>2, <1>3, <1>6, ValueBehind
<1>9. InText(v, m, e, t.pending)
  BY <1>2 DEF m
<1> HIDE DEF v, s, O
<1>10. /\ r.out \in Seq(Character) /\ r.t.pending \in Seq(Ink)
       /\ \/ r.t.state = "finished" /\ e \o r.out = v
          \/ r.t.state = "inValue" /\ InText(v, m + Len(s), e \o r.out, r.t.pending)
  BY <1>1, <1>4, <1>6, <1>7, <1>8, <1>9, ConsumeReads
<1>11. r.t \in Scanner
  BY <1>10, ConsumeIsScanner
<1> HIDE DEF r
<1>12. e \o r.out \in Seq(Character)
  BY <1>1, <1>10, ConcatProperties
<1>13. CASE r.t.state = "finished" /\ e \o r.out = v
  <2>1. ReadToTheEnd(d, e \o r.out)
    BY <1>4, <1>13 DEF ReadToTheEnd, v
  <2>2. Scans(d, k, r.t, e \o r.out)
    BY <1>11, <1>12, <1>13, <2>1 DEF Scans, ScanInv
  <2> QED BY <1>10, <2>2 DEF r, s
<1>14. CASE r.t.state = "inValue" /\ InText(v, m + Len(s), e \o r.out, r.t.pending)
  <2>1. k >= O /\ k - O = m + Len(s)
    BY <1>5, <1>6, <1>7
  <2>2. ReadSoFar(d, k, r.t, e \o r.out)
    BY <1>4, <1>14, <2>1 DEF ReadSoFar, v, O
  <2>3. Scans(d, k, r.t, e \o r.out)
    BY <1>11, <1>12, <1>14, <2>2 DEF Scans, ScanInv
  <2> QED BY <1>10, <2>3 DEF r, s
<1> QED BY <1>10, <1>13, <1>14

\* However the network cuts a document, a frame leaves the scanner where it says.
LEMMA WriteKeeps ==
  ASSUME NEW d \in Document \cup {Prose}, NEW n \in Nat, NEW k \in Nat, n <= k, k <= Len(Symbols(d)),
         NEW t, NEW e, Scans(d, n, t, e)
  PROVE  LET r == Write(t, Cut(Symbols(d), n, k)) IN Scans(d, k, r.t, e \o r.out) /\ r.out \in Seq(Character)
<1> DEFINE s == Cut(Symbols(d), n, k)
<1> HIDE DEF s
<1>1. t \in Scanner /\ e \in Seq(Character) /\ ScanInv(d, n, t, e) /\ t.state \in {"seekingKey", "inValue", "finished"}
  BY DEF Scans, Scanner
<1>2. CASE t.state = "seekingKey"
  <2>1. Write(t, s) = Seek(t, s)
    BY <1>2 DEF Write
  <2> QED BY <1>2, <2>1, SeekKeeps DEF s
<1>3. CASE t.state = "inValue"
  <2>1. Write(t, s) = consume(t, s)
    BY <1>3 DEF Write
  <2> QED BY <1>3, <2>1, ConsumeKeeps DEF s
<1>4. CASE t.state = "finished"
  <2>1. Write(t, s) = Silent(t)
    BY <1>4 DEF Write
  <2>2. Silent(t).t = t /\ Silent(t).out = << >>
    BY SilentIs
  <2>3. e \o << >> = e /\ << >> \in Seq(Character)
    <3>1. << >> \in Seq(Character)
      BY EmptySeq
    <3> QED BY <1>1, <3>1, ConcatEmptySeq
  <2>4. Scans(d, k, t, e)
    BY <1>1, <1>4 DEF Scans, ScanInv
  <2> QED BY <2>1, <2>2, <2>3, <2>4 DEF s
<1> QED BY <1>1, <1>2, <1>3, <1>4

-----------------------------------------------------------------------------
\* The turn.

TurnRecord == [step : {"deciding", "calling", "decided", "final"}, calls : Nat, cost : Nat, streamed : BOOLEAN]

TurnTypes ==
  /\ turn \in TurnRecord
  /\ doc \in Document \cup {Prose} /\ sent \in Nat /\ sent <= Len(Symbols(doc))
  /\ emitted \in Seq(Character) /\ deltas \in Seq(Seq(Character))
  /\ turn.step # "final" => shown \in Seq(Character)

\* Where the scanner is, what it handed on, and what an answer to show takes.
Scanned ==
  /\ turn.step = "deciding" => sent = 0 /\ emitted = << >> /\ deltas = << >> /\ shown = << >>
  /\ ~turn.streamed => emitted = << >>
  /\ turn.streamed => Scans(doc, sent, scan, emitted)
  /\ turn.step = "decided" /\ turn.streamed /\ outcome.kind \in {"say", "ask"}
       => sent = Len(Symbols(doc)) /\ TextOf(doc) # << >>
  /\ ~dropped /\ turn.step # "final" => shown \o Joined(deltas) = emitted

TurnInv == TurnTypes /\ Scanned

\* The text of a document is the value of its one text field.
LEMMA TextOfIs ==
  ASSUME NEW d \in Document \cup {Prose}
  PROVE  /\ TextFields(d) = {} => TextOf(d) = << >>
         /\ \A i \in TextFields(d) : TextOf(d) = IF d[i].value = Null THEN << >> ELSE d[i].value
         /\ TextOf(d) \in Seq(Character)
<1> DEFINE at == {j \in DOMAIN d : d[j].name = TextName /\ d[j].value # Null}
<1>1. << >> \in Seq(Character)
  BY EmptySeq
<1>2. CASE d = Prose
  BY <1>1, <1>2, ProseHasNoKey DEF TextOf
<1>3. CASE d # Prose
  <2>1. d \in Document /\ \A i, j \in TextFields(d) : i = j
    BY <1>3, DocumentIs
  <2>2. TextOf(d) = IF at = {} THEN << >> ELSE d[CHOOSE i \in at : TRUE].value
    BY <1>3 DEF TextOf, Wire
  <2>3. \A j : j \in at <=> j \in TextFields(d) /\ d[j].value # Null
    BY DEF TextFields
  <2> HIDE DEF at
  <2>4. TextFields(d) = {} => TextOf(d) = << >>
    BY <2>2, <2>3
  <2>5. ASSUME NEW i \in TextFields(d) PROVE TextOf(d) = IF d[i].value = Null THEN << >> ELSE d[i].value
    <3>1. CASE d[i].value = Null
      <4>1. at = {}
        BY <2>1, <2>3, <3>1
      <4> QED BY <2>2, <3>1, <4>1
    <3>2. CASE d[i].value # Null
      <4>1. at # {} /\ \A j \in at : j = i
        BY <2>1, <2>3, <3>2
      <4>2. (CHOOSE j \in at : TRUE) = i
        BY <4>1
      <4> QED BY <2>2, <3>2, <4>1, <4>2
    <3> QED BY <3>1, <3>2
  <2>6. TextOf(d) \in Seq(Character)
    <3>1. CASE TextFields(d) = {}
      BY <1>1, <2>4, <3>1
    <3>2. CASE TextFields(d) # {}
      <4>1. PICK i : i \in TextFields(d)
        BY <3>2
      <4>2. d[i].value \in Seq(Character) \cup {Null}
        BY <2>1, <4>1, ValueIs
      <4>3. TextOf(d) = IF d[i].value = Null THEN << >> ELSE d[i].value
        BY <2>5, <4>1
      <4> QED BY <1>1, <4>2, <4>3
    <3> QED BY <3>1, <3>2
  <2> QED BY <2>4, <2>5, <2>6
<1> QED BY <1>2, <1>3

\* Nothing is said or asked without a text.
LEMMA SaysWithText ==
  ASSUME NEW d, apply(d).kind \in {"say", "ask"}
  PROVE  Wire(d, TextName) # << >>
<1> SUFFICES ASSUME Wire(d, TextName) = << >> PROVE FALSE
  OBVIOUS
<1>1. TrimSpace(<< >>) = << >>
  BY DEF TrimSpace
<1>2. apply(d) = ErrUnusable \/ apply(d).kind = "do"
  <2> DEFINE chosen == Wire(d, <<"capability">>)
             o == [Decided("do") EXCEPT !.capability = chosen[1], !.axis = axisFor(chosen[1], Wire(d, <<"axis">>)),
                                        !.why = Wire(d, <<"why">>) # << >>]
  <2>1. o.kind = "do"
    BY DEF Decided
  <2>2. apply(d) = CASE Wire(d, <<"action">>) \in {<<"say">>, <<"ask">>} /\ TrimSpace(Wire(d, TextName)) # << >>
                          -> [Decided(Wire(d, <<"action">>)[1]) EXCEPT !.text = TrimSpace(Wire(d, TextName))]
                     [] Wire(d, <<"action">>) = <<"do">> /\ \E c \in Capability : chosen = <<c>> -> o
                     [] OTHER -> ErrUnusable
    BY Zenon DEF apply
  <2> HIDE DEF o, chosen
  <2>3. TrimSpace(Wire(d, TextName)) = << >>
    BY <1>1
  <2>4. apply(d) = o \/ apply(d) = ErrUnusable
    BY <2>2, <2>3, Zenon
  <2> QED BY <2>1, <2>4
<1>3. ErrUnusable.kind = "unusable"
  BY DEF ErrUnusable, Decided
<1> QED BY <1>2, <1>3

LEMMA InterpretsWhole ==
  ASSUME NEW finish, Interpret(finish).kind \in {"say", "ask"}, TurnTypes
  PROVE  sent = Len(Symbols(doc)) /\ TextOf(doc) # << >>
<1>1. ErrUnusable.kind = "unusable"
  BY DEF ErrUnusable, Decided
<1>2. doc # Prose /\ ~(sent < Len(Symbols(doc))) /\ Interpret(finish) = apply(doc)
  BY <1>1 DEF Interpret
<1>3. sent = Len(Symbols(doc))
  <2>1. Len(Symbols(doc)) \in Nat /\ sent \in Nat /\ sent <= Len(Symbols(doc))
    BY SymbolsAre DEF TurnTypes
  <2> QED BY <1>2, <2>1
<1>4. Wire(doc, TextName) # << >>
  BY <1>2, SaysWithText
<1> QED BY <1>2, <1>3, <1>4 DEF TextOf

LEMMA FreshScans == ASSUME NEW d \in Document \cup {Prose} PROVE Scans(d, 0, Fresh, << >>)
<1>1. << >> \in Seq(Ink) /\ << >> \in Seq(Character)
  BY EmptySeq
<1>2. Fresh \in Scanner /\ Fresh.state = "seekingKey" /\ Fresh.pending = << >> /\ Fresh.buf = << >>
  BY <1>1 DEF Fresh, Scanner
<1>3. Cut(Symbols(d), 0, 0) = << >>
  BY SubSeqEmpty DEF Cut
<1>4. ASSUME NEW i \in TextFields(d) PROVE 0 < KeyPlace(d, i) /\ 0 < OpenPlace(d, i)
  <2>1. d \in Document
    BY ProseHasNoKey
  <2>2. PICK K, A, E : TextPlaces(d, i, Symbols(d), K, A, E)
    BY <2>1, TextHasPlaces
  <2>3. K \in Nat /\ A \in Nat /\ E \in Nat /\ K + 4 <= A /\ A < E /\ K = KeyPlace(d, i) /\ E = OpenPlace(d, i) /\ 1 <= K
    BY <2>2 DEF TextPlaces, Spelled
  <2>4. 0 < K /\ 0 < E
    BY <2>3
  <2> QED BY <2>3, <2>4
<1>5. Sought(d, 0, Fresh, << >>)
  <2>1. 0 \in 0..0
    OBVIOUS
  <2> QED BY <1>2, <1>3, <1>4, <2>1 DEF Sought
<1> QED BY <1>1, <1>2, <1>5 DEF Scans, ScanInv

LEMMA JoinedIsSeq == ASSUME NEW ss \in Seq(Seq(Character)) PROVE Joined(ss) \in Seq(Character)
<1>1. Len(ss) \in 0..Len(ss)
  OBVIOUS
<1>2. \A k \in 0..Len(ss) : Joining(ss)[k] \in Seq(Character)
  BY JoiningAdds
<1> QED BY <1>1, <1>2 DEF Joined

LEMMA TurnStarts == TurnInit => TurnInv
<1> SUFFICES ASSUME TurnInit PROVE TurnInv
  OBVIOUS
<1>1. << >> \in Seq(Character) /\ << >> \in Seq(Seq(Character)) /\ << >> \o << >> = << >>
  <2>1. << >> \in Seq(Character) /\ << >> \in Seq(Seq(Character))
    BY EmptySeq
  <2> QED BY <2>1, ConcatEmptySeq
<1>2. /\ turn = [step |-> "deciding", calls |-> 0, cost |-> 0, streamed |-> FALSE] /\ doc = Prose /\ sent = 0
      /\ deltas = << >> /\ shown = << >> /\ emitted = << >> /\ dropped = FALSE
  BY DEF TurnInit
<1>3. 0 <= Len(Symbols(doc))
  BY <1>2, SymbolsAre
<1>4. TurnTypes
  BY <1>1, <1>2, <1>3 DEF TurnTypes, TurnRecord
<1>5. Scanned
  <2>1. turn.streamed = FALSE /\ turn.step = "deciding"
    BY <1>2
  <2> QED BY <1>1, <1>2, <2>1, JoinedEmpty DEF Scanned
<1> QED BY <1>4, <1>5 DEF TurnInv

\* A turn that is decided without an answer to show.
LEMMA EndKeeps ==
  ASSUME TurnInv, NEW o, NEW cost \in Nat, End(o, cost), turn.step = "calling",
         UNCHANGED <<doc, scan, deltas, shown, emitted, dropped>>, sent' \in Nat, sent' <= Len(Symbols(doc)),
         turn.streamed => sent' = sent,
         turn.streamed /\ o.kind \in {"say", "ask"} => sent = Len(Symbols(doc)) /\ TextOf(doc) # << >>
  PROVE  TurnInv'
<1>1. /\ turn.step # "final" /\ turn'.step = "decided" /\ turn'.streamed = turn.streamed /\ outcome' = o
      /\ turn' \in TurnRecord
  <2>1. turn \in TurnRecord
    BY DEF TurnInv, TurnTypes
  <2>2. turn' = [turn EXCEPT !.step = "decided", !.cost = @ + cost] /\ outcome' = o
    BY DEF End
  <2>3. turn.cost + cost \in Nat
    BY <2>1 DEF TurnRecord
  <2> QED BY <2>1, <2>2, <2>3 DEF TurnRecord
<1>2. TurnTypes'
  BY <1>1 DEF TurnInv, TurnTypes
<1>3. Scanned'
  BY <1>1 DEF TurnInv, Scanned
<1> QED BY <1>2, <1>3 DEF TurnInv

LEMMA BeginCallKeeps == TurnInv /\ BeginCall => TurnInv'
<1> SUFFICES ASSUME TurnInv, BeginCall PROVE TurnInv'
  OBVIOUS
<1>1. PICK d \in Document \cup {Prose}, streamed \in BOOLEAN :
        doc' = d /\ turn' = [turn EXCEPT !.step = "calling", !.calls = @ + 1, !.streamed = streamed]
  BY DEF BeginCall
<1>2. /\ turn.step = "deciding" /\ sent' = 0 /\ scan' = Fresh
      /\ UNCHANGED <<deltas, shown, outcome, emitted, dropped>>
  BY DEF BeginCall
<1>3. /\ turn'.step = "calling" /\ turn'.streamed = streamed
      /\ turn' \in TurnRecord
  <2>1. turn \in TurnRecord
    BY DEF TurnInv, TurnTypes
  <2>2. turn.calls + 1 \in Nat
    BY <2>1 DEF TurnRecord
  <2> QED BY <1>1, <2>1, <2>2 DEF TurnRecord
<1>4. emitted = << >> /\ sent' <= Len(Symbols(doc'))
  <2>1. Len(Symbols(d)) \in Nat
    BY SymbolsAre
  <2> QED BY <1>1, <1>2, <2>1 DEF TurnInv, Scanned
<1>5. TurnTypes'
  BY <1>1, <1>2, <1>3, <1>4 DEF TurnInv, TurnTypes
<1>6. Scans(doc', sent', scan', emitted')
  BY <1>1, <1>2, <1>4, FreshScans
<1>7. Scanned'
  BY <1>2, <1>3, <1>4, <1>6 DEF TurnInv, Scanned
<1> QED BY <1>5, <1>7 DEF TurnInv

LEMMA TextFrameKeeps == TurnInv /\ TextFrame => TurnInv'
<1> SUFFICES ASSUME TurnInv, TextFrame PROVE TurnInv'
  OBVIOUS
<1> DEFINE raw == Symbols(doc)
<1>1. PICK n \in 1..MaxChunk :
        LET r == Write(scan, SubSeq(raw, sent + 1, sent + n)) IN
        /\ turn.step = "calling" /\ turn.streamed /\ sent + n <= Len(raw)
        /\ sent' = sent + n
        /\ scan' = r.t
        /\ emitted' = emitted \o r.out
        /\ deltas' = IF r.out # << >> /\ Len(deltas) < DeltaCap THEN Append(deltas, r.out) ELSE deltas
        /\ dropped' = (dropped \/ (r.out # << >> /\ Len(deltas) >= DeltaCap))
        /\ UNCHANGED <<turn, doc, shown, outcome>>
  BY DEF TextFrame
<1> DEFINE k == sent + n
           r == Write(scan, Cut(raw, sent, k))
<1>2. /\ turn.step = "calling" /\ turn.streamed /\ k <= Len(raw) /\ sent' = k /\ scan' = r.t /\ emitted' = emitted \o r.out
      /\ deltas' = (IF r.out # << >> /\ Len(deltas) < DeltaCap THEN Append(deltas, r.out) ELSE deltas)
      /\ dropped' = (dropped \/ (r.out # << >> /\ Len(deltas) >= DeltaCap))
      /\ UNCHANGED <<turn, doc, shown, outcome>>
  BY <1>1, Zenon DEF Cut
<1>3. k \in Nat /\ sent \in Nat /\ sent <= k /\ doc \in Document \cup {Prose} /\ Scans(doc, sent, scan, emitted)
  BY <1>2, TurnAssumption DEF TurnInv, TurnTypes, Scanned
<1> HIDE DEF k
<1>4. Scans(doc, k, r.t, emitted \o r.out) /\ r.out \in Seq(Character)
  BY <1>2, <1>3, WriteKeeps
<1>5. /\ emitted \in Seq(Character) /\ shown \in Seq(Character) /\ deltas \in Seq(Seq(Character))
      /\ turn.step # "final" /\ Len(deltas) \in Nat /\ DeltaCap \in Nat
  <2>1. deltas \in Seq(Seq(Character))
    BY DEF TurnInv, TurnTypes
  <2> QED BY <1>2, <2>1, TurnAssumption DEF TurnInv, TurnTypes
<1> DEFINE out == r.out
<1>6. out \in Seq(Character)
  BY <1>4
<1> HIDE DEF r
<1>7. emitted' \in Seq(Character) /\ deltas' \in Seq(Seq(Character))
  <2>1. emitted \o out \in Seq(Character)
    BY <1>5, <1>6, ConcatProperties
  <2>2. Append(deltas, out) \in Seq(Seq(Character))
    BY <1>5, <1>6, AppendProperties
  <2> QED BY <1>2, <1>5, <2>1, <2>2
<1>8. TurnTypes'
  BY <1>2, <1>3, <1>7 DEF TurnInv, TurnTypes
<1>9. ASSUME ~dropped' PROVE shown' \o Joined(deltas') = emitted'
  <2>1. shown \o Joined(deltas) = emitted
    BY <1>2, <1>5, <1>9 DEF TurnInv, Scanned
  <2>2. CASE out = << >>
    <3>1. emitted \o << >> = emitted
      BY <1>5, ConcatEmptySeq
    <3> QED BY <1>2, <2>1, <2>2, <3>1
  <2>3. CASE out # << >>
    <3>1. Len(deltas) < DeltaCap
      <4>1. ~(Len(deltas) >= DeltaCap)
        BY <1>2, <1>9, <2>3
      <4>2. Len(deltas) \in Nat /\ DeltaCap \in Nat
        BY <1>5
      <4> QED BY <4>1, <4>2
    <3>2. deltas' = Append(deltas, out)
      BY <1>2, <2>3, <3>1
    <3>3. Joined(Append(deltas, out)) = Joined(deltas) \o out
      BY <1>5, <1>6, JoinedAppend
    <3>4. Joined(deltas) \in Seq(Character)
      BY <1>5, JoinedIsSeq
    <3>5. shown \o (Joined(deltas) \o out) = (shown \o Joined(deltas)) \o out
      <4> DEFINE j == Joined(deltas)
      <4>1. j \in Seq(Character)
        BY <3>4
      <4> HIDE DEF j, out
      <4>2. (shown \o j) \o out = shown \o (j \o out)
        BY <1>5, <1>6, <4>1, ConcatAssociative
      <4> QED BY <4>2 DEF j
    <3> QED BY <1>2, <2>1, <3>2, <3>3, <3>5
  <2> QED BY <2>2, <2>3
<1>10. Scans(doc', sent', scan', emitted')
  BY <1>2, <1>4
<1>11. Scanned'
  <2>1. turn' = turn /\ turn'.step = "calling" /\ turn'.streamed
    BY <1>2
  <2> QED BY <1>9, <1>10, <2>1 DEF Scanned
<1> QED BY <1>8, <1>11 DEF TurnInv

LEMMA SendDeltaKeeps == TurnInv /\ SendDelta => TurnInv'
<1> SUFFICES ASSUME TurnInv, SendDelta PROVE TurnInv'
  OBVIOUS
<1>1. /\ deltas # << >> /\ turn.step \in {"calling", "decided"} /\ shown' = shown \o Head(deltas) /\ deltas' = Tail(deltas)
      /\ UNCHANGED <<turn, doc, sent, wire, scan, outcome, emitted, dropped>>
  BY DEF SendDelta
<1>2. turn.step # "final" /\ turn.step # "deciding"
  BY <1>1
<1>3. shown \in Seq(Character) /\ deltas \in Seq(Seq(Character))
  BY <1>2 DEF TurnInv, TurnTypes
<1>4. Head(deltas) \in Seq(Character) /\ Joined(Tail(deltas)) \in Seq(Character) /\ Joined(deltas) = Head(deltas) \o Joined(Tail(deltas))
  BY <1>1, <1>3, JoinedHead
<1>5. Tail(deltas) \in Seq(Seq(Character))
  BY <1>1, <1>3, HeadTailProperties
<1>6. shown' \in Seq(Character)
  BY <1>1, <1>3, <1>4, ConcatProperties
<1>7. (shown \o Head(deltas)) \o Joined(Tail(deltas)) = shown \o (Head(deltas) \o Joined(Tail(deltas)))
  <2> DEFINE h == Head(deltas)
             j == Joined(Tail(deltas))
  <2>1. h \in Seq(Character) /\ j \in Seq(Character)
    BY <1>4
  <2> HIDE DEF h, j
  <2>2. (shown \o h) \o j = shown \o (h \o j)
    BY <1>3, <2>1, ConcatAssociative
  <2> QED BY <2>2 DEF h, j
<1>8. shown' \o Joined(deltas') = shown \o Joined(deltas)
  BY <1>1, <1>4, <1>7
<1>9. TurnTypes'
  BY <1>1, <1>5, <1>6 DEF TurnInv, TurnTypes
<1>10. Scanned'
  BY <1>1, <1>2, <1>8 DEF TurnInv, Scanned
<1> QED BY <1>9, <1>10 DEF TurnInv

LEMMA NoAnswerKinds == ErrUnavailable.kind \notin {"say", "ask"} /\ ErrUnusable.kind \notin {"say", "ask"}
  BY DEF ErrUnavailable, ErrUnusable, Decided

LEMMA TurnEndsKeep == TurnInv /\ (Refused \/ CompleteCall \/ BadFrame \/ StreamEnds) => TurnInv'
<1> SUFFICES ASSUME TurnInv, Refused \/ CompleteCall \/ BadFrame \/ StreamEnds PROVE TurnInv'
  OBVIOUS
<1>1. /\ sent \in Nat /\ sent <= Len(Symbols(doc)) /\ Len(Symbols(doc)) \in Nat /\ CallCost \in Nat /\ 0 \in Nat /\ TurnTypes
      /\ doc \in Document \cup {Prose}
  <2>1. doc \in Document \cup {Prose}
    BY DEF TurnInv, TurnTypes
  <2>2. Len(Symbols(doc)) \in Nat
    BY <2>1, SymbolsAre
  <2> QED BY <2>1, <2>2, TurnAssumption DEF TurnInv, TurnTypes
<1>2. CASE Refused
  <2>1. End(ErrUnavailable, 0) /\ turn.step = "calling" /\ UNCHANGED <<doc, sent, wire, scan, deltas, shown, emitted, dropped>>
    BY <1>2 DEF Refused
  <2>2. UNCHANGED <<doc, scan, deltas, shown, emitted, dropped>> /\ sent' = sent
    BY <2>1
  <2>3. sent' \in Nat /\ sent' <= Len(Symbols(doc))
    BY <1>1, <2>2
  <2> QED BY <1>1, <2>1, <2>2, <2>3, NoAnswerKinds, EndKeeps
<1>3. CASE BadFrame
  <2>1. End(ErrUnavailable, 0) /\ turn.step = "calling" /\ UNCHANGED <<doc, sent, wire, scan, deltas, shown, emitted, dropped>>
    BY <1>3 DEF BadFrame
  <2>2. UNCHANGED <<doc, scan, deltas, shown, emitted, dropped>> /\ sent' = sent
    BY <2>1
  <2>3. sent' \in Nat /\ sent' <= Len(Symbols(doc))
    BY <1>1, <2>2
  <2> QED BY <1>1, <2>1, <2>2, <2>3, NoAnswerKinds, EndKeeps
<1>4. CASE CompleteCall
  <2> DEFINE z == Len(Symbols(doc))
  <2>1. PICK n \in {z, z \div 2} :
          sent' = n /\ End(IF doc = Prose \/ n < z THEN ErrUnusable ELSE apply(doc), CallCost)
    BY <1>4 DEF CompleteCall
  <2>2. turn.step = "calling" /\ ~turn.streamed /\ UNCHANGED <<doc, wire, scan, deltas, shown, emitted, dropped>>
    BY <1>4 DEF CompleteCall
  <2>3. z \in Nat
    BY <1>1
  <2> HIDE DEF z
  <2>4. n \in Nat /\ n <= z
    <3>1. z \div 2 \in Nat /\ z \div 2 <= z /\ z <= z
      BY <2>3
    <3> QED BY <2>3, <3>1
  <2>5. sent' \in Nat /\ sent' <= Len(Symbols(doc))
    BY <2>1, <2>4 DEF z
  <2>6. UNCHANGED <<doc, scan, deltas, shown, emitted, dropped>>
    BY <2>2
  <2> DEFINE o == IF doc = Prose \/ n < z THEN ErrUnusable ELSE apply(doc)
  <2>7. End(o, CallCost)
    BY <2>1
  <2> HIDE DEF o
  <2> QED BY <1>1, <2>2, <2>5, <2>6, <2>7, EndKeeps
<1>5. CASE StreamEnds
  <2>1. turn.step = "calling" /\ turn.streamed /\ UNCHANGED <<doc, sent, wire, scan, deltas, shown, emitted, dropped>>
    BY <1>5 DEF StreamEnds
  <2>2. PICK finish \in {"stop", "length"} :
          IF wire.any THEN End(Interpret(finish), IF wire.priced THEN CallCost ELSE 0) ELSE End(ErrUnavailable, 0)
    BY <1>5 DEF StreamEnds
  <2>3. UNCHANGED <<doc, scan, deltas, shown, emitted, dropped>> /\ sent' = sent
    BY <2>1
  <2>4. sent' \in Nat /\ sent' <= Len(Symbols(doc))
    BY <1>1, <2>3
  <2>5. CASE wire.any
    <3> DEFINE cost == IF wire.priced THEN CallCost ELSE 0
               o == Interpret(finish)
    <3>1. End(o, cost) /\ cost \in Nat
      BY <1>1, <2>2, <2>5
    <3>2. o.kind \in {"say", "ask"} => sent = Len(Symbols(doc)) /\ TextOf(doc) # << >>
      BY <1>1, InterpretsWhole
    <3> HIDE DEF o, cost
    <3> QED BY <2>1, <2>3, <2>4, <3>1, <3>2, EndKeeps
  <2>6. CASE ~wire.any
    <3>1. End(ErrUnavailable, 0)
      BY <2>2, <2>6
    <3> QED BY <1>1, <2>1, <2>3, <2>4, <3>1, NoAnswerKinds, EndKeeps
  <2> QED BY <2>5, <2>6
<1> QED BY <1>2, <1>3, <1>4, <1>5

LEMMA QuietFramesKeep == TurnInv /\ (ThinkingFrame \/ UsageFrame) => TurnInv'
<1> SUFFICES ASSUME TurnInv, ThinkingFrame \/ UsageFrame PROVE TurnInv'
  OBVIOUS
<1>1. UNCHANGED <<turn, doc, sent, scan, deltas, shown, outcome, emitted, dropped>>
  BY DEF ThinkingFrame, UsageFrame
<1>2. TurnTypes' /\ Scanned'
  BY <1>1 DEF TurnInv, TurnTypes, Scanned
<1> QED BY <1>2 DEF TurnInv

LEMMA SendFinalKeeps == TurnInv /\ SendFinal => TurnInv'
<1> SUFFICES ASSUME TurnInv, SendFinal PROVE TurnInv'
  OBVIOUS
<1>1. turn' = [turn EXCEPT !.step = "final"] /\ UNCHANGED <<doc, sent, wire, scan, deltas, outcome, emitted, dropped>>
  BY DEF SendFinal
<1>2. turn \in TurnRecord
  BY DEF TurnInv, TurnTypes
<1>3. turn' \in TurnRecord /\ turn'.step = "final" /\ turn'.streamed = turn.streamed
  BY <1>1, <1>2 DEF TurnRecord
<1>4. TurnTypes'
  BY <1>1, <1>3 DEF TurnInv, TurnTypes
<1>5. Scanned'
  BY <1>1, <1>3 DEF TurnInv, Scanned
<1> QED BY <1>4, <1>5 DEF TurnInv

\* Every step of a turn keeps the invariant.
LEMMA TurnKeeps == TurnInv /\ [TurnNext]_turnVars => TurnInv'
<1> SUFFICES ASSUME TurnInv, [TurnNext]_turnVars PROVE TurnInv'
  OBVIOUS
<1>1. CASE BeginCall
  BY <1>1, BeginCallKeeps
<1>2. CASE Refused \/ CompleteCall \/ BadFrame \/ StreamEnds
  BY <1>2, TurnEndsKeep
<1>3. CASE TextFrame
  BY <1>3, TextFrameKeeps
<1>4. CASE ThinkingFrame \/ UsageFrame
  BY <1>4, QuietFramesKeep
<1>5. CASE SendDelta
  BY <1>5, SendDeltaKeeps
<1>6. CASE SendFinal
  BY <1>6, SendFinalKeeps
<1>7. CASE UNCHANGED turnVars
  BY <1>7 DEF turnVars, TurnInv, TurnTypes, Scanned
<1> QED BY <1>1, <1>2, <1>3, <1>4, <1>5, <1>6, <1>7 DEF TurnNext

\* A value is read by its last symbol, and the closing quotation mark is behind it.
LEMMA NotPastTheValue ==
  ASSUME NEW v \in Seq(Character), NEW m \in Nat, NEW out \in Seq(Character), NEW held \in Seq(Ink), InText(v, m, out, held)
  PROVE  m <= Len(WrittenText(v))
<1> DEFINE acc == [out |-> out, pending |-> held, closed |-> FALSE]
           W == WrittenText(v)
           c == IF m < Len(W) THEN W[m + 1] ELSE Quote
<1>1. acc \in Accumulator /\ acc.closed = FALSE /\ acc.out = out /\ acc.pending = held
  BY DEF Accumulator
<1>2. << >> \in Seq(Character) /\ << >> \o out = out
  <2>1. << >> \in Seq(Character)
    BY EmptySeq
  <2> QED BY <2>1, ConcatEmptySeq
<1>3. Len(W) \in Nat
  BY ValueWritten
<1> HIDE DEF acc
<1>4. (m < Len(W) => c = W[m + 1]) /\ (m = Len(W) => c = Quote)
  <2> DEFINE l == Len(W)
  <2>1. l \in Nat
    BY <1>3
  <2> HIDE DEF l
  <2>2. m = l => ~(m < l)
    BY <2>1
  <2> QED BY <2>2 DEF l
<1>5. InText(v, m, << >> \o acc.out, acc.pending)
  BY <1>1, <1>2
<1> HIDE DEF c, W
<1>6. m <= Len(WrittenText(v))
  BY <1>1, <1>2, <1>4, <1>5, ReadOneMore DEF W
<1> QED BY <1>6

LEMMA WholeDocumentRead ==
  ASSUME NEW d \in Document \cup {Prose}, NEW t, NEW out, Scans(d, Len(Symbols(d)), t, out), TextOf(d) # << >>,
         ~SpellsTheKey(d)
  PROVE  out = TextOf(d)
<1> DEFINE raw == Symbols(d)
           z == Len(raw)
<1>1. PICK i : i \in TextFields(d)
  BY TextOfIs
<1>2. d \in Document
  BY <1>1, ProseHasNoKey
<1>3. TextOf(d) = (IF d[i].value = Null THEN << >> ELSE d[i].value) /\ \A j \in TextFields(d) : j = i
  BY <1>1, <1>2, TextOfIs, DocumentIs
<1>4. d[i].value # Null
  BY <1>3
<1>5. d[i].value \in Seq(Character)
  BY <1>1, <1>2, <1>4, ValueIs
<1> DEFINE O == OpenPlace(d, i)
           v == d[i].value
           w == Len(WrittenText(v))
<1>6. w \in Nat /\ O \in Nat /\ z \in Nat /\ O + (w + 2) <= z
  <2>1. TextStands(d, i, raw)
    BY <1>1, <1>2, TextIsWhereItIs
  <2>2. O = KeyPlace(d, i) + 5 + 2 * Len(d[i].gap) /\ KeyPlace(d, i) \in Nat /\ Len(d[i].gap) \in Nat
        /\ O + Len(WrittenValue(v)) <= z
    BY <2>1 DEF TextStands
  <2>3. Len(WrittenValue(v)) = w + 2 /\ w \in Nat
    BY <1>4, <1>5, ValueSpelled
  <2>4. z \in Nat
    BY SymbolsAre
  <2> QED BY <2>2, <2>3, <2>4
<1>7. t \in Scanner /\ out \in Seq(Character) /\ ScanInv(d, z, t, out)
  BY DEF Scans
<1>8. CASE t.state = "seekingKey" /\ Sought(d, z, t, out)
  <2>1. z < O
    BY <1>1, <1>8 DEF Sought
  <2> HIDE DEF z, O, w
  <2>2. FALSE
    BY <1>6, <2>1
  <2> QED BY <2>2
<1>9. CASE t.state = "inValue" /\ ReadSoFar(d, z, t, out)
  <2>1. z >= O /\ InText(v, z - O, out, t.pending)
    BY <1>3, <1>9 DEF ReadSoFar
  <2> DEFINE m == z - O
  <2>2. m \in Nat /\ m >= w + 2
    <3> HIDE DEF z, O, w
    <3> QED BY <1>6, <2>1
  <2>3. t.pending \in Seq(Ink)
    BY <1>7 DEF Scanner
  <2>4. InText(v, m, out, t.pending)
    BY <2>1
  <2> HIDE DEF m, z, O, v
  <2>5. m <= Len(WrittenText(v))
    BY <1>5, <1>7, <2>2, <2>3, <2>4, NotPastTheValue DEF v
  <2>6. m <= w
    BY <2>5
  <2> HIDE DEF w
  <2>7. FALSE
    BY <1>6, <2>2, <2>6
  <2> QED BY <2>7
<1>10. CASE t.state = "finished" /\ ReadToTheEnd(d, out)
  BY <1>3, <1>10 DEF ReadToTheEnd
<1> QED BY <1>7, <1>8, <1>9, <1>10 DEF ScanInv

\* What the scanner handed on is a beginning of the text.
LEMMA ScansShowABeginning ==
  ASSUME NEW d \in Document \cup {Prose}, NEW n, NEW t, NEW out, Scans(d, n, t, out)
  PROVE  \E k \in 0..Len(TextOf(d)) : out = SubSeq(TextOf(d), 1, k)
<1> DEFINE text == TextOf(d)
<1>1. text \in Seq(Character) /\ 0 \in 0..Len(text) /\ Len(text) \in 0..Len(text)
  <2>1. text \in Seq(Character)
    BY TextOfIs
  <2>2. Len(text) \in Nat
    BY <2>1
  <2> QED BY <2>1, <2>2
<1>2. SubSeq(text, 1, 0) = << >> /\ SubSeq(text, 1, Len(text)) = text
  <2> HIDE DEF text
  <2> QED BY <1>1, BeginningIs
<1>3. \A i \in TextFields(d) : text = IF d[i].value = Null THEN << >> ELSE d[i].value
  BY TextOfIs
<1> HIDE DEF text
<1>4. CASE Sought(d, n, t, out)
  BY <1>1, <1>2, <1>4 DEF Sought, text
<1>5. CASE ReadSoFar(d, n, t, out)
  <2>1. PICK i \in TextFields(d) : d[i].value # Null /\ InText(d[i].value, n - OpenPlace(d, i), out, t.pending)
    BY <1>5 DEF ReadSoFar
  <2>2. text = d[i].value
    BY <1>3, <2>1
  <2>3. \E k \in 0..Len(text) : out = SubSeq(text, 1, k)
    BY <2>1, <2>2 DEF InText
  <2> QED BY <2>3 DEF text
<1>6. CASE ReadToTheEnd(d, out)
  <2>1. out = text
    BY <1>3, <1>6 DEF ReadToTheEnd
  <2> QED BY <1>1, <1>2, <2>1 DEF text
<1> QED BY <1>4, <1>5, <1>6 DEF Scans, ScanInv

LEMMA TurnInvStreams == TurnInv => StreamedIsTheAnswer
<1> SUFFICES ASSUME TurnInv PROVE StreamedIsTheAnswer
  OBVIOUS
<1>1. doc \in Document \cup {Prose} /\ turn.streamed \in BOOLEAN
  BY DEF TurnInv, TurnTypes, TurnRecord
<1>2. \E n \in 0..Len(TextOf(doc)) : emitted = SubSeq(TextOf(doc), 1, n)
  <2>1. CASE turn.streamed
    <3>1. Scans(doc, sent, scan, emitted)
      BY <2>1 DEF TurnInv, Scanned
    <3> QED BY <1>1, <3>1, ScansShowABeginning
  <2>2. CASE ~turn.streamed
    <3>1. emitted = << >>
      BY <2>2 DEF TurnInv, Scanned
    <3>2. TextOf(doc) \in Seq(Character)
      BY <1>1, TextOfIs
    <3> DEFINE text == TextOf(doc)
    <3>3. 0 \in 0..Len(text) /\ text \in Seq(Character)
      BY <3>2
    <3> HIDE DEF text
    <3>4. SubSeq(text, 1, 0) = << >>
      BY <3>3, BeginningIs
    <3> QED BY <3>1, <3>3, <3>4 DEF text
  <2> QED BY <2>1, <2>2
<1>3. ASSUME turn.step = "decided", turn.streamed, outcome.kind \in {"say", "ask"}, ~SpellsTheKey(doc)
      PROVE  emitted = TextOf(doc)
  <2>1. Scans(doc, sent, scan, emitted) /\ sent = Len(Symbols(doc)) /\ TextOf(doc) # << >>
    BY <1>3 DEF TurnInv, Scanned
  <2> QED BY <1>1, <1>3, <2>1, WholeDocumentRead
<1>4. ~dropped /\ turn.step # "final" => shown \o Joined(deltas) = emitted
  BY DEF TurnInv, Scanned
<1> QED BY <1>2, <1>3, <1>4 DEF StreamedIsTheAnswer

\* What the scanner of stream.go hands on is always a beginning of the text of the document, wherever the
\* network cut it; an answer is shown only with its whole text streamed; and nothing is shown but what was sent.
THEOREM StreamShowsTheAnswer == TurnSpec => []StreamedIsTheAnswer
<1>1. TurnSpec => []TurnInv
  BY TurnStarts, TurnKeeps, PTL DEF TurnSpec
<1> QED BY <1>1, TurnInvStreams, PTL
=============================================================================
