------------------------ MODULE MultipartReadProofs ------------------------
(***************************************************************************)
(* Proofs about the multipart reader at the end of the writer: for any     *)
(* messages, any buffers and chunks and any failures, what the callbacks   *)
(* of the parts are given (PartsReceived).                                 *)
(*                                                                         *)
(* The reader knows only what it has matched; the proof knows the message. *)
(* In the message the headers of part i are between HeadAt(i) and          *)
(* DataAt(i) and its data between DataAt(i) and From(i + 1).  The          *)
(* invariant (PInv) says between which of these the reader is, that what   *)
(* it has matched is the text before base + scanned (Newlines, Dashes),    *)
(* and that what is kept in boundary_buffer begins where what the part     *)
(* was given ends.  Two hypotheses bound what the code copes with: a chunk *)
(* but the last is not shorter than a boundary (LongChunks), and each part *)
(* has a header and data that does not begin with CR LF (Recognised).      *)
(***************************************************************************)
EXTENDS MultipartProofs

----------------------------------------------------------------------------
\* The layout of a message: where its boundaries, headers and data are.

\* The symbols of a slice.
LEMMA SliceAt ==
  ASSUME NEW S, NEW s \in Seq(S), NEW a \in Nat, NEW n \in Nat, a + n <= Len(s)
  PROVE  \A k \in 1..n : Slice(s, a, n)[k] = s[a + k]
  <1>1. PICK l \in Nat : l = Len(s)
    BY LenProperties
  <1>2. a + 1 \in 1..(l + 1) /\ a + n \in 0..l
    BY <1>1
  <1>3. \A k \in 1..((a + n) - (a + 1) + 1) : SubSeq(s, a + 1, a + n)[k] = s[a + 1 + k - 1]
    BY <1>1, <1>2, SubSeqProperties
  <1> QED
    BY <1>3 DEF Slice

\* s is a, b and c, one after the other.
Three(s, a, b, c) ==
  /\ Len(s) = Len(a) + (Len(b) + Len(c))
  /\ \A k \in 1..Len(a) : s[k] = a[k]
  /\ \A k \in 1..Len(b) : s[Len(a) + k] = b[k]
  /\ \A k \in 1..Len(c) : s[Len(a) + (Len(b) + k)] = c[k]

\* Sequences that are joined are found one after the other.
LEMMA JoinAt ==
  ASSUME NEW S, NEW a \in Seq(S), NEW b \in Seq(S), NEW c \in Seq(S)
  PROVE  Three(Join(a, Join(b, c)), a, b, c)
  <1>1. PICK l \in Nat, m \in Nat, n \in Nat : l = Len(a) /\ m = Len(b) /\ n = Len(c)
    BY LenProperties
  <1>2. PICK t \in Seq(S) : t = Join(b, c) /\ Len(t) = m + n
    BY <1>1, JoinType
  <1>3. PICK s \in Seq(S) : s = Join(a, t) /\ Len(s) = l + (m + n)
    <2>1. Join(a, t) \in Seq(S) /\ Len(Join(a, t)) = Len(a) + Len(t)
      BY <1>2, JoinType
    <2> QED
      BY <1>1, <1>2, <2>1
  <1>4. \A k \in 1..(m + n) : t[k] = IF k <= m THEN b[k] ELSE c[k - m]
    BY <1>1, <1>2, ConcatProperties DEF Join
  <1>5. \A k \in 1..(l + (m + n)) : s[k] = IF k <= l THEN a[k] ELSE t[k - l]
    BY <1>1, <1>2, <1>3, ConcatProperties DEF Join
  <1>6. \A k \in 1..l : s[k] = a[k]
    BY <1>5
  <1>7. \A k \in 1..m : s[l + k] = b[k]
    <2> SUFFICES ASSUME NEW k \in 1..m PROVE s[l + k] = b[k]
      OBVIOUS
    <2>1. l + k \in 1..(l + (m + n)) /\ ~(l + k <= l) /\ (l + k) - l = k
      OBVIOUS
    <2>2. k \in 1..(m + n) /\ k <= m
      OBVIOUS
    <2> QED
      BY <1>4, <1>5, <2>1, <2>2
  <1>8. \A k \in 1..n : s[l + (m + k)] = c[k]
    <2> SUFFICES ASSUME NEW k \in 1..n PROVE s[l + (m + k)] = c[k]
      OBVIOUS
    <2>1. l + (m + k) \in 1..(l + (m + n)) /\ ~(l + (m + k) <= l) /\ (l + (m + k)) - l = m + k
      OBVIOUS
    <2>2. m + k \in 1..(m + n) /\ ~(m + k <= m) /\ (m + k) - m = k
      OBVIOUS
    <2> QED
      BY <1>4, <1>5, <2>1, <2>2
  <1> QED
    BY <1>1, <1>2, <1>3, <1>6, <1>7, <1>8 DEF Three

\* Where the boundary before part i begins, and where the headers and the data of part i
\* do, as numbers of symbols before them
From(i) == Len(Message) - Len(Ending(i))
HeadAt(i) == From(i) + 4
DataAt(i) == From(i) + Len(boundary_text(i))

\* What there is from a boundary on is the end of the message.
Lies(i) ==
  /\ From(i) \in Nat
  /\ \A k \in 1..Len(Ending(i)) : Message[From(i) + k] = Ending(i)[k]

\* Where boundary i lies, the boundary and the data of part i lie one behind the other, and
\* boundary i + 1 behind them.
LEMMA NextLies ==
  ASSUME message \in Messages, NEW i \in Parts, Lies(i)
  PROVE  /\ Lies(i + 1)
         /\ From(i + 1) = From(i) + (Len(BoundaryOf(i)) + Len(BytesOf(i)))
         /\ \A k \in 1..Len(BoundaryOf(i)) : Message[From(i) + k] = BoundaryOf(i)[k]
         /\ \A k \in 1..Len(BytesOf(i)) :
              Message[From(i) + (Len(BoundaryOf(i)) + k)] = BytesOf(i)[k]
  <1>1. i \in 0..num_parts /\ i + 1 \in 0..num_parts /\ i < num_parts
    BY MessageIs DEF Parts
  <1>2. PICK x \in Seq(Symbol), y \in Seq(Symbol), z \in Seq(Symbol) :
          x = BoundaryOf(i) /\ y = BytesOf(i) /\ z = Ending(i + 1)
    BY <1>1, BoundaryOfIs, BytesOfIs, EndingIs
  <1>3. PICK s \in Seq(Symbol) : s = Ending(i) /\ s = Join(x, Join(y, z))
    BY <1>1, <1>2, EndingIs
  <1>4. PICK l \in Nat, m \in Nat, n \in Nat : l = Len(x) /\ m = Len(y) /\ n = Len(z)
    BY LenProperties
  <1>5. PICK t \in Seq(Symbol), c \in Nat : t = Message /\ c = Len(t)
    BY MessageText, LenProperties
  <1>6. /\ Len(s) = l + (m + n)
        /\ \A k \in 1..l : s[k] = x[k]
        /\ \A k \in 1..m : s[l + k] = y[k]
        /\ \A k \in 1..n : s[l + (m + k)] = z[k]
    <2>1. Three(s, x, y, z)
      BY <1>3, JoinAt
    <2> QED
      BY <1>4, <2>1 DEF Three
  <1>7. PICK f \in Nat : f = From(i) /\ f = c - (l + (m + n))
    BY <1>3, <1>5, <1>6 DEF Lies, From
  <1>8. \A k \in 1..(l + (m + n)) : t[f + k] = s[k]
    BY <1>3, <1>5, <1>6, <1>7 DEF Lies
  <1>9. From(i + 1) = c - n /\ c - n = f + (l + m) /\ c - n \in Nat
    <2>1. From(i + 1) = c - n
      BY <1>2, <1>4, <1>5 DEF From
    <2>2. c - n = f + (l + m)
      BY <1>4, <1>5, <1>7
    <2> QED
      BY <1>4, <2>1, <2>2
  <1>10. \A k \in 1..l : t[f + k] = x[k]
    <2> SUFFICES ASSUME NEW k \in 1..l PROVE t[f + k] = x[k]
      OBVIOUS
    <2>1. k \in 1..(l + (m + n))
      OBVIOUS
    <2> QED
      BY <1>6, <1>8, <2>1
  <1>11. \A k \in 1..m : t[f + (l + k)] = y[k]
    <2> SUFFICES ASSUME NEW k \in 1..m PROVE t[f + (l + k)] = y[k]
      OBVIOUS
    <2>1. l + k \in 1..(l + (m + n))
      OBVIOUS
    <2> QED
      BY <1>6, <1>8, <2>1
  <1>12. \A k \in 1..n : t[(f + (l + m)) + k] = z[k]
    <2> SUFFICES ASSUME NEW k \in 1..n PROVE t[(f + (l + m)) + k] = z[k]
      OBVIOUS
    <2>1. l + (m + k) \in 1..(l + (m + n)) /\ (f + (l + m)) + k = f + (l + (m + k))
      OBVIOUS
    <2> QED
      BY <1>6, <1>8, <2>1
  <1>13. Lies(i + 1)
    BY <1>2, <1>4, <1>5, <1>9, <1>12 DEF Lies
  <1> QED
    BY <1>2, <1>4, <1>5, <1>7, <1>9, <1>10, <1>11, <1>13

\* Every boundary lies where it is said to, by induction from the first.
LEMMA AllLie ==
  ASSUME message \in Messages, NEW i \in 0..num_parts
  PROVE  Lies(i)
  <1>1. PICK n \in Nat : n = num_parts
    BY MessageIs
  <1> DEFINE wrong == {j \in 0..n : ~Lies(j)}
  <1>2. ASSUME wrong # {} PROVE FALSE
    <2>1. wrong \subseteq Nat
      OBVIOUS
    <2> HIDE DEF wrong
    <2>2. PICK j \in wrong : \A e \in wrong : j <= e
      BY <1>2, <2>1, LeastNat
    <2>3. j \in 0..n /\ ~Lies(j)
      BY <2>2 DEF wrong
    <2>4. CASE j = 0
      <3>1. PICK t \in Seq(Symbol), c \in Nat : t = Message /\ c = Len(t)
        BY MessageText, LenProperties
      <3>2. Ending(0) = t /\ From(0) = 0
        BY <3>1 DEF Message, From
      <3>3. \A k \in 1..c : 0 + k = k
        OBVIOUS
      <3> QED
        BY <2>3, <2>4, <3>1, <3>2, <3>3 DEF Lies
    <2>5. CASE j # 0
      <3>1. j - 1 \in 0..n /\ ~(j <= j - 1) /\ j - 1 \in Parts /\ (j - 1) + 1 = j
        BY <1>1, <2>3, <2>5 DEF Parts
      <3>2. Lies(j - 1)
        BY <2>2, <3>1 DEF wrong
      <3>3. Lies((j - 1) + 1)
        BY <3>1, <3>2, NextLies
      <3> QED
        BY <2>3, <3>1, <3>3
    <2> QED
      BY <2>4, <2>5
  <1> QED
    BY <1>1, <1>2

\* n headers, each a line of its own, so that no two lines end one after the other
Lines(n) == [j \in 1..n |-> <<"h", "nl">>]
HeaderLines(f, n) ==
  /\ f \in Seq({"h", "nl"})
  /\ Len(f) = 2 * n
  /\ n > 0 => f[1] = "h" /\ f[2 * n] = "nl"
  /\ \A k \in 1..(2 * n - 1) : f[k] = "nl" => f[k + 1] = "h"

\* The lines of headers are symbols.
LEMMA LinesType ==
  ASSUME NEW n \in Nat
  PROVE  Lines(n) \in Seq(Seq({"h", "nl"})) /\ Len(Lines(n)) = n
  <1>1. Lines(n) \in [1..n -> Seq({"h", "nl"})]
    BY DEF Lines
  <1> QED
    BY <1>1, SeqDef

\* One more header adds one more line.
LEMMA OneMoreLine ==
  ASSUME NEW n \in Nat, HeaderLines(FlattenSeq(Lines(n)), n)
  PROVE  HeaderLines(FlattenSeq(Lines(n + 1)), n + 1)
  <1> DEFINE S == {"h", "nl"}
             line == <<"h", "nl">>
  <1>1. PICK s \in Seq(Seq(S)), t \in Seq(Seq(S)) :
          s = Lines(n + 1) /\ t = Lines(n) /\ Len(s) = n + 1 /\ Len(t) = n
    BY LinesType
  <1>2. s[1] = line /\ \A k \in 1..n : t[k] = s[k + 1]
    BY <1>1 DEF Lines
  <1>3. FlattenSeq(s) = line \o FlattenSeq(t)
    BY <1>1, <1>2, Unfold
  <1>4. line \in Seq(S) /\ Len(line) = 2 /\ line[1] = "h" /\ line[2] = "nl"
    OBVIOUS
  <1> HIDE DEF line, S
  <1>5. PICK f \in Seq(S), m \in Nat : f = FlattenSeq(t) /\ m = 2 * n /\ Len(f) = m
    BY <1>1 DEF HeaderLines, S
  <1>6. \A k \in 1..(m - 1) : f[k] = "nl" => f[k + 1] = "h"
    BY <1>1, <1>5 DEF HeaderLines
  <1>7. n > 0 => f[1] = "h" /\ f[m] = "nl"
    BY <1>1, <1>5 DEF HeaderLines
  <1> DEFINE g == line \o f
  <1>8. g \in Seq(S) /\ Len(g) = m + 2
    <2>1. g \in Seq(S) /\ Len(g) = Len(line) + Len(f)
      BY <1>4, <1>5, ConcatProperties
    <2> QED
      BY <1>4, <1>5, <2>1
  <1>9. \A k \in 1..(m + 2) : g[k] = IF k <= 2 THEN line[k] ELSE f[k - 2]
    <2>1. \A k \in 1..(Len(line) + Len(f)) :
            g[k] = IF k <= Len(line) THEN line[k] ELSE f[k - Len(line)]
      BY <1>4, <1>5, ConcatProperties
    <2>2. Len(line) + Len(f) = m + 2
      BY <1>4, <1>5
    <2> QED
      BY <1>4, <2>1, <2>2
  <1> HIDE DEF g
  <1>10. g[1] = "h" /\ g[2] = "nl"
    BY <1>4, <1>9
  <1>11. g[m + 2] = "nl"
    <2>1. CASE n = 0
      BY <1>5, <1>10, <2>1
    <2>2. CASE n > 0
      <3>1. m + 2 \in 1..(m + 2) /\ ~(m + 2 <= 2) /\ (m + 2) - 2 = m
        BY <1>5, <2>2
      <3> QED
        BY <1>7, <1>9, <2>2, <3>1
    <2> QED
      BY <2>1, <2>2
  <1>12. ASSUME NEW k \in 1..(m + 1), g[k] = "nl" PROVE g[k + 1] = "h"
    <2>1. CASE k = 1
      BY <1>10, <1>12, <2>1
    <2>2. CASE k = 2
      <3>1. n > 0 /\ 3 \in 1..(m + 2) /\ ~(3 <= 2) /\ 3 - 2 = 1
        BY <1>5, <1>12, <2>2
      <3> QED
        BY <1>7, <1>9, <2>2, <3>1
    <2>3. CASE k > 2
      <3>1. PICK j \in 1..(m - 1) : k = j + 2
        <4>1. k - 2 \in 1..(m - 1) /\ k = (k - 2) + 2
          BY <2>3
        <4> QED
          BY <4>1
      <3>2. g[k] = f[j]
        <4>1. k \in 1..(m + 2) /\ ~(k <= 2) /\ k - 2 = j
          BY <3>1
        <4> QED
          BY <1>9, <4>1
      <3>3. g[k + 1] = f[j + 1]
        <4>1. k + 1 \in 1..(m + 2) /\ ~(k + 1 <= 2) /\ (k + 1) - 2 = j + 1
          BY <3>1
        <4> QED
          BY <1>9, <4>1
      <3> QED
        BY <1>6, <1>12, <3>2, <3>3
    <2> QED
      BY <2>1, <2>2, <2>3
  <1>13. 2 * (n + 1) = m + 2 /\ (m + 2) - 1 = m + 1
    BY <1>5
  <1>14. FlattenSeq(Lines(n + 1)) = g
    BY <1>1, <1>3, <1>5 DEF g
  <1> QED
    BY <1>8, <1>10, <1>11, <1>12, <1>13, <1>14 DEF HeaderLines, S

\* Headers are lines, however many there are.
LEMMA LinesAre ==
  ASSUME NEW n \in Nat
  PROVE  HeaderLines(FlattenSeq(Lines(n)), n)
  <1> DEFINE wrong == {m \in Nat : ~HeaderLines(FlattenSeq(Lines(m)), m)}
  <1>1. ASSUME wrong # {} PROVE FALSE
    <2>1. wrong \subseteq Nat
      OBVIOUS
    <2> HIDE DEF wrong
    <2>2. PICK m \in wrong : \A e \in wrong : m <= e
      BY <1>1, <2>1, LeastNat
    <2>3. m \in Nat /\ ~HeaderLines(FlattenSeq(Lines(m)), m)
      BY <2>2 DEF wrong
    <2>4. CASE m = 0
      <3>1. PICK t \in Seq(Seq({"h", "nl"})) : t = Lines(0) /\ Len(t) = 0
        BY LinesType
      <3>2. t = <<>>
        BY <3>1, EmptySeq
      <3>3. FlattenSeq(Lines(0)) = <<>>
        BY <3>1, <3>2 DEF FlattenSeq
      <3>4. PICK f \in Seq({"h", "nl"}) : f = <<>> /\ Len(f) = 0
        BY EmptySeq
      <3>5. HeaderLines(f, 0)
        BY <3>4 DEF HeaderLines
      <3> QED
        BY <2>3, <2>4, <3>3, <3>4, <3>5
    <2>5. CASE m # 0
      <3>1. m - 1 \in Nat /\ ~(m <= m - 1) /\ (m - 1) + 1 = m
        BY <2>3, <2>5
      <3>2. HeaderLines(FlattenSeq(Lines(m - 1)), m - 1)
        BY <2>2, <3>1 DEF wrong
      <3>3. HeaderLines(FlattenSeq(Lines((m - 1) + 1)), (m - 1) + 1)
        BY <3>1, <3>2, OneMoreLine
      <3> QED
        BY <2>3, <3>1, <3>3
    <2> QED
      BY <2>4, <2>5
  <1> QED
    BY <1>1

\* The boundary of a part with headers: it has two ends of lines one after the other at
\* its end only.
Opening(t, c) ==
  /\ Len(t) = c
  /\ c >= 7
  /\ t[1] = "nl" /\ t[2] = "dd" /\ t[3] = "X" /\ t[4] = "nl" /\ t[5] = "h"
  /\ t[c - 1] = "nl" /\ t[c] = "nl"
  /\ \A k \in 5..(c - 2) : t[k] = "nl" => t[k + 1] = "h"

\* The boundary of a part with headers is one that opens a part.
LEMMA OpeningIs ==
  ASSUME message \in Messages, NEW i \in Parts, part(i).headers # 0
  PROVE  \E c \in Nat : Opening(boundary_text(i), c)
  <1>1. PICK n \in Nat \ {0} : n = part(i).headers
    BY MessageIs DEF PartType
  <1>2. PICK f \in Seq({"h", "nl"}) : f = FlattenSeq(Lines(n)) /\ HeaderLines(f, n)
    BY LinesAre DEF HeaderLines
  <1>3. PICK m \in Nat : m = 2 * n /\ m >= 2
    <2>1. 2 * n \in Nat /\ 2 * n >= 2
      OBVIOUS
    <2> QED
      BY <2>1
  <1>4. /\ Len(f) = m /\ f[1] = "h" /\ f[m] = "nl"
        /\ \A k \in 1..(m - 1) : f[k] = "nl" => f[k + 1] = "h"
    BY <1>2, <1>3 DEF HeaderLines
  <1> DEFINE S == {"nl", "dd", "X", "h"}
             first == <<"nl", "dd", "X", "nl">>
             last == <<"nl">>
  <1>5. /\ first \in Seq(S) /\ Len(first) = 4 /\ last \in Seq(S) /\ Len(last) = 1
        /\ first[1] = "nl" /\ first[2] = "dd" /\ first[3] = "X" /\ first[4] = "nl"
        /\ last[1] = "nl"
    OBVIOUS
  <1>6. f \in Seq(S)
    BY SeqMonotonic
  <1>7. i # num_parts
    BY MessageIs DEF Parts
  <1>8. boundary_text(i) = (first \o f) \o last
    BY <1>1, <1>2, <1>7 DEF boundary_text, Lines
  <1> HIDE DEF S, first, last
  <1>9. PICK g \in Seq(S) :
          /\ g = first \o f /\ Len(g) = m + 4
          /\ \A k \in 1..(m + 4) : g[k] = IF k <= 4 THEN first[k] ELSE f[k - 4]
    <2>1. /\ first \o f \in Seq(S) /\ Len(first \o f) = Len(first) + Len(f)
          /\ \A k \in 1..(Len(first) + Len(f)) :
               (first \o f)[k] = IF k <= Len(first) THEN first[k] ELSE f[k - Len(first)]
      BY <1>5, <1>6, ConcatProperties
    <2>2. Len(first) + Len(f) = m + 4 /\ Len(first) = 4
      BY <1>4, <1>5
    <2> QED
      BY <2>1, <2>2
  <1>10. PICK t \in Seq(S) :
           /\ t = g \o last /\ Len(t) = m + 5
           /\ \A k \in 1..(m + 5) : t[k] = IF k <= m + 4 THEN g[k] ELSE last[k - (m + 4)]
    <2>1. /\ g \o last \in Seq(S) /\ Len(g \o last) = Len(g) + Len(last)
          /\ \A k \in 1..(Len(g) + Len(last)) :
               (g \o last)[k] = IF k <= Len(g) THEN g[k] ELSE last[k - Len(g)]
      <3>1. last \in Seq(S)
        BY <1>5
      <3> QED
        BY <3>1, ConcatProperties
    <2>2. Len(g) + Len(last) = m + 5 /\ Len(g) = m + 4
      BY <1>5, <1>9
    <2> QED
      BY <2>1, <2>2
  <1>11. \A k \in 1..4 : t[k] = first[k]
    <2> SUFFICES ASSUME NEW k \in 1..4 PROVE t[k] = first[k]
      OBVIOUS
    <2>1. k \in 1..(m + 5) /\ k \in 1..(m + 4) /\ k <= m + 4
      OBVIOUS
    <2> QED
      BY <1>9, <1>10, <2>1
  <1>12. \A k \in 1..m : t[k + 4] = f[k]
    <2> SUFFICES ASSUME NEW k \in 1..m PROVE t[k + 4] = f[k]
      OBVIOUS
    <2>1. k + 4 \in 1..(m + 5) /\ k + 4 \in 1..(m + 4) /\ ~(k + 4 <= 4) /\ (k + 4) - 4 = k
      OBVIOUS
    <2> QED
      BY <1>9, <1>10, <2>1
  <1>13. t[m + 5] = "nl"
    <2>1. m + 5 \in 1..(m + 5) /\ ~(m + 5 <= m + 4) /\ (m + 5) - (m + 4) = 1
      OBVIOUS
    <2> QED
      BY <1>5, <1>10, <2>1
  <1>14. t[5] = "h" /\ t[m + 4] = "nl"
    <2>1. 1 \in 1..m /\ m \in 1..m
      BY <1>3
    <2>2. t[1 + 4] = f[1] /\ t[m + 4] = f[m]
      BY <1>12, <2>1
    <2> QED
      BY <1>4, <2>2
  <1>15. ASSUME NEW k \in 5..(m + 3), t[k] = "nl" PROVE t[k + 1] = "h"
    <2>1. PICK j \in 1..(m - 1) : k = j + 4
      <3>1. k - 4 \in 1..(m - 1) /\ k = (k - 4) + 4
        OBVIOUS
      <3> QED
        BY <3>1
    <2>2. j \in 1..m /\ j + 1 \in 1..m /\ k + 1 = (j + 1) + 4
      BY <2>1
    <2>3. t[j + 4] = f[j] /\ t[(j + 1) + 4] = f[j + 1]
      BY <1>12, <2>2
    <2> QED
      BY <1>4, <1>15, <2>1, <2>2, <2>3
  <1>16. m + 5 >= 7 /\ (m + 5) - 1 = m + 4 /\ (m + 5) - 2 = m + 3 /\ m + 5 \in Nat
    BY <1>3
  <1>17. t[1] = "nl" /\ t[2] = "dd" /\ t[3] = "X" /\ t[4] = "nl"
    BY <1>5, <1>11
  <1>18. Opening(t, m + 5)
    BY <1>10, <1>13, <1>14, <1>15, <1>16, <1>17 DEF Opening
  <1> QED
    BY <1>8, <1>9, <1>10, <1>16, <1>18

\* A part begins with a header, and its data with something else than a new line.
BeginsWell(text) == text # <<>> => text[1] # "nl"
Opens(p) ==
  /\ p.headers # 0
  /\ \A b \in 1..Len(p.blocks) :
       (\A c \in 1..(b - 1) : p.blocks[c] = <<>>) => BeginsWell(p.blocks[b])

\* Empty blocks do not count.
LEMMA EmptyBlocks ==
  ASSUME message \in Messages, NEW i \in Parts, NEW b \in 1..(Len(part(i).blocks) + 1),
         \A c \in 1..(b - 1) : part(i).blocks[c] = <<>>
  PROVE  BytesOf(i) = BytesFrom(i, b)
  <1>1. PICK n \in Nat : n = Len(part(i).blocks)
    BY MessageIs
  <1> DEFINE wrong == {c \in 1..b : BytesOf(i) # BytesFrom(i, c)}
  <1>2. ASSUME wrong # {} PROVE FALSE
    <2>1. wrong \subseteq Nat
      OBVIOUS
    <2> HIDE DEF wrong
    <2>2. PICK c \in wrong : \A e \in wrong : c <= e
      BY <1>2, <2>1, LeastNat
    <2>3. c \in 1..b /\ BytesOf(i) # BytesFrom(i, c)
      BY <2>2 DEF wrong
    <2>4. c # 1
      BY <2>3 DEF BytesOf
    <2>5. PICK d \in 1..b : c = d + 1 /\ d \in 1..n /\ d \in 1..(b - 1) /\ ~(c <= d)
      <3>1. c - 1 \in 1..b /\ c = (c - 1) + 1 /\ c - 1 \in 1..n /\ c - 1 \in 1..(b - 1) /\ ~(c <= c - 1)
        BY <1>1, <2>3, <2>4
      <3> QED
        BY <3>1
    <2>6. BytesOf(i) = BytesFrom(i, d)
      BY <2>2, <2>5 DEF wrong
    <2>7. part(i).blocks[d] = <<>>
      BY <2>5
    <2>8. Symbols(i, d, part(i).blocks[d]) = <<>>
      <3>1. /\ Symbols(i, d, part(i).blocks[d]) \in Seq(Symbol)
            /\ Len(Symbols(i, d, part(i).blocks[d])) = Len(part(i).blocks[d])
        BY <1>1, <2>5, SymbolsOfBlock
      <3>2. Len(part(i).blocks[d]) = 0
        BY <2>7
      <3> QED
        BY <3>1, <3>2, EmptySeq
    <2>9. d \in 1..(n + 1) /\ d <= n /\ c \in 1..(n + 1)
      BY <1>1, <2>3, <2>5
    <2>10. BytesFrom(i, d) = Join(<<>>, BytesFrom(i, d + 1))
      BY <1>1, <2>8, <2>9, BytesFromIs
    <2>11. BytesFrom(i, c) \in Seq(Symbol)
      BY <1>1, <2>9, BytesFromIs
    <2>12. BytesFrom(i, d) = BytesFrom(i, c)
      BY <2>5, <2>10, <2>11, JoinEmpty
    <2> QED
      BY <2>3, <2>6, <2>12
  <1>3. b \in 1..b
    BY <1>1
  <1> QED
    BY <1>2, <1>3

\* The data of a part does not begin with the end of a line.
LEMMA BytesBegin ==
  ASSUME message \in Messages, NEW i \in Parts, Opens(part(i)), BytesOf(i) # <<>>
  PROVE  BytesOf(i)[1][4] # "nl"
  <1>1. PICK n \in Nat : n = Len(part(i).blocks)
    BY MessageIs
  <1> DEFINE full == {b \in 1..n : part(i).blocks[b] # <<>>}
  <1>2. full # {}
    <2> SUFFICES ASSUME full = {} PROVE FALSE
      OBVIOUS
    <2>1. \A c \in 1..n : part(i).blocks[c] = <<>>
      OBVIOUS
    <2>2. n + 1 \in 1..(n + 1) /\ (n + 1) - 1 = n
      OBVIOUS
    <2>3. BytesOf(i) = BytesFrom(i, n + 1)
      BY <1>1, <2>1, <2>2, EmptyBlocks
    <2> QED
      BY <1>1, <2>2, <2>3, BytesFromIs
  <1>3. full \subseteq Nat
    OBVIOUS
  <1> HIDE DEF full
  <1>4. PICK b \in full : \A c \in full : b <= c
    BY <1>2, <1>3, LeastNat
  <1>5. b \in 1..n /\ part(i).blocks[b] # <<>>
    BY <1>4 DEF full
  <1>6. \A c \in 1..(b - 1) : part(i).blocks[c] = <<>>
    <2> SUFFICES ASSUME NEW c \in 1..(b - 1), part(i).blocks[c] # <<>> PROVE FALSE
      OBVIOUS
    <2>1. c \in full
      BY <1>5 DEF full
    <2>2. b <= c
      BY <1>4, <2>1
    <2> QED
      BY <1>5, <2>2
  <1>7. PICK text \in Text : text = part(i).blocks[b]
    BY <1>1, <1>5, SymbolsOfBlock
  <1>8. text # <<>> /\ text[1] # "nl"
    BY <1>1, <1>5, <1>6, <1>7 DEF Opens, BeginsWell
  <1>9. 1 \in 1..Len(text) /\ i \in Nat /\ b \in Nat
    <2>1. Len(text) \in Nat /\ Len(text) # 0
      BY <1>8, EmptySeq, LenProperties DEF Text
    <2> QED
      BY <1>5, <2>1 DEF Parts
  <1>10. PICK s \in Seq(Symbol) :
           s = Symbols(i, b, text) /\ Len(s) = Len(text) /\ s[1] = <<i, b, 1, text[1]>>
    BY <1>9, SymbolsType
  <1>11. PICK z \in Seq(Symbol) : z = BytesFrom(i, b + 1)
    <2>1. b + 1 \in 1..(n + 1)
      BY <1>5
    <2> QED
      BY <1>1, <2>1, BytesFromIs
  <1>12. BytesOf(i) = Join(s, z)
    <2>1. b \in 1..(n + 1) /\ b <= n
      BY <1>5
    <2>2. BytesOf(i) = BytesFrom(i, b)
      BY <1>1, <1>6, <2>1, EmptyBlocks
    <2>3. BytesFrom(i, b) = Join(Symbols(i, b, part(i).blocks[b]), BytesFrom(i, b + 1))
      BY <1>1, <2>1, BytesFromIs
    <2> QED
      BY <1>7, <1>10, <1>11, <2>2, <2>3
  <1>13. Join(s, z)[1] = s[1]
    <2>1. \A k \in 1..(Len(s) + Len(z)) :
            (s \o z)[k] = IF k <= Len(s) THEN s[k] ELSE z[k - Len(s)]
      BY ConcatProperties
    <2>2. 1 \in 1..(Len(s) + Len(z)) /\ 1 <= Len(s)
      BY <1>9, <1>10, LenProperties
    <2> QED
      BY <2>1, <2>2 DEF Join
  <1> QED
    BY <1>8, <1>10, <1>12, <1>13

\* The text of the k-th symbol of the message
TextAt(k) == Message[k][4]

\* Boundary i, as far as all boundaries agree
BoundaryAt(i) ==
  /\ From(i) \in Nat
  /\ TextAt(From(i) + 1) = "nl" /\ TextAt(From(i) + 2) = "dd" /\ TextAt(From(i) + 3) = "X"

\* Headers and data, from h, d and e on
HeadersAt(h, d) ==
  /\ h \in Nat /\ d \in Nat /\ h + 3 <= d
  /\ TextAt(h) = "nl" /\ TextAt(h + 1) = "h" /\ TextAt(d - 1) = "nl" /\ TextAt(d) = "nl"
  /\ \A k \in (h + 1)..(d - 2) : TextAt(k) = "nl" => TextAt(k + 1) = "h"
DataFromTo(d, e) ==
  /\ d \in Nat /\ e \in Nat /\ d <= e
  /\ \A k \in (d + 1)..e : TextAt(k) # "X"
  /\ d < e => TextAt(d + 1) # "nl"

\* The text of a boundary is found in the message where the boundary begins.
LEMMA TextOfBoundary ==
  ASSUME message \in Messages, has_boundary, NEW i \in 0..num_parts
  PROVE  \E f \in Nat, c \in Nat :
           /\ f = From(i) /\ c = Len(boundary_text(i)) /\ c = Len(BoundaryOf(i))
           /\ \A k \in 1..c : /\ TextAt(f + k) = boundary_text(i)[k]
                              /\ Message[f + k] = BoundaryOf(i)[k]
           /\ i = num_parts => Len(Message) = f + c
  <1>1. PICK f \in Nat : f = From(i) /\ Lies(i)
    BY AllLie DEF Lies
  <1>2. PICK text \in Text, c \in Nat : text = boundary_text(i) /\ c = Len(text)
    BY BoundaryText
  <1>3. i \in Nat
    BY MessageIs
  <1>4. PICK s \in Seq(Symbol) :
          /\ s = BoundaryOf(i) /\ Len(s) = c
          /\ \A k \in 1..c : s[k] = <<i, 0, k, text[k]>>
    <2>1. /\ Symbols(i, 0, text) \in Seq(Symbol)
          /\ Len(Symbols(i, 0, text)) = Len(text)
          /\ \A k \in 1..Len(text) : Symbols(i, 0, text)[k] = <<i, 0, k, text[k]>>
      <3>1. 0 \in Nat
        OBVIOUS
      <3> QED
        BY <1>3, <3>1, SymbolsType
    <2> QED
      BY <1>2, <2>1, BoundaryOfIs
  <1>5. \A k \in 1..c : Message[f + k] = s[k]
    <2>1. CASE i = num_parts
      <3>1. Ending(i) = s
        BY <1>4, <2>1, EndingIs
      <3> QED
        BY <1>1, <1>4, <3>1 DEF Lies
    <2>2. CASE i # num_parts
      <3>1. i \in Parts
        BY <2>2, MessageIs DEF Parts
      <3> QED
        BY <1>1, <1>4, <3>1, NextLies
    <2> QED
      BY <2>1, <2>2
  <1>6. \A k \in 1..c : TextAt(f + k) = text[k]
    BY <1>4, <1>5 DEF TextAt
  <1>7. ASSUME i = num_parts PROVE Len(Message) = f + c
    <2>1. Ending(i) = s
      BY <1>4, <1>7, EndingIs
    <2>2. PICK l \in Nat : l = Len(Message)
      BY MessageText, LenProperties
    <2>3. f = l - c
      BY <1>1, <1>4, <2>1, <2>2 DEF From
    <2> QED
      BY <2>2, <2>3
  <1> QED
    BY <1>1, <1>2, <1>4, <1>5, <1>6, <1>7

\* The first boundary is at the start, the last one at the end.
LEMMA EndsOfMessage ==
  ASSUME message \in Messages, has_boundary
  PROVE  /\ From(0) = 0
         /\ From(num_parts) \in Nat
         /\ Len(Message) = From(num_parts) + 5
         /\ TextAt(From(num_parts) + 4) = "dd"
         /\ TextAt(From(num_parts) + 5) = "nl"
  <1>1. PICK n \in Nat : n = num_parts
    BY MessageIs
  <1>2. n \in 0..num_parts
    BY <1>1
  <1>3. PICK f \in Nat, c \in Nat :
           /\ f = From(n) /\ c = Len(boundary_text(n))
           /\ \A k \in 1..c : TextAt(f + k) = boundary_text(n)[k]
           /\ Len(Message) = f + c
    BY <1>1, <1>2, TextOfBoundary
  <1>4. boundary_text(n) = <<"nl", "dd", "X", "dd", "nl">>
    BY <1>1 DEF boundary_text
  <1>5. c = 5
    BY <1>3, <1>4
  <1>6. TextAt(f + 4) = "dd" /\ TextAt(f + 5) = "nl"
    <2>1. 4 \in 1..c /\ 5 \in 1..c
      BY <1>5
    <2> QED
      BY <1>3, <1>4, <2>1
  <1>7. From(0) = 0
    <2>1. Len(Message) \in Nat
      BY MessageText, LenProperties
    <2> QED
      BY <2>1 DEF From, Message
  <1> QED
    BY <1>1, <1>3, <1>5, <1>6, <1>7

\* Each boundary is found where it begins.
LEMMA BoundariesAre ==
  ASSUME message \in Messages, has_boundary, NEW i \in 0..num_parts,
         \A j \in Parts : Opens(part(j))
  PROVE  BoundaryAt(i)
  <1>1. PICK f \in Nat, c \in Nat :
           /\ f = From(i) /\ c = Len(boundary_text(i))
           /\ \A k \in 1..c : TextAt(f + k) = boundary_text(i)[k]
    BY TextOfBoundary
  <1>2. /\ c >= 5
        /\ boundary_text(i)[1] = "nl" /\ boundary_text(i)[2] = "dd" /\ boundary_text(i)[3] = "X"
    <2>1. CASE i = num_parts
      <3>1. boundary_text(i) = <<"nl", "dd", "X", "dd", "nl">>
        BY <2>1 DEF boundary_text
      <3> QED
        BY <1>1, <3>1
    <2>2. CASE i # num_parts
      <3>1. i \in Parts
        BY <2>2, MessageIs DEF Parts
      <3>2. PICK d \in Nat : Opening(boundary_text(i), d)
        BY <3>1, OpeningIs DEF Opens
      <3> QED
        BY <1>1, <3>2 DEF Opening
    <2> QED
      BY <2>1, <2>2
  <1>3. 1 \in 1..c /\ 2 \in 1..c /\ 3 \in 1..c
    BY <1>2
  <1> QED
    BY <1>1, <1>2, <1>3 DEF BoundaryAt

\* Part i of a message.
LEMMA PartsAre ==
  ASSUME message \in Messages, has_boundary, NEW i \in Parts, Opens(part(i))
  PROVE  \E h \in Nat, d \in Nat, e \in Nat :
           /\ h = HeadAt(i) /\ d = DataAt(i) /\ e = From(i + 1)
           /\ HeadersAt(h, d) /\ DataFromTo(d, e)
           /\ Slice(Message, h, d - h) = HeadersOf(i)
           /\ Slice(Message, d, e - d) = BytesOf(i)
           /\ e <= Len(Message)
  <1>1. i \in 0..num_parts /\ i + 1 \in 0..num_parts
    BY MessageIs DEF Parts
  <1>2. PICK f \in Nat, c \in Nat :
           /\ f = From(i) /\ c = Len(boundary_text(i)) /\ c = Len(BoundaryOf(i))
           /\ \A k \in 1..c : TextAt(f + k) = boundary_text(i)[k]
           /\ \A k \in 1..c : Message[f + k] = BoundaryOf(i)[k]
    BY <1>1, TextOfBoundary
  <1>3. Opening(boundary_text(i), c)
    <2>1. PICK x \in Nat : Opening(boundary_text(i), x)
      BY OpeningIs DEF Opens
    <2>2. x = c
      BY <1>2, <2>1 DEF Opening
    <2> QED
      BY <2>1, <2>2
  <1>4. PICK t : t = boundary_text(i)
    OBVIOUS
  <1>5. PICK y \in Seq(Symbol), m \in Nat : y = BytesOf(i) /\ m = Len(y)
    BY BytesOfIs, LenProperties
  <1>6. PICK e \in Nat :
          /\ e = From(i + 1) /\ e = f + (c + m)
          /\ \A k \in 1..m : Message[f + (c + k)] = y[k]
    <2>1. Lies(i) /\ Lies(i + 1)
      BY <1>1, AllLie
    <2>2. /\ From(i + 1) = From(i) + (Len(BoundaryOf(i)) + Len(BytesOf(i)))
          /\ \A k \in 1..Len(BytesOf(i)) :
               Message[From(i) + (Len(BoundaryOf(i)) + k)] = BytesOf(i)[k]
      BY <2>1, NextLies
    <2>3. From(i + 1) \in Nat
      BY <2>1 DEF Lies
    <2> QED
      BY <1>2, <1>5, <2>2, <2>3
  <1>7. PICK h \in Nat, d \in Nat : h = f + 4 /\ d = f + c /\ d = h + (c - 4) /\ h + 3 <= d
    <2>1. c >= 7
      BY <1>3 DEF Opening
    <2>2. f + 4 \in Nat /\ f + c \in Nat /\ f + c = (f + 4) + (c - 4) /\ (f + 4) + 3 <= f + c
      BY <2>1
    <2> QED
      BY <2>2
  <1>8. h = HeadAt(i) /\ d = DataAt(i)
    BY <1>2, <1>7 DEF HeadAt, DataAt
  <1>9. HeadersAt(h, d)
    <2>1. c >= 7 /\ t[4] = "nl" /\ t[5] = "h" /\ t[c - 1] = "nl" /\ t[c] = "nl"
      BY <1>3, <1>4 DEF Opening
    <2>2. TextAt(h) = "nl" /\ TextAt(h + 1) = "h"
      <3>1. 4 \in 1..c /\ 5 \in 1..c /\ h = f + 4 /\ h + 1 = f + 5
        BY <1>7, <2>1
      <3> QED
        BY <1>2, <1>4, <2>1, <3>1
    <2>3. TextAt(d - 1) = "nl" /\ TextAt(d) = "nl"
      <3>1. c - 1 \in 1..c /\ c \in 1..c /\ d = f + c /\ d - 1 = f + (c - 1)
        BY <1>7, <2>1
      <3> QED
        BY <1>2, <1>4, <2>1, <3>1
    <2>4. ASSUME NEW k \in (h + 1)..(d - 2), TextAt(k) = "nl" PROVE TextAt(k + 1) = "h"
      <3>1. PICK j \in 5..(c - 2) : k = f + j
        <4>1. k - f \in 5..(c - 2) /\ k = f + (k - f)
          BY <1>7
        <4> QED
          BY <4>1
      <3>2. j \in 1..c /\ j + 1 \in 1..c /\ k + 1 = f + (j + 1)
        BY <3>1
      <3>3. TextAt(k) = t[j] /\ TextAt(k + 1) = t[j + 1]
        BY <1>2, <1>4, <3>1, <3>2
      <3> QED
        BY <1>3, <1>4, <2>4, <3>1, <3>3 DEF Opening
    <2> QED
      BY <1>7, <2>2, <2>3, <2>4 DEF HeadersAt
  <1>10. \A k \in 1..m : Message[d + k] = y[k]
    <2> SUFFICES ASSUME NEW k \in 1..m PROVE Message[d + k] = y[k]
      OBVIOUS
    <2>1. d + k = f + (c + k)
      BY <1>7
    <2> QED
      BY <1>6, <2>1
  <1>11. e = d + m /\ d <= e /\ e - d = m
    BY <1>6, <1>7
  <1>12. DataFromTo(d, e)
    <2>1. ASSUME NEW k \in (d + 1)..e PROVE TextAt(k) # "X"
      <3>1. PICK j \in 1..m : k = d + j
        <4>1. k - d \in 1..m /\ k = d + (k - d)
          BY <1>11
        <4> QED
          BY <4>1
      <3>2. y[j] \in Silent
        BY <1>5, <3>1, BytesSilent, ElementOfSeq
      <3> QED
        BY <1>10, <3>1, <3>2 DEF TextAt, Silent
    <2>2. ASSUME d < e PROVE TextAt(d + 1) # "nl"
      <3>1. 1 \in 1..m /\ y # <<>>
        BY <1>5, <1>11, <2>2
      <3>2. y[1][4] # "nl"
        BY <1>5, <3>1, BytesBegin
      <3> QED
        BY <1>10, <3>1, <3>2 DEF TextAt
    <2> QED
      BY <1>11, <2>1, <2>2 DEF DataFromTo
  <1>13. PICK r \in Seq(Symbol), l \in Nat : r = Message /\ l = Len(r)
    BY MessageText, LenProperties
  <1>14. e <= l
    <2>1. PICK g \in Nat : g = Len(Ending(i + 1))
      BY <1>1, EndingIs, LenProperties
    <2>2. e = l - g
      BY <1>6, <1>13, <2>1 DEF From
    <2> QED
      BY <2>2
  <1>15. Slice(Message, d, e - d) = BytesOf(i)
    <2>1. Slice(r, d, m) \in Seq(Symbol) /\ Len(Slice(r, d, m)) = m
      BY <1>11, <1>13, <1>14, Cut
    <2>2. \A k \in 1..m : Slice(r, d, m)[k] = r[d + k]
      BY <1>11, <1>13, <1>14, SliceAt
    <2>3. Len(Slice(r, d, m)) = Len(y) /\ \A k \in 1..Len(y) : Slice(r, d, m)[k] = y[k]
      <3>1. Len(y) = m
        BY <1>5
      <3> QED
        BY <1>10, <1>13, <2>1, <2>2, <3>1
    <2>4. y \in Seq(Symbol) /\ y = BytesOf(i)
      BY <1>5
    <2>5. Slice(r, d, m) = y
      BY <2>1, <2>3, <2>4, SeqEqual
    <2> QED
      BY <1>11, <1>13, <2>4, <2>5
  <1>16. Slice(Message, h, d - h) = HeadersOf(i)
    <2>1. PICK x \in Seq(Symbol) : x = BoundaryOf(i) /\ Len(x) = c
      BY <1>1, <1>2, BoundaryOfIs
    <2>2. PICK n \in Nat : n = c - 4 /\ d - h = n /\ 4 + n = c /\ h + n <= l
      <3>1. c - 4 \in Nat /\ d - h = c - 4 /\ 4 + (c - 4) = c /\ h + (c - 4) <= l
        BY <1>7, <1>11, <1>14
      <3> QED
        BY <3>1
    <2>3. HeadersOf(i) = Slice(x, 4, n)
      BY <2>1, <2>2 DEF HeadersOf, Slice
    <2>4. /\ Slice(r, h, n) \in Seq(Symbol) /\ Len(Slice(r, h, n)) = n
          /\ \A k \in 1..n : Slice(r, h, n)[k] = r[h + k]
      <3>1. h + n <= Len(r)
        BY <1>13, <2>2
      <3> QED
        BY <3>1, Cut, SliceAt
    <2>5. /\ Slice(x, 4, n) \in Seq(Symbol) /\ Len(Slice(x, 4, n)) = n
          /\ \A k \in 1..n : Slice(x, 4, n)[k] = x[4 + k]
      <3>1. PICK a \in Nat : a = 4
        OBVIOUS
      <3>2. a + n <= Len(x)
        BY <2>1, <2>2, <3>1
      <3>3. /\ Slice(x, a, n) \in Seq(Symbol) /\ Len(Slice(x, a, n)) = n
            /\ \A k \in 1..n : Slice(x, a, n)[k] = x[a + k]
        BY <3>2, Cut, SliceAt
      <3> QED
        BY <3>1, <3>3
    <2>6. \A k \in 1..n : r[h + k] = x[4 + k]
      <3> SUFFICES ASSUME NEW k \in 1..n PROVE r[h + k] = x[4 + k]
        OBVIOUS
      <3>1. 4 + k \in 1..c /\ h + k = f + (4 + k)
        BY <1>7, <2>2
      <3> QED
        BY <1>2, <1>13, <2>1, <3>1
    <2>7. Slice(r, h, n) = Slice(x, 4, n)
      BY <2>4, <2>5, <2>6, SeqEqual
    <2> QED
      BY <1>13, <2>2, <2>3, <2>7
  <1> QED
    BY <1>6, <1>8, <1>9, <1>12, <1>13, <1>14, <1>15, <1>16

----------------------------------------------------------------------------
\* The search for the end of the headers and for the next boundary, by what was scanned
\* and what of it was matched.

\* After p symbols, with the headers between h and d, m symbols of the empty line are found.
Newlines(h, d, p, m) ==
  /\ h <= p /\ p <= d
  /\ \/ m = 0 /\ (p = h \/ TextAt(p) # "nl")
     \/ m = 1 /\ h < p /\ p < d /\ TextAt(p) = "nl"
     \/ m = 2 /\ p = d

\* The empty line is found where it is, and not before.
LEMMA NewlinesGoOn ==
  ASSUME NEW h \in Nat, NEW d \in Nat, NEW p \in Nat, NEW m \in 0..1,
         HeadersAt(h, d), Newlines(h, d, p, m)
  PROVE  /\ TextAt(p + 1) = "nl" => Newlines(h, d, p + 1, m + 1)
         /\ TextAt(p + 1) # "nl" => Newlines(h, d, p + 1, 0)
  <1>1. p < d
    <2>1. CASE m = 0
      <3>1. p = h \/ TextAt(p) # "nl"
        BY <2>1 DEF Newlines
      <3> QED
        BY <3>1 DEF HeadersAt, Newlines
    <2>2. CASE m = 1
      BY <2>2 DEF Newlines
    <2> QED
      BY <2>1, <2>2
  <1>2. ASSUME TextAt(p + 1) = "nl" PROVE Newlines(h, d, p + 1, m + 1)
    <2>1. CASE m = 0
      <3>1. p + 1 < d
        <4> SUFFICES ASSUME p + 1 = d PROVE FALSE
          BY <1>1
        <4>1. p = d - 1 /\ p # h
          BY DEF HeadersAt
        <4>2. TextAt(p) = "nl"
          BY <4>1 DEF HeadersAt
        <4> QED
          BY <2>1, <4>1, <4>2 DEF Newlines
      <3> QED
        BY <1>2, <2>1, <3>1 DEF Newlines
    <2>2. CASE m = 1
      <3>1. h < p /\ TextAt(p) = "nl"
        BY <2>2 DEF Newlines
      <3>2. p + 1 = d
        <4> SUFFICES ASSUME p + 1 # d PROVE FALSE
          OBVIOUS
        <4>1. p \in (h + 1)..(d - 2)
          BY <1>1, <3>1
        <4>2. TextAt(p + 1) = "h"
          BY <3>1, <4>1 DEF HeadersAt
        <4> QED
          BY <1>2, <4>2
      <3> QED
        BY <2>2, <3>1, <3>2 DEF Newlines
    <2> QED
      BY <2>1, <2>2
  <1>3. ASSUME TextAt(p + 1) # "nl" PROVE Newlines(h, d, p + 1, 0)
    BY <1>1, <1>3 DEF Newlines
  <1> QED
    BY <1>2, <1>3

\* What the reader looks for behind the data of a part, and where it is
Signs == {<<"nl", "dd", "X", "nl">>, <<"nl", "dd", "X", "dd", "nl">>}
Sign(B, e) ==
  /\ B \in Signs
  /\ \A k \in 1..Len(B) : TextAt(e + k) = B[k]

\* After p symbols, with the data between d and e, m symbols of it are found.
Dashes(B, d, e, p, m) ==
  /\ d + m <= p
  /\ m <= Len(B)
  /\ \A k \in 1..m : TextAt((p - m) + k) = B[k]
  /\ p > e => p = e + m

\* What is looked for begins with the end of a line, which does not come again before the
\* boundary string.
LEMMA SignIs ==
  ASSUME NEW B, NEW e, Sign(B, e)
  PROVE  /\ Len(B) \in 4..5
         /\ B[1] = "nl" /\ B[2] = "dd" /\ B[3] = "X"
         /\ \A k \in 2..3 : B[k] # "nl"
  <1>1. CASE B = <<"nl", "dd", "X", "nl">>
    BY <1>1
  <1>2. CASE B = <<"nl", "dd", "X", "dd", "nl">>
    BY <1>2
  <1> QED
    BY <1>1, <1>2 DEF Sign, Signs

\* Data is no boundary string.
LEMMA ShortInData ==
  ASSUME NEW B, NEW d \in Nat, NEW e \in Nat, NEW p \in Nat, NEW m \in Nat,
         DataFromTo(d, e), Sign(B, e), Dashes(B, d, e, p, m), p <= e
  PROVE  m <= 2
  <1> SUFFICES ASSUME m >= 3 PROVE FALSE
    OBVIOUS
  <1>1. TextAt((p - m) + 3) = "X"
    BY SignIs DEF Dashes
  <1>2. (p - m) + 3 \in (d + 1)..e
    BY DEF Dashes
  <1> QED
    BY <1>1, <1>2 DEF DataFromTo

\* Nothing is found in the data but what may be the start of the boundary, and all of the
\* boundary behind it.
LEMMA DashesGoOn ==
  ASSUME NEW B, NEW d \in Nat, NEW e \in Nat, NEW p \in Nat, NEW m \in Nat,
         DataFromTo(d, e), Sign(B, e), Dashes(B, d, e, p, m), m < Len(B)
  PROVE  /\ TextAt(p + 1) = B[m + 1] => Dashes(B, d, e, p + 1, m + 1)
         /\ TextAt(p + 1) # B[m + 1] =>
              /\ TextAt(p + 1) = "nl" => Dashes(B, d, e, p + 1, 1)
              /\ TextAt(p + 1) # "nl" => Dashes(B, d, e, p + 1, 0)
  <1>1. PICK c \in 4..5 : c = Len(B) /\ m < c /\ d + m <= p
    BY SignIs DEF Dashes
  <1>2. ASSUME TextAt(p + 1) = B[m + 1] PROVE Dashes(B, d, e, p + 1, m + 1)
    <2>1. (p + 1) - (m + 1) = p - m
      OBVIOUS
    <2>2. ASSUME NEW k \in 1..(m + 1) PROVE TextAt((p - m) + k) = B[k]
      <3>1. CASE k \in 1..m
        BY <3>1 DEF Dashes
      <3>2. CASE k = m + 1
        <4>1. (p - m) + k = p + 1
          BY <3>2
        <4> QED
          BY <1>2, <3>2, <4>1
      <3> QED
        BY <3>1, <3>2
    <2>3. p + 1 > e => p + 1 = e + (m + 1)
      <3>1. CASE p > e
        BY <3>1 DEF Dashes
      <3>2. CASE p = e
        <4>1. TextAt(p + 1) = "nl"
          <5>1. 1 \in 1..Len(B)
            BY <1>1
          <5> QED
            BY <3>2, <5>1, SignIs DEF Sign
        <4>2. m <= 2
          BY <3>2, ShortInData
        <4>3. m = 0
          <5> SUFFICES ASSUME m # 0 PROVE FALSE
            OBVIOUS
          <5>1. m + 1 \in 2..3
            BY <4>2
          <5> QED
            BY <1>2, <4>1, <5>1, SignIs
        <4> QED
          BY <3>2, <4>3
      <3>3. CASE p < e
        BY <3>3
      <3> QED
        BY <3>1, <3>2, <3>3
    <2> QED
      BY <1>1, <2>1, <2>2, <2>3 DEF Dashes
  <1>3. ASSUME TextAt(p + 1) # B[m + 1] PROVE p <= e
    <2> SUFFICES ASSUME p > e PROVE FALSE
      OBVIOUS
    <2>1. p = e + m
      BY DEF Dashes
    <2>2. m + 1 \in 1..Len(B) /\ e + (m + 1) = p + 1
      BY <1>1, <2>1
    <2> QED
      BY <1>3, <2>2 DEF Sign
  <1>4. p = e => TextAt(p + 1) = "nl"
    <2>1. 1 \in 1..Len(B)
      BY <1>1
    <2> QED
      BY <2>1, SignIs DEF Sign
  <1>5. ASSUME TextAt(p + 1) # B[m + 1], TextAt(p + 1) = "nl" PROVE Dashes(B, d, e, p + 1, 1)
    <2>1. p <= e
      BY <1>3, <1>5
    <2>2. p + 1 > e => p + 1 = e + 1
      BY <2>1
    <2>3. \A k \in 1..1 : TextAt(((p + 1) - 1) + k) = B[k]
      <3> SUFFICES ASSUME NEW k \in 1..1 PROVE TextAt(((p + 1) - 1) + k) = B[k]
        OBVIOUS
      <3>1. ((p + 1) - 1) + k = p + 1 /\ k = 1
        OBVIOUS
      <3> QED
        BY <1>5, <3>1, SignIs
    <2> QED
      BY <1>1, <2>2, <2>3 DEF Dashes
  <1>6. ASSUME TextAt(p + 1) # B[m + 1], TextAt(p + 1) # "nl" PROVE Dashes(B, d, e, p + 1, 0)
    <2>1. p <= e /\ p # e
      BY <1>3, <1>4, <1>6
    <2>2. ~(p + 1 > e)
      BY <2>1
    <2>3. \A k \in 1..0 : FALSE
      OBVIOUS
    <2> QED
      BY <1>1, <2>2, <2>3 DEF Dashes
  <1> QED
    BY <1>2, <1>5, <1>6

\* The boundary is found where it is.
LEMMA DashesFound ==
  ASSUME NEW B, NEW d \in Nat, NEW e \in Nat, NEW p \in Nat, NEW m \in Nat,
         DataFromTo(d, e), Sign(B, e), Dashes(B, d, e, p, m), m = Len(B)
  PROVE  p = e + m
  <1>1. m > 2
    BY SignIs
  <1>2. p > e
    BY <1>1, ShortInData
  <1> QED
    BY <1>2 DEF Dashes

----------------------------------------------------------------------------
\* Slices of a sequence, one after the other and one of another.
IsSlice(x, s, a, n) == Len(x) = n /\ \A k \in 1..n : x[k] = s[a + k]

\* A slice has the symbols it is cut from.
LEMMA SliceIs ==
  ASSUME NEW S, NEW s \in Seq(S), NEW a \in Nat, NEW n \in Nat, a + n <= Len(s)
  PROVE  Slice(s, a, n) \in Seq(S) /\ IsSlice(Slice(s, a, n), s, a, n)
  <1>1. Slice(s, a, n) \in Seq(S) /\ Len(Slice(s, a, n)) = n
    BY Cut
  <1>2. \A k \in 1..n : Slice(s, a, n)[k] = s[a + k]
    BY SliceAt
  <1> QED
    BY <1>1, <1>2 DEF IsSlice

\* Two slices one behind the other are one slice.
LEMMA SlicesJoin ==
  ASSUME NEW S, NEW s \in Seq(S), NEW a \in Nat, NEW b \in Nat, NEW c \in Nat,
         a <= b, b <= c, c <= Len(s)
  PROVE  /\ Join(Slice(s, a, b - a), Slice(s, b, c - b)) = Slice(s, a, c - a)
         /\ Slice(s, a, c - a) \in Seq(S)
  <1>1. PICK m \in Nat, n \in Nat : m = b - a /\ n = c - b /\ c - a = m + n /\ a + m = b
    <2>1. b - a \in Nat /\ c - b \in Nat /\ c - a = (b - a) + (c - b) /\ a + (b - a) = b
      OBVIOUS
    <2> QED
      BY <2>1
  <1>2. PICK l \in Nat : l = Len(s)
    BY LenProperties
  <1>3. a + m <= l /\ b + n <= l /\ a + (m + n) <= l
    BY <1>1, <1>2
  <1>4. PICK x \in Seq(S) : x = Slice(s, a, m) /\ IsSlice(x, s, a, m)
    BY <1>2, <1>3, SliceIs
  <1>5. PICK y \in Seq(S) : y = Slice(s, b, n) /\ IsSlice(y, s, b, n)
    BY <1>2, <1>3, SliceIs
  <1>6. PICK z \in Seq(S) : z = Slice(s, a, m + n) /\ IsSlice(z, s, a, m + n)
    <2>1. m + n \in Nat /\ a + (m + n) <= Len(s)
      BY <1>2, <1>3
    <2> QED
      BY <2>1, SliceIs
  <1>7. PICK w \in Seq(S) : w = Join(x, y) /\ Len(w) = m + n
    <2>1. Join(x, y) \in Seq(S) /\ Len(Join(x, y)) = Len(x) + Len(y)
      BY JoinType
    <2> QED
      BY <1>4, <1>5, <2>1 DEF IsSlice
  <1>8. \A k \in 1..(m + n) : w[k] = IF k <= m THEN x[k] ELSE y[k - m]
    <2>1. \A k \in 1..(Len(x) + Len(y)) :
            (x \o y)[k] = IF k <= Len(x) THEN x[k] ELSE y[k - Len(x)]
      BY ConcatProperties
    <2> QED
      BY <1>4, <1>5, <1>7, <2>1 DEF Join, IsSlice
  <1>9. ASSUME NEW k \in 1..(m + n) PROVE w[k] = z[k]
    <2>1. CASE k <= m
      <3>1. k \in 1..m
        BY <2>1
      <3> QED
        BY <1>4, <1>6, <1>8, <2>1, <3>1 DEF IsSlice
    <2>2. CASE ~(k <= m)
      <3>1. k - m \in 1..n /\ b + (k - m) = a + k
        BY <1>1, <2>2
      <3> QED
        BY <1>5, <1>6, <1>8, <2>2, <3>1 DEF IsSlice
    <2> QED
      BY <2>1, <2>2
  <1>10. w = z
    <2>1. Len(w) = Len(z) /\ \A k \in 1..Len(w) : w[k] = z[k]
      BY <1>6, <1>7, <1>9 DEF IsSlice
    <2> QED
      BY <2>1, SeqEqual
  <1> QED
    BY <1>1, <1>4, <1>5, <1>6, <1>7, <1>10

\* A slice of a slice is a slice.
LEMMA SliceOfSlice ==
  ASSUME NEW S, NEW s \in Seq(S), NEW a \in Nat, NEW n \in Nat, NEW j \in Nat, NEW k \in Nat,
         a + n <= Len(s), j + k <= n
  PROVE  Slice(Slice(s, a, n), j, k) = Slice(s, a + j, k)
  <1>1. PICK l \in Nat : l = Len(s)
    BY LenProperties
  <1>2. PICK x \in Seq(S) : x = Slice(s, a, n) /\ IsSlice(x, s, a, n)
    BY SliceIs
  <1>3. PICK y \in Seq(S) : y = Slice(x, j, k) /\ IsSlice(y, x, j, k)
    <2>1. j + k <= Len(x)
      BY <1>2 DEF IsSlice
    <2> QED
      BY <2>1, SliceIs
  <1>4. PICK z \in Seq(S) : z = Slice(s, a + j, k) /\ IsSlice(z, s, a + j, k)
    <2>1. a + j \in Nat /\ (a + j) + k <= Len(s)
      BY <1>1
    <2> QED
      BY <2>1, SliceIs
  <1>5. ASSUME NEW c \in 1..k PROVE y[c] = z[c]
    <2>1. j + c \in 1..n /\ a + (j + c) = (a + j) + c
      OBVIOUS
    <2> QED
      BY <1>2, <1>3, <1>4, <2>1 DEF IsSlice
  <1>6. Len(y) = Len(z) /\ \A c \in 1..Len(y) : y[c] = z[c]
    BY <1>3, <1>4, <1>5 DEF IsSlice
  <1>7. y = z
    BY <1>6, SeqEqual
  <1> QED
    BY <1>2, <1>3, <1>4, <1>7

\* Only a slice of no length is empty.
LEMMA SliceEmpty ==
  ASSUME NEW S, NEW s \in Seq(S), NEW a \in Nat, NEW n \in Nat, a + n <= Len(s)
  PROVE  Slice(s, a, n) = <<>> <=> n = 0
  <1>1. Slice(s, a, n) \in Seq(S) /\ Len(Slice(s, a, n)) = n
    BY Cut
  <1> QED
    BY <1>1, EmptySeq

----------------------------------------------------------------------------
\* The positions of the reader in a response.

\* Chunks that a boundary is split over at most one border of
LongChunks == ChunkLengths \subseteq {n \in Nat : n >= 5}

\* Messages the reader is made for: their parts have headers, and data that does not begin
\* with CR LF
Recognised ==
  \A m \in Messages :
    m.content_type \in {"none", "multipart"} => \A p \in ToSet(m.parts) : Opens(p)

\* What part i was told of its data and of its end
Told(i) == received[i] = BytesOf(i) /\ ends[i] > 0
Untold(i) == received[i] = <<>> /\ ends[i] = 0

\* The parts before the current one are complete, those after it were not begun.
Given ==
  /\ received \in [Parts -> Seq(Symbol)]
  /\ \A i \in Parts : i < read_index => Told(i)
  /\ \A i \in Parts : i > read_index \/ (i = read_index /\ need_header) => Untold(i)

HeaderSymbol == Symbol \cup {<<"not initialized">>}

\* The headers of a part that are of more than one chunk have an end that is not initialized.
HeadersOk(i) ==
  \/ headers[i] = <<>>
  \/ <<"not initialized">> \in ToSet(headers[i])
  \/ headers[i] = HeadersOf(i)
HeadersGiven ==
  /\ headers \in [Parts -> Seq(HeaderSymbol)]
  /\ header_buffer \in Seq(HeaderSymbol)
  /\ \A i \in Parts : HeadersOk(i)

\* Before the headers of the first part
InPreface ==
  /\ read_index = -1 /\ ~need_header
  /\ base = 0 /\ boundary_buffer = <<>>
  /\ limit = 0 \/ limit >= 5
  /\ scanned <= 4
  /\ match_counter = IF scanned = 0 THEN 0 ELSE scanned - 1

\* In headers from h to d
HeadersOn(h, d) ==
  /\ need_header /\ boundary_buffer = <<>>
  /\ h <= base
  /\ header_buffer = <<>> => base = h
  /\ match_counter = 2 => scanned > 0
  /\ \E p \in Nat, m \in Nat :
       p = base + scanned /\ m = match_counter /\ Newlines(h, d, p, m)
InHeaders ==
  \E i \in Parts, h \in Nat, d \in Nat :
    read_index = i /\ h = HeadAt(i) /\ d = DataAt(i) /\ HeadersOn(h, d)

\* In the data of part i from d to e, or the boundary behind it; what begins at q was not
\* given to the part yet, and is kept if it came with an earlier chunk.
Behind(d, e, q) ==
  \E B \in Signs, p \in Nat, m \in Nat :
    /\ B = Reader!boundary /\ p = base + scanned /\ m = match_counter
    /\ Dashes(B, d, e, p, m)
    /\ q + m <= p
    /\ q < base => q + m = p
    /\ m = Len(B) => scanned > 0
DataOn(i, d, e, q) ==
  /\ ~need_header
  /\ d <= q /\ q <= base
  /\ Behind(d, e, q)
  /\ base < limit => base = d \/ limit - base >= 5 \/ limit = Len(Message)
  /\ received[i] = Slice(Message, d, q - d)
  /\ boundary_buffer = Slice(Message, q, base - q)
  /\ ends[i] > 0 => e = d
InData ==
  \E i \in Parts, d \in Nat, e \in Nat, q \in Nat :
    read_index = i /\ d = DataAt(i) /\ e = From(i + 1) /\ DataOn(i, d, e, q)

\* Behind the final boundary
Over ==
  /\ read_index = num_parts /\ ~need_header
  /\ base = Len(Message) /\ limit = base /\ scanned = 0

Located == InPreface \/ InHeaders \/ InData \/ Over

\* The reader has not begun, or is somewhere in the message.
PInv == Reader!Init \/ (response # <<>> /\ HeadersGiven /\ Given /\ Located)

\* The response is a message the reader is made for.
Expected ==
  /\ message \in Messages /\ has_boundary /\ response = Message
  /\ Message \in Seq(Symbol)
  /\ num_parts \in Nat \ {0}
  /\ \A i \in Parts : Opens(part(i))

\* A response that is there is the whole message, and one the reader is made for.
LEMMA ResponseExpected ==
  ASSUME WInv, Whole, Recognised, response # <<>>
  PROVE  Expected
  <1>1. message \in Messages
    BY DEF WInv, Types
  <1>2. pc = "ended" /\ request_result = OK /\ response = sent /\ delimited
    BY DEF response
  <1>3. response = Message
    BY <1>2, AtTheEnd DEF Complete
  <1>4. message.content_type \in {"none", "multipart"}
    BY <1>1, <1>2, MessageIs DEF delimited, MessageType
  <1>5. ASSUME NEW i \in Parts PROVE Opens(part(i))
    <2>1. i + 1 \in 1..Len(message.parts) /\ message.parts \in Seq(PartType)
      BY <1>1, MessageIs DEF Parts, num_parts, MessageType
    <2>2. part(i) \in ToSet(message.parts)
      BY <2>1 DEF part, ToSet
    <2> QED
      BY <1>1, <1>4, <2>2 DEF Recognised
  <1> QED
    BY <1>1, <1>3, <1>4, <1>5, MessageIs, MessageText DEF Expected, has_boundary

\* Reading does not change it.
LEMMA Stays ==
  ASSUME UNCHANGED vars
  PROVE  /\ message' = message /\ response' = response /\ Message' = Message
         /\ num_parts' = num_parts /\ Parts' = Parts
         /\ \A i : /\ HeadAt(i)' = HeadAt(i) /\ DataAt(i)' = DataAt(i) /\ From(i)' = From(i)
                   /\ BytesOf(i)' = BytesOf(i) /\ HeadersOf(i)' = HeadersOf(i)
         /\ \A h, d, p, m : Newlines(h, d, p, m)' = Newlines(h, d, p, m)
         /\ \A B, d, e, p, m : Dashes(B, d, e, p, m)' = Dashes(B, d, e, p, m)
  <1>1. message' = message
    BY DEF vars
  <1>2. /\ num_parts' = num_parts /\ Message' = Message
        /\ \A i : /\ boundary_text(i)' = boundary_text(i) /\ BoundaryOf(i)' = BoundaryOf(i)
                  /\ BytesOf(i)' = BytesOf(i) /\ Ending(i)' = Ending(i)
    BY <1>1, SameMessage
  <1>3. response' = response
    BY DEF vars, response, delimited, transfer
  <1>4. Parts' = Parts
    BY <1>2 DEF Parts
  <1>5. \A i : From(i)' = From(i)
    BY <1>2 DEF From
  <1>6. \A i : HeadAt(i)' = HeadAt(i) /\ DataAt(i)' = DataAt(i)
    BY <1>2, <1>5 DEF HeadAt, DataAt
  <1>7. \A i : HeadersOf(i)' = HeadersOf(i)
    BY <1>2 DEF HeadersOf
  <1>8. \A k : TextAt(k)' = TextAt(k)
    BY <1>2 DEF TextAt
  <1>9. \A h, d, p, m : Newlines(h, d, p, m)' = Newlines(h, d, p, m)
    BY <1>8 DEF Newlines
  <1>10. \A B, d, e, p, m : Dashes(B, d, e, p, m)' = Dashes(B, d, e, p, m)
    BY <1>8 DEF Dashes
  <1> QED
    BY <1>1, <1>2, <1>3, <1>4, <1>5, <1>6, <1>7, <1>9, <1>10

\* The layout of part i of a message that is expected
LEMMA PartExpected ==
  ASSUME Expected, NEW i \in Parts
  PROVE  \E h \in Nat, d \in Nat, e \in Nat :
           /\ h = HeadAt(i) /\ d = DataAt(i) /\ e = From(i + 1)
           /\ HeadersAt(h, d) /\ DataFromTo(d, e)
           /\ Slice(Message, h, d - h) = HeadersOf(i)
           /\ Slice(Message, d, e - d) = BytesOf(i)
           /\ e <= Len(Message)
  BY PartsAre DEF Expected

\* Behind the data of part i is what the reader then looks for; the message goes on with the
\* headers of the next part, or is over.
LEMMA SignExpected ==
  ASSUME Expected, NEW i \in Parts, read_index = i, ~need_header
  PROVE  \E B \in Signs, e \in Nat :
           /\ B = Reader!boundary /\ e = From(i + 1) /\ Sign(B, e)
           /\ i + 1 < num_parts =>
                i + 1 \in Parts /\ HeadAt(i + 1) = e + Len(B) /\ e + Len(B) < Len(Message)
           /\ i + 1 = num_parts => e + Len(B) = Len(Message)
  <1>1. i + 1 \in 0..num_parts /\ i # -1 /\ i \in 0..(num_parts - 1)
    BY DEF Expected, Parts
  <1>2. PICK e \in Nat :
          e = From(i + 1) /\ TextAt(e + 1) = "nl" /\ TextAt(e + 2) = "dd" /\ TextAt(e + 3) = "X"
    BY <1>1, BoundariesAre DEF Expected, BoundaryAt
  <1>3. CASE i + 1 = num_parts
    <2>1. i = num_parts - 1
      BY <1>1, <1>3 DEF Expected
    <2>2. Reader!boundary = <<"nl", "dd", "X", "dd", "nl">>
      BY <1>1, <2>1 DEF Reader!boundary
    <2> DEFINE B == <<"nl", "dd", "X", "dd", "nl">>
    <2>3. Len(Message) = e + 5 /\ TextAt(e + 4) = "dd" /\ TextAt(e + 5) = "nl"
      BY <1>2, <1>3, EndsOfMessage DEF Expected
    <2>4. Len(B) = 5
      OBVIOUS
    <2>5. ASSUME NEW k \in 1..Len(B) PROVE TextAt(e + k) = B[k]
      <3>1. k = 1 \/ k = 2 \/ k = 3 \/ k = 4 \/ k = 5
        BY <2>4
      <3>2. CASE k = 1 \/ k = 2 \/ k = 3
        BY <1>2, <3>2
      <3>3. CASE k = 4 \/ k = 5
        BY <2>3, <3>3
      <3> QED
        BY <3>1, <3>2, <3>3
    <2>6. Sign(B, e)
      BY <2>5 DEF Sign, Signs
    <2>7. ~(i + 1 < num_parts)
      BY <1>3 DEF Expected
    <2>8. e + Len(B) = Len(Message)
      BY <2>3, <2>4
    <2>9. B = Reader!boundary /\ B \in Signs
      BY <2>2 DEF Signs
    <2> HIDE DEF B
    <2> QED
      BY <1>2, <2>6, <2>7, <2>8, <2>9
  <1>4. CASE i + 1 # num_parts
    <2>1. i # num_parts - 1
      BY <1>1, <1>4 DEF Expected
    <2>2. Reader!boundary = <<"nl", "dd", "X", "nl">>
      BY <1>1, <2>1 DEF Reader!boundary
    <2> DEFINE B == <<"nl", "dd", "X", "nl">>
    <2>3. i + 1 \in Parts
      BY <1>1, <2>1 DEF Expected, Parts
    <2>4. PICK h \in Nat, d \in Nat, f \in Nat :
            /\ h = HeadAt(i + 1) /\ h + 3 <= d /\ d <= f /\ TextAt(h) = "nl"
            /\ f <= Len(Message)
      BY <2>3, PartExpected DEF HeadersAt, DataFromTo
    <2>5. h = e + 4
      BY <1>2, <2>4 DEF HeadAt
    <2>6. Len(B) = 4 /\ TextAt(e + 4) = "nl"
      BY <2>4, <2>5
    <2>7. ASSUME NEW k \in 1..Len(B) PROVE TextAt(e + k) = B[k]
      <3>1. k \in {1, 2, 3, 4}
        BY <2>6
      <3> QED
        BY <1>2, <2>6, <3>1
    <2>8. Sign(B, e)
      BY <2>7 DEF Sign, Signs
    <2>9. e + Len(B) < Len(Message)
      <3>1. Len(Message) \in Nat
        BY LenProperties DEF Expected
      <3> QED
        BY <2>4, <2>5, <2>6, <3>1
    <2>10. HeadAt(i + 1) = e + Len(B) /\ B = Reader!boundary /\ B \in Signs
      BY <2>2, <2>4, <2>5, <2>6 DEF Signs
    <2> HIDE DEF B
    <2> QED
      BY <1>2, <1>4, <2>3, <2>8, <2>9, <2>10
  <1> QED
    BY <1>3, <1>4

\* What the parts were told stays as it was, but for the current one; a part is left when it
\* was told all.
LEMMA GivenGoesOn ==
  ASSUME UNCHANGED vars, Given, received' \in [Parts -> Seq(Symbol)],
         NEW i \in Int, read_index = i,
         \A j \in Parts : j # i => received'[j] = received[j] /\ ends'[j] = ends[j],
         \/ read_index' = i + 1 /\ (i \in Parts => received'[i] = BytesOf(i) /\ ends'[i] > 0)
         \/ read_index' = i /\ ~need_header'
         \/ read_index' = i /\ need_header /\ received' = received /\ ends' = ends
  PROVE  Given'
  <1>1. Parts' = Parts /\ \A j : BytesOf(j)' = BytesOf(j)
    BY Stays
  <1>2. \A j \in Parts : j \in Int
    BY DEF Parts
  <1>3. ASSUME NEW j \in Parts, j < read_index' PROVE Told(j)'
    <2>1. CASE j = i
      <3>1. read_index' = i + 1
        BY <1>2, <1>3, <2>1
      <3>2. ~(i < i) /\ i # i + 1
        OBVIOUS
      <3>3. received'[j] = BytesOf(j) /\ ends'[j] > 0
        BY <2>1, <3>1, <3>2
      <3> QED
        BY <1>1, <3>3 DEF Told
    <2>2. CASE j # i
      <3>1. j < i
        BY <1>2, <1>3, <2>2
      <3>2. Told(j)
        BY <3>1 DEF Given
      <3> QED
        BY <1>1, <2>2, <3>2 DEF Told
    <2> QED
      BY <2>1, <2>2
  <1>4. ASSUME NEW j \in Parts, j > read_index' \/ (j = read_index' /\ need_header')
        PROVE  Untold(j)'
    <2>1. CASE j = i
      <3>1. read_index' = i /\ need_header'
        BY <1>2, <1>4, <2>1
      <3>2. need_header /\ received' = received /\ ends' = ends
        BY <3>1
      <3>3. Untold(j)
        BY <2>1, <3>2 DEF Given
      <3> QED
        BY <3>2, <3>3 DEF Untold
    <2>2. CASE j # i
      <3>1. j > i
        BY <1>2, <1>4, <2>2
      <3>2. Untold(j)
        BY <3>1 DEF Given
      <3> QED
        BY <2>2, <3>2 DEF Untold
    <2> QED
      BY <2>1, <2>2
  <1> QED
    BY <1>1, <1>3, <1>4 DEF Given

\* The headers a part was given stay as they are.
LEMMA HeadersGivenStay ==
  ASSUME UNCHANGED vars, HeadersGiven, headers' = headers, header_buffer' \in Seq(HeaderSymbol)
  PROVE  HeadersGiven'
  <1>1. Parts' = Parts /\ \A i : HeadersOf(i)' = HeadersOf(i)
    BY Stays
  <1>2. \A i \in Parts : HeadersOk(i)'
    BY <1>1 DEF HeadersGiven, HeadersOk
  <1> QED
    BY <1>1, <1>2 DEF HeadersGiven

\* What grows out of the header buffer.
LEMMA HeaderTextIs ==
  ASSUME NEW r \in Seq(Symbol), NEW b \in Nat, NEW s \in Nat \ {0}, b + s <= Len(r),
         response = r, base = b, scanned = s, header_buffer \in Seq(HeaderSymbol)
  PROVE  /\ Reader!header_text \in Seq(HeaderSymbol)
         /\ Reader!header_text # <<>>
         /\ header_buffer = <<>> => Reader!header_text = Slice(r, b, s)
         /\ header_buffer # <<>> => <<"not initialized">> \in ToSet(Reader!header_text)
  <1>1. PICK x \in Seq(Symbol) : x = Slice(r, b, s) /\ Len(x) = s
    BY Cut
  <1>2. x = Reader!First(s) /\ x \in Seq(HeaderSymbol)
    <2>1. Seq(Symbol) \subseteq Seq(HeaderSymbol)
      BY SeqMonotonic DEF HeaderSymbol
    <2> QED
      BY <1>1, <2>1 DEF Reader!First, Slice
  <1>3. PICK v \in Seq(HeaderSymbol), n \in Nat : v = header_buffer /\ n = Len(v)
    BY LenProperties
  <1> DEFINE new == <<"not initialized">>
             y == SubSeq(v, s + 1, n)
             c == IF n < s THEN n ELSE s
             f == [k \in 1..c |-> new]
  <1>4. y \in Seq(HeaderSymbol) /\ (n = 0 => y = <<>>)
    <2>1. s + 1 \in Int /\ n \in Int
      OBVIOUS
    <2>2. \A k \in (s + 1)..n : v[k] \in HeaderSymbol
      BY <1>3, ElementOfSeq
    <2>3. y \in Seq(HeaderSymbol)
      BY <2>1, <2>2, SubSeqProperties
    <2>4. n = 0 => n < s + 1
      OBVIOUS
    <2> QED
      BY <2>1, <2>3, <2>4, SubSeqEmpty
  <1>5. c \in Nat /\ (n = 0 <=> c = 0)
    OBVIOUS
  <1>6. f \in Seq(HeaderSymbol) /\ Len(f) = c /\ (n # 0 => c \in 1..c /\ f[c] = new)
    <2>1. new \in HeaderSymbol
      BY DEF HeaderSymbol
    <2> HIDE DEF c, new
    <2>2. f \in [1..c -> HeaderSymbol]
      BY <2>1
    <2>3. n # 0 => c \in 1..c /\ f[c] = new
      BY <1>5
    <2> HIDE DEF f
    <2> QED
      BY <1>5, <2>2, <2>3, SeqDef
  <1>7. Reader!header_text = (x \o y) \o f
    BY <1>2, <1>3 DEF Reader!header_text, Reader!First
  <1> HIDE DEF y, c, f, new
  <1>8. PICK w \in Seq(HeaderSymbol), m \in Nat :
          w = x \o y /\ m = Len(w) /\ m >= s /\ (y = <<>> => w = x)
    <2>1. x \o y \in Seq(HeaderSymbol) /\ Len(x \o y) = Len(x) + Len(y)
      BY <1>2, <1>4, ConcatProperties
    <2>2. y = <<>> => x \o y = x
      BY <1>2, ConcatEmptySeq
    <2>3. Len(y) \in Nat
      BY <1>4, LenProperties
    <2>4. PICK l \in Nat : l = Len(y)
      BY <2>3
    <2>5. Len(x \o y) = s + l /\ s + l \in Nat /\ s + l >= s
      BY <1>1, <2>1, <2>4
    <2> QED
      BY <2>1, <2>2, <2>5
  <1>9. /\ w \o f \in Seq(HeaderSymbol) /\ Len(w \o f) = m + c
        /\ \A k \in 1..(m + c) : (w \o f)[k] = IF k <= m THEN w[k] ELSE f[k - m]
    <2>1. /\ w \o f \in Seq(HeaderSymbol) /\ Len(w \o f) = Len(w) + Len(f)
          /\ \A k \in 1..(Len(w) + Len(f)) :
               (w \o f)[k] = IF k <= Len(w) THEN w[k] ELSE f[k - Len(w)]
      BY <1>6, ConcatProperties
    <2> QED
      BY <1>6, <1>8, <2>1
  <1>10. PICK g \in Seq(HeaderSymbol) : g = w \o f
    BY <1>9
  <1>11. g # <<>>
    <2>1. Len(g) = m + c /\ m + c > 0
      BY <1>5, <1>8, <1>9, <1>10
    <2> QED
      BY <2>1, EmptySeq
  <1>12. ASSUME header_buffer = <<>> PROVE g = x
    <2>1. n = 0
      BY <1>3, <1>12
    <2>2. f = <<>>
      BY <1>5, <1>6, <2>1, EmptySeq
    <2> QED
      BY <1>4, <1>8, <1>10, <2>1, <2>2, ConcatEmptySeq
  <1>13. ASSUME header_buffer # <<>> PROVE new \in ToSet(g)
    <2>1. n # 0
      BY <1>3, <1>13, EmptySeq
    <2>2. f[c] = new /\ c \in 1..c
      BY <1>6, <2>1
    <2>3. m + c \in 1..(m + c) /\ ~(m + c <= m) /\ (m + c) - m = c
      BY <1>5, <2>2
    <2>4. g[m + c] = new
      BY <1>9, <1>10, <2>2, <2>3
    <2>5. m + c \in DOMAIN g
      BY <1>9, <1>10, <2>3, LenProperties
    <2> QED
      BY <2>4, <2>5 DEF ToSet
  <1> QED
    BY <1>1, <1>7, <1>8, <1>10, <1>11, <1>12, <1>13 DEF new

\* The values of a state the reader is in
LEMMA ReaderIs ==
  ASSUME Expected, RInv
  PROVE  \E b \in Nat, s \in Nat, l \in Nat, m \in Nat, n \in Nat, i \in Int :
           /\ b = base /\ s = scanned /\ l = limit /\ m = match_counter /\ n = Len(Message)
           /\ i = read_index
           /\ b + s <= l /\ l <= n
           /\ m <= Len(Reader!boundary)
  <1>1. PICK c \in 2..5 : c = Len(Reader!boundary)
    BY Sought
  <1>2. match_counter \in 0..c
    BY <1>1 DEF RInv, ReaderTypes
  <1>3. match_counter \in Nat /\ match_counter <= Len(Reader!boundary)
    BY <1>1, <1>2
  <1>4. Len(Message) \in Nat
    BY LenProperties DEF Expected
  <1> QED
    BY <1>3, <1>4 DEF Expected, RInv, ReaderTypes

\* A chunk is long enough, or the last one.
LEMMA ChunkIsLong ==
  ASSUME Expected, LongChunks, NEW b \in Nat, b = base, Reader!Chunk
  PROVE  limit' \in Nat /\ (limit' - b >= 5 \/ limit' = Len(Message))
  <1>1. Len(Message) \in Nat
    BY LenProperties DEF Expected
  <1>2. CASE limit' = Len(Message)
    BY <1>1, <1>2
  <1>3. CASE \E c \in ChunkLengths : limit' = base + c
    <2>1. PICK c \in ChunkLengths : limit' = b + c
      BY <1>3
    <2>2. c \in Nat /\ c >= 5
      BY DEF LongChunks
    <2> QED
      BY <2>1, <2>2
  <1> QED
    BY <1>2, <1>3 DEF Reader!Chunk, Expected

\* What a symbol that is scanned does, with its text
LEMMA Scans ==
  ASSUME Expected, RInv, NEW p \in Nat, p = base + scanned, NEW m \in Nat, m = match_counter,
         Reader!ScanMatch \/ Reader!ScanMismatch
  PROVE  /\ p < limit /\ m < Len(Reader!boundary) /\ base' = base /\ limit' = limit
         /\ scanned' = scanned + 1 /\ base' + scanned' = p + 1
         /\ read_index' = read_index /\ need_header' = need_header
         /\ headers' = headers /\ header_buffer' = header_buffer
         /\ \/ /\ Reader!ScanMatch
               /\ TextAt(p + 1) = Reader!boundary[m + 1] /\ match_counter' = m + 1
               /\ boundary_buffer' = boundary_buffer /\ received' = received /\ ends' = ends
            \/ /\ Reader!ScanMismatch
               /\ TextAt(p + 1) # Reader!boundary[m + 1]
               /\ match_counter' = IF TextAt(p + 1) = Reader!boundary[1] THEN 1 ELSE 0
               /\ boundary_buffer' = <<>>
               /\ IF boundary_buffer = <<>> THEN received' = received /\ ends' = ends
                  ELSE Reader!Call(boundary_buffer)
  <1>1. PICK b \in Nat, s \in Nat : b = base /\ s = scanned
    BY ReaderIs
  <1>2. PICK c \in 2..5 : c = Len(Reader!boundary)
    BY Sought
  <1>3. m \in 0..c
    BY <1>2 DEF RInv, ReaderTypes
  <1>4. p < limit /\ m # c /\ m < c
    BY <1>2, <1>3 DEF Reader!ScanMatch, Reader!ScanMismatch, Reader!scanning, Reader!found
  <1>5. p = b + s /\ b + (s + 1) = p + 1
    BY <1>1
  <1>6. /\ base' = base /\ limit' = limit /\ scanned' = scanned + 1
        /\ read_index' = read_index /\ need_header' = need_header
        /\ headers' = headers /\ header_buffer' = header_buffer
    BY DEF Reader!ScanMatch, Reader!ScanMismatch, Reader!parts
  <1>7. base' + scanned' = p + 1
    BY <1>1, <1>5, <1>6
  <1>8. base + scanned + 1 = p + 1
    BY <1>1, <1>5
  <1>9. CASE Reader!ScanMatch
    <2>1. TextAt(p + 1) = Reader!boundary[m + 1] /\ match_counter' = m + 1
      BY <1>8, <1>9 DEF Reader!ScanMatch, TextAt, Expected
    <2>2. boundary_buffer' = boundary_buffer /\ received' = received /\ ends' = ends
      BY <1>9 DEF Reader!ScanMatch, Reader!parts
    <2> QED
      BY <1>2, <1>4, <1>6, <1>7, <1>9, <2>1, <2>2
  <1>10. CASE Reader!ScanMismatch
    <2>1. /\ TextAt(p + 1) # Reader!boundary[m + 1]
          /\ match_counter' = IF TextAt(p + 1) = Reader!boundary[1] THEN 1 ELSE 0
      BY <1>8, <1>10 DEF Reader!ScanMismatch, Reader!restarted, TextAt, Expected
    <2>2. /\ boundary_buffer' = <<>>
          /\ IF boundary_buffer = <<>> THEN received' = received /\ ends' = ends
             ELSE Reader!Call(boundary_buffer)
      BY <1>10 DEF Reader!ScanMismatch
    <2> QED
      BY <1>2, <1>4, <1>6, <1>7, <1>10, <2>1, <2>2
  <1> QED
    BY <1>9, <1>10

\* The loop goes on behind what was scanned: a boundary that is found, or all of the chunk.
LEMMA Advances ==
  ASSUME Expected, RInv, Reader!Advance, NEW p \in Nat, p = base + scanned
  PROVE  /\ base < limit /\ base' = p /\ scanned' = 0 /\ limit' = limit
         /\ base' + scanned' = p
         /\ ~Reader!found => p = limit /\ scanned > 0
  <1>1. PICK b \in Nat, s \in Nat, l \in Nat : b = base /\ s = scanned /\ l = limit /\ b + s <= l
    BY ReaderIs
  <1>2. p = b + s /\ p + 0 = p
    BY <1>1
  <1>3. base < limit /\ base' = p /\ scanned' = 0 /\ limit' = limit
    BY DEF Reader!Advance
  <1>4. ASSUME ~Reader!found PROVE p = limit /\ scanned > 0
    <2>1. ~(b + s < l) /\ b < l
      BY <1>1, <1>3, <1>4 DEF Reader!Advance, Reader!scanning
    <2> QED
      BY <1>1, <1>2, <2>1
  <1> QED
    BY <1>2, <1>3, <1>4

\* The first boundary is found in the first chunk.
LEMMA PrefaceStep ==
  ASSUME Expected, LongChunks, RInv, HeadersGiven, Given, InPreface, UNCHANGED vars, Reader!Next
  PROVE  HeadersGiven' /\ Given' /\ Located'
  <1>1. PICK s \in Nat, l \in Nat, m \in Nat, n \in Nat :
          /\ s = scanned /\ l = limit /\ m = match_counter /\ n = Len(Message)
          /\ s <= l /\ l <= n /\ s <= 4 /\ (l = 0 \/ l >= 5)
          /\ m = IF s = 0 THEN 0 ELSE s - 1
    <2>1. base = 0 /\ scanned <= 4 /\ (limit = 0 \/ limit >= 5)
          /\ match_counter = IF scanned = 0 THEN 0 ELSE scanned - 1
      BY DEF InPreface
    <2> QED
      BY <2>1, ReaderIs
  <1>2. base = 0 /\ base + scanned = s /\ read_index = -1 /\ need_header = FALSE
        /\ boundary_buffer = <<>>
    BY <1>1 DEF InPreface, RInv, ReaderTypes
  <1>3. /\ Reader!boundary = <<"dd", "X", "nl">> /\ Len(Reader!boundary) = 3
        /\ Reader!boundary[1] = "dd" /\ Reader!boundary[2] = "X" /\ Reader!boundary[3] = "nl"
    BY <1>2 DEF Reader!boundary
  <1>4. 0 \in Parts /\ 0 \in 0..num_parts
    BY DEF Expected, Parts
  <1>5. PICK d \in Nat, e \in Nat :
          /\ 4 = HeadAt(0) /\ d = DataAt(0) /\ HeadersAt(4, d) /\ 7 <= d /\ d <= n
          /\ TextAt(1) = "nl" /\ TextAt(2) = "dd" /\ TextAt(3) = "X" /\ TextAt(4) = "nl"
    <2>1. PICK h \in Nat, d \in Nat, e \in Nat :
            /\ h = HeadAt(0) /\ d = DataAt(0) /\ HeadersAt(h, d) /\ DataFromTo(d, e)
            /\ e <= Len(Message)
      BY <1>4, PartExpected
    <2>2. From(0) = 0
      BY EndsOfMessage DEF Expected
    <2>3. h = 4
      BY <2>1, <2>2 DEF HeadAt
    <2>4. TextAt(1) = "nl" /\ TextAt(2) = "dd" /\ TextAt(3) = "X"
      BY <1>4, <2>2, BoundariesAre DEF Expected, BoundaryAt
    <2>5. TextAt(4) = "nl" /\ 7 <= d /\ d <= e
      BY <2>1, <2>3 DEF HeadersAt, DataFromTo
    <2>6. d <= n
      BY <1>1, <2>1, <2>5
    <2> QED
      BY <2>1, <2>3, <2>4, <2>5, <2>6
  <1>6. CASE Reader!Chunk
    <2>1. /\ base = limit /\ scanned' = 0 /\ base' = base
          /\ read_index' = read_index /\ need_header' = need_header /\ match_counter' = match_counter
          /\ boundary_buffer' = boundary_buffer /\ header_buffer' = header_buffer
          /\ received' = received /\ ends' = ends /\ headers' = headers
      BY <1>6 DEF Reader!Chunk, Reader!state, Reader!parts
    <2>2. s = 0 /\ m = 0
      BY <1>1, <1>2, <2>1
    <2>3. limit' >= 5
      <3>1. PICK b \in Nat : b = base /\ b = 0
        BY <1>2
      <3>2. limit' \in Nat /\ (limit' - b >= 5 \/ limit' = Len(Message))
        BY <1>6, <3>1, ChunkIsLong
      <3>3. PICK x \in Nat : x = limit'
        BY <3>2
      <3>4. x - b >= 5 \/ x = Len(Message)
        BY <3>2, <3>3
      <3>5. b = 0
        BY <3>1
      <3>6. x >= 5
        <4>1. CASE x - b >= 5
          BY <3>5, <4>1
        <4>2. CASE x = Len(Message)
          <5>1. x = n
            BY <1>1, <4>2
          <5> QED
            BY <1>5, <5>1
        <4> QED
          BY <3>4, <4>1, <4>2
      <3> QED
        BY <3>3, <3>6
    <2>4. InPreface'
      BY <1>1, <1>2, <2>1, <2>2, <2>3 DEF InPreface
    <2>5. Given'
      BY <1>2, <2>1, GivenGoesOn DEF Given
    <2>6. HeadersGiven'
      BY <2>1, HeadersGivenStay DEF HeadersGiven
    <2> QED
      BY <2>4, <2>5, <2>6 DEF Located
  <1>7. CASE Reader!ScanMatch \/ Reader!ScanMismatch
    <2>1. /\ m < 3 /\ base' = base /\ limit' = limit /\ scanned' = s + 1
          /\ read_index' = -1 /\ need_header' = FALSE
          /\ headers' = headers /\ header_buffer' = header_buffer
          /\ boundary_buffer' = <<>> /\ received' = received /\ ends' = ends
          /\ \/ TextAt(s + 1) = Reader!boundary[m + 1] /\ match_counter' = m + 1
             \/ /\ TextAt(s + 1) # Reader!boundary[m + 1]
                /\ match_counter' = IF TextAt(s + 1) = "dd" THEN 1 ELSE 0
      BY <1>1, <1>2, <1>3, <1>7, Scans
    <2>2. match_counter' = s
      <3>1. CASE s = 0
        <4>1. m + 1 = 1 /\ s + 1 = 1
          BY <1>1, <3>1
        <4> QED
          BY <1>3, <1>5, <2>1, <3>1, <4>1
      <3>2. CASE s # 0
        <4>1. s \in 1..3 /\ m + 1 = s
          BY <1>1, <2>1, <3>2
        <4>2. TextAt(s + 1) = Reader!boundary[s]
          <5>1. s = 1 \/ s = 2 \/ s = 3
            BY <4>1
          <5> QED
            BY <1>3, <1>5, <5>1
        <4> QED
          BY <2>1, <4>1, <4>2
      <3> QED
        BY <3>1, <3>2
    <2>3. s + 1 <= 4 /\ s = IF s + 1 = 0 THEN 0 ELSE (s + 1) - 1
      BY <1>1, <2>1
    <2>4. InPreface'
      BY <1>1, <1>2, <2>1, <2>2, <2>3 DEF InPreface
    <2>5. Given'
      BY <1>2, <2>1, GivenGoesOn DEF Given
    <2>6. HeadersGiven'
      BY <2>1, HeadersGivenStay DEF HeadersGiven
    <2> QED
      BY <2>4, <2>5, <2>6 DEF Located
  <1>8. CASE Reader!PrefaceEnds
    <2>1. m = 3 /\ s = 4
      <3>1. m = 3
        BY <1>1, <1>3, <1>8 DEF Reader!PrefaceEnds, Reader!found
      <3> QED
        BY <1>1, <3>1
    <2>2. base' = 4 /\ scanned' = 0 /\ base' + scanned' = 4
      BY <1>2, <1>8, <2>1, Advances DEF Reader!PrefaceEnds
    <2>3. /\ read_index' = 0 /\ need_header' /\ match_counter' = 0 /\ boundary_buffer' = <<>>
          /\ received' = received /\ ends' = ends /\ headers' = headers
          /\ header_buffer' = header_buffer
      <3>1. read_index' = 0 /\ (0 < num_parts => need_header')
        <4>1. -1 + 1 = 0
          OBVIOUS
        <4>2. read_index' = -1 + 1
          BY <1>2, <1>8 DEF Reader!PrefaceEnds, Reader!Next_part
        <4>3. need_header' = (-1 + 1 < num_parts)
          BY <1>2, <1>8 DEF Reader!PrefaceEnds, Reader!Next_part
        <4> QED
          BY <4>1, <4>2, <4>3
      <3>2. 0 < num_parts
        BY DEF Expected
      <3> QED
        BY <1>8, <3>1, <3>2 DEF Reader!PrefaceEnds, Reader!Next_part, Reader!parts
    <2>4. Newlines(4, d, 4, 0)
      BY <1>5 DEF Newlines
    <2>5. Newlines(4, d, 4, 0)' /\ 4 = HeadAt(0)' /\ d = DataAt(0)' /\ 0 \in Parts'
      BY <1>4, <1>5, <2>4, Stays
    <2>6. HeadersOn(4, d)'
      BY <2>2, <2>3, <2>5 DEF HeadersOn
    <2>7. InHeaders'
      BY <1>5, <2>3, <2>5, <2>6 DEF InHeaders
    <2>8. Given'
      <3>1. -1 \notin Parts /\ 0 = -1 + 1
        BY DEF Expected, Parts
      <3> QED
        BY <1>2, <2>3, <3>1, GivenGoesOn DEF Given
    <2>9. HeadersGiven'
      BY <2>3, HeadersGivenStay DEF HeadersGiven
    <2> QED
      BY <2>7, <2>8, <2>9 DEF Located
  <1>9. ASSUME Reader!PartialMatch \/ Reader!NoMatch PROVE FALSE
    <2>1. Reader!Advance /\ ~Reader!found
      BY <1>1, <1>3, <1>9 DEF Reader!PartialMatch, Reader!NoMatch, Reader!found
    <2>2. s = l /\ s > 0
      BY <1>1, <1>2, <2>1, Advances
    <2> QED
      BY <1>1, <2>2
  <1> QED
    BY <1>2, <1>6, <1>7, <1>8, <1>9
    DEF Reader!Next, Reader!HeaderGoesOn, Reader!HeaderEnds, Reader!PartEnds

\* In the headers of a part, up to the empty line
LEMMA HeadersStep ==
  ASSUME Expected, RInv, HeadersGiven, Given, InHeaders, UNCHANGED vars, Reader!Next
  PROVE  HeadersGiven' /\ Given' /\ Located'
  <1>1. PICK i \in Parts, h \in Nat, d \in Nat, p \in Nat, m \in Nat :
          /\ read_index = i /\ h = HeadAt(i) /\ d = DataAt(i)
          /\ need_header /\ boundary_buffer = <<>> /\ h <= base
          /\ header_buffer = <<>> => base = h
          /\ match_counter = 2 => scanned > 0
          /\ p = base + scanned /\ m = match_counter /\ Newlines(h, d, p, m)
    BY DEF InHeaders, HeadersOn
  <1>2. PICK e \in Nat :
          /\ e = From(i + 1) /\ HeadersAt(h, d) /\ DataFromTo(d, e) /\ h <= d /\ d <= e
          /\ Slice(Message, h, d - h) = HeadersOf(i) /\ e <= Len(Message)
    <2>1. PICK a \in Nat, c \in Nat, e \in Nat :
            /\ a = HeadAt(i) /\ c = DataAt(i) /\ e = From(i + 1)
            /\ HeadersAt(a, c) /\ DataFromTo(c, e)
            /\ Slice(Message, a, c - a) = HeadersOf(i) /\ e <= Len(Message)
      BY PartExpected
    <2>2. a = h /\ c = d
      BY <1>1, <2>1
    <2>3. h + 3 <= d /\ d <= e
      BY <2>1, <2>2 DEF HeadersAt, DataFromTo
    <2>4. h <= d
      BY <2>3
    <2> QED
      BY <2>1, <2>2, <2>3, <2>4
  <1>3. PICK b \in Nat, s \in Nat, l \in Nat, n \in Nat :
          /\ b = base /\ s = scanned /\ l = limit /\ n = Len(Message)
          /\ b + s <= l /\ l <= n /\ p = b + s /\ h <= b /\ b <= p
          /\ m = 2 => s > 0
    <2>1. PICK b \in Nat, s \in Nat, l \in Nat, n \in Nat :
            /\ b = base /\ s = scanned /\ l = limit /\ n = Len(Message)
            /\ b + s <= l /\ l <= n
      BY ReaderIs
    <2>2. p = b + s /\ b <= b + s
      BY <1>1, <2>1
    <2> QED
      BY <1>1, <2>1, <2>2
  <1>4. i \in Nat /\ i \in Int
    BY DEF Parts
  <1>5. /\ Reader!boundary = <<"nl", "nl">> /\ Len(Reader!boundary) = 2
        /\ Reader!boundary[1] = "nl" /\ Reader!boundary[2] = "nl"
    BY <1>1 DEF Reader!boundary
  <1>6. Parts' = Parts /\ HeadAt(i)' = HeadAt(i) /\ DataAt(i)' = DataAt(i)
        /\ From(i + 1)' = From(i + 1) /\ HeadersOf(i)' = HeadersOf(i) /\ Message' = Message
    BY Stays
  <1>7. ASSUME read_index' = read_index, need_header' = need_header,
               boundary_buffer' = <<>>, h <= base', header_buffer' = <<>> => base' = h,
               received' = received, ends' = ends, headers' = headers,
               header_buffer' \in Seq(HeaderSymbol),
               NEW x \in Nat, NEW y \in Nat, x = base' + scanned', y = match_counter',
               y = 2 => scanned' > 0,
               Newlines(h, d, x, y)
        PROVE  HeadersGiven' /\ Given' /\ Located'
    <2>1. Newlines(h, d, x, y)'
      BY <1>7, Stays
    <2>2. HeadersOn(h, d)'
      BY <1>1, <1>7, <2>1 DEF HeadersOn
    <2>3. InHeaders'
      BY <1>1, <1>6, <1>7, <2>2 DEF InHeaders
    <2>4. Given'
      BY <1>1, <1>4, <1>7, GivenGoesOn DEF Given
    <2>5. HeadersGiven'
      BY <1>7, HeadersGivenStay
    <2> QED
      BY <2>3, <2>4, <2>5 DEF Located
  <1>8. CASE Reader!Chunk
    <2>1. /\ base = limit /\ scanned' = 0 /\ base' = base
          /\ read_index' = read_index /\ need_header' = need_header /\ match_counter' = match_counter
          /\ boundary_buffer' = boundary_buffer /\ header_buffer' = header_buffer
          /\ received' = received /\ ends' = ends /\ headers' = headers
      BY <1>8 DEF Reader!Chunk, Reader!state, Reader!parts
    <2>2. s = 0 /\ m # 2
      BY <1>3, <2>1
    <2>3. p = base' + scanned'
      BY <1>3, <2>1, <2>2
    <2> QED
      BY <1>1, <1>7, <2>1, <2>2, <2>3 DEF HeadersGiven
  <1>9. CASE Reader!ScanMatch \/ Reader!ScanMismatch
    <2>1. /\ m < 2 /\ base' = base /\ scanned' = s + 1 /\ base' + scanned' = p + 1
          /\ read_index' = read_index /\ need_header' = need_header
          /\ headers' = headers /\ header_buffer' = header_buffer
          /\ boundary_buffer' = <<>> /\ received' = received /\ ends' = ends
          /\ \/ TextAt(p + 1) = Reader!boundary[m + 1] /\ match_counter' = m + 1
             \/ /\ TextAt(p + 1) # Reader!boundary[m + 1]
                /\ match_counter' = IF TextAt(p + 1) = "nl" THEN 1 ELSE 0
      BY <1>1, <1>3, <1>5, <1>9, Scans
    <2>2. m \in 0..1 /\ Reader!boundary[m + 1] = "nl"
      <3>1. m = 0 \/ m = 1
        BY <2>1
      <3> QED
        BY <1>5, <3>1
    <2>3. PICK y \in Nat : y = match_counter' /\ Newlines(h, d, p + 1, y)
      <3>1. CASE TextAt(p + 1) = "nl"
        <4>1. Newlines(h, d, p + 1, m + 1)
          BY <1>1, <1>2, <2>2, <3>1, NewlinesGoOn
        <4>2. match_counter' = m + 1
          BY <2>1, <2>2, <3>1
        <4> QED
          BY <4>1, <4>2
      <3>2. CASE TextAt(p + 1) # "nl"
        <4>1. Newlines(h, d, p + 1, 0)
          BY <1>1, <1>2, <2>2, <3>2, NewlinesGoOn
        <4>2. match_counter' = 0
          BY <2>1, <2>2, <3>2
        <4> QED
          BY <4>1, <4>2
      <3> QED
        BY <3>1, <3>2
    <2>4. p + 1 \in Nat /\ scanned' > 0
      BY <2>1, <1>3
    <2> QED
      BY <1>1, <1>7, <2>1, <2>3, <2>4 DEF HeadersGiven
  <1>10. CASE Reader!HeaderGoesOn
    <2>1. Reader!Advance /\ ~Reader!found
      BY <1>10 DEF Reader!HeaderGoesOn
    <2>2. base' = p /\ scanned' = 0 /\ base' + scanned' = p /\ s > 0
      BY <1>1, <1>3, <2>1, Advances
    <2>3. /\ read_index' = read_index /\ need_header' = need_header /\ match_counter' = match_counter
          /\ boundary_buffer' = boundary_buffer /\ header_buffer' = Reader!header_text
          /\ received' = received /\ ends' = ends /\ headers' = headers
      BY <1>10 DEF Reader!HeaderGoesOn, Reader!parts
    <2>4. m # 2
      BY <1>1, <1>5, <2>1 DEF Reader!found
    <2>5. Reader!header_text \in Seq(HeaderSymbol) /\ Reader!header_text # <<>>
      <3>1. Message \in Seq(Symbol) /\ response = Message /\ header_buffer \in Seq(HeaderSymbol)
        BY DEF Expected, HeadersGiven
      <3>2. s \in Nat \ {0} /\ b + s <= Len(Message)
        BY <1>3, <2>2
      <3> QED
        BY <1>3, <3>1, <3>2, HeaderTextIs
    <2>6. h <= p
      BY <1>3
    <2> QED
      BY <1>1, <1>7, <2>2, <2>3, <2>4, <2>5, <2>6
  <1>11. CASE Reader!HeaderEnds
    <2>1. Reader!Advance /\ m = 2
      BY <1>1, <1>5, <1>11 DEF Reader!HeaderEnds, Reader!found
    <2>2. base' = p /\ scanned' = 0 /\ base' + scanned' = p /\ limit' = limit
      BY <1>1, <2>1, Advances
    <2>3. /\ read_index' = read_index /\ ~need_header' /\ match_counter' = 0
          /\ boundary_buffer' = <<>> /\ header_buffer' = <<>>
          /\ received' = received /\ ends' = ends
          /\ headers' = [headers EXCEPT ![i] = Reader!header_text]
      BY <1>1, <1>11 DEF Reader!HeaderEnds
    <2>4. p = d /\ s > 0 /\ s \in Nat \ {0}
      BY <1>1, <1>3, <2>1 DEF Newlines
    <2>5. PICK t \in Seq(HeaderSymbol) :
            /\ t = Reader!header_text
            /\ header_buffer = <<>> => t = Slice(Message, b, s)
            /\ header_buffer # <<>> => <<"not initialized">> \in ToSet(t)
      <3>1. Message \in Seq(Symbol) /\ response = Message /\ header_buffer \in Seq(HeaderSymbol)
        BY DEF Expected, HeadersGiven
      <3>2. b + s <= Len(Message)
        BY <1>3
      <3> QED
        BY <1>3, <2>4, <3>1, <3>2, HeaderTextIs
    <2>6. HeadersGiven'
      <3>1. headers' \in [Parts -> Seq(HeaderSymbol)]
        BY <2>3, <2>5 DEF HeadersGiven
      <3>2. header_buffer' \in Seq(HeaderSymbol)
        BY <2>3, EmptySeq
      <3>3. headers'[i] = t
        BY <2>3, <2>5 DEF HeadersGiven
      <3>4. <<"not initialized">> \in ToSet(t) \/ t = HeadersOf(i)
        <4>1. CASE header_buffer = <<>>
          <5>1. b = h /\ s = d - h
            BY <1>1, <1>3, <2>4, <4>1
          <5> QED
            BY <1>2, <2>5, <4>1, <5>1
        <4>2. CASE header_buffer # <<>>
          BY <2>5, <4>2
        <4> QED
          BY <4>1, <4>2
      <3>5. ASSUME NEW j \in Parts PROVE HeadersOk(j)'
        <4>1. HeadersOf(j)' = HeadersOf(j)
          BY Stays
        <4>2. CASE j = i
          BY <1>6, <3>3, <3>4, <4>2 DEF HeadersOk
        <4>3. CASE j # i
          <5>1. headers'[j] = headers[j]
            BY <2>3, <4>3 DEF HeadersGiven
          <5> QED
            BY <4>1, <5>1 DEF HeadersGiven, HeadersOk
        <4> QED
          BY <4>2, <4>3
      <3> QED
        BY <1>6, <3>1, <3>2, <3>5 DEF HeadersGiven
    <2>7. Given'
      BY <1>1, <1>4, <2>3, GivenGoesOn DEF Given
    <2>8. Untold(i)
      BY <1>1 DEF Given
    <2>9. Slice(Message, d, 0) = <<>>
      <3>1. Message \in Seq(Symbol) /\ d + 0 <= Len(Message)
        BY <1>2, <1>3 DEF Expected
      <3> QED
        BY <3>1, SliceEmpty
    <2>10. PICK B \in Signs : B = Reader!boundary' /\ Len(B) \in 4..5
      <3>1. Reader!boundary' \in Signs
        <4>1. read_index' # -1
          BY <1>1, <1>4, <2>3
        <4> QED
          BY <2>3, <4>1 DEF Reader!boundary, Signs
      <3>2. ASSUME NEW B \in Signs PROVE Len(B) \in 4..5
        <4>1. CASE B = <<"nl", "dd", "X", "nl">>
          BY <4>1
        <4>2. CASE B = <<"nl", "dd", "X", "dd", "nl">>
          BY <4>2
        <4> QED
          BY <4>1, <4>2 DEF Signs
      <3> QED
        BY <3>1, <3>2
    <2>11. Dashes(B, d, e, d, 0)
      <3>1. \A k \in 1..0 : FALSE
        OBVIOUS
      <3>2. d + 0 <= d /\ (d > e => d = e + 0)
        BY <1>2
      <3>3. 0 <= Len(B)
        BY <2>10
      <3> QED
        BY <3>1, <3>2, <3>3 DEF Dashes
    <2>12. Behind(d, e, d)'
      <3>1. Dashes(B, d, e, d, 0)'
        BY <2>11, Stays
      <3>2. d = base' + scanned' /\ 0 = match_counter' /\ d + 0 <= d /\ d + 0 = d
        BY <2>2, <2>3, <2>4
      <3>3. ~(0 = Len(B))
        BY <2>10
      <3> QED
        BY <2>10, <3>1, <3>2, <3>3 DEF Behind
    <2>13. DataOn(i, d, e, d)'
      <3>1. received'[i] = <<>> /\ ends'[i] = 0
        BY <2>3, <2>8 DEF Untold
      <3>2. base' = d /\ d <= d /\ d - d = 0
        BY <2>2, <2>4
      <3>3. Slice(Message, d, 0)' = <<>>
        BY <1>6, <2>9 DEF Slice
      <3>4. received'[i] = Slice(Message, d, d - d)'
        BY <3>1, <3>2, <3>3
      <3>5. boundary_buffer' = Slice(Message, d, base - d)'
        BY <2>3, <3>2, <3>3
      <3> QED
        BY <2>3, <2>12, <3>1, <3>2, <3>4, <3>5 DEF DataOn
    <2>14. InData'
      BY <1>1, <1>2, <1>6, <2>3, <2>13 DEF InData
    <2> QED
      BY <2>6, <2>7, <2>14 DEF Located
  <1> QED
    BY <1>1, <1>8, <1>9, <1>10, <1>11
    DEF Reader!Next, Reader!PrefaceEnds, Reader!PartEnds, Reader!PartialMatch, Reader!NoMatch

\* Behind the final boundary nothing is read.
LEMMA OverStep ==
  ASSUME Expected, RInv, Over, Reader!Next
  PROVE  FALSE
  <1>1. PICK n \in Nat : n = Len(Message)
    BY ReaderIs
  <1>2. base = n /\ limit = n /\ scanned = 0 /\ base + scanned = n
    BY <1>1 DEF Over
  <1>3. ~(n < n)
    OBVIOUS
  <1>4. ~Reader!scanning /\ ~(base < limit) /\ ~(base < Len(response))
    BY <1>1, <1>2, <1>3 DEF Reader!scanning, Expected
  <1> QED
    BY <1>4 DEF Reader!Next, Reader!Chunk, Reader!ScanMatch, Reader!ScanMismatch, Reader!Advance,
    Reader!HeaderGoesOn, Reader!HeaderEnds, Reader!PrefaceEnds, Reader!PartEnds,
    Reader!PartialMatch, Reader!NoMatch

\* What a part is told goes on with what was not given to it before.
LEMMA CallGives ==
  ASSUME Expected, RInv, Given, NEW i \in Parts, read_index = i,
         NEW a \in Nat, NEW b \in Nat, NEW c \in Nat, a <= b, b <= c, c <= Len(Message),
         received[i] = Slice(Message, a, b - a),
         NEW data, data = Slice(Message, b, c - b), Reader!Call(data)
  PROVE  /\ received' \in [Parts -> Seq(Symbol)]
         /\ \A j \in Parts : j # i => received'[j] = received[j] /\ ends'[j] = ends[j]
         /\ received'[i] = Slice(Message, a, c - a)
         /\ b < c => ends' = ends
  <1>1. /\ received \in [Parts -> Seq(Symbol)] /\ ends \in [Parts -> Nat] /\ i # -1
        /\ Message \in Seq(Symbol)
    <2>1. received \in [Parts -> Seq(Symbol)] /\ Message \in Seq(Symbol)
      BY DEF Given, Expected
    <2>2. ends \in [Parts -> Nat]
      BY DEF RInv, ReaderTypes, Reader!Indices, Parts
    <2>3. i # -1
      BY DEF Parts
    <2> QED
      BY <2>1, <2>2, <2>3
  <1>2. c - b \in Nat /\ b + (c - b) <= Len(Message) /\ (c - b = 0 <=> ~(b < c))
    BY LenProperties, <1>1
  <1>3. data \in Seq(Symbol) /\ (data = <<>> <=> c - b = 0)
    BY <1>1, <1>2, Cut, SliceEmpty
  <1>4. /\ Join(received[i], data) = Slice(Message, a, c - a)
        /\ Slice(Message, a, c - a) \in Seq(Symbol)
    BY <1>1, SlicesJoin
  <1>5. CASE data = <<>>
    <2>1. ends' = [ends EXCEPT ![i] = @ + 1] /\ received' = received
      BY <1>1, <1>5 DEF Reader!Call
    <2>2. b = c
      BY <1>2, <1>3, <1>5
    <2> QED
      BY <1>1, <2>1, <2>2
  <1>6. CASE data # <<>>
    <2>1. received' = [received EXCEPT ![i] = received[i] \o data] /\ ends' = ends
      BY <1>1, <1>6 DEF Reader!Call
    <2>2. PICK z \in Seq(Symbol) : z = received[i] \o data /\ z = Slice(Message, a, c - a)
      BY <1>4 DEF Join
    <2>3. received' = [received EXCEPT ![i] = z]
      BY <2>1, <2>2
    <2> QED
      BY <1>1, <2>1, <2>2, <2>3
  <1> QED
    BY <1>5, <1>6

\* In the data of a part, up to the boundary behind it
LEMMA DataStep ==
  ASSUME Expected, LongChunks, RInv, HeadersGiven, Given, InData, UNCHANGED vars, Reader!Next
  PROVE  HeadersGiven' /\ Given' /\ Located'
  <1>1. PICK i \in Parts, d \in Nat, e \in Nat, q \in Nat :
          /\ read_index = i /\ d = DataAt(i) /\ e = From(i + 1) /\ DataOn(i, d, e, q)
    BY DEF InData
  <1>2. PICK B \in Signs, p \in Nat, m \in Nat :
          /\ B = Reader!boundary /\ p = base + scanned /\ m = match_counter
          /\ Dashes(B, d, e, p, m)
          /\ q + m <= p
          /\ q < base => q + m = p
          /\ m = Len(B) => scanned > 0
    BY <1>1 DEF DataOn, Behind
  <1>3. PICK b \in Nat, s \in Nat, l \in Nat, n \in Nat :
          /\ b = base /\ s = scanned /\ l = limit /\ n = Len(Message)
          /\ b + s <= l /\ l <= n /\ p = b + s /\ p <= n
          /\ q < b => q + m = p
    <2>1. PICK b \in Nat, s \in Nat, l \in Nat, n \in Nat :
            /\ b = base /\ s = scanned /\ l = limit /\ n = Len(Message)
            /\ b + s <= l /\ l <= n
      BY ReaderIs
    <2>2. p = b + s
      BY <1>2, <2>1
    <2>3. p <= n
      BY <2>1, <2>2
    <2> QED
      BY <1>2, <2>1, <2>2, <2>3
  <1>4. i \in Nat /\ i \in Int /\ i # -1 /\ i < num_parts /\ ~need_header /\ Message \in Seq(Symbol)
    BY <1>1 DEF Parts, DataOn, Expected
  <1>5. /\ d <= q /\ q <= b
        /\ b < l => b = d \/ l - b >= 5 \/ l = n
        /\ received[i] = Slice(Message, d, q - d)
        /\ boundary_buffer = Slice(Message, q, b - q)
        /\ ends[i] > 0 => e = d
    BY <1>1, <1>3 DEF DataOn
  <1>6. /\ DataFromTo(d, e) /\ d <= e /\ Slice(Message, d, e - d) = BytesOf(i)
    BY <1>1, PartExpected DEF DataFromTo
  <1>7. PICK c \in 4..5 :
          /\ c = Len(B) /\ Sign(B, e) /\ B[1] = "nl" /\ e + c <= n
          /\ i + 1 < num_parts =>
               i + 1 \in Parts /\ HeadAt(i + 1) = e + c /\ e + c < n
          /\ i + 1 = num_parts => e + c = n
    <2>1. PICK C \in Signs, f \in Nat :
            /\ C = Reader!boundary /\ f = From(i + 1) /\ Sign(C, f)
            /\ i + 1 < num_parts =>
                 i + 1 \in Parts /\ HeadAt(i + 1) = f + Len(C) /\ f + Len(C) < Len(Message)
            /\ i + 1 = num_parts => f + Len(C) = Len(Message)
      BY <1>1, <1>4, SignExpected
    <2>2. C = B /\ f = e
      BY <1>1, <1>2, <2>1
    <2>3. Sign(B, e)
      BY <2>1, <2>2
    <2>4. PICK c \in 4..5 : c = Len(B) /\ B[1] = "nl"
      BY <2>3, SignIs
    <2>5. i + 1 < num_parts \/ i + 1 = num_parts
      BY <1>4 DEF Expected
    <2>6. i + 1 < num_parts => i + 1 \in Parts /\ HeadAt(i + 1) = e + c /\ e + c < n
      BY <1>3, <2>1, <2>2, <2>4
    <2>7. i + 1 = num_parts => e + c = n
      BY <1>3, <2>1, <2>2, <2>4
    <2>8. e + c <= n
      BY <2>5, <2>6, <2>7
    <2> QED
      BY <2>3, <2>4, <2>6, <2>7, <2>8
  <1>8. /\ Parts' = Parts /\ num_parts' = num_parts
        /\ DataAt(i)' = DataAt(i) /\ From(i + 1)' = From(i + 1) /\ Message' = Message
    BY Stays
  <1>9. m <= c /\ (p > e => p = e + m)
    BY <1>2, <1>7 DEF Dashes
  \* Further in the data
  <1>10. ASSUME read_index' = read_index, need_header' = need_header,
                headers' = headers, header_buffer' = header_buffer,
                received' \in [Parts -> Seq(Symbol)],
                \A j \in Parts : j # i => received'[j] = received[j] /\ ends'[j] = ends[j],
                NEW u \in Nat, NEW v \in Nat, NEW r \in Nat, NEW x \in Nat, NEW y \in Nat,
                u = base', v = limit', x = base' + scanned', y = match_counter',
                d <= r, r <= u, Dashes(B, d, e, x, y), r + y <= x, r < u => r + y = x,
                y = Len(B) => scanned' > 0,
                u < v => u = d \/ v - u >= 5 \/ v = n,
                received'[i] = Slice(Message, d, r - d),
                boundary_buffer' = Slice(Message, r, u - r),
                ends'[i] > 0 => e = d
         PROVE  HeadersGiven' /\ Given' /\ Located'
    <2>1. Dashes(B, d, e, x, y)'
      BY <1>10, Stays
    <2>2. B = Reader!boundary'
      BY <1>2, <1>8, <1>10 DEF Reader!boundary
    <2>3. Behind(d, e, r)'
      BY <1>10, <2>1, <2>2 DEF Behind
    <2>4. DataOn(i, d, e, r)'
      <3>1. received'[i] = Slice(Message, d, r - d)'
        BY <1>8, <1>10 DEF Slice
      <3>2. boundary_buffer' = Slice(Message, r, base - r)'
        BY <1>8, <1>10 DEF Slice
      <3>3. base' < limit' => base' = d \/ limit' - base' >= 5 \/ limit' = Len(Message)'
        BY <1>3, <1>8, <1>10
      <3> QED
        BY <1>4, <1>10, <2>3, <3>1, <3>2, <3>3 DEF DataOn
    <2>5. InData'
      BY <1>1, <1>8, <1>10, <2>4 DEF InData
    <2>6. Given'
      BY <1>1, <1>4, <1>10, GivenGoesOn
    <2>7. HeadersGiven'
      BY <1>10, HeadersGivenStay DEF HeadersGiven
    <2> QED
      BY <2>5, <2>6, <2>7 DEF Located
  \* The reader has not come to the end of the message if it has not found the boundary.
  <1>11. ASSUME Reader!Advance, m # c PROVE p = l /\ l < n /\ s > 0 /\ b < l
    <2>1. ~Reader!found
      BY <1>2, <1>7, <1>11 DEF Reader!found
    <2>2. p = limit /\ scanned > 0 /\ base < limit
      BY <1>2, <1>11, <2>1, Advances
    <2>3. p # n
      <3> SUFFICES ASSUME p = n PROVE FALSE
        OBVIOUS
      <3>1. n > e
        <4>1. e + c <= n
          BY <1>7
        <4> QED
          BY <4>1
      <3>2. n = e + m
        BY <1>9, <3>1
      <3> QED
        BY <1>7, <1>9, <1>11, <3>2
    <2> QED
      BY <1>3, <2>2, <2>3
  <1>12. CASE Reader!Chunk
    <2>1. /\ base = limit /\ scanned' = 0 /\ base' = base
          /\ read_index' = read_index /\ need_header' = need_header /\ match_counter' = match_counter
          /\ boundary_buffer' = boundary_buffer /\ header_buffer' = header_buffer
          /\ received' = received /\ ends' = ends /\ headers' = headers
      BY <1>12 DEF Reader!Chunk, Reader!state, Reader!parts
    <2>2. s = 0 /\ p = b /\ m # Len(B)
      BY <1>2, <1>3, <2>1
    <2>3. limit' \in Nat /\ (limit' - b >= 5 \/ limit' = Len(Message))
      BY <1>3, <1>12, ChunkIsLong
    <2>4. PICK v \in Nat : v = limit'
      BY <2>3
    <2>5. v - b >= 5 \/ v = n
      BY <1>3, <2>3, <2>4
    <2>6. p = base' + scanned' /\ b = base'
      BY <1>3, <2>1, <2>2
    <2>7. received' \in [Parts -> Seq(Symbol)]
      BY <2>1 DEF Given
    <2> QED
      BY <1>2, <1>3, <1>5, <1>10, <2>1, <2>2, <2>4, <2>5, <2>6, <2>7
  <1>13. CASE Reader!ScanMatch \/ Reader!ScanMismatch
    <2>1. /\ m < c /\ base' = base /\ limit' = limit /\ scanned' = s + 1
          /\ base' + scanned' = p + 1
          /\ read_index' = read_index /\ need_header' = need_header
          /\ headers' = headers /\ header_buffer' = header_buffer
          /\ \/ /\ TextAt(p + 1) = B[m + 1] /\ match_counter' = m + 1
                /\ boundary_buffer' = boundary_buffer /\ received' = received /\ ends' = ends
             \/ /\ TextAt(p + 1) # B[m + 1]
                /\ match_counter' = IF TextAt(p + 1) = "nl" THEN 1 ELSE 0
                /\ boundary_buffer' = <<>>
                /\ IF boundary_buffer = <<>> THEN received' = received /\ ends' = ends
                   ELSE Reader!Call(boundary_buffer)
      BY <1>2, <1>3, <1>7, <1>13, Scans
    <2>2. PICK t \in Nat : t = p + 1 /\ t = base' + scanned' /\ scanned' > 0 /\ b < t
      BY <1>3, <2>1
    <2>3. CASE /\ TextAt(p + 1) = B[m + 1] /\ match_counter' = m + 1
               /\ boundary_buffer' = boundary_buffer /\ received' = received /\ ends' = ends
      <3>1. Dashes(B, d, e, t, m + 1)
        <4>1. Dashes(B, d, e, p + 1, m + 1)
          BY <1>2, <1>6, <1>7, <2>1, <2>3, DashesGoOn
        <4> QED
          BY <2>2, <4>1
      <3>2. m + 1 \in Nat /\ q + (m + 1) <= t /\ (q < b => q + (m + 1) = t)
        BY <1>2, <1>3, <2>2
      <3>3. received' \in [Parts -> Seq(Symbol)]
        BY <2>3 DEF Given
      <3>4. /\ b = base' /\ l = limit' /\ t = base' + scanned' /\ scanned' > 0
            /\ b < l => b = d \/ l - b >= 5 \/ l = n
        BY <1>3, <1>5, <2>1, <2>2
      <3>5. /\ received'[i] = Slice(Message, d, q - d) /\ boundary_buffer' = Slice(Message, q, b - q)
            /\ ends'[i] > 0 => e = d
            /\ \A j \in Parts : j # i => received'[j] = received[j] /\ ends'[j] = ends[j]
        BY <1>5, <2>3
      <3>6. d <= q /\ q <= b
        BY <1>5
      <3>7. PICK y \in Nat :
              /\ y = match_counter' /\ Dashes(B, d, e, t, y) /\ q + y <= t /\ (q < b => q + y = t)
        BY <2>3, <3>1, <3>2
      <3> QED
        BY <1>10, <2>1, <3>3, <3>4, <3>5, <3>6, <3>7
    <2>4. CASE /\ TextAt(p + 1) # B[m + 1]
               /\ match_counter' = IF TextAt(p + 1) = "nl" THEN 1 ELSE 0
               /\ boundary_buffer' = <<>>
               /\ IF boundary_buffer = <<>> THEN received' = received /\ ends' = ends
                  ELSE Reader!Call(boundary_buffer)
      <3>1. PICK y \in 0..1 : y = match_counter' /\ Dashes(B, d, e, t, y)
        <4>1. CASE TextAt(p + 1) = "nl"
          <5>1. Dashes(B, d, e, p + 1, 1)
            BY <1>2, <1>6, <1>7, <2>1, <2>4, <4>1, DashesGoOn
          <5> QED
            BY <2>2, <2>4, <4>1, <5>1
        <4>2. CASE TextAt(p + 1) # "nl"
          <5>1. Dashes(B, d, e, p + 1, 0)
            BY <1>2, <1>6, <1>7, <2>1, <2>4, <4>2, DashesGoOn
          <5> QED
            BY <2>2, <2>4, <4>2, <5>1
        <4> QED
          BY <4>1, <4>2
      <3>2. y \in Nat /\ b + y <= t /\ ~(b < b) /\ y # Len(B) /\ d <= b /\ b <= b
        <4>1. d <= q /\ q <= b /\ c = Len(B) /\ b < t
          BY <1>5, <1>7, <2>2
        <4>2. b + y <= t
          BY <4>1
        <4>3. y # c /\ d <= b
          BY <4>1
        <4> QED
          BY <4>1, <4>2, <4>3
      <3>3. b - q \in Nat /\ q + (b - q) <= Len(Message) /\ (b - q = 0 <=> q = b)
        BY <1>3, <1>5
      <3>4. boundary_buffer = <<>> <=> q = b
        BY <1>4, <1>5, <3>3, SliceEmpty
      <3>5. /\ received' \in [Parts -> Seq(Symbol)]
            /\ \A j \in Parts : j # i => received'[j] = received[j] /\ ends'[j] = ends[j]
            /\ received'[i] = Slice(Message, d, b - d)
            /\ ends'[i] > 0 => e = d
        <4>1. CASE q = b
          <5>1. received' = received /\ ends' = ends
            BY <2>4, <3>4, <4>1
          <5> QED
            BY <1>5, <4>1, <5>1 DEF Given
        <4>2. CASE q # b
          <5>1. Reader!Call(boundary_buffer)
            BY <2>4, <3>4, <4>2
          <5>2. b <= Len(Message) /\ q < b
            BY <1>3, <1>5, <4>2
          <5>3. /\ received' \in [Parts -> Seq(Symbol)]
                /\ \A j \in Parts : j # i => received'[j] = received[j] /\ ends'[j] = ends[j]
                /\ received'[i] = Slice(Message, d, b - d)
                /\ ends' = ends
            BY <1>1, <1>5, <5>1, <5>2, CallGives
          <5> QED
            BY <1>5, <5>3
        <4> QED
          BY <4>1, <4>2
      <3>6. boundary_buffer' = Slice(Message, b, b - b)
        <4>1. b + 0 <= Len(Message) /\ b - b = 0
          BY <1>3
        <4>2. Slice(Message, b, 0) = <<>>
          BY <1>4, <4>1, SliceEmpty
        <4> QED
          BY <2>4, <4>1, <4>2
      <3> QED
        BY <1>3, <1>5, <1>10, <2>1, <2>2, <3>1, <3>2, <3>5, <3>6
    <2> QED
      BY <2>1, <2>3, <2>4
  <1>14. CASE Reader!NoMatch
    <2>1. Reader!Advance /\ m = 0
      BY <1>2, <1>14 DEF Reader!NoMatch
    <2>2. p = l /\ l < n /\ s > 0 /\ b < l
      <3>1. m # c
        BY <2>1
      <3> QED
        BY <1>11, <2>1, <3>1
    <2>3. base' = p /\ scanned' = 0 /\ base' + scanned' = p /\ limit' = limit
      BY <1>2, <2>1, Advances
    <2>4. /\ read_index' = read_index /\ need_header' = need_header
          /\ headers' = headers /\ header_buffer' = header_buffer
          /\ match_counter' = match_counter /\ boundary_buffer' = <<>>
          /\ Reader!Call(Reader!First(limit - base))
      BY <1>14 DEF Reader!NoMatch
    <2>5. q = b /\ d <= p /\ p - p = 0 /\ p + 0 <= Len(Message) /\ ~(p < p) /\ b <= p
      BY <1>3, <1>5, <2>1, <2>2
    <2>6. Reader!First(limit - base) = Slice(Message, b, p - b)
      BY <1>3, <2>2 DEF Reader!First, Slice, Expected
    <2>7. received[i] = Slice(Message, d, b - d) /\ p <= Len(Message)
      BY <1>3, <1>5, <2>5
    <2>8. /\ received' \in [Parts -> Seq(Symbol)]
          /\ \A j \in Parts : j # i => received'[j] = received[j] /\ ends'[j] = ends[j]
          /\ received'[i] = Slice(Message, d, p - d)
          /\ ends' = ends
      <3>1. read_index = i /\ d <= b /\ b < p /\ Reader!Call(Reader!First(limit - base))
        BY <1>1, <1>5, <2>2, <2>4, <2>5
      <3> QED
        BY <2>5, <2>6, <2>7, <3>1, CallGives
    <2>9. boundary_buffer' = Slice(Message, p, p - p)
      BY <1>4, <2>4, <2>5, SliceEmpty
    <2>10. m # Len(B) /\ p + m <= p
      <3>1. c = Len(B)
        BY <1>7
      <3> QED
        BY <2>1, <3>1
    <2>11. ends'[i] > 0 => e = d
      BY <1>5, <2>8
    <2>12. /\ p = base' /\ l = limit' /\ p = base' + scanned' /\ m = match_counter'
           /\ d <= p /\ p <= p /\ Dashes(B, d, e, p, m) /\ ~(p < p)
           /\ ~(m = Len(B)) /\ ~(p < l)
      BY <1>2, <1>3, <2>2, <2>3, <2>4, <2>5, <2>10
    <2> QED
      BY <1>10, <2>4, <2>8, <2>9, <2>10, <2>11, <2>12
  <1>15. CASE Reader!PartialMatch
    <2>1. Reader!Advance /\ m > 0 /\ m < c
      BY <1>2, <1>7, <1>9, <1>15 DEF Reader!PartialMatch, Reader!found
    <2>2. p = l /\ l < n /\ s > 0 /\ b < l
      BY <1>11, <2>1
    <2>3. base' = p /\ scanned' = 0 /\ base' + scanned' = p /\ limit' = limit
      BY <1>2, <2>1, Advances
    <2>4. b = d \/ l - b >= 5
      BY <1>5, <2>2
    <2>5. q = b
      <3>0. SUFFICES ASSUME q < b PROVE FALSE
        BY <1>5
      <3>1. q + m = p
        BY <1>3, <3>0
      <3>2. b # d
        BY <1>5, <3>0
      <3>3. l - b >= 5
        BY <2>4, <3>2
      <3> QED
        BY <2>1, <2>2, <3>0, <3>1, <3>3
    <2>6. PICK k \in Nat : s = k + m /\ p - m = b + k /\ s - m = k
      <3>1. b + m <= p
        BY <1>2, <2>5
      <3>2. m <= s /\ s - m \in Nat
        BY <1>3, <3>1
      <3>3. s = (s - m) + m /\ p - m = b + (s - m)
        BY <1>3, <3>2
      <3> QED
        BY <3>2, <3>3
    <2>7. ~Reader!outside
      <3>1. ~(s < m)
        BY <2>6
      <3> QED
        BY <1>2, <1>3, <3>1 DEF Reader!outside
    <2>8. /\ read_index' = read_index /\ need_header' = need_header
          /\ headers' = headers /\ header_buffer' = header_buffer
          /\ match_counter' = match_counter
          /\ Reader!Call(Reader!First(s - m))
          /\ boundary_buffer' = boundary_buffer \o SubSeq(Reader!First(s), s - m + 1, s)
      BY <1>2, <1>3, <1>15, <2>7 DEF Reader!PartialMatch, Reader!buffered
    <2>9. PICK r \in Nat : r = b + k /\ r = p - m /\ r + m = p /\ r <= Len(Message) /\ d <= r
                           /\ r <= p /\ b <= r /\ r - b = k /\ p - r = m /\ (b < r <=> k # 0)
      <3>1. b + k = p - m /\ (b + k) + m = p
        BY <2>6
      <3>2. b + k <= Len(Message) /\ d <= b + k /\ b + k <= p /\ b <= b + k /\ (b + k) - b = k
            /\ p - (b + k) = m /\ (b < b + k <=> k # 0)
        BY <1>3, <1>5, <3>1
      <3> QED
        BY <3>1, <3>2
    <2>10. Reader!First(s - m) = Slice(Message, b, r - b)
      BY <1>3, <2>6, <2>9 DEF Reader!First, Slice, Expected
    <2>11. received[i] = Slice(Message, d, b - d)
      BY <1>5, <2>5
    <2>12. /\ received' \in [Parts -> Seq(Symbol)]
           /\ \A j \in Parts : j # i => received'[j] = received[j] /\ ends'[j] = ends[j]
           /\ received'[i] = Slice(Message, d, r - d)
           /\ b < r => ends' = ends
      <3>1. /\ read_index = i /\ d <= b /\ b <= r /\ r <= Len(Message)
            /\ Reader!Call(Reader!First(s - m))
        BY <1>1, <1>5, <2>5, <2>8, <2>9
      <3> QED
        BY <2>10, <2>11, <3>1, CallGives
    <2>13. boundary_buffer' = Slice(Message, r, p - r)
      <3>1. boundary_buffer = <<>>
        <4>1. b + 0 <= Len(Message) /\ b - b = 0
          BY <1>3
        <4>2. Slice(Message, b, 0) = <<>>
          BY <1>4, <4>1, SliceEmpty
        <4> QED
          BY <1>5, <2>5, <4>1, <4>2
      <3>2. SubSeq(Reader!First(s), s - m + 1, s) = Slice(Slice(Message, b, s), k, m)
        <4>1. (s - m) + 1 = k + 1 /\ k + m = s
          BY <2>6
        <4>2. Reader!First(s) = Slice(Message, b, s)
          BY <1>3 DEF Reader!First, Slice, Expected
        <4> QED
          BY <4>1, <4>2 DEF Slice
      <3>3. Slice(Slice(Message, b, s), k, m) = Slice(Message, r, m)
        <4>1. b + s <= Len(Message) /\ k + m <= s
          BY <1>3, <2>6
        <4> QED
          BY <1>4, <2>9, <4>1, SliceOfSlice
      <3>4. Slice(Message, r, m) \in Seq(Symbol)
        <4>1. r + m <= Len(Message)
          BY <1>3, <2>9
        <4> QED
          BY <1>4, <4>1, Cut
      <3> QED
        BY <2>8, <2>9, <3>1, <3>2, <3>3, <3>4, ConcatEmptySeq
    <2>14. ends'[i] > 0 => e = d
      <3>1. CASE b < r
        BY <1>5, <2>12, <3>1
      <3>2. CASE ~(b < r)
        <4>1. k = 0 /\ m = s
          BY <2>6, <2>9, <3>2
        <4>2. l - b = m
          BY <1>3, <2>2, <4>1
        <4>3. ~(l - b >= 5)
          BY <2>1, <4>2
        <4>4. p - m = d
          BY <2>4, <2>6, <4>1, <4>3
        <4>5. TextAt(d + 1) = "nl"
          <5>1. 1 \in 1..m
            BY <2>1
          <5>2. TextAt((p - m) + 1) = B[1]
            BY <1>2, <5>1 DEF Dashes
          <5> QED
            BY <1>7, <4>4, <5>2
        <4> QED
          BY <1>6, <4>5 DEF DataFromTo
      <3> QED
        BY <3>1, <3>2
    <2>15. m # Len(B) /\ ~(p < l)
      BY <1>7, <2>1, <2>2
    <2> QED
      BY <1>2, <1>3, <1>10, <2>2, <2>3, <2>8, <2>9, <2>12, <2>13, <2>14, <2>15
  <1>16. CASE Reader!PartEnds
    <2>1. Reader!Advance /\ m = c
      BY <1>2, <1>7, <1>16 DEF Reader!PartEnds, Reader!found
    <2>2. base' = p /\ scanned' = 0 /\ base' + scanned' = p /\ limit' = limit /\ base < limit
      BY <1>2, <2>1, Advances
    <2>3. p = e + c
      BY <1>2, <1>6, <1>7, <2>1, DashesFound
    <2>4. /\ received' = [received EXCEPT ![i] = received[i] \o Reader!First(s - c)]
          /\ ends' = [ends EXCEPT ![i] = ends[i] + 1]
          /\ match_counter' = 0 /\ boundary_buffer' = <<>>
          /\ header_buffer' = header_buffer /\ headers' = headers
      BY <1>1, <1>2, <1>3, <1>7, <1>16
      DEF Reader!PartEnds, Reader!Next_part, Reader!before_boundary
    <2>5. read_index' = i + 1 /\ need_header' = (i + 1 < num_parts)
      BY <1>1, <1>16 DEF Reader!PartEnds, Reader!Next_part
    <2>6. received[i] \o Reader!First(s - c) = BytesOf(i) /\ BytesOf(i) \in Seq(Symbol)
      <3>1. e - d \in Nat /\ d + (e - d) <= Len(Message)
        BY <1>3, <1>6, <1>7
      <3>2. BytesOf(i) \in Seq(Symbol)
        BY <1>4, <1>6, <3>1, Cut
      <3>3. CASE q = b
        <4>1. b <= e /\ s - c = e - b /\ b + (s - c) = e /\ e <= Len(Message)
          <5>1. b + c <= p
            BY <1>2, <2>1, <3>3
          <5>2. b <= e
            BY <2>3, <5>1
          <5>3. b + s = e + c
            BY <1>3, <2>3
          <5> QED
            BY <1>3, <1>7, <5>2, <5>3
        <4>2. Reader!First(s - c) = Slice(Message, b, e - b)
          BY <1>3, <4>1 DEF Reader!First, Slice, Expected
        <4>3. Join(Slice(Message, d, b - d), Slice(Message, b, e - b)) = Slice(Message, d, e - d)
          BY <1>4, <1>5, <4>1, SlicesJoin
        <4> QED
          BY <1>5, <1>6, <3>2, <3>3, <4>2, <4>3 DEF Join
      <3>4. CASE q # b
        <4>1. q + c = p /\ q = e /\ b + (s - c) < b + 1
          <5>1. q < b
            <6>1. q <= b
              BY <1>5
            <6> QED
              BY <3>4, <6>1
          <5>2. q + c = p
            BY <1>3, <2>1, <5>1
          <5>3. q = e
            BY <2>3, <5>2
          <5>4. b + s = e + c
            BY <1>3, <2>3
          <5> QED
            BY <5>1, <5>2, <5>3, <5>4
        <4>2. Reader!First(s - c) = <<>>
          <5>1. PICK y \in Int, z \in Int : y = b + 1 /\ z = b + (s - c) /\ z < y
            BY <4>1
          <5>2. SubSeq(Message, y, z) = <<>>
            BY <1>4, <5>1, SubSeqEmpty
          <5> QED
            BY <1>3, <5>1, <5>2 DEF Reader!First, Expected
        <4>3. received[i] = BytesOf(i)
          BY <1>5, <1>6, <4>1
        <4> QED
          BY <3>2, <4>2, <4>3, ConcatEmptySeq
      <3> QED
        BY <3>3, <3>4
    <2>7. received' = [received EXCEPT ![i] = BytesOf(i)]
      BY <2>4, <2>6
    <2>8. Given'
      <3>1. received' \in [Parts -> Seq(Symbol)] /\ received'[i] = BytesOf(i)
        BY <2>6, <2>7 DEF Given
      <3>2. ends \in [Parts -> Nat]
        BY DEF RInv, ReaderTypes, Parts, Reader!Indices
      <3>3. ends'[i] > 0
        BY <2>4, <3>2
      <3>4. \A j \in Parts : j # i => received'[j] = received[j] /\ ends'[j] = ends[j]
        BY <2>4, <2>7, <3>2 DEF Given
      <3> QED
        BY <1>1, <1>4, <2>5, <3>1, <3>3, <3>4, GivenGoesOn
    <2>9. HeadersGiven'
      BY <2>4, HeadersGivenStay DEF HeadersGiven
    <2>10. CASE i + 1 < num_parts
      <3>1. i + 1 \in Parts /\ HeadAt(i + 1) = p
        BY <1>7, <2>3, <2>10
      <3>2. PICK f \in Nat, g \in Nat : f = HeadAt(i + 1) /\ g = DataAt(i + 1) /\ HeadersAt(f, g)
        BY <3>1, PartExpected
      <3>3. f = p /\ p <= g
        BY <3>1, <3>2 DEF HeadersAt
      <3>4. Newlines(p, g, p, 0)
        BY <3>3 DEF Newlines
      <3>5. Newlines(p, g, p, 0)'
        BY <3>4, Stays
      <3>6. HeadersOn(p, g)'
        <4>1. need_header' /\ boundary_buffer' = <<>> /\ base' = p /\ match_counter' = 0
              /\ base' + scanned' = p
          BY <2>2, <2>4, <2>5, <2>10
        <4>2. p <= p /\ 0 # 2
          OBVIOUS
        <4> QED
          BY <3>5, <4>1, <4>2 DEF HeadersOn
      <3>7. p = HeadAt(i + 1)' /\ g = DataAt(i + 1)' /\ i + 1 \in Parts'
        BY <3>1, <3>2, <3>3, Stays
      <3>8. InHeaders'
        BY <2>5, <3>2, <3>6, <3>7 DEF InHeaders
      <3> QED
        BY <2>8, <2>9, <3>8 DEF Located
    <2>11. CASE i + 1 = num_parts
      <3>1. p = n /\ limit' = p
        BY <1>3, <1>7, <2>2, <2>3, <2>11
      <3>2. ~need_header' /\ read_index' = num_parts'
        <4>1. ~(num_parts < num_parts)
          BY DEF Expected
        <4> QED
          BY <1>8, <2>5, <2>11, <4>1
      <3>3. Over'
        BY <1>3, <1>8, <2>2, <3>1, <3>2 DEF Over
      <3> QED
        BY <2>8, <2>9, <3>3 DEF Located
    <2> QED
      BY <1>4, <2>10, <2>11 DEF Expected
  <1> QED
    BY <1>1, <1>4, <1>12, <1>13, <1>14, <1>15, <1>16
    DEF Reader!Next, Reader!HeaderGoesOn, Reader!HeaderEnds, Reader!PrefaceEnds

\* A reader that has a message before it
LEMMA Begins ==
  ASSUME Expected, Reader!Init
  PROVE  HeadersGiven /\ Given /\ Located
  <1>1. /\ received = [i \in Parts |-> <<>>] /\ ends = [i \in Parts |-> 0]
        /\ headers = [i \in Parts |-> <<>>]
        /\ header_buffer = <<>> /\ boundary_buffer = <<>>
        /\ read_index = -1 /\ need_header = FALSE /\ match_counter = 0
        /\ base = 0 /\ limit = 0 /\ scanned = 0
    BY DEF Reader!Init, Reader!Indices, Parts
  <1>2. <<>> \in Seq(Symbol) /\ <<>> \in Seq(HeaderSymbol)
    BY EmptySeq
  <1>3. HeadersGiven
    BY <1>1, <1>2 DEF HeadersGiven, HeadersOk
  <1>4. Given
    <2>1. \A i \in Parts : ~(i < -1) /\ Untold(i)
      BY <1>1 DEF Parts, Untold
    <2> QED
      BY <1>1, <1>2, <2>1 DEF Given
  <1>5. InPreface
    BY <1>1 DEF InPreface
  <1> QED
    BY <1>3, <1>4, <1>5 DEF Located

\* What stays as it is
LEMMA ReaderRests ==
  ASSUME PInv, UNCHANGED vars, UNCHANGED reader
  PROVE  PInv'
  <1>1. /\ read_index' = read_index /\ need_header' = need_header
        /\ match_counter' = match_counter /\ boundary_buffer' = boundary_buffer
        /\ header_buffer' = header_buffer /\ base' = base /\ limit' = limit
        /\ scanned' = scanned /\ read_result' = read_result
        /\ received' = received /\ ends' = ends /\ headers' = headers
    BY DEF reader
  <1>2. /\ message' = message /\ response' = response /\ Message' = Message
        /\ num_parts' = num_parts /\ Parts' = Parts
    BY Stays
  <1>3. CASE Reader!Init
    <2>1. Reader!Init'
      BY <1>1, <1>2, <1>3 DEF Reader!Init, Reader!Indices
    <2> QED
      BY <2>1 DEF PInv
  <1>4. CASE response # <<>> /\ HeadersGiven /\ Given /\ Located
    <2>1. HeadersGiven'
      BY <1>1, <1>4, HeadersGivenStay DEF HeadersGiven
    <2>2. Given'
      <3>1. \A i \in Parts : Told(i)' = Told(i) /\ Untold(i)' = Untold(i)
        <4>1. \A i : BytesOf(i)' = BytesOf(i)
          BY Stays
        <4> QED
          BY <1>1, <4>1 DEF Told, Untold
      <3> QED
        BY <1>1, <1>2, <1>4, <3>1 DEF Given
    <2>3. ASSUME InPreface PROVE InPreface'
      BY <1>1, <2>3 DEF InPreface
    <2>4. ASSUME InHeaders PROVE InHeaders'
      <3>1. PICK i \in Parts, h \in Nat, d \in Nat :
              read_index = i /\ h = HeadAt(i) /\ d = DataAt(i) /\ HeadersOn(h, d)
        BY <2>4 DEF InHeaders
      <3>2. HeadersOn(h, d)'
        <4>1. PICK p \in Nat, m \in Nat :
                p = base + scanned /\ m = match_counter /\ Newlines(h, d, p, m)
          BY <3>1 DEF HeadersOn
        <4>2. Newlines(h, d, p, m)'
          BY <4>1, Stays
        <4> QED
          BY <1>1, <3>1, <4>1, <4>2 DEF HeadersOn
      <3>3. HeadAt(i)' = HeadAt(i) /\ DataAt(i)' = DataAt(i)
        BY Stays
      <3> QED
        BY <1>1, <1>2, <3>1, <3>2, <3>3 DEF InHeaders
    <2>5. ASSUME InData PROVE InData'
      <3>1. PICK i \in Parts, d \in Nat, e \in Nat, q \in Nat :
              read_index = i /\ d = DataAt(i) /\ e = From(i + 1) /\ DataOn(i, d, e, q)
        BY <2>5 DEF InData
      <3>2. Behind(d, e, q)'
        <4>1. PICK B \in Signs, p \in Nat, m \in Nat :
                /\ B = Reader!boundary /\ p = base + scanned /\ m = match_counter
                /\ Dashes(B, d, e, p, m)
                /\ q + m <= p
                /\ q < base => q + m = p
                /\ m = Len(B) => scanned > 0
          BY <3>1 DEF DataOn, Behind
        <4>2. Dashes(B, d, e, p, m)'
          BY <4>1, Stays
        <4>3. B = Reader!boundary'
          BY <1>1, <1>2, <4>1 DEF Reader!boundary
        <4> QED
          BY <1>1, <4>1, <4>2, <4>3 DEF Behind
      <3>3. DataOn(i, d, e, q)'
        BY <1>1, <1>2, <3>1, <3>2 DEF DataOn, Slice
      <3>4. DataAt(i)' = DataAt(i) /\ From(i + 1)' = From(i + 1)
        BY Stays
      <3> QED
        BY <1>1, <1>2, <3>1, <3>3, <3>4 DEF InData
    <2>6. ASSUME Over PROVE Over'
      BY <1>1, <1>2, <2>6 DEF Over
    <2>7. Located'
      BY <1>4, <2>3, <2>4, <2>5, <2>6 DEF Located
    <2>8. response' # <<>>
      BY <1>2, <1>4
    <2> QED
      BY <2>1, <2>2, <2>7, <2>8 DEF PInv
  <1> QED
    BY <1>3, <1>4 DEF PInv

\* Nothing is read of a response that is not there.
LEMMA NothingToRead ==
  ASSUME Reader!Init, response = <<>>, Reader!Next
  PROVE  FALSE
  <1>1. base = 0 /\ limit = 0 /\ scanned = 0 /\ Len(response) = 0 /\ base + scanned = 0
    BY EmptySeq DEF Reader!Init
  <1>2. ~(0 < 0)
    OBVIOUS
  <1>3. ~Reader!scanning /\ ~(base < limit) /\ ~(base < Len(response))
    BY <1>1, <1>2 DEF Reader!scanning
  <1> QED
    BY <1>3 DEF Reader!Next, Reader!Chunk, Reader!ScanMatch, Reader!ScanMismatch, Reader!Advance,
    Reader!HeaderGoesOn, Reader!HeaderEnds, Reader!PrefaceEnds, Reader!PartEnds,
    Reader!PartialMatch, Reader!NoMatch

\* Every step of writer and reader keeps the reader's position in the message.
LEMMA PositionKept ==
  LongChunks /\ Recognised /\ WInv /\ Whole /\ RInv /\ PInv /\ [MultipartNext]_all_vars => PInv'
  <1> SUFFICES ASSUME LongChunks, Recognised, WInv, Whole, RInv, PInv, [MultipartNext]_all_vars
               PROVE  PInv'
    OBVIOUS
  <1>1. CASE Reading
    <2>1. UNCHANGED vars /\ Reader!Next
      BY <1>1 DEF Reading
    <2>2. response # <<>>
      BY <2>1, NothingToRead DEF PInv
    <2>3. Expected
      BY <2>2, ResponseExpected
    <2>4. HeadersGiven /\ Given /\ Located
      BY <2>3, Begins DEF PInv
    <2>5. HeadersGiven' /\ Given' /\ Located'
      BY <2>1, <2>3, <2>4, PrefaceStep, HeadersStep, DataStep, OverStep DEF Located
    <2>6. response' # <<>>
      BY <2>1, <2>2, Stays
    <2> QED
      BY <2>5, <2>6 DEF PInv
  <1>2. CASE UNCHANGED all_vars
    <2>1. UNCHANGED vars /\ UNCHANGED reader
      BY <1>2 DEF all_vars
    <2> QED
      BY <2>1, ReaderRests
  <1>3. CASE Writing(Next)
    <2>1. Next /\ UNCHANGED reader
      BY <1>3 DEF Writing
    <2>2. CASE pc = "ended"
      <3>1. UNCHANGED vars
        BY <2>1, <2>2
        DEF Next, Steps, Prepare, Call, CallBlock, CallUser, CallBlocks, PartCalled, BlocksCopy,
            BlocksReturn, PartGoesOn, PartEnds, PlainPartEnds, Return, PrepareFails,
            CallUserFails, BoundaryFails, Finished
      <3> QED
        BY <2>1, <3>1, ReaderRests
    <2>3. CASE pc # "ended"
      <3>1. message' = message
        BY <2>1
        DEF Next, Steps, Prepare, Call, CallBlock, CallUser, CallBlocks, PartCalled, BlocksCopy,
            BlocksReturn, PartGoesOn, PartEnds, PlainPartEnds, Return, PrepareFails,
            CallUserFails, BoundaryFails, Finished, vars
      <3>2. Reader!Init
        BY <2>3 DEF PInv, response
      <3>3. Reader!Init'
        BY <2>1, <3>1, <3>2 DEF Reader!Init, Reader!Indices, reader, num_parts
      <3> QED
        BY <3>3 DEF PInv
    <2> QED
      BY <2>2, <2>3
  <1> QED
    BY <1>1, <1>2, <1>3 DEF MultipartNext

\* A slice of a slice that starts where it does
LEMMA SlicePrefix ==
  ASSUME NEW S, NEW s \in Seq(S), NEW a \in Nat, NEW b \in Nat, NEW c \in Nat,
         a <= b, b <= c, c <= Len(s)
  PROVE  IsPrefix(Slice(s, a, b - a), Slice(s, a, c - a))
  <1>1. PICK m \in Nat, n \in Nat : m = b - a /\ n = c - a /\ m <= n
    <2>1. b - a \in Nat /\ c - a \in Nat /\ b - a <= c - a
      OBVIOUS
    <2> QED
      BY <2>1
  <1>2. PICK l \in Nat : l = Len(s) /\ a + m <= l /\ a + n <= l
    <2>1. PICK l \in Nat : l = Len(s)
      BY LenProperties
    <2> QED
      BY <1>1, <2>1
  <1>3. PICK x \in Seq(S) : x = Slice(s, a, m) /\ Len(x) = m
    BY <1>2, Cut
  <1>4. PICK y \in Seq(S) : y = Slice(s, a, n) /\ Len(y) = n
    BY <1>2, Cut
  <1>5. SubSeq(x, 1, m) = x
    <2>1. \A k \in 1..m : x[k] \in S
      BY <1>3, ElementOfSeq
    <2> QED
      BY <1>3
  <1>6. SubSeq(y, 1, m) = x
    <2>1. Slice(y, 0, m) = Slice(s, a + 0, m)
      BY <1>1, <1>2, <1>4, SliceOfSlice
    <2>2. 0 + 1 = 1 /\ 0 + m = m /\ a + 0 = a
      OBVIOUS
    <2> QED
      BY <1>3, <2>1, <2>2 DEF Slice
  <1> QED
    BY <1>1, <1>3, <1>4, <1>5, <1>6 DEF IsPrefix

\* What the current part was told
LEMMA CurrentPart ==
  ASSUME Expected, RInv, InData, NEW i \in Parts, read_index = i
  PROVE  /\ IsPrefix(received[i], BytesOf(i))
         /\ ends[i] > 0 => received[i] = BytesOf(i)
         /\ base < Len(Message)
  <1>1. PICK d \in Nat, e \in Nat, q \in Nat :
          d = DataAt(i) /\ e = From(i + 1) /\ DataOn(i, d, e, q)
    BY DEF InData
  <1>2. PICK B \in Signs, p \in Nat, m \in Nat :
          /\ B = Reader!boundary /\ p = base + scanned /\ m = match_counter
          /\ Dashes(B, d, e, p, m)
          /\ q + m <= p
          /\ m = Len(B) => scanned > 0
    BY <1>1 DEF DataOn, Behind
  <1>3. PICK b \in Nat, s \in Nat, n \in Nat :
          b = base /\ s = scanned /\ n = Len(Message) /\ p = b + s /\ p <= n
    <2>1. PICK b \in Nat, s \in Nat, l \in Nat, n \in Nat :
            /\ b = base /\ s = scanned /\ l = limit /\ n = Len(Message)
            /\ b + s <= l /\ l <= n
      BY ReaderIs
    <2>2. p = b + s
      BY <1>2, <2>1
    <2>3. p <= n
      BY <2>1, <2>2
    <2> QED
      BY <2>1, <2>2, <2>3
  <1>4. /\ d <= q /\ q <= b /\ received[i] = Slice(Message, d, q - d) /\ (ends[i] > 0 => e = d)
        /\ ~need_header
    BY <1>1, <1>3 DEF DataOn
  <1>5. d <= e /\ Slice(Message, d, e - d) = BytesOf(i)
    BY <1>1, PartExpected DEF DataFromTo
  <1>6. PICK c \in 4..5 : c = Len(B) /\ e + c <= n
    <2>1. PICK C \in Signs, f \in Nat :
            /\ C = Reader!boundary /\ f = From(i + 1) /\ Sign(C, f)
            /\ i + 1 < num_parts => f + Len(C) < Len(Message)
            /\ i + 1 = num_parts => f + Len(C) = Len(Message)
      BY <1>4, SignExpected
    <2>2. PICK c \in 4..5 : c = Len(B)
      BY <1>2, <2>1, SignIs
    <2>3. i + 1 < num_parts \/ i + 1 = num_parts
      BY DEF Parts, Expected
    <2>4. (i + 1 < num_parts => e + c < n) /\ (i + 1 = num_parts => e + c = n)
      BY <1>1, <1>2, <1>3, <2>1, <2>2
    <2>5. e + c <= n
      BY <2>3, <2>4
    <2> QED
      BY <2>2, <2>5
  <1>7. m <= c /\ (p > e => p = e + m)
    BY <1>2, <1>6 DEF Dashes
  <1>8. q <= e
    <2>1. q + m <= p
      BY <1>2
    <2> QED
      BY <1>7, <2>1
  <1>9. b < n
    <2> SUFFICES ASSUME b >= n PROVE FALSE
      OBVIOUS
    <2>1. p = n /\ s = 0 /\ p > e
      BY <1>3, <1>6
    <2>2. e + c <= e + m
      BY <1>6, <1>7, <2>1
    <2>3. m = c
      BY <1>7, <2>2
    <2> QED
      BY <1>2, <1>3, <1>6, <2>1, <2>3
  <1>10. IsPrefix(received[i], BytesOf(i))
    <2>1. Message \in Seq(Symbol) /\ e <= Len(Message)
      BY <1>3, <1>6 DEF Expected
    <2> QED
      BY <1>4, <1>5, <1>8, <2>1, SlicePrefix
  <1>11. ASSUME ends[i] > 0 PROVE received[i] = BytesOf(i)
    <2>1. e = d
      BY <1>4, <1>11
    <2>2. q = e
      BY <1>4, <1>8, <2>1
    <2> QED
      BY <1>4, <1>5, <2>2
  <1> QED
    BY <1>3, <1>9, <1>10, <1>11

\* A part that was told all, and one that was told nothing
LEMMA OtherPart ==
  ASSUME message \in Messages, NEW i \in Parts, Told(i) \/ Untold(i)
  PROVE  /\ IsPrefix(received[i], BytesOf(i))
         /\ ends[i] > 0 => received[i] = BytesOf(i)
  <1>1. PICK y \in Seq(Symbol), n \in Nat : y = BytesOf(i) /\ n = Len(y)
    <2>1. BytesOf(i) \in Seq(Symbol)
      BY BytesOfIs
    <2> QED
      BY <2>1, LenProperties
  <1>2. CASE Told(i)
    <2>1. IsPrefix(y, y)
      BY <1>1 DEF IsPrefix
    <2> QED
      BY <1>1, <1>2, <2>1 DEF Told
  <1>3. CASE Untold(i)
    <2>1. received[i] = <<>> /\ ~(ends[i] > 0)
      BY <1>3 DEF Untold
    <2>2. IsPrefix(<<>>, y)
      <3>1. Len(<<>>) = 0 /\ SubSeq(<<>>, 1, 0) = <<>>
        BY EmptySeq, SubSeqEmpty
      <3>2. SubSeq(y, 1, 0) = <<>>
        BY <1>1, SubSeqEmpty
      <3> QED
        BY <1>1, <3>1, <3>2 DEF IsPrefix
    <2> QED
      BY <1>1, <2>1, <2>2
  <1> QED
    BY <1>2, <1>3

\* There is more to come behind the headers of a part.
LEMMA HeadersAreNotLast ==
  ASSUME Expected, RInv, InHeaders
  PROVE  base < Len(Message)
  <1>1. PICK i \in Parts, h \in Nat, d \in Nat, p \in Nat, m \in Nat :
          d = DataAt(i) /\ p = base + scanned /\ Newlines(h, d, p, m)
    BY DEF InHeaders, HeadersOn
  <1>2. PICK b \in Nat, s \in Nat, n \in Nat :
          b = base /\ s = scanned /\ n = Len(Message) /\ p = b + s
    <2>1. PICK b \in Nat, s \in Nat, n \in Nat : b = base /\ s = scanned /\ n = Len(Message)
      BY ReaderIs
    <2> QED
      BY <1>1, <2>1
  <1>3. p <= d
    BY <1>1 DEF Newlines
  <1>4. PICK e \in Nat : e = From(i + 1) /\ d <= e
    BY <1>1, PartExpected DEF DataFromTo
  <1>5. CASE i + 1 = num_parts
    <2>1. n = e + 5
      BY <1>2, <1>4, <1>5, EndsOfMessage DEF Expected
    <2> QED
      BY <1>2, <1>3, <1>4, <2>1
  <1>6. CASE i + 1 # num_parts
    <2>1. i + 1 \in Parts
      BY <1>6 DEF Parts, Expected
    <2>2. PICK g \in Nat, x \in Nat, y \in Nat :
            g = HeadAt(i + 1) /\ HeadersAt(g, x) /\ DataFromTo(x, y) /\ y <= Len(Message)
      BY <2>1, PartExpected
    <2>3. g = e + 4
      BY <1>4, <2>2 DEF HeadAt
    <2>4. g + 3 <= x /\ x <= y
      BY <2>2 DEF HeadersAt, DataFromTo
    <2> QED
      BY <1>2, <1>3, <1>4, <2>2, <2>3, <2>4
  <1> QED
    BY <1>5, <1>6

\* Wherever the reader is in a message, each part has its own bytes and no others.
LEMMA ReceivedSoFar ==
  ASSUME Expected, RInv, HeadersGiven, Given, Located
  PROVE  /\ \A i \in Parts :
              /\ IsPrefix(received[i], BytesOf(i))
              /\ ends[i] > 0 => received[i] = BytesOf(i)
              /\ HeadersOk(i)
         /\ base = Len(Message) => \A i \in Parts : ends[i] > 0
  <1>1. message \in Messages /\ num_parts \in Nat \ {0}
    BY DEF Expected
  <1>2. ASSUME NEW i \in Parts
        PROVE  /\ IsPrefix(received[i], BytesOf(i))
               /\ ends[i] > 0 => received[i] = BytesOf(i)
    <2>1. CASE read_index = i /\ InData
      BY <2>1, CurrentPart
    <2>2. CASE Told(i) \/ Untold(i)
      BY <1>1, <2>2, OtherPart
    <2>3. read_index \in Int /\ i \in Int
      BY DEF RInv, ReaderTypes, Parts
    <2>4. CASE read_index # i
      <3>1. i < read_index \/ i > read_index
        BY <2>3, <2>4
      <3>2. Told(i) \/ Untold(i)
        BY <3>1 DEF Given
      <3> QED
        BY <2>2, <3>2
    <2>5. CASE read_index = i /\ ~InData
      <3>1. ~InPreface
        BY <2>5 DEF InPreface, Parts
      <3>2. ~Over
        <4>1. i # num_parts
          BY <1>1 DEF Parts
        <4> QED
          BY <2>5, <4>1 DEF Over
      <3>3. need_header
        BY <2>5, <3>1, <3>2 DEF Located, InHeaders, HeadersOn
      <3>4. Untold(i)
        BY <2>5, <3>3 DEF Given
      <3> QED
        BY <2>2, <3>4
    <2> QED
      BY <2>1, <2>4, <2>5
  <1>3. ASSUME base = Len(Message), NEW i \in Parts PROVE ends[i] > 0
    <2>1. PICK n \in Nat : n = Len(Message) /\ ~(n < n)
      BY ReaderIs
    <2>2. ~InHeaders
      BY <1>3, <2>1, HeadersAreNotLast
    <2>3. ~InData
      <3> SUFFICES ASSUME InData PROVE FALSE
        OBVIOUS
      <3>1. PICK j \in Parts : read_index = j
        BY DEF InData
      <3> QED
        BY <1>3, <2>1, <3>1, CurrentPart
    <2>4. ~InPreface
      <3>1. Len(Message) = From(num_parts) + 5 /\ From(num_parts) \in Nat
        BY EndsOfMessage DEF Expected
      <3>2. Len(Message) # 0
        BY <3>1
      <3> QED
        BY <1>3, <3>2 DEF InPreface
    <2>5. i < read_index
      BY <1>1, <2>2, <2>3, <2>4 DEF Located, Over, Parts
    <2> QED
      BY <2>5 DEF Given, Told
  <1> QED
    BY <1>2, <1>3 DEF HeadersGiven

\* So the parts were given what they should, whether or not there is a response.
LEMMA PositionReceived == Recognised /\ WInv /\ Whole /\ RInv /\ PInv => PartsReceived
  <1> SUFFICES ASSUME Recognised, WInv, Whole, RInv, PInv
               PROVE  PartsReceived
    OBVIOUS
  <1>1. Reader!Indices = Parts /\ message \in Messages
    BY DEF Reader!Indices, Parts, WInv, Types
  <1>2. CASE response = <<>>
    <2>1. Reader!Init
      BY <1>2 DEF PInv
    <2>2. ASSUME NEW i \in Parts PROVE Untold(i) /\ headers[i] = <<>>
      BY <1>1, <2>1 DEF Reader!Init, Untold
    <2>3. ASSUME NEW i \in Parts
          PROVE  /\ IsPrefix(received[i], BytesOf(i))
                 /\ ends[i] > 0 => received[i] = BytesOf(i)
      BY <1>1, <2>2, OtherPart
    <2> QED
      BY <1>1, <1>2, <2>2, <2>3 DEF PartsReceived
  <1>3. CASE response # <<>>
    <2>1. Expected
      BY <1>3, ResponseExpected
    <2>2. HeadersGiven /\ Given /\ Located
      BY <2>1, Begins DEF PInv
    <2>3. response = Message
      BY <2>1 DEF Expected
    <2>4. /\ \A i \in Parts :
               /\ IsPrefix(received[i], BytesOf(i))
               /\ ends[i] > 0 => received[i] = BytesOf(i)
               /\ HeadersOk(i)
          /\ base = Len(Message) => \A i \in Parts : ends[i] > 0
      BY <2>1, <2>2, ReceivedSoFar
    <2> QED
      BY <1>1, <2>3, <2>4 DEF PartsReceived, HeadersOk, Reader!over
  <1> QED
    BY <1>2, <1>3

\* If libcurl gives chunks that are not shorter than a boundary, and the parts have headers and
\* data that does not begin with CR LF, then however the message is cut on its way out and on
\* its way in, each part is given its own bytes in order, is told of the end only when it has
\* all of them, and all are told when the message ends.
THEOREM PartsReceivedHolds == LongChunks /\ Recognised => (MultipartSpec => []PartsReceived)
  <1> SUFFICES ASSUME LongChunks, Recognised PROVE MultipartSpec => []PartsReceived
    OBVIOUS
  <1>1. MultipartSpec => [](WInv /\ Whole)
    BY MultipartWrites, WriterInvariant, PTL
  <1>2. MultipartInit /\ WInv /\ Whole => RInv /\ PInv
    BY ReaderStarts DEF MultipartInit, PInv
  <1>3. WInv /\ Whole /\ WInv' /\ Whole' /\ RInv /\ [MultipartNext]_all_vars => RInv'
    BY ReaderStep
  <1>4. WInv /\ Whole /\ RInv /\ PInv /\ [MultipartNext]_all_vars => PInv'
    BY PositionKept
  <1>5. WInv /\ Whole /\ RInv /\ PInv => PartsReceived
    BY PositionReceived
  <1> QED
    BY <1>1, <1>2, <1>3, <1>4, <1>5, PTL DEF MultipartSpec
=============================================================================
