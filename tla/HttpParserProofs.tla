-------------------------- MODULE HttpParserProofs --------------------------
(***************************************************************************)
(* Proofs about HttpParser for any streams and any way to cut them.  The     *)
(* loops of feed, parse_query_string and url_decode are functions of the     *)
(* number of turns done, and what they come to is proved by induction on it. *)
(***************************************************************************)
EXTENDS HttpParser, InductionLemmas, SequenceTheorems

Text == Seq(STRING)

-----------------------------------------------------------------------------
(* Numbers and sequences                                                     *)

\* The least of a set of numbers, and the greatest of a bounded one.
LEMMA MinFacts ==
  ASSUME NEW T, T \subseteq Nat, T # {}
  PROVE  Min(T) \in T /\ \A m \in T : Min(T) <= m
<1>1. PICK n \in T : \A m \in T : n <= m BY LeastNumber
<1>2. QED BY <1>1 DEF Min

\* Likewise for the greatest element of a set of numbers with a bound.
LEMMA MaxFacts ==
  ASSUME NEW T, NEW b \in Nat, T \subseteq 0..b, T # {}
  PROVE  Max(T) \in T /\ \A m \in T : m <= Max(T)
<1> DEFINE D == {b - m : m \in T}
<1>1. D \subseteq Nat /\ D # {}
  <2>1. \A m \in T : b - m \in Nat OBVIOUS
  <2>2. QED BY <2>1
<1>2. PICK d \in D : \A m \in D : d <= m BY <1>1, LeastNumber
<1>3. PICK n \in T : d = b - n BY <1>2
<1>4. \A m \in T : m <= n
  <2> SUFFICES ASSUME NEW m \in T PROVE m <= n OBVIOUS
  <2>1. b - n <= b - m BY <1>2, <1>3
  <2>2. n \in Nat /\ m \in Nat OBVIOUS
  <2>3. QED BY <2>1, <2>2
<1>5. n \in T /\ \A m \in T : n >= m BY <1>4
<1>6. \A m \in T : m \in Nat OBVIOUS
<1>7. Max(T) \in T /\ \A m \in T : Max(T) >= m BY <1>5 DEF Max
<1>8. QED BY <1>6, <1>7

\* A piece of a text.
LEMMA PieceFacts ==
  ASSUME NEW x \in Text, NEW m \in Nat, NEW n \in Nat, m >= 1, n <= Len(x)
  PROVE  /\ SubSeq(x, m, n) \in Text
         /\ Len(SubSeq(x, m, n)) = IF m <= n THEN n - m + 1 ELSE 0
         /\ \A i \in 1..Len(SubSeq(x, m, n)) : SubSeq(x, m, n)[i] = x[m + i - 1]
<1>1. Len(x) \in Nat BY LenProperties DEF Text
<1>2. \A i \in m..n : x[i] \in STRING
  <2> SUFFICES ASSUME NEW i \in m..n PROVE x[i] \in STRING OBVIOUS
  <2>1. i \in 1..Len(x) BY <1>1
  <2>2. QED BY <2>1, ElementOfSeq DEF Text
<1>3. m \in Int /\ n \in Int OBVIOUS
<1>4. /\ SubSeq(x, m, n) \in Seq(STRING)
      /\ Len(SubSeq(x, m, n)) = IF m <= n THEN n - m + 1 ELSE 0
      /\ \A i \in 1..(n - m + 1) : SubSeq(x, m, n)[i] = x[m + i - 1]
  BY <1>2, <1>3, SubSeqProperties
<1>5. \A i \in 1..Len(SubSeq(x, m, n)) : i \in 1..(n - m + 1) BY <1>4
<1>6. QED BY <1>4, <1>5 DEF Text

\* Two texts with the same tokens.
LEMMA SameText ==
  ASSUME NEW x \in Text, NEW y \in Text, Len(x) = Len(y), \A i \in 1..Len(x) : x[i] = y[i]
  PROVE  x = y
BY SeqEqual DEF Text

\* Two texts one after the other.
LEMMA JoinFacts ==
  ASSUME NEW x \in Text, NEW z \in Text
  PROVE  /\ x \o z \in Text /\ Len(x) \in Nat /\ Len(z) \in Nat
         /\ Len(x \o z) = Len(x) + Len(z)
         /\ \A i \in 1..Len(x) : (x \o z)[i] = x[i]
         /\ \A i \in 1..Len(z) : (x \o z)[Len(x) + i] = z[i]
<1>1. Len(x) \in Nat /\ Len(z) \in Nat BY LenProperties DEF Text
<1>2. /\ x \o z \in Text /\ Len(x \o z) = Len(x) + Len(z)
      /\ \A i \in 1..(Len(x) + Len(z)) : (x \o z)[i] = IF i <= Len(x) THEN x[i] ELSE z[i - Len(x)]
  BY ConcatProperties DEF Text
<1>3. \A i \in 1..Len(x) : i \in 1..(Len(x) + Len(z)) BY <1>1
<1>4. \A i \in 1..Len(z) : /\ Len(x) + i \in 1..(Len(x) + Len(z)) /\ ~(Len(x) + i <= Len(x))
                           /\ (Len(x) + i) - Len(x) = i
  BY <1>1
<1>5. QED BY <1>1, <1>2, <1>3, <1>4

\* Cutting a text in two.
LEMMA CutFacts ==
  ASSUME NEW x \in Text, NEW n \in 0..Len(x)
  PROVE  /\ SubSeq(x, 1, n) \in Text /\ From(x, n + 1) \in Text
         /\ x = SubSeq(x, 1, n) \o From(x, n + 1)
         /\ Len(SubSeq(x, 1, n)) = n /\ Len(From(x, n + 1)) = Len(x) - n
<1>1. Len(x) \in Nat /\ n \in Nat BY LenProperties DEF Text
<1> DEFINE a == SubSeq(x, 1, n)
           b == SubSeq(x, n + 1, Len(x))
<1>2. a \in Text /\ Len(a) = n /\ \A i \in 1..Len(a) : a[i] = x[i]
  <2>1. /\ a \in Text /\ Len(a) = (IF 1 <= n THEN n - 1 + 1 ELSE 0)
        /\ \A i \in 1..Len(a) : a[i] = x[1 + i - 1]
    BY <1>1, PieceFacts
  <2>2. \A i \in 1..Len(a) : 1 + i - 1 = i OBVIOUS
  <2>3. QED BY <1>1, <2>1, <2>2
<1>3. b \in Text /\ Len(b) = Len(x) - n /\ \A i \in 1..Len(b) : b[i] = x[n + i]
  <2>1. n + 1 \in Nat /\ n + 1 >= 1 /\ Len(x) <= Len(x) BY <1>1
  <2>2. /\ b \in Text /\ Len(b) = (IF n + 1 <= Len(x) THEN Len(x) - (n + 1) + 1 ELSE 0)
        /\ \A i \in 1..Len(b) : b[i] = x[n + 1 + i - 1]
    BY <1>1, <2>1, PieceFacts
  <2> HIDE DEF b
  <2>3. Len(b) = Len(x) - n BY <1>1, <2>2
  <2>4. \A i \in 1..Len(b) : n + 1 + i - 1 = n + i BY <1>1, <2>3
  <2>5. QED BY <2>2, <2>3, <2>4
<1> HIDE DEF a, b
<1>4. /\ a \o b \in Text /\ Len(a \o b) = Len(x)
      /\ \A i \in 1..Len(a) : (a \o b)[i] = a[i]
      /\ \A i \in 1..Len(b) : (a \o b)[Len(a) + i] = b[i]
  <2>1. a \in Text /\ b \in Text BY <1>2, <1>3
  <2>2. /\ a \o b \in Text /\ Len(a \o b) = Len(a) + Len(b)
        /\ \A i \in 1..Len(a) : (a \o b)[i] = a[i]
        /\ \A i \in 1..Len(b) : (a \o b)[Len(a) + i] = b[i]
    BY <2>1, JoinFacts
  <2>3. Len(a) + Len(b) = Len(x) BY <1>1, <1>2, <1>3
  <2>4. QED BY <2>2, <2>3
<1>5. \A i \in 1..Len(x) : (a \o b)[i] = x[i]
  <2> SUFFICES ASSUME NEW i \in 1..Len(x) PROVE (a \o b)[i] = x[i] OBVIOUS
  <2>1. CASE i <= n
    <3>1. i \in 1..Len(a) BY <1>2, <2>1
    <3>2. QED BY <1>2, <1>4, <3>1
  <2>2. CASE ~(i <= n)
    <3>1. i - n \in 1..Len(b) /\ Len(a) + (i - n) = i BY <1>1, <1>2, <1>3, <2>2
    <3>2. (a \o b)[Len(a) + (i - n)] = b[i - n] /\ b[i - n] = x[n + (i - n)] BY <1>3, <1>4, <3>1
    <3>3. n + (i - n) = i BY <1>1
    <3>4. QED BY <3>1, <3>2, <3>3
  <2>3. QED BY <2>1, <2>2
<1>6. x = a \o b BY <1>4, <1>5, SameText
<1>7. QED BY <1>2, <1>3, <1>6 DEF a, b, From


\* A text that three others make up.
LEMMA JoinThree ==
  ASSUME NEW x \in Text, NEW y \in Text, NEW z \in Text
  PROVE  (x \o y) \o z = x \o (y \o z)
BY ConcatAssociative DEF Text

-----------------------------------------------------------------------------
(* Lines                                                                     *)

\* The places of CRLF in a text are places of the text, and there is a first one.
LEMMA EndsType ==
  ASSUME NEW x \in Text
  PROVE  /\ Len(x) \in Nat /\ Ends(x) \subseteq 1..(Len(x) - 1) /\ Ends(x) \subseteq Nat
         /\ Ends(x) # {} => Min(Ends(x)) \in Ends(x) /\ \A e \in Ends(x) : Min(Ends(x)) <= e
<1>1. Len(x) \in Nat /\ Ends(x) \subseteq 1..(Len(x) - 1) BY LenProperties DEF Text, Ends
<1>2. Ends(x) \subseteq Nat BY <1>1
<1>3. QED BY <1>1, <1>2, MinFacts

\* The ends of lines of a text are those of every text that begins with it.
LEMMA EndsOfLonger ==
  ASSUME NEW x \in Text, NEW z \in Text, NEW e \in 1..(Len(x) - 1)
  PROVE  e \in Ends(x \o z) <=> e \in Ends(x)
<1>1. /\ Len(x) \in Nat /\ Len(z) \in Nat /\ Len(x \o z) = Len(x) + Len(z)
      /\ \A i \in 1..Len(x) : (x \o z)[i] = x[i]
  BY JoinFacts
<1>2. e \in 1..Len(x) /\ e + 1 \in 1..Len(x) /\ e \in 1..(Len(x \o z) - 1) BY <1>1
<1>3. QED BY <1>1, <1>2 DEF Ends

\* Where the line that ends at e begins.
Earlier(x, e) == {1} \cup {i + 2 : i \in {j \in Ends(x) : j < e}}
\* The line begins at one place, the greatest of the candidates.
LEMMA BeginFacts ==
  ASSUME NEW x \in Text, NEW e \in Nat
  PROVE  /\ Max(Earlier(x, e)) \in Nat /\ Max(Earlier(x, e)) >= 1
         /\ \A m \in Earlier(x, e) : m <= Max(Earlier(x, e))
         /\ Max(Earlier(x, e)) \in Earlier(x, e)
<1>1. \A i \in Ends(x) : i \in Nat /\ i >= 1 BY EndsType
<1>2. Earlier(x, e) \subseteq 0..(e + 2) /\ Earlier(x, e) # {} /\ e + 2 \in Nat
  <2>1. \A i \in {j \in Ends(x) : j < e} : i + 2 \in 0..(e + 2) BY <1>1
  <2>2. 1 \in 0..(e + 2) OBVIOUS
  <2>3. QED BY <2>1, <2>2 DEF Earlier
<1>3. Max(Earlier(x, e)) \in Earlier(x, e) /\ \A m \in Earlier(x, e) : m <= Max(Earlier(x, e))
  BY <1>2, MaxFacts
<1>4. \A m \in Earlier(x, e) : m \in Nat /\ m >= 1 BY <1>1 DEF Earlier
<1>5. QED BY <1>3, <1>4

\* So are its lines.
LEMMA LineOfLonger ==
  ASSUME NEW x \in Text, NEW z \in Text, NEW e \in Ends(x)
  PROVE  Line(x \o z, e) = Line(x, e)
<1>1. /\ Len(x) \in Nat /\ Len(z) \in Nat /\ Len(x \o z) = Len(x) + Len(z) /\ x \o z \in Text
      /\ \A i \in 1..Len(x) : (x \o z)[i] = x[i]
  BY JoinFacts
<1>2. e \in 1..(Len(x) - 1) /\ e \in Nat BY EndsType
<1>3. {j \in Ends(x \o z) : j < e} = {j \in Ends(x) : j < e}
  <2>1. ASSUME NEW j, j < e, j \in Ends(x \o z) \/ j \in Ends(x) PROVE j \in 1..(Len(x) - 1)
    <3>1. j \in Nat /\ j >= 1 BY <1>1, <2>1, EndsType
    <3>2. QED BY <1>1, <1>2, <2>1, <3>1
  <2>2. QED BY <2>1, EndsOfLonger
<1>4. Earlier(x \o z, e) = Earlier(x, e) BY <1>3 DEF Earlier
<1> DEFINE b == Max(Earlier(x, e))
<1>5. b \in Nat /\ b >= 1 BY <1>2, BeginFacts
<1>6. Line(x \o z, e) = SubSeq(x \o z, b, e - 1) /\ Line(x, e) = SubSeq(x, b, e - 1)
  BY <1>4 DEF Line, Earlier
<1> HIDE DEF b
<1>7. e - 1 \in Nat /\ e - 1 <= Len(x) /\ e - 1 <= Len(x \o z) BY <1>1, <1>2
<1> DEFINE s == SubSeq(x \o z, b, e - 1)
           t == SubSeq(x, b, e - 1)
<1>8. /\ s \in Text /\ Len(s) = (IF b <= e - 1 THEN e - 1 - b + 1 ELSE 0)
      /\ \A i \in 1..Len(s) : s[i] = (x \o z)[b + i - 1]
  <2> DEFINE y == x \o z
             m == e - 1
  <2>1. y \in Text /\ m \in Nat /\ m <= Len(y) BY <1>1, <1>7
  <2> HIDE DEF y, m
  <2>2. /\ SubSeq(y, b, m) \in Text
        /\ Len(SubSeq(y, b, m)) = (IF b <= m THEN m - b + 1 ELSE 0)
        /\ \A i \in 1..Len(SubSeq(y, b, m)) : SubSeq(y, b, m)[i] = y[b + i - 1]
    BY <1>5, <2>1, PieceFacts
  <2>3. QED BY <2>2 DEF y, m
<1>9. /\ t \in Text /\ Len(t) = (IF b <= e - 1 THEN e - 1 - b + 1 ELSE 0)
      /\ \A i \in 1..Len(t) : t[i] = x[b + i - 1]
  BY <1>1, <1>5, <1>7, PieceFacts
<1> HIDE DEF s, t
<1>10. \A i \in 1..Len(s) : b + i - 1 \in 1..Len(x) BY <1>1, <1>5, <1>7, <1>8
<1>11. \A i \in 1..Len(s) : s[i] = t[i] BY <1>1, <1>8, <1>9, <1>10
<1>12. s = t BY <1>8, <1>9, <1>11, SameText
<1>13. QED BY <1>6, <1>12 DEF s, t

\* A text that ends where a line begins: no end of a line lies across its own end.
Whole(x) == x = <<>> \/ Len(x) - 1 \in Ends(x)
\* After such a text more text adds only its own ends of lines.
LEMMA EndsOfJoin ==
  ASSUME NEW x \in Text, NEW z \in Text, Whole(x)
  PROVE  Ends(x \o z) = Ends(x) \cup {Len(x) + i : i \in Ends(z)}
<1>1. /\ Len(x) \in Nat /\ Len(z) \in Nat /\ Len(x \o z) = Len(x) + Len(z) /\ x \o z \in Text
      /\ \A i \in 1..Len(x) : (x \o z)[i] = x[i]
      /\ \A i \in 1..Len(z) : (x \o z)[Len(x) + i] = z[i]
  BY JoinFacts
<1>2. ASSUME NEW e \in Ends(x \o z) PROVE e \in Ends(x) \cup {Len(x) + i : i \in Ends(z)}
  <2>1. e \in 1..(Len(x) + Len(z) - 1) /\ (x \o z)[e] = "CR" /\ (x \o z)[e + 1] = "LF"
    BY <1>1, <1>2 DEF Ends
  <2>2. CASE e <= Len(x) - 1
    <3>1. e \in 1..(Len(x) - 1) BY <1>1, <2>1, <2>2
    <3>2. QED BY <1>2, <3>1, EndsOfLonger
  <2>3. CASE e = Len(x)
    <3>1. x # <<>> /\ Len(x) - 1 \in Ends(x)
      <4>1. Len(<<>>) = 0 OBVIOUS
      <4>2. QED BY <2>1, <2>3, <4>1 DEF Whole
    <3>2. x[Len(x)] = "LF"
      <4>1. (Len(x) - 1) + 1 = Len(x) BY <1>1
      <4>2. QED BY <3>1, <4>1 DEF Ends
    <3>3. x[Len(x)] = "CR" BY <1>1, <2>1, <2>3
    <3>4. QED BY <3>2, <3>3
  <2>4. CASE e > Len(x)
    <3> DEFINE i == e - Len(x)
    <3>1. /\ i \in 1..(Len(z) - 1) /\ i \in 1..Len(z) /\ i + 1 \in 1..Len(z)
          /\ Len(x) + i = e /\ Len(x) + (i + 1) = e + 1
      BY <1>1, <2>1, <2>4
    <3> HIDE DEF i
    <3>2. z[i] = "CR" /\ z[i + 1] = "LF" BY <1>1, <2>1, <3>1
    <3>3. i \in Ends(z) BY <3>1, <3>2 DEF Ends
    <3>4. QED BY <3>1, <3>3
  <2>5. QED BY <1>1, <2>1, <2>2, <2>3, <2>4
<1>3. ASSUME NEW e \in Ends(x) PROVE e \in Ends(x \o z)
  <2>1. e \in 1..(Len(x) - 1) BY EndsType
  <2>2. QED BY <2>1, EndsOfLonger
<1>4. ASSUME NEW i \in Ends(z) PROVE Len(x) + i \in Ends(x \o z)
  <2>1. i \in 1..(Len(z) - 1) /\ z[i] = "CR" /\ z[i + 1] = "LF" BY DEF Ends
  <2>2. /\ Len(x) + i \in 1..(Len(x \o z) - 1) /\ i \in 1..Len(z) /\ i + 1 \in 1..Len(z)
        /\ Len(x) + (i + 1) = (Len(x) + i) + 1
    BY <1>1, <2>1
  <2>3. (x \o z)[Len(x) + i] = "CR" /\ (x \o z)[(Len(x) + i) + 1] = "LF" BY <1>1, <2>1, <2>2
  <2>4. QED BY <2>2, <2>3 DEF Ends
<1>5. QED BY <1>2, <1>3, <1>4

\* The line that comes after a text of whole lines.
LEMMA NextLine ==
  ASSUME NEW x \in Text, NEW z \in Text, Whole(x), Ends(z) # {}
  PROVE  /\ Line(x \o z, Len(x) + Min(Ends(z))) = SubSeq(z, 1, Min(Ends(z)) - 1)
         /\ Len(x) + Min(Ends(z)) \in Ends(x \o z)
<1> DEFINE i == Min(Ends(z))
           e == Len(x) + i
           b == Max(Earlier(x \o z, e))
<1>1. /\ Len(x) \in Nat /\ Len(z) \in Nat /\ Len(x \o z) = Len(x) + Len(z) /\ x \o z \in Text
      /\ \A k \in 1..Len(z) : (x \o z)[Len(x) + k] = z[k]
  BY JoinFacts
<1>2. i \in Ends(z) /\ i \in 1..(Len(z) - 1) /\ \A k \in Ends(z) : i <= k BY EndsType
<1>3. Ends(x \o z) = Ends(x) \cup {Len(x) + k : k \in Ends(z)} BY EndsOfJoin
<1>4. e \in Ends(x \o z) BY <1>2, <1>3
<1>5. e \in Nat BY <1>1, <1>2
<1> HIDE DEF i
<1>6. b = Len(x) + 1
  <2>1. b \in Earlier(x \o z, e) /\ \A m \in Earlier(x \o z, e) : m <= b
    BY <1>1, <1>5, BeginFacts
  <2>2. \A j \in Ends(x) : j \in Nat /\ j <= Len(x) - 1 BY EndsType
  <2>3. ASSUME NEW j \in Ends(x \o z), j < e PROVE j \in Ends(x)
    <3>1. SUFFICES ASSUME NEW k \in Ends(z), j = Len(x) + k PROVE FALSE BY <1>3
    <3>2. k \in Nat /\ i <= k BY <1>2, EndsType
    <3>3. QED BY <1>1, <1>2, <2>3, <3>1, <3>2
  <2>4. \A m \in Earlier(x \o z, e) : m <= Len(x) + 1
    <3>1. \A j \in {k \in Ends(x \o z) : k < e} : j + 2 <= Len(x) + 1 BY <1>1, <2>2, <2>3
    <3>2. QED BY <1>1, <3>1 DEF Earlier
  <2>5. Len(x) + 1 \in Earlier(x \o z, e)
    <3>1. CASE x = <<>>
      <4>1. Len(x) = 0 BY <3>1
      <4>2. QED BY <4>1 DEF Earlier
    <3>2. CASE Len(x) - 1 \in Ends(x)
      <4>1. Len(x) - 1 \in Ends(x \o z) /\ Len(x) - 1 < e BY <1>1, <1>2, <1>3, <3>2
      <4>2. (Len(x) - 1) + 2 = Len(x) + 1 BY <1>1
      <4>3. QED BY <4>1, <4>2 DEF Earlier
    <3>3. QED BY <3>1, <3>2 DEF Whole
  <2>6. b \in Nat BY <1>1, <1>5, BeginFacts
  <2> HIDE DEF b
  <2>7. b <= Len(x) + 1 /\ Len(x) + 1 <= b BY <2>1, <2>4, <2>5
  <2>8. QED BY <1>1, <2>6, <2>7
<1>7. Line(x \o z, e) = SubSeq(x \o z, Len(x) + 1, e - 1) BY <1>6 DEF Line, Earlier
<1> HIDE DEF b
<1> DEFINE s == SubSeq(x \o z, Len(x) + 1, e - 1)
           t == SubSeq(z, 1, i - 1)
<1>8. /\ Len(x) + 1 \in Nat /\ Len(x) + 1 >= 1 /\ e - 1 \in Nat /\ e - 1 <= Len(x \o z)
      /\ i - 1 \in Nat /\ i - 1 <= Len(z)
  BY <1>1, <1>2
<1>9. /\ s \in Text
      /\ Len(s) = (IF Len(x) + 1 <= e - 1 THEN e - 1 - (Len(x) + 1) + 1 ELSE 0)
      /\ \A k \in 1..Len(s) : s[k] = (x \o z)[Len(x) + 1 + k - 1]
  BY <1>1, <1>8, PieceFacts
<1>10. /\ t \in Text /\ Len(t) = (IF 1 <= i - 1 THEN i - 1 - 1 + 1 ELSE 0)
       /\ \A k \in 1..Len(t) : t[k] = z[1 + k - 1]
  BY <1>1, <1>8, PieceFacts
<1> HIDE DEF s, t
<1>11. Len(s) = i - 1 /\ Len(t) = i - 1 BY <1>1, <1>2, <1>9, <1>10
<1>12. ASSUME NEW k \in 1..Len(s) PROVE s[k] = t[k]
  <2>1. /\ Len(x) + 1 + k - 1 = Len(x) + k /\ 1 + k - 1 = k /\ k \in 1..Len(z)
        /\ k \in 1..Len(t)
    BY <1>1, <1>2, <1>11
  <2>2. s[k] = (x \o z)[Len(x) + k] /\ t[k] = z[k] BY <1>9, <1>10, <2>1
  <2>3. QED BY <1>1, <2>1, <2>2
<1>13. s = t BY <1>9, <1>10, <1>11, <1>12, SameText
<1>14. QED BY <1>4, <1>7, <1>13 DEF i, s, t


-----------------------------------------------------------------------------
(* Headers                                                                   *)

\* The last of each name, when another place comes after all the others.
LEMMA LastGrows ==
  ASSUME NEW at \in SUBSET Nat, NEW e \in Nat, \A i \in at : i < e,
         NEW name, NEW value, NEW name2, NEW value2,
         \A i \in at : name2[i] = name[i] /\ value2[i] = value[i]
  PROVE  LastOfEach(at \cup {e}, name2, value2)
           = With(LastOfEach(at, name, value), name2[e], value2[e])
<1> DEFINE at2 == at \cup {e}
           Of(n) == {i \in at : name[i] = n}
           Of2(n) == {i \in at2 : name2[i] = n}
           D == {name[i] : i \in at}
           D2 == {name2[i] : i \in at2}
           f == LastOfEach(at, name, value)
           f2 == LastOfEach(at2, name2, value2)
           g == With(f, name2[e], value2[e])
<1>1. f = [n \in D |-> value[Max(Of(n))]] /\ f2 = [n \in D2 |-> value2[Max(Of2(n))]]
  BY DEF LastOfEach
<1>2. D2 = {name2[e]} \cup D OBVIOUS
<1>3. Max(Of2(name2[e])) = e
  <2> DEFINE T == Of2(name2[e])
  <2>1. e \in T /\ T \subseteq 0..e /\ T # {}
    <3>1. \A i \in at2 : i \in 0..e OBVIOUS
    <3>2. e \in T OBVIOUS
    <3>3. QED BY <3>1, <3>2
  <2> HIDE DEF T
  <2>2. Max(T) \in T /\ \A m \in T : m <= Max(T) BY <2>1, MaxFacts
  <2>3. Max(T) \in 0..e /\ e <= Max(T) BY <2>1, <2>2
  <2>4. QED BY <2>3 DEF T
<1>4. ASSUME NEW n \in D, n # name2[e] PROVE value2[Max(Of2(n))] = value[Max(Of(n))]
  <2>1. Of2(n) = Of(n) BY <1>4
  <2> DEFINE T == Of(n)
  <2>2. T # {} /\ T \subseteq 0..e /\ T \subseteq at
    <3>1. \A i \in at : i \in 0..e OBVIOUS
    <3>2. PICK i \in at : n = name[i] OBVIOUS
    <3>3. i \in T BY <3>2
    <3>4. QED BY <3>1, <3>3
  <2> HIDE DEF T
  <2>3. Max(T) \in T BY <2>2, MaxFacts
  <2>4. Max(T) \in at BY <2>2, <2>3
  <2>5. value2[Max(T)] = value[Max(T)] BY <2>4
  <2>6. QED BY <2>1, <2>5 DEF T
<1>5. g = [n \in {name2[e]} \cup D |-> IF n = name2[e] THEN value2[e] ELSE f[n]]
  <2>1. DOMAIN f = D BY <1>1
  <2> HIDE DEF f, D, D2, Of, Of2
  <2>2. QED BY <2>1 DEF With
<1>6. \A n \in D2 : f2[n] = IF n = name2[e] THEN value2[e] ELSE f[n]
  <2> SUFFICES ASSUME NEW n \in D2 PROVE f2[n] = IF n = name2[e] THEN value2[e] ELSE f[n]
    OBVIOUS
  <2>1. f2[n] = value2[Max(Of2(n))] BY <1>1
  <2>2. CASE n = name2[e] BY <1>3, <2>1, <2>2
  <2>3. CASE n # name2[e]
    <3>1. n \in D BY <1>2, <2>3
    <3>2. f[n] = value[Max(Of(n))] BY <1>1, <3>1
    <3>3. value2[Max(Of2(n))] = value[Max(Of(n))] BY <1>4, <2>3, <3>1
    <3>4. QED BY <2>1, <2>3, <3>2, <3>3
  <2>4. QED BY <2>2, <2>3
<1>7. f2 = [n \in D2 |-> f2[n]] BY <1>1
<1> HIDE DEF f2, f, D2, D, Of, Of2, g
<1>8. f2 = g BY <1>2, <1>5, <1>6, <1>7
<1>9. QED BY <1>8 DEF f2, g, f, at2

\* The lines after the first, and among them the blank ones and the headers, end where lines end.
LEMMA LinesType ==
  ASSUME NEW x \in Text
  PROVE  /\ Later(x) \subseteq Ends(x) /\ Blanks(x) \subseteq Later(x)
         /\ Headers(x) \subseteq Later(x) /\ Blanks(x) \subseteq Nat /\ Headers(x) \subseteq Nat
         /\ Blanks(x) # {} => /\ Min(Blanks(x)) \in Blanks(x)
                              /\ \A b \in Blanks(x) : Min(Blanks(x)) <= b
<1>1. /\ Later(x) \subseteq Ends(x) /\ Blanks(x) \subseteq Later(x) /\ Headers(x) \subseteq Later(x)
      /\ Ends(x) \subseteq Nat
  BY EndsType DEF Later, Blanks, Headers
<1>2. Blanks(x) \subseteq Nat /\ Headers(x) \subseteq Nat BY <1>1
<1>3. QED BY <1>1, <1>2, MinFacts

\* The first line of a text is that of every text that begins with it.
LEMMA FirstOfLonger ==
  ASSUME NEW x \in Text, NEW z \in Text, Ends(x) # {}
  PROVE  /\ Ends(x \o z) # {} /\ Min(Ends(x \o z)) = Min(Ends(x))
         /\ RequestLine(x \o z) = RequestLine(x)
<1> DEFINE i == Min(Ends(x))
           y == x \o z
           k == Min(Ends(y))
<1>1. /\ y \in Text /\ i \in Ends(x) /\ i \in 1..(Len(x) - 1) /\ Len(x) \in Nat
      /\ \A e \in Ends(x) : i <= e
  BY JoinFacts, EndsType
<1>2. i \in Ends(y) BY <1>1, EndsOfLonger
<1> HIDE DEF i
<1>3. k \in Ends(y) /\ k \in Nat /\ k >= 1 /\ \A e \in Ends(y) : k <= e
  BY <1>1, <1>2, EndsType
<1> HIDE DEF k
<1>4. k <= i BY <1>2, <1>3
<1>5. k \in 1..(Len(x) - 1) BY <1>1, <1>3, <1>4
<1>6. k \in Ends(x) BY <1>3, <1>5, EndsOfLonger
<1>7. k = i BY <1>1, <1>3, <1>4, <1>6
<1>8. Line(y, i) = Line(x, i) BY <1>1, LineOfLonger
<1> HIDE DEF y
<1>9. QED BY <1>2, <1>7, <1>8 DEF RequestLine, i, k, y

\* What makes the request of two texts the same up to the end of the headers.
LEMMA SameHead ==
  ASSUME NEW x, NEW y, Headers(x) = Headers(y), RequestLine(x) = RequestLine(y),
         \A e \in Headers(x) : Line(x, e) = Line(y, e)
  PROVE  Headed(x) = Headed(y)
<1>1. /\ [e \in Headers(x) |-> Field(Line(x, e)).key] = [e \in Headers(y) |-> Field(Line(y, e)).key]
      /\ [e \in Headers(x) |-> Field(Line(x, e)).value]
           = [e \in Headers(y) |-> Field(Line(y, e)).value]
  OBVIOUS
<1>2. QED BY <1>1 DEF Headed

\* A header of a text is one of every text that begins with it, and once a text has an
\* empty line so is its whole head.
LEMMA HeadersOfLonger ==
  ASSUME NEW x \in Text, NEW z \in Text
  PROVE  /\ Headers(x) \subseteq Headers(x \o z)
         /\ Blanks(x) # {} =>
              /\ Blanks(x \o z) # {} /\ Min(Blanks(x \o z)) = Min(Blanks(x))
              /\ Headers(x \o z) = Headers(x) /\ Headed(x \o z) = Headed(x)
              /\ Ends(x) # {} /\ RequestLine(x \o z) = RequestLine(x)
<1> DEFINE y == x \o z
<1>1. y \in Text /\ Len(x) \in Nat BY JoinFacts
<1>2. ASSUME NEW e \in Later(x) PROVE e \in Later(y) /\ Line(y, e) = Line(x, e)
  <2>1. e \in Ends(x) /\ e # Min(Ends(x)) /\ Ends(x) # {} BY DEF Later
  <2>2. e \in 1..(Len(x) - 1) BY <2>1, EndsType
  <2>3. e \in Ends(y) BY <2>1, <2>2, EndsOfLonger
  <2>4. Min(Ends(y)) = Min(Ends(x)) BY <2>1, FirstOfLonger
  <2>5. Line(y, e) = Line(x, e) BY <2>1, LineOfLonger
  <2>6. QED BY <2>1, <2>3, <2>4, <2>5 DEF Later
<1>3. ASSUME NEW d \in Later(x), NEW e \in Later(y), e <= d PROVE e \in Later(x)
  <2>1. d \in 1..(Len(x) - 1) /\ Ends(x) # {} BY EndsType DEF Later
  <2>2. e \in Ends(y) /\ e # Min(Ends(y)) BY DEF Later
  <2>3. e \in Nat /\ e >= 1 BY <1>1, <2>2, EndsType
  <2>4. e \in 1..(Len(x) - 1) BY <1>1, <1>3, <2>1, <2>3
  <2>5. e \in Ends(x) BY <2>2, <2>4, EndsOfLonger
  <2>6. Min(Ends(y)) = Min(Ends(x)) BY <2>1, FirstOfLonger
  <2>7. QED BY <2>2, <2>5, <2>6 DEF Later
<1>4. Later(x) \subseteq Nat /\ Later(y) \subseteq Nat BY <1>1, EndsType, LinesType
<1> HIDE DEF y
<1>5. ASSUME NEW b \in Blanks(x) PROVE b \in Blanks(y) BY <1>2 DEF Blanks
<1>6. ASSUME NEW d \in Later(x), NEW b \in Blanks(y), b <= d PROVE b \in Blanks(x)
  <2>1. b \in Later(y) /\ Line(y, b) = <<>> BY DEF Blanks
  <2>2. b \in Later(x) BY <1>3, <1>6, <2>1
  <2>3. Line(x, b) = <<>> BY <1>2, <2>1, <2>2
  <2>4. QED BY <2>2, <2>3 DEF Blanks
<1>7. ASSUME NEW e \in Headers(x) PROVE e \in Headers(y)
  <2>1. e \in Later(x) /\ \A b \in Blanks(x) : e < b BY DEF Headers
  <2>2. ASSUME NEW b \in Blanks(y) PROVE e < b
    <3>1. b \in Nat /\ e \in Nat BY <1>1, <1>4, <2>1, LinesType
    <3>2. SUFFICES ASSUME b <= e PROVE FALSE BY <3>1
    <3>3. b \in Blanks(x) BY <1>6, <2>1, <3>2
    <3>4. QED BY <2>1, <3>1, <3>2, <3>3
  <2>3. QED BY <1>2, <2>1, <2>2 DEF Headers
<1>8. ASSUME Blanks(x) # {}
      PROVE  /\ Blanks(y) # {} /\ Min(Blanks(y)) = Min(Blanks(x))
             /\ Headers(y) = Headers(x) /\ Headed(y) = Headed(x)
             /\ Ends(x) # {} /\ RequestLine(y) = RequestLine(x)
  <2> DEFINE b == Min(Blanks(x))
             c == Min(Blanks(y))
  <2>1. b \in Blanks(x) /\ (\A m \in Blanks(x) : b <= m) /\ b \in Nat /\ b \in Later(x)
    BY <1>8, LinesType
  <2>2. b \in Blanks(y) BY <1>5, <2>1
  <2>3. c \in Blanks(y) /\ (\A m \in Blanks(y) : c <= m) /\ c \in Nat
    BY <1>1, <2>2, LinesType
  <2> HIDE DEF b, c
  <2>4. c <= b BY <2>2, <2>3
  <2>5. c \in Blanks(x) BY <1>6, <2>1, <2>3, <2>4
  <2>6. c = b BY <2>1, <2>3, <2>4, <2>5
  <2>7. ASSUME NEW e \in Headers(y) PROVE e \in Headers(x)
    <3>1. e \in Later(y) /\ \A m \in Blanks(y) : e < m BY DEF Headers
    <3>2. e \in Nat /\ e <= b BY <1>4, <2>1, <2>2, <3>1
    <3>3. e \in Later(x) BY <1>3, <2>1, <3>1, <3>2
    <3>4. QED BY <1>5, <3>1, <3>3 DEF Headers
  <2>8. Headers(y) = Headers(x) BY <1>7, <2>7
  <2>9. Ends(x) # {} BY <2>1 DEF Later
  <2>10. RequestLine(y) = RequestLine(x) BY <2>9, FirstOfLonger DEF y
  <2>11. \A e \in Headers(x) : Line(y, e) = Line(x, e) BY <1>2 DEF Headers
  <2>12. Headed(y) = Headed(x) BY <2>8, <2>10, <2>11, SameHead
  <2>13. QED BY <2>2, <2>6, <2>8, <2>9, <2>10, <2>12 DEF b, c
<1>9. QED BY <1>7, <1>8 DEF y


-----------------------------------------------------------------------------
(* What a text of a query string stands for                                  *)

\* The parts of Decoded: the characters outside the digits of escapes, how many of them
\* there are up to each place, and what each stands for.
Kept(s) == {i \in 1..Len(s) : ~IsEscape(s, i - 1) /\ ~IsEscape(s, i - 2)}
Counts(s) ==
  LET kept == Kept(s)
      count[i \in 0..Len(s)] == IF i = 0 THEN 0 ELSE count[i - 1] + (IF i \in kept THEN 1 ELSE 0)
  IN count
ValueAt(s, i) == CASE s[i] = "%" -> Char[16 * Digit[s[i + 1]] + Digit[s[i + 2]]]
                   [] s[i] = "+" -> "SP"
                   [] OTHER -> s[i]
Place(s, k) == CHOOSE i \in Kept(s) : Counts(s)[i] = k

\* The characters up to each place are counted one by one.
LEMMA CountFacts ==
  ASSUME NEW s \in Text
  PROVE  /\ Counts(s) \in [0..Len(s) -> Nat] /\ Counts(s)[0] = 0
         /\ \A i \in 1..Len(s) :
              Counts(s)[i] = Counts(s)[i - 1] + (IF i \in Kept(s) THEN 1 ELSE 0)
<1> DEFINE n == Len(s)
           K == Kept(s)
           Add(i, c) == c + (IF i \in K THEN 1 ELSE 0)
           Step == [x \in (1..n) \X Nat |-> Add(x[1], x[2])]
<1>1. n \in Nat BY LenProperties DEF Text
<1> HIDE DEF n, K
<1>2. Step \in Turns(n, Nat)
  <2>1. \A x \in (1..n) \X Nat : x[2] \in Nat OBVIOUS
  <2>2. \A i, c : c \in Nat => Add(i, c) \in Nat OBVIOUS
  <2>3. QED BY <2>1, <2>2 DEF Turns
<1>3. \A i \in 1..n, c \in Nat : Step[<<i, c>>] = Add(i, c) OBVIOUS
<1> HIDE DEF Step
<1>4. PICK f \in [0..n -> Nat] : f[0] = 0 /\ \A i \in 1..n : f[i] = Step[<<i, f[i - 1]>>]
  <2> DEFINE N == Nat
  <2>1. 0 \in N /\ Step \in Turns(n, N) BY <1>2
  <2> HIDE DEF N
  <2>2. \E f \in [0..n -> N] : f[0] = 0 /\ \A i \in 1..n : f[i] = Step[<<i, f[i - 1]>>]
    BY <1>1, <2>1, Iteration
  <2>3. QED BY <2>2 DEF N
<1> DEFINE count[i \in 0..n] == IF i = 0 THEN 0 ELSE count[i - 1] + (IF i \in K THEN 1 ELSE 0)
<1>5. f = [i \in 0..n |-> IF i = 0 THEN 0 ELSE f[i - 1] + (IF i \in K THEN 1 ELSE 0)]
  <2>1. \A i \in 0..n : i # 0 => i \in 1..n /\ i - 1 \in 0..n BY <1>1
  <2>2. \A i \in 0..n : i # 0 => f[i] = f[i - 1] + (IF i \in K THEN 1 ELSE 0)
    BY <1>3, <1>4, <2>1
  <2>3. f = [i \in 0..n |-> f[i]] OBVIOUS
  <2>4. QED BY <1>4, <2>2, <2>3
<1>6. count = [i \in 0..n |-> IF i = 0 THEN 0 ELSE count[i - 1] + (IF i \in K THEN 1 ELSE 0)]
  BY <1>5
<1>7. Counts(s) = count BY DEF Counts, n, K
<1> HIDE DEF count
<1>8. 0 \in 0..n /\ \A i \in 1..n : i \in 0..n /\ i # 0 BY <1>1
<1>9. count[0] = 0 /\ \A i \in 1..n : count[i] = count[i - 1] + (IF i \in K THEN 1 ELSE 0)
  BY <1>6, <1>8
<1>10. \A i \in 0..n : count[i] \in Nat
  <2> DEFINE T == {i \in 0..n : count[i] \in Nat}
  <2>1. 0 \in T BY <1>1, <1>9
  <2>2. ASSUME NEW i \in 0..(n - 1), i \in T PROVE i + 1 \in T
    <3>1. i + 1 \in 0..n /\ i + 1 \in 1..n /\ (i + 1) - 1 = i BY <1>1
    <3>2. count[i + 1] = count[i] + (IF i + 1 \in K THEN 1 ELSE 0) BY <1>9, <3>1
    <3>3. count[i] \in Nat BY <2>2
    <3>4. count[i + 1] \in Nat BY <3>2, <3>3
    <3>5. QED BY <3>1, <3>4
  <2>3. \A i \in T : count[i] \in Nat OBVIOUS
  <2> HIDE DEF T
  <2>4. 0..n \subseteq T BY <1>1, <2>1, <2>2, InductionUpTo
  <2>5. QED BY <2>3, <2>4
<1>11. count \in [0..n -> Nat] BY <1>6, <1>10
<1>12. QED BY <1>7, <1>9, <1>11 DEF n, K

\* So a character is the only one with its number.
LEMMA PlaceFacts ==
  ASSUME NEW s \in Text, NEW i \in Kept(s)
  PROVE  Place(s, Counts(s)[i]) = i
<1> DEFINE n == Len(s)
           c == Counts(s)
<1>1. /\ c \in [0..n -> Nat] /\ c[0] = 0 /\ n \in Nat
      /\ \A j \in 1..n : c[j] = c[j - 1] + (IF j \in Kept(s) THEN 1 ELSE 0)
  BY CountFacts, LenProperties DEF Text
<1>2. Kept(s) \subseteq 1..n BY DEF Kept
<1> HIDE DEF n, c
<1>3. \A j \in 0..n : \A k \in 0..j : c[k] <= c[j]
  <2> DEFINE T == {j \in 0..n : \A k \in 0..j : c[k] <= c[j]}
  <2>1. 0 \in T
    <3>1. \A k \in 0..0 : k = 0 OBVIOUS
    <3>2. c[0] <= c[0] BY <1>1
    <3>3. QED BY <1>1, <3>1, <3>2
  <2>2. ASSUME NEW j \in 0..(n - 1), j \in T PROVE j + 1 \in T
    <3>1. j + 1 \in 1..n /\ j + 1 \in 0..n /\ j \in 0..n /\ (j + 1) - 1 = j BY <1>1
    <3>2. /\ c[j + 1] = c[j] + (IF j + 1 \in Kept(s) THEN 1 ELSE 0)
          /\ c[j] \in Nat /\ c[j + 1] \in Nat
      BY <1>1, <3>1
    <3>3. c[j] <= c[j + 1] BY <3>2
    <3>4. ASSUME NEW k \in 0..(j + 1) PROVE c[k] <= c[j + 1]
      <4>1. CASE k = j + 1 BY <3>2, <4>1
      <4>2. CASE k # j + 1
        <5>1. k \in 0..j /\ k \in 0..n BY <1>1, <3>1, <4>2
        <5>2. c[k] <= c[j] /\ c[k] \in Nat BY <1>1, <2>2, <5>1
        <5>3. QED BY <3>2, <3>3, <5>2
      <4>3. QED BY <4>1, <4>2
    <3>5. QED BY <3>1, <3>4
  <2>3. \A j \in T : \A k \in 0..j : c[k] <= c[j] OBVIOUS
  <2> HIDE DEF T
  <2>4. 0..n \subseteq T BY <1>1, <2>1, <2>2, InductionUpTo
  <2>5. QED BY <2>3, <2>4
<1>4. ASSUME NEW j \in Kept(s), NEW k \in Kept(s), j < k PROVE c[j] < c[k]
  <2>0. j \in 1..n /\ k \in 1..n BY <1>2
  <2>1. j \in 0..(k - 1) /\ k - 1 \in 0..n /\ j \in 0..n BY <1>1, <1>4, <2>0
  <2>2. c[j] <= c[k - 1] /\ c[j] \in Nat /\ c[k - 1] \in Nat BY <1>1, <1>3, <2>1
  <2>3. c[k] = c[k - 1] + 1 BY <1>1, <2>0
  <2>4. QED BY <2>2, <2>3
<1>5. ASSUME NEW j \in Kept(s), c[j] = c[i] PROVE j = i
  <2>1. j \in 0..n /\ i \in 0..n /\ j \in Nat /\ i \in Nat BY <1>1, <1>2
  <2>2. c[i] \in Nat BY <1>1, <2>1
  <2>3. ~(j < i) /\ ~(i < j) BY <1>4, <1>5, <2>2
  <2>4. QED BY <2>1, <2>3
<1>6. \E j \in Kept(s) : c[j] = c[i] OBVIOUS
<1>7. Place(s, c[i]) \in Kept(s) /\ c[Place(s, c[i])] = c[i] BY <1>6 DEF Place, c
<1>8. QED BY <1>5, <1>7 DEF c


\* One more element of a sequence given as a function.
LEMMA AppendFacts ==
  ASSUME NEW m \in Nat, NEW f, DOMAIN f = 1..m, f = [k \in 1..m |-> f[k]], NEW x
  PROVE  Append(f, x) = [k \in 1..(m + 1) |-> IF k = m + 1 THEN x ELSE f[k]]
<1> DEFINE S == {f[k] : k \in 1..m} \cup {x}
           g == [k \in 1..(m + 1) |-> IF k = m + 1 THEN x ELSE f[k]]
<1>1. f \in Seq(S) /\ Len(f) = m /\ x \in S
  <2>1. \A k \in 1..m : f[k] \in S OBVIOUS
  <2>2. f \in [1..m -> S] BY <2>1
  <2> HIDE DEF S
  <2>3. f \in Seq(S) BY <2>2, IsASeq
  <2>4. Len(f) = m BY <2>3, LenProperties
  <2>5. QED BY <2>3, <2>4 DEF S
<1>2. g \in Seq(S) /\ Len(g) = m + 1
  <2>1. \A k \in 1..(m + 1) : k # m + 1 => k \in 1..m OBVIOUS
  <2>2. \A k \in 1..(m + 1) : (IF k = m + 1 THEN x ELSE f[k]) \in S BY <2>1
  <2> HIDE DEF S
  <2>3. g \in [1..(m + 1) -> S] BY <2>2
  <2> DEFINE n == m + 1
  <2>5. DOMAIN g = 1..n OBVIOUS
  <2> HIDE DEF g
  <2>4. n \in Nat /\ g \in [1..n -> S] BY <2>3
  <2> HIDE DEF n
  <2>6. g \in Seq(S) BY <2>4, IsASeq
  <2>7. Len(g) = n BY <2>4, <2>5, <2>6, LenProperties
  <2>8. QED BY <2>6, <2>7 DEF n
<1> HIDE DEF S
<1>3. /\ Append(f, x) \in Seq(S) /\ Len(Append(f, x)) = m + 1
      /\ (\A i \in 1..m : Append(f, x)[i] = f[i]) /\ Append(f, x)[m + 1] = x
  <2>1. /\ Append(f, x) \in Seq(S) /\ Len(Append(f, x)) = Len(f) + 1
        /\ (\A i \in 1..Len(f) : Append(f, x)[i] = f[i]) /\ Append(f, x)[Len(f) + 1] = x
    BY <1>1, AppendProperties
  <2>2. QED BY <1>1, <2>1
<1>4. \A i \in 1..(m + 1) : g[i] = IF i = m + 1 THEN x ELSE f[i] OBVIOUS
<1> DEFINE h == Append(f, x)
<1> HIDE DEF g, h
<1>5. \A i \in 1..Len(h) : h[i] = g[i]
  <2>1. \A i \in 1..Len(h) : i \in 1..(m + 1) /\ (i # m + 1 => i \in 1..m) BY <1>3 DEF h
  <2>2. QED BY <1>3, <1>4, <2>1 DEF h
<1>6. h = g BY <1>2, <1>3, <1>5, SeqEqual DEF h
<1>7. QED BY <1>6 DEF g, h

\* Where url_decode can be at the beginning of a turn, and with what.
Starts(s) == {a \in 1..(Len(s) + 1) : ~IsEscape(s, a - 1) /\ ~IsEscape(s, a - 2)}
Decoding(s, a) ==
  [at |-> a, out |-> [k \in 1..Counts(s)[a - 1] |-> ValueAt(s, Place(s, k))]]

\* Two digits make one number.
LEMMA HexFacts ==
  ASSUME NEW a \in DOMAIN Digit, NEW b \in DOMAIN Digit
  PROVE  FromHex(a, b) = {16 * Digit[a] + Digit[b]}
<1>1. a # "-" BY DEF Digit
<1>2. QED BY <1>1 DEF FromHex

\* A turn takes one character.
LEMMA DecodeStep ==
  ASSUME NEW s \in Text, WellFormed(s), NEW a \in Starts(s), a <= Len(s)
  PROVE  \E b \in Starts(s) : a < b /\ DecodeTurn(s, Decoding(s, a)) = Decoding(s, b)
<1> DEFINE n == Len(s)
           c == Counts(s)
           m == c[a - 1]
           f == [k \in 1..m |-> ValueAt(s, Place(s, k))]
<1>1. /\ c \in [0..n -> Nat] /\ c[0] = 0 /\ n \in Nat
      /\ \A j \in 1..n : c[j] = c[j - 1] + (IF j \in Kept(s) THEN 1 ELSE 0)
  BY CountFacts, LenProperties DEF Text
<1>2. a \in 1..n /\ a \in Kept(s) BY <1>1 DEF Starts, Kept
<1>3. m \in Nat /\ c[a] = m + 1 BY <1>1, <1>2
<1>4. ValueAt(s, Place(s, m + 1)) = ValueAt(s, a) BY <1>2, <1>3, PlaceFacts
<1>5. Append(f, ValueAt(s, a)) = [k \in 1..(m + 1) |-> ValueAt(s, Place(s, k))]
  <2>1. DOMAIN f = 1..m /\ f = [k \in 1..m |-> f[k]] OBVIOUS
  <2>2. \A k \in 1..(m + 1) : k # m + 1 => k \in 1..m /\ f[k] = ValueAt(s, Place(s, k))
    BY <1>3
  <2> HIDE DEF f, m
  <2>3. Append(f, ValueAt(s, a))
          = [k \in 1..(m + 1) |-> IF k = m + 1 THEN ValueAt(s, a) ELSE f[k]]
    BY <1>3, <2>1, AppendFacts
  <2>4. QED BY <1>4, <2>2, <2>3
<1>6. ASSUME NEW b \in Starts(s), c[b - 1] = m + 1
      PROVE  Decoding(s, b) = [at |-> b, out |-> Append(f, ValueAt(s, a))]
  BY <1>5, <1>6 DEF Decoding
<1>7. Decoding(s, a) = [at |-> a, out |-> f] BY DEF Decoding
<1> HIDE DEF f, n, m, c
<1>8. CASE s[a] = "%"
  <2>1. /\ a + 2 <= n /\ s[a + 1] \in DOMAIN Digit /\ s[a + 2] \in DOMAIN Digit
        /\ s[a + 1] # "%" /\ s[a + 2] # "%" /\ IsEscape(s, a)
    BY <1>2, <1>8 DEF WellFormed, IsEscape, Digit, n
  <2> DEFINE v == 16 * Digit[s[a + 1]] + Digit[s[a + 2]]
             b == a + 3
  <2>2. FromHex(s[a + 1], s[a + 2]) = {v} BY <2>1, HexFacts
  <2>3. (CHOOSE x \in {v} : TRUE) = v OBVIOUS
  <2>4. ValueAt(s, a) = Char[v] BY <1>8 DEF ValueAt
  <2> HIDE DEF v
  <2>5. DecodeTurn(s, [at |-> a, out |-> f]) = [at |-> a + 3, out |-> Append(f, Char[v])]
    <3> DEFINE d == [at |-> a, out |-> f]
    <3>1. d.at = a /\ d.out = f OBVIOUS
    <3> HIDE DEF d
    <3>2. a <= Len(s) /\ a + 2 <= Len(s) BY <2>1 DEF n
    <3>3. {v} # {} /\ ~(a > Len(s)) BY <1>1, <1>2, <3>2 DEF n
    <3>4. DecodeTurn(s, d) = [at |-> a + 3, out |-> Append(f, Char[v])]
      BY <1>8, <2>2, <2>3, <3>1, <3>2, <3>3 DEF DecodeTurn
    <3>5. QED BY <3>4 DEF d
  <2>6. b \in Starts(s) /\ a < b
    <3>1. b \in 1..(n + 1) /\ b - 1 = a + 2 /\ b - 2 = a + 1 /\ a < b BY <1>1, <1>2, <2>1
    <3>2. ~IsEscape(s, b - 1) /\ ~IsEscape(s, b - 2) BY <2>1, <3>1 DEF IsEscape
    <3>3. QED BY <3>1, <3>2 DEF Starts, n
  <2>7. c[b - 1] = m + 1
    <3>1. a + 1 \in 1..n /\ a + 2 \in 1..n /\ (a + 1) - 1 = a /\ (a + 2) - 1 = a + 1
          /\ (a + 2) - 2 = a /\ b - 1 = a + 2
      BY <1>1, <1>2, <2>1
    <3>2. a + 1 \notin Kept(s) /\ a + 2 \notin Kept(s) BY <2>1, <3>1 DEF Kept
    <3>3. c[a + 1] = c[a] + 0 /\ c[a + 2] = c[a + 1] + 0 BY <1>1, <3>1, <3>2
    <3>4. QED BY <1>3, <3>1, <3>3
  <2>8. Decoding(s, b) = [at |-> b, out |-> Append(f, ValueAt(s, a))] BY <1>6, <2>6, <2>7
  <2>9. DecodeTurn(s, Decoding(s, a)) = Decoding(s, b) BY <1>7, <2>4, <2>5, <2>8
  <2>10. QED BY <2>6, <2>9
<1>9. CASE s[a] # "%"
  <2> DEFINE b == a + 1
             x == IF s[a] = "+" THEN "SP" ELSE s[a]
  <2>1. DecodeTurn(s, [at |-> a, out |-> f]) = [at |-> a + 1, out |-> Append(f, x)]
    <3> DEFINE d == [at |-> a, out |-> f]
    <3>1. d.at = a /\ d.out = f OBVIOUS
    <3> HIDE DEF d
    <3>2. a <= Len(s) /\ ~(a > Len(s)) BY <1>1, <1>2 DEF n
    <3>3. DecodeTurn(s, d) = [at |-> a + 1, out |-> Append(f, x)]
      BY <1>9, <3>1, <3>2 DEF DecodeTurn
    <3>4. QED BY <3>3 DEF d
  <2>2. ValueAt(s, a) = x BY <1>9 DEF ValueAt
  <2>3. b \in Starts(s) /\ a < b
    <3>1. b \in 1..(n + 1) /\ b - 1 = a /\ b - 2 = a - 1 /\ a < b BY <1>1, <1>2
    <3>2. ~IsEscape(s, a - 1) BY DEF Starts
    <3>3. ~IsEscape(s, a) BY <1>9 DEF IsEscape
    <3>4. QED BY <3>1, <3>2, <3>3 DEF Starts, n
  <2>4. c[b - 1] = m + 1
    <3>1. b - 1 = a BY <1>2
    <3>2. QED BY <1>3, <3>1
  <2>5. Decoding(s, b) = [at |-> b, out |-> Append(f, ValueAt(s, a))] BY <1>6, <2>3, <2>4
  <2>6. DecodeTurn(s, Decoding(s, a)) = Decoding(s, b) BY <1>7, <2>1, <2>2, <2>5
  <2>7. QED BY <2>3, <2>6
<1>10. QED BY <1>8, <1>9


\* url_decode (http_parser.cpp:248) makes of a text with well-formed escapes what the
\* text stands for: each escape its character, each "+" a space, and nothing lost.
THEOREM DecodedAsMeant ==
  ASSUME NEW s \in Text, WellFormed(s)
  PROVE  UrlDecode(s) = Decoded(s)
<1> DEFINE n == Len(s)
           S == {Decoding(s, a) : a \in Starts(s)}
           first == [at |-> 1, out |-> <<>>]
           Step == [x \in S |-> DecodeTurn(s, x)]
           left == [x \in S |-> n + 1 - x.at]
<1>1. n \in Nat BY LenProperties DEF Text
<1>2. first \in S
  <2>1. 1 \in Starts(s) /\ 1 - 1 = 0
    <3>1. 1 \in 1..(n + 1) /\ 1 - 1 \notin 1..n /\ 1 - 2 \notin 1..n BY <1>1
    <3>2. QED BY <3>1 DEF Starts, IsEscape
  <2>2. Counts(s)[0] = 0 BY CountFacts
  <2>3. Decoding(s, 1) = [at |-> 1, out |-> [k \in 1..0 |-> ValueAt(s, Place(s, k))]]
    BY <2>1, <2>2 DEF Decoding
  <2>4. [k \in 1..0 |-> ValueAt(s, Place(s, k))] = <<>> OBVIOUS
  <2>5. QED BY <2>1, <2>3, <2>4
<1>3. ASSUME NEW a \in Starts(s)
      PROVE  /\ a \in 1..(n + 1) /\ Decoding(s, a).at = a
             /\ a = n + 1 => DecodeTurn(s, Decoding(s, a)) = Decoding(s, a)
             /\ a < n + 1 => \E b \in Starts(s) : a < b /\ DecodeTurn(s, Decoding(s, a)) = Decoding(s, b)
  <2>1. a \in 1..(n + 1) BY DEF Starts
  <2>2. Decoding(s, a).at = a BY DEF Decoding
  <2>3. ASSUME a = n + 1 PROVE DecodeTurn(s, Decoding(s, a)) = Decoding(s, a)
    <3>1. Decoding(s, a).at > Len(s) BY <1>1, <2>2, <2>3
    <3>2. QED BY <3>1, <2>2, <1>1, <2>3 DEF DecodeTurn
  <2>4. ASSUME a < n + 1
        PROVE  \E b \in Starts(s) : a < b /\ DecodeTurn(s, Decoding(s, a)) = Decoding(s, b)
    <3>1. a <= Len(s) BY <1>1, <2>1, <2>4
    <3>2. QED BY <3>1, DecodeStep
  <2>5. QED BY <2>1, <2>2, <2>3, <2>4
<1>4. ASSUME NEW x \in S
      PROVE  /\ x.at \in 1..(n + 1)
             /\ DecodeTurn(s, x) \in S
             /\ n + 1 - DecodeTurn(s, x).at = 0 \/ n + 1 - DecodeTurn(s, x).at < n + 1 - x.at
  <2>1. PICK a \in Starts(s) : x = Decoding(s, a) OBVIOUS
  <2>2. CASE a = n + 1
    <3>1. DecodeTurn(s, x) = x /\ x.at = n + 1 BY <1>3, <2>1, <2>2
    <3>2. QED BY <1>1, <3>1
  <2>3. CASE a < n + 1
    <3>1. PICK b \in Starts(s) : a < b /\ DecodeTurn(s, x) = Decoding(s, b)
      BY <1>3, <2>1, <2>3
    <3>2. /\ x.at = a /\ DecodeTurn(s, x).at = b /\ a \in 1..(n + 1) /\ b \in 1..(n + 1)
      BY <1>3, <2>1, <3>1
    <3>3. QED BY <1>1, <3>1, <3>2
  <2>4. a \in 1..(n + 1) BY <1>3
  <2>5. QED BY <1>1, <2>2, <2>3, <2>4
<1>5. \A x \in S : n + 1 - x.at \in Nat /\ n + 1 - x.at <= n
  <2>1. \A a \in 1..(n + 1) : n + 1 - a \in Nat /\ n + 1 - a <= n BY <1>1
  <2> HIDE DEF S, n
  <2>2. QED BY <1>4, <2>1
<1>6. \A x \in S : x.at = n + 1 => x.out = Decoded(s)
  <2>1. SUFFICES ASSUME NEW a \in Starts(s), a = n + 1 PROVE Decoding(s, a).out = Decoded(s)
    BY <1>3
  <2>2. a - 1 = n BY <1>1, <2>1
  <2>3. Decoding(s, a).out = [k \in 1..Counts(s)[n] |-> ValueAt(s, Place(s, k))]
    BY <2>2 DEF Decoding
  <2>4. Decoded(s) = [k \in 1..Counts(s)[n] |-> ValueAt(s, Place(s, k))]
    BY DEF Decoded, Counts, Kept, Place, ValueAt
  <2>5. QED BY <2>3, <2>4
<1> DEFINE turn[k \in 0..n] == IF k = 0 THEN first ELSE DecodeTurn(s, turn[k - 1])
<1>7. UrlDecode(s) = turn[n].out BY DEF UrlDecode
<1> HIDE DEF S, n, first
<1>8. Step \in [S -> S] /\ left \in [S -> Nat] /\ left[first] <= n BY <1>2, <1>4, <1>5
<1>9. \A x \in S : Step[x] = DecodeTurn(s, x) /\ left[x] = n + 1 - x.at OBVIOUS
<1> HIDE DEF Step, left
<1>10. \A x \in S : left[Step[x]] = 0 \/ left[Step[x]] < left[x]
  <2> SUFFICES ASSUME NEW x \in S PROVE left[Step[x]] = 0 \/ left[Step[x]] < left[x] OBVIOUS
  <2>1. Step[x] = DecodeTurn(s, x) /\ DecodeTurn(s, x) \in S BY <1>4, <1>9
  <2>2. QED BY <1>4, <1>9, <2>1
<1>11. PICK f \in [0..n -> S] : f = [k \in 0..n |-> IF k = 0 THEN first ELSE Step[f[k - 1]]]
  <2>1. Runs(n, S, first, Step) # {} BY <1>1, <1>2, <1>8, LoopExists
  <2>2. QED BY <2>1 DEF Runs
<1>12. f = [k \in 0..n |-> IF k = 0 THEN first ELSE DecodeTurn(s, f[k - 1])]
  <2>1. \A k \in 0..n : k # 0 => f[k - 1] \in S
    <3>1. \A k \in 0..n : k # 0 => k - 1 \in 0..n BY <1>1
    <3>2. QED BY <3>1
  <2>2. QED BY <1>9, <1>11, <2>1
<1>13. turn = [k \in 0..n |-> IF k = 0 THEN first ELSE DecodeTurn(s, turn[k - 1])] BY <1>12
<1> HIDE DEF turn
<1>14. turn[0] = first /\ \A k \in 1..n : turn[k] = DecodeTurn(s, turn[k - 1])
  <2>1. 0 \in 0..n /\ \A k \in 1..n : k \in 0..n /\ k # 0 BY <1>1
  <2>2. QED BY <1>13, <2>1
<1>15. turn[n] \in S /\ left[turn[n]] = 0
  <2>1. turn[0] \in S /\ left[turn[0]] <= n BY <1>2, <1>8, <1>14
  <2>2. \A k \in 1..n : turn[k - 1] \in S => turn[k] = Step[turn[k - 1]] BY <1>9, <1>14
  <2>3. Over(turn, n, S, Step, left) BY <1>1, <1>8, <1>10, <2>1, <2>2, LoopEnds
  <2>4. QED BY <2>3 DEF Over
<1>16. turn[n].at = n + 1
  <2>1. turn[n].at \in 1..(n + 1) /\ n + 1 - turn[n].at = 0 BY <1>4, <1>9, <1>15
  <2>2. QED BY <1>1, <2>1
<1>17. QED BY <1>6, <1>7, <1>15, <1>16


-----------------------------------------------------------------------------
(* What a query string means                                                 *)

\* Find gives the first place of a token from a place on, or 0 where there is none.
LEMMA FindFacts ==
  ASSUME NEW x \in Text, NEW tok, NEW i \in Nat, i >= 1
  PROVE  LET f == Find(x, tok, i)
         IN \/ f = 0 /\ \A j \in i..Len(x) : x[j] # tok
            \/ /\ f \in i..Len(x) /\ f \in 1..Len(x) /\ x[f] = tok
               /\ \A j \in i..Len(x) : x[j] = tok => f <= j
<1> DEFINE found == {j \in i..Len(x) : x[j] = tok}
<1>1. Len(x) \in Nat BY LenProperties DEF Text
<1>2. Find(x, tok, i) = IF found = {} THEN 0 ELSE Min(found) BY DEF Find
<1>3. CASE found = {}
  <2>1. \A j \in i..Len(x) : x[j] # tok BY <1>3
  <2>2. QED BY <1>2, <1>3, <2>1
<1>4. CASE found # {}
  <2>1. found \subseteq Nat BY <1>1
  <2>2. \A j : j \in found <=> j \in i..Len(x) /\ x[j] = tok OBVIOUS
  <2> HIDE DEF found
  <2>3. Min(found) \in found /\ \A j \in found : Min(found) <= j BY <1>4, <2>1, MinFacts
  <2>4. Min(found) \in i..Len(x) /\ x[Min(found)] = tok BY <2>2, <2>3
  <2>5. Min(found) \in 1..Len(x) BY <1>1, <2>4
  <2>6. Find(x, tok, i) = Min(found) BY <1>2, <1>4
  <2>7. QED BY <2>2, <2>3, <2>4, <2>5, <2>6
<1>5. QED BY <1>3, <1>4

\* A piece that ends before a token that is no digit cuts no escape.
LEMMA PieceWellFormed ==
  ASSUME NEW x \in Text, WellFormed(x), NEW m \in Nat, NEW k \in Nat, m >= 1, k <= Len(x),
         k = Len(x) \/ x[k + 1] \notin DOMAIN Digit
  PROVE  SubSeq(x, m, k) \in Text /\ WellFormed(SubSeq(x, m, k))
<1> DEFINE p == SubSeq(x, m, k)
<1>1. /\ p \in Text /\ Len(p) = (IF m <= k THEN k - m + 1 ELSE 0)
      /\ \A i \in 1..Len(p) : p[i] = x[m + i - 1]
  BY PieceFacts
<1>2. Len(x) \in Nat BY LenProperties DEF Text
<1> HIDE DEF p
<1>3. ASSUME NEW i \in 1..Len(p), IsEscape(p, i)
      PROVE  i + 2 <= Len(p) /\ {p[i + 1], p[i + 2]} \subseteq DOMAIN Digit
  <2> DEFINE j == m + i - 1
  <2>1. m <= k /\ Len(p) = k - m + 1 /\ j \in 1..Len(x) /\ j <= k BY <1>1, <1>2
  <2>2. x[j] = "%" BY <1>1, <1>3 DEF IsEscape
  <2>3. j + 2 <= Len(x) /\ x[j + 1] \in DOMAIN Digit /\ x[j + 2] \in DOMAIN Digit
    BY <2>1, <2>2 DEF WellFormed, IsEscape
  <2>4. j + 2 <= k
    <3>1. SUFFICES ASSUME j + 2 > k PROVE FALSE BY <2>1
    <3>2. k = j \/ k = j + 1 BY <2>1, <3>1
    <3>3. k + 1 = j + 1 \/ k + 1 = j + 2 BY <3>2
    <3>4. k # Len(x) BY <1>2, <2>1, <2>3, <3>2
    <3>5. QED BY <2>3, <3>3, <3>4
  <2>5. /\ i + 1 \in 1..Len(p) /\ i + 2 \in 1..Len(p) /\ i + 2 <= Len(p)
        /\ m + (i + 1) - 1 = j + 1 /\ m + (i + 2) - 1 = j + 2
    BY <1>2, <2>1, <2>4
  <2>6. p[i + 1] = x[j + 1] /\ p[i + 2] = x[j + 2]
    <3>1. p[i + 1] = x[m + (i + 1) - 1] BY <1>1, <2>5
    <3>2. p[i + 2] = x[m + (i + 2) - 1] BY <1>1, <2>5
    <3> HIDE DEF j
    <3>3. QED BY <2>5, <3>1, <3>2
  <2>7. QED BY <2>3, <2>5, <2>6
<1>4. WellFormed(p) BY <1>3 DEF WellFormed
<1>5. QED BY <1>1, <1>4 DEF p

\* A pair adds the parameter it names.
LEMMA PairAdds ==
  ASSUME NEW pair \in Text, WellFormed(pair), NEW params
  PROVE  WithParameter(params, pair)
           = IF pair = <<>> THEN params ELSE With(params, NameIn(pair), ValueIn(pair))
<1> DEFINE eq == Find(pair, "=", 1)
           at == {i \in 1..Len(pair) : pair[i] = "="}
<1>1. Len(pair) \in Nat BY LenProperties DEF Text
<1>2. \/ eq = 0 /\ \A j \in 1..Len(pair) : pair[j] # "="
      \/ eq \in 1..Len(pair) /\ pair[eq] = "="
  <2>1. 1 \in Nat /\ 1 >= 1 OBVIOUS
  <2> DEFINE one == 1
  <2> HIDE DEF one
  <2>2. one \in Nat /\ one >= 1 BY <2>1 DEF one
  <2> DEFINE f == Find(pair, "=", one)
  <2>3. \/ f = 0 /\ \A j \in one..Len(pair) : pair[j] # "="
        \/ f \in one..Len(pair) /\ f \in 1..Len(pair) /\ pair[f] = "="
    BY <2>2, FindFacts
  <2>4. QED BY <2>3 DEF one
<1>3. eq = IF at = {} THEN 0 ELSE Min(at) BY DEF Find
<1>4. CASE eq = 0
  <2>1. at = {} BY <1>1, <1>2, <1>4
  <2>2. NameIn(pair) = pair /\ ValueIn(pair) = <<>> BY <2>1 DEF NameIn, ValueIn
  <2> HIDE DEF at
  <2>3. CASE pair = <<>> BY <1>4, <2>3 DEF WithParameter
  <2>4. CASE pair # <<>> BY <1>4, <2>2, <2>4 DEF WithParameter
  <2>5. QED BY <2>3, <2>4
<1>5. CASE eq # 0
  <2>1. eq \in 1..Len(pair) /\ pair[eq] = "=" BY <1>2, <1>5
  <2>2. at # {} BY <2>1
  <2>3. eq = Min(at) BY <1>3, <2>2
  <2>4. pair # <<>>
    <3>1. Len(<<>>) = 0 OBVIOUS
    <3>2. QED BY <2>1, <3>1
  <2> HIDE DEF eq
  <2> DEFINE a == SubSeq(pair, 1, eq - 1)
             b == From(pair, eq + 1)
  <2>5. NameIn(pair) = Decoded(a) /\ ValueIn(pair) = Decoded(b) BY <2>2, <2>3 DEF NameIn, ValueIn
  <2> HIDE DEF at
  <2>6. a \in Text /\ WellFormed(a)
    <3> DEFINE one == 1
               k == eq - 1
    <3>1. k \in Nat /\ k <= Len(pair) /\ one \in Nat /\ one >= 1 /\ k + 1 = eq BY <1>1, <2>1
    <3>2. pair[k + 1] \notin DOMAIN Digit BY <2>1, <3>1 DEF Digit
    <3> HIDE DEF one, k
    <3>3. SubSeq(pair, one, k) \in Text /\ WellFormed(SubSeq(pair, one, k))
      BY <3>1, <3>2, PieceWellFormed
    <3>4. QED BY <3>3 DEF one, k
  <2>7. b \in Text /\ WellFormed(b)
    <3> DEFINE m == eq + 1
               k == Len(pair)
    <3>1. m \in Nat /\ k \in Nat /\ m >= 1 /\ k <= Len(pair) /\ k = Len(pair) BY <1>1, <2>1
    <3> HIDE DEF m, k
    <3>2. SubSeq(pair, m, k) \in Text /\ WellFormed(SubSeq(pair, m, k))
      BY <3>1, PieceWellFormed
    <3>3. QED BY <3>2 DEF m, k, From
  <2> HIDE DEF a, b
  <2>8. UrlDecode(a) = Decoded(a) /\ UrlDecode(b) = Decoded(b) BY <2>6, <2>7, DecodedAsMeant
  <2>9. WithParameter(params, pair) = With(params, UrlDecode(a), UrlDecode(b))
    BY <1>5 DEF WithParameter, eq, a, b
  <2>10. QED BY <2>4, <2>5, <2>8, <2>9
<1>6. QED BY <1>4, <1>5


\* The parameters of the pairs that end before a, and where a pair can begin.
NamedBefore(q, a) == {e \in PairEnds(q) : e < a /\ Pair(q, e) # <<>>}
ParametersBefore(q, a) ==
  LastOfEach(NamedBefore(q, a), [e \in NamedBefore(q, a) |-> NameIn(Pair(q, e))],
                                [e \in NamedBefore(q, a) |-> ValueIn(Pair(q, e))])
PairStarts(q) == {1} \cup {e + 1 : e \in PairEnds(q)}
Reading(q, a) == [at |-> a, params |-> ParametersBefore(q, a)]

\* The first end of a pair that is at or after a place.
EndFrom(q, a) == LET amp == Find(q, "&", a) IN IF amp = 0 THEN Len(q) + 1 ELSE amp
\* The find of parse_query_string comes to the next end of a pair and passes none.
LEMMA EndFromFacts ==
  ASSUME NEW q \in Text, NEW a \in 1..Len(q)
  PROVE  /\ EndFrom(q, a) \in PairEnds(q) /\ EndFrom(q, a) \in a..(Len(q) + 1)
         /\ \A e \in PairEnds(q) : e < EndFrom(q, a) => e < a
<1> DEFINE n == Len(q)
           f == Find(q, "&", a)
<1>1. n \in Nat /\ a \in Nat /\ a >= 1 /\ a <= n BY LenProperties DEF Text
<1>2. \/ f = 0 /\ \A j \in a..n : q[j] # "&"
      \/ /\ f \in a..n /\ f \in 1..n /\ q[f] = "&"
         /\ \A j \in a..n : q[j] = "&" => f <= j
  BY <1>1, FindFacts
<1>3. \A e \in PairEnds(q) : e = n + 1 \/ (e \in 1..n /\ q[e] = "&") BY DEF PairEnds
<1>4. CASE f = 0
  <2>1. EndFrom(q, a) = n + 1 BY <1>4 DEF EndFrom
  <2>2. n + 1 \in PairEnds(q) /\ n + 1 \in a..(n + 1) BY <1>1 DEF PairEnds
  <2>3. \A j \in a..n : q[j] # "&" BY <1>1, <1>2, <1>4
  <2>4. ASSUME NEW e \in PairEnds(q), e < n + 1 PROVE e < a
    <3>1. e \in 1..n /\ q[e] = "&" BY <1>1, <1>3, <2>4
    <3>2. QED BY <1>1, <2>3, <3>1
  <2>5. QED BY <2>1, <2>2, <2>4
<1>5. CASE f # 0
  <2>1. EndFrom(q, a) = f BY <1>5 DEF EndFrom
  <2>2. f \in a..n /\ f \in 1..n /\ q[f] = "&" /\ \A j \in a..n : q[j] = "&" => f <= j
    BY <1>2, <1>5
  <2> HIDE DEF f
  <2>3. f \in PairEnds(q) /\ f \in a..(n + 1) BY <1>1, <2>2 DEF PairEnds
  <2>4. ASSUME NEW e \in PairEnds(q), e < f PROVE e < a
    <3>1. e \in 1..n /\ q[e] = "&" BY <1>1, <1>3, <2>2, <2>4
    <3>2. QED BY <1>1, <2>2, <2>4, <3>1
  <2>5. QED BY <2>1, <2>3, <2>4
<1>6. QED BY <1>4, <1>5

\* The pair that begins where the last one has ended.
LEMMA PairFrom ==
  ASSUME NEW q \in Text, NEW a \in PairStarts(q), NEW e \in PairEnds(q), a <= e,
         \A i \in PairEnds(q) : i < e => i < a
  PROVE  Pair(q, e) = SubSeq(q, a, e - 1)
<1> DEFINE n == Len(q)
           B == {1} \cup {i + 1 : i \in {j \in PairEnds(q) : j < e}}
<1>1. n \in Nat BY LenProperties DEF Text
<1>2. PairEnds(q) \subseteq 1..(n + 1) BY <1>1 DEF PairEnds
<1>3. e \in 1..(n + 1) /\ a \in Nat
  <2>1. \A i \in PairEnds(q) : i + 1 \in Nat BY <1>1, <1>2
  <2>2. QED BY <1>2, <2>1 DEF PairStarts
<1>4. B \subseteq 0..e /\ B # {} /\ e \in Nat
  <2>1. \A i \in {j \in PairEnds(q) : j < e} : i + 1 \in 0..e BY <1>1, <1>2, <1>3
  <2>2. 1 \in 0..e BY <1>3
  <2>3. QED BY <1>3, <2>1, <2>2
<1>5. a \in B
  <2>1. CASE a = 1 BY <2>1
  <2>2. CASE a # 1
    <3>1. PICK i \in PairEnds(q) : a = i + 1 BY <2>2 DEF PairStarts
    <3>2. i \in 1..(n + 1) BY <1>2
    <3>3. i < e BY <1>1, <1>3, <3>1, <3>2
    <3>4. QED BY <3>1, <3>3
  <2>3. QED BY <2>1, <2>2
<1>6. \A m \in B : m <= a
  <2>1. \A i \in {j \in PairEnds(q) : j < e} : i + 1 <= a BY <1>1, <1>2, <1>3
  <2>2. 1 <= a
    <3>1. \A i \in PairEnds(q) : i + 1 >= 1 BY <1>1, <1>2
    <3>2. QED BY <3>1 DEF PairStarts
  <2>3. QED BY <2>1, <2>2
<1>7. Pair(q, e) = SubSeq(q, Max(B), e - 1) BY DEF Pair
<1> HIDE DEF B
<1>8. Max(B) \in B /\ a <= Max(B) BY <1>4, <1>5, MaxFacts
<1>9. Max(B) \in Nat /\ Max(B) <= a
  <2>1. Max(B) \in 0..e BY <1>4, <1>8
  <2>2. Max(B) <= a BY <1>6, <1>8
  <2>3. QED BY <1>4, <2>1, <2>2
<1>10. Max(B) = a BY <1>3, <1>8, <1>9
<1>11. QED BY <1>7, <1>10


\* A turn takes one pair.
LEMMA QueryStep ==
  ASSUME NEW q \in Text, WellFormed(q), NEW a \in PairStarts(q), a <= Len(q)
  PROVE  \E b \in PairStarts(q) : a < b /\ QueryTurn(q, Reading(q, a)) = Reading(q, b)
<1> DEFINE n == Len(q)
           e == EndFrom(q, a)
           pair == SubSeq(q, a, e - 1)
           old == NamedBefore(q, a)
           new == NamedBefore(q, e + 1)
<1>1. n \in Nat /\ PairEnds(q) \subseteq 1..(n + 1) BY LenProperties DEF Text, PairEnds
<1>2. a \in 1..n
  <2>1. \A i \in PairEnds(q) : i + 1 \in Nat /\ i + 1 >= 1 BY <1>1
  <2>2. a \in Nat /\ a >= 1 BY <2>1 DEF PairStarts
  <2>3. QED BY <1>1, <2>2
<1>3. e \in PairEnds(q) /\ e \in a..(n + 1) /\ \A i \in PairEnds(q) : i < e => i < a
  BY <1>2, EndFromFacts
<1>4. Pair(q, e) = pair
  <2> HIDE DEF e
  <2>1. a <= e BY <1>2, <1>3
  <2>2. QED BY <1>3, <2>1, PairFrom
<1>5. pair \in Text /\ WellFormed(pair)
  <2> DEFINE k == e - 1
  <2>1. k \in Nat /\ k <= Len(q) /\ k + 1 = e /\ a \in Nat /\ a >= 1 BY <1>1, <1>2, <1>3
  <2>2. k = Len(q) \/ q[k + 1] \notin DOMAIN Digit
    <3>1. e = n + 1 \/ q[e] = "&" BY <1>3 DEF PairEnds
    <3>2. "&" \notin DOMAIN Digit BY DEF Digit
    <3> HIDE DEF e
    <3>3. CASE e = n + 1
      <4>1. k = n BY <1>1, <3>3
      <4>2. QED BY <4>1
    <3>4. CASE q[e] = "&" BY <2>1, <3>2, <3>4
    <3>5. QED BY <3>1, <3>3, <3>4
  <2> HIDE DEF k, e
  <2>3. SubSeq(q, a, k) \in Text /\ WellFormed(SubSeq(q, a, k)) BY <2>1, <2>2, PieceWellFormed
  <2>4. QED BY <2>3 DEF k
<1>6. QueryTurn(q, Reading(q, a))
        = [at |-> e + 1, params |-> WithParameter(ParametersBefore(q, a), pair)]
  <2> DEFINE r == Reading(q, a)
  <2>1. r.at = a /\ r.params = ParametersBefore(q, a) BY DEF Reading
  <2> HIDE DEF r
  <2>2. ~(a > Len(q)) BY <1>1, <1>2
  <2>3. QueryTurn(q, r) = [at |-> e + 1, params |-> WithParameter(ParametersBefore(q, a), pair)]
    BY <2>1, <2>2 DEF QueryTurn, EndFrom
  <2>4. QED BY <2>3 DEF r
<1> HIDE DEF e, pair
<1>7. e + 1 \in PairStarts(q) /\ a < e + 1 BY <1>2, <1>3 DEF PairStarts
<1>8. e \in Nat /\ \A i \in old : i < e BY <1>1, <1>2, <1>3 DEF NamedBefore
<1>9. \A i \in PairEnds(q) : i < e + 1 <=> (i < a \/ i = e)
  <2>1. \A i \in PairEnds(q) : i \in 1..(n + 1) BY <1>1
  <2>2. QED BY <1>2, <1>3, <2>1
<1>10. CASE pair = <<>>
  <2>1. WithParameter(ParametersBefore(q, a), pair) = ParametersBefore(q, a)
    BY <1>5, <1>10, PairAdds
  <2>2. new = old BY <1>4, <1>9, <1>10 DEF NamedBefore
  <2>3. ParametersBefore(q, e + 1) = ParametersBefore(q, a) BY <2>2 DEF ParametersBefore
  <2>4. QueryTurn(q, Reading(q, a)) = Reading(q, e + 1) BY <1>6, <2>1, <2>3 DEF Reading
  <2>5. QED BY <1>7, <2>4
<1>11. CASE pair # <<>>
  <2> DEFINE name == [i \in old |-> NameIn(Pair(q, i))]
             value == [i \in old |-> ValueIn(Pair(q, i))]
             name2 == [i \in new |-> NameIn(Pair(q, i))]
             value2 == [i \in new |-> ValueIn(Pair(q, i))]
  <2>1. new = old \cup {e} BY <1>3, <1>4, <1>9, <1>11 DEF NamedBefore
  <2>2. \A i \in old : name2[i] = name[i] /\ value2[i] = value[i] BY <2>1
  <2>3. name2[e] = NameIn(pair) /\ value2[e] = ValueIn(pair) BY <1>4, <2>1
  <2>4. ParametersBefore(q, a) = LastOfEach(old, name, value) BY DEF ParametersBefore
  <2>5. ParametersBefore(q, e + 1) = LastOfEach(new, name2, value2) BY DEF ParametersBefore
  <2>6. old \in SUBSET Nat
    <3>1. PairEnds(q) \subseteq Nat BY <1>1
    <3>2. QED BY <3>1 DEF NamedBefore
  <2> HIDE DEF old, new, name, value, name2, value2
  <2>7. LastOfEach(old \cup {e}, name2, value2)
          = With(LastOfEach(old, name, value), name2[e], value2[e])
    BY <1>8, <2>2, <2>6, LastGrows
  <2>8. WithParameter(ParametersBefore(q, a), pair)
          = With(ParametersBefore(q, a), NameIn(pair), ValueIn(pair))
    BY <1>5, <1>11, PairAdds
  <2>9. ParametersBefore(q, e + 1) = WithParameter(ParametersBefore(q, a), pair)
    BY <2>1, <2>3, <2>4, <2>5, <2>7, <2>8
  <2>10. QueryTurn(q, Reading(q, a)) = Reading(q, e + 1) BY <1>6, <2>9 DEF Reading
  <2>11. QED BY <1>7, <2>10
<1>12. QED BY <1>10, <1>11

\* Before the first pair there are no parameters.
LEMMA NoParametersBefore ==
  ASSUME NEW q \in Text
  PROVE  ParametersBefore(q, 1) = NoHeaders
<1>1. Len(q) \in Nat BY LenProperties DEF Text
<1>2. NamedBefore(q, 1) = {} BY <1>1 DEF NamedBefore, PairEnds
<1>3. QED BY <1>2 DEF ParametersBefore, LastOfEach, NoHeaders

\* parse_query_string (http_parser.cpp:175) makes of a query string whose escapes are
\* well-formed the parameters that the client has encoded: those between the "&"s, with
\* the last value of each name.
THEOREM QueryAsMeant ==
  ASSUME NEW q \in Text, WellFormed(q)
  PROVE  ParseQueryString(NoHeaders, q) = Parameters(q)
<1> DEFINE n == Len(q)
           S == {Reading(q, a) : a \in PairStarts(q)}
           first == [at |-> 1, params |-> NoHeaders]
           Step == [x \in S |-> QueryTurn(q, x)]
           Left(a) == IF a > n THEN 0 ELSE n + 1 - a
           left == [x \in S |-> Left(x.at)]
<1>1. n \in Nat /\ PairEnds(q) \subseteq 1..(n + 1) BY LenProperties DEF Text, PairEnds
<1>2. first \in S
  <2>1. Reading(q, 1) = first BY NoParametersBefore DEF Reading
  <2>2. 1 \in PairStarts(q) BY DEF PairStarts
  <2>3. QED BY <2>1, <2>2
<1>3. ASSUME NEW a \in PairStarts(q) PROVE a \in 1..(n + 2) /\ Reading(q, a).at = a
  <2>1. \A i \in PairEnds(q) : i + 1 \in 1..(n + 2) BY <1>1
  <2>2. 1 \in 1..(n + 2) BY <1>1
  <2>3. a \in 1..(n + 2) BY <2>1, <2>2 DEF PairStarts
  <2>4. QED BY <2>3 DEF Reading
<1>4. \A a \in 1..(n + 2) : Left(a) \in Nat /\ Left(a) <= n BY <1>1
<1>5. ASSUME NEW x \in S
      PROVE  /\ x.at \in 1..(n + 2)
             /\ QueryTurn(q, x) \in S
             /\ Left(QueryTurn(q, x).at) = 0 \/ Left(QueryTurn(q, x).at) < Left(x.at)
  <2>1. PICK a \in PairStarts(q) : x = Reading(q, a) OBVIOUS
  <2>2. x.at = a /\ a \in 1..(n + 2) BY <1>3, <2>1
  <2>3. CASE a > n
    <3>1. QueryTurn(q, x) = x BY <2>2, <2>3 DEF QueryTurn
    <3>2. QED BY <2>2, <2>3, <3>1
  <2>4. CASE ~(a > n)
    <3>1. a <= Len(q) BY <1>1, <2>2, <2>4
    <3>2. PICK b \in PairStarts(q) : a < b /\ QueryTurn(q, x) = Reading(q, b)
      BY <2>1, <3>1, QueryStep
    <3>3. QueryTurn(q, x).at = b /\ b \in 1..(n + 2) BY <1>3, <3>2
    <3>4. Left(b) = 0 \/ Left(b) < Left(a) BY <1>1, <2>2, <2>4, <3>2, <3>3
    <3>5. QueryTurn(q, x) \in S BY <3>2
    <3> HIDE DEF S, Left
    <3>6. QED BY <2>2, <3>3, <3>4, <3>5
  <2>5. QED BY <2>3, <2>4
<1>6. \A x \in S : x.at > n => x.params = Parameters(q)
  <2>1. SUFFICES ASSUME NEW a \in PairStarts(q), a > n
                 PROVE  Reading(q, a).params = Parameters(q)
    BY <1>3
  <2> DEFINE at == {e \in PairEnds(q) : Pair(q, e) # <<>>}
  <2>2. a \in 1..(n + 2) BY <1>3
  <2>3. ASSUME NEW e \in PairEnds(q), ~(e < a) PROVE Pair(q, e) = <<>>
    <3>1. e \in 1..(n + 1) /\ e = a /\ a = n + 1 BY <1>1, <2>1, <2>2, <2>3
    <3>2. \A i \in PairEnds(q) : i < e => i < a BY <3>1
    <3>3. a <= e BY <3>1, <1>1
    <3>4. Pair(q, e) = SubSeq(q, a, e - 1) BY <3>2, <3>3, PairFrom
    <3>5. SubSeq(q, n + 1, n) = <<>>
      <4> DEFINE m == n + 1
      <4>1. m \in Nat /\ m >= 1 /\ n <= Len(q) BY <1>1
      <4> HIDE DEF m
      <4>2. SubSeq(q, m, n) \in Text /\ Len(SubSeq(q, m, n)) = IF m <= n THEN n - m + 1 ELSE 0
        BY <1>1, <4>1, PieceFacts
      <4>3. Len(SubSeq(q, m, n)) = 0 BY <1>1, <4>2 DEF m
      <4>4. SubSeq(q, m, n) = <<>> BY <4>2, <4>3, EmptySeq DEF Text
      <4>5. QED BY <4>4 DEF m
    <3>6. e - 1 = n BY <1>1, <3>1
    <3>7. QED BY <3>1, <3>4, <3>5, <3>6
  <2>4. NamedBefore(q, a) = at BY <2>3 DEF NamedBefore
  <2>5. Parameters(q) = LastOfEach(at, [e \in at |-> NameIn(Pair(q, e))],
                                       [e \in at |-> ValueIn(Pair(q, e))])
    BY DEF Parameters
  <2> HIDE DEF at
  <2>6. ParametersBefore(q, a) = Parameters(q) BY <2>4, <2>5 DEF ParametersBefore
  <2>7. QED BY <2>6 DEF Reading
<1> DEFINE turn[k \in 0..n] == IF k = 0 THEN first ELSE QueryTurn(q, turn[k - 1])
<1>7. ParseQueryString(NoHeaders, q) = turn[n].params BY DEF ParseQueryString
<1> HIDE DEF S, n, first, Left
<1>8. \A x \in S : Left(x.at) \in Nat /\ Left(x.at) <= n BY <1>4, <1>5
<1>9. Step \in [S -> S] /\ left \in [S -> Nat] /\ left[first] <= n BY <1>2, <1>5, <1>8
<1>10. \A x \in S : Step[x] = QueryTurn(q, x) /\ left[x] = Left(x.at) OBVIOUS
<1> HIDE DEF Step, left
<1>11. \A x \in S : left[Step[x]] = 0 \/ left[Step[x]] < left[x]
  <2> SUFFICES ASSUME NEW x \in S PROVE left[Step[x]] = 0 \/ left[Step[x]] < left[x] OBVIOUS
  <2>1. Step[x] = QueryTurn(q, x) /\ QueryTurn(q, x) \in S BY <1>5, <1>10
  <2>2. QED BY <1>5, <1>10, <2>1
<1>12. PICK f \in [0..n -> S] : f = [k \in 0..n |-> IF k = 0 THEN first ELSE Step[f[k - 1]]]
  <2>1. Runs(n, S, first, Step) # {} BY <1>1, <1>2, <1>9, LoopExists
  <2>2. QED BY <2>1 DEF Runs
<1>13. f = [k \in 0..n |-> IF k = 0 THEN first ELSE QueryTurn(q, f[k - 1])]
  <2>1. \A k \in 0..n : k # 0 => f[k - 1] \in S
    <3>1. \A k \in 0..n : k # 0 => k - 1 \in 0..n BY <1>1
    <3>2. QED BY <3>1
  <2>2. QED BY <1>10, <1>12, <2>1
<1>14. turn = [k \in 0..n |-> IF k = 0 THEN first ELSE QueryTurn(q, turn[k - 1])] BY <1>13
<1> HIDE DEF turn
<1>15. turn[0] = first /\ \A k \in 1..n : turn[k] = QueryTurn(q, turn[k - 1])
  <2>1. 0 \in 0..n /\ \A k \in 1..n : k \in 0..n /\ k # 0 BY <1>1
  <2>2. QED BY <1>14, <2>1
<1>16. turn[n] \in S /\ left[turn[n]] = 0
  <2>1. turn[0] \in S /\ left[turn[0]] <= n BY <1>2, <1>9, <1>15
  <2>2. \A k \in 1..n : turn[k - 1] \in S => turn[k] = Step[turn[k - 1]] BY <1>10, <1>15
  <2>3. Over(turn, n, S, Step, left) BY <1>1, <1>9, <1>11, <2>1, <2>2, LoopEnds
  <2>4. QED BY <2>3 DEF Over
<1>17. turn[n].at > n
  <2>1. turn[n].at \in 1..(n + 2) /\ Left(turn[n].at) = 0 BY <1>5, <1>10, <1>16
  <2>2. QED BY <1>1, <2>1 DEF Left
<1>18. QED BY <1>6, <1>7, <1>16, <1>17


-----------------------------------------------------------------------------
(* Requests                                                                  *)

\* The headers of a text, and what a request can be.
HeadersIn(x) ==
  LastOfEach(Headers(x), [e \in Headers(x) |-> Field(Line(x, e)).key],
                         [e \in Headers(x) |-> Field(Line(x, e)).value])
Request ==
  [method : Methods \cup {"UNKNOWN"}, path : Text, query : Text,
   params : {ParseQueryString(NoHeaders, q) : q \in Text},
   version : Versions \cup {"UNKNOWN"},
   headers : {NoHeaders} \cup {HeadersIn(x) : x \in Text}, body : Text,
   keepAlive : BOOLEAN, contentLength : Nat]

\* The parameters of a request are those of its query string.
ParamsOfQuery(r) == r.params = ParseQueryString(NoHeaders, r.query)

\* No query string, no parameters.
LEMMA NoParameters == <<>> \in Text /\ ParseQueryString(NoHeaders, <<>>) = NoHeaders
<1> DEFINE q == <<>>
<1>1. q \in Text /\ Len(q) = 0 BY EmptySeq DEF Text
<1>2. WellFormed(q) BY <1>1 DEF WellFormed
<1>3. Parameters(q) = NoHeaders
  <2>1. \A e \in PairEnds(q) : e = 1 BY <1>1 DEF PairEnds
  <2>2. Pair(q, 1) = <<>>
    <3>1. 1 \in PairStarts(q) /\ 1 \in PairEnds(q) BY <1>1 DEF PairStarts, PairEnds
    <3> DEFINE one == 1
    <3>2. one \in PairStarts(q) /\ one \in PairEnds(q) /\ one <= one
          /\ \A i \in PairEnds(q) : i < one => i < one
      BY <3>1
    <3>3. one - 1 = 0 OBVIOUS
    <3> HIDE DEF one, q
    <3>4. Pair(q, one) = SubSeq(q, one, one - 1) BY <1>1, <3>2, PairFrom
    <3>5. SubSeq(q, one, 0) = <<>> BY DEF q, one
    <3>6. Pair(q, one) = <<>> BY <3>3, <3>4, <3>5
    <3>7. QED BY <3>6 DEF one
  <2> DEFINE at == {e \in PairEnds(q) : Pair(q, e) # <<>>}
  <2>3. at = {} BY <2>1, <2>2
  <2>4. Parameters(q) = LastOfEach(at, [e \in at |-> NameIn(Pair(q, e))],
                                       [e \in at |-> ValueIn(Pair(q, e))])
    BY DEF Parameters
  <2> HIDE DEF at
  <2>5. QED BY <2>3, <2>4 DEF LastOfEach, NoHeaders
<1> HIDE DEF q
<1>4. ParseQueryString(NoHeaders, q) = NoHeaders BY <1>1, <1>2, <1>3, QueryAsMeant
<1>5. QED BY <1>1, <1>4 DEF q

\* The request of a new parser.
LEMMA NewRequestFacts ==
  /\ NewRequest \in Request /\ ParamsOfQuery(NewRequest)
  /\ NewRequest.headers = NoHeaders /\ NewRequest.body = <<>> /\ NewRequest.contentLength = 0
<1>1. NewRequest.params = NoHeaders /\ NewRequest.query = <<>> BY DEF NewRequest
<1>2. ParamsOfQuery(NewRequest) BY <1>1, NoParameters DEF ParamsOfQuery
<1>3. NoHeaders \in {ParseQueryString(NoHeaders, q) : q \in Text} BY NoParameters
<1>4. NoHeaders \in {NoHeaders} \cup {HeadersIn(x) : x \in Text} OBVIOUS
<1> HIDE DEF NoHeaders
<1>5. NewRequest \in Request BY <1>3, <1>4, NoParameters DEF NewRequest, Request
<1>6. QED BY <1>2, <1>5 DEF NewRequest

\* What a request line makes of it.
LEMMA RequestLineType ==
  ASSUME NEW line \in Text
  PROVE  LET r == ParseRequestLine(NewRequest, line).request
         IN /\ r \in Request /\ ParamsOfQuery(r) /\ r.headers = NoHeaders /\ r.body = <<>>
            /\ r.contentLength = 0
<1> DEFINE n == Len(line)
           sp1 == Find(line, "SP", 1)
           method == Word(SubSeq(line, 1, sp1 - 1))
           sp2 == Find(line, "SP", sp1 + 1)
           target == SubSeq(line, sp1 + 1, sp2 - 1)
           q == Find(target, "?", 1)
           version == Word(From(line, sp2 + 1))
           p == ParseRequestLine(NewRequest, line)
           path == IF q = 0 THEN target ELSE SubSeq(target, 1, q - 1)
           query == IF q = 0 THEN <<>> ELSE From(target, q + 1)
           params == IF q = 0 THEN NoHeaders ELSE ParseQueryString(NoHeaders, From(target, q + 1))
           ver == IF version \in Versions THEN version ELSE "UNKNOWN"
           R == NewRequest
<1>1. n \in Nat BY LenProperties DEF Text
<1>2. /\ R \in Request /\ ParamsOfQuery(R) /\ R.headers = NoHeaders /\ R.body = <<>>
      /\ R.contentLength = 0 /\ R.params = NoHeaders
  BY NewRequestFacts DEF NewRequest
<1> HIDE DEF R
<1>3. CASE sp1 = 0 \/ method \notin Methods \/ sp2 = 0
  <2>1. p.request = R BY <1>3 DEF ParseRequestLine, R
  <2>2. QED BY <1>2, <2>1
<1>4. CASE ~(sp1 = 0 \/ method \notin Methods \/ sp2 = 0)
  <2>1. p.request = [R EXCEPT !.method = method, !.path = path, !.query = query,
                              !.params = IF q = 0 THEN R.params
                                         ELSE ParseQueryString(R.params, From(target, q + 1)),
                              !.version = ver]
    BY <1>4, <1>2 DEF ParseRequestLine, R, Request
  <2>2. sp1 \in 1..n
    <3> DEFINE one == 1
               f == Find(line, "SP", one)
    <3>1. one \in Nat /\ one >= 1 OBVIOUS
    <3> HIDE DEF one
    <3>2. f = 0 \/ f \in 1..n BY <3>1, FindFacts
    <3>3. QED BY <1>4, <3>2 DEF one
  <2> HIDE DEF sp1
  <2>3. sp2 \in (sp1 + 1)..n
    <3> DEFINE i == sp1 + 1
    <3>1. i \in Nat /\ i >= 1 BY <2>2
    <3> HIDE DEF i
    <3> DEFINE f == Find(line, "SP", i)
    <3>2. f = 0 \/ f \in i..n BY <3>1, FindFacts
    <3>3. QED BY <1>4, <3>2 DEF i
  <2> HIDE DEF sp2
  <2>4. target \in Text
    <3> DEFINE a == sp1 + 1
               b == sp2 - 1
    <3>1. a \in Nat /\ a >= 1 /\ b \in Nat /\ b <= n BY <1>1, <2>2, <2>3
    <3> HIDE DEF a, b
    <3>2. SubSeq(line, a, b) \in Text BY <3>1, PieceFacts
    <3>3. QED BY <3>2 DEF a, b
  <2> HIDE DEF target
  <2>5. Len(target) \in Nat BY <2>4, LenProperties DEF Text
  <2>6. q = 0 \/ q \in 1..Len(target)
    <3> DEFINE one == 1
               f == Find(target, "?", one)
    <3>1. one \in Nat /\ one >= 1 OBVIOUS
    <3> HIDE DEF one
    <3>2. f = 0 \/ f \in 1..Len(target) BY <2>4, <3>1, FindFacts
    <3>3. QED BY <3>2 DEF one
  <2> HIDE DEF q
  <2>7. q # 0 => SubSeq(target, 1, q - 1) \in Text /\ From(target, q + 1) \in Text
    <3>1. SUFFICES ASSUME q \in 1..Len(target)
                   PROVE SubSeq(target, 1, q - 1) \in Text /\ From(target, q + 1) \in Text
      BY <2>6
    <3> DEFINE m == q - 1
    <3>2. m \in 0..Len(target) /\ q \in 0..Len(target) BY <2>5, <3>1
    <3> HIDE DEF m
    <3>3. SubSeq(target, 1, m) \in Text BY <2>4, <3>2, CutFacts
    <3>4. From(target, q + 1) \in Text BY <2>4, <3>2, CutFacts
    <3>5. QED BY <3>3, <3>4 DEF m
  <2>8. path \in Text BY <2>4, <2>7
  <2>9. query \in Text /\ params = ParseQueryString(NoHeaders, query) BY <2>7, NoParameters
  <2>10. ver \in Versions \cup {"UNKNOWN"} /\ method \in Methods \cup {"UNKNOWN"} BY <1>4
  <2>11. params \in {ParseQueryString(NoHeaders, t) : t \in Text} BY <2>9
  <2>12. (IF q = 0 THEN R.params ELSE ParseQueryString(R.params, From(target, q + 1))) = params
    BY <1>2
  <2> HIDE DEF path, query, params, ver, method
  <2>13. p.request = [R EXCEPT !.method = method, !.path = path, !.query = query,
                               !.params = params, !.version = ver]
    BY <2>1, <2>12
  <2> HIDE DEF p
  <2>14. /\ p.request \in Request
         /\ p.request.params = params /\ p.request.query = query
         /\ p.request.headers = R.headers /\ p.request.body = R.body
         /\ p.request.contentLength = R.contentLength
    BY <1>2, <2>8, <2>9, <2>10, <2>11, <2>13 DEF Request
  <2>15. QED BY <1>2, <2>9, <2>14 DEF ParamsOfQuery, p
<1>5. QED BY <1>3, <1>4


\* The request of the lines of a text.
LEMMA HeadedType ==
  ASSUME NEW x \in Text, Ends(x) # {}
  PROVE  /\ RequestLine(x).request \in Request /\ RequestLine(x).request.headers = NoHeaders
         /\ Headed(x) = [RequestLine(x).request EXCEPT !.headers = HeadersIn(x)]
         /\ Headed(x) \in Request /\ ParamsOfQuery(Headed(x)) /\ Headed(x).headers = HeadersIn(x)
         /\ Headed(x).body = <<>> /\ Headed(x).contentLength = 0
<1> DEFINE e == Min(Ends(x))
           line == Line(x, e)
           b == Max(Earlier(x, e))
           r == RequestLine(x).request
<1>1. e \in Ends(x) /\ Len(x) \in Nat /\ e \in 1..(Len(x) - 1) BY EndsType
<1>2. line \in Text
  <2>1. line = SubSeq(x, b, e - 1) BY DEF Line, Earlier
  <2> HIDE DEF line, e
  <2>2. e \in Nat BY <1>1
  <2>3. b \in Nat /\ b >= 1 BY <2>2, BeginFacts
  <2> DEFINE k == e - 1
  <2>4. k \in Nat /\ k <= Len(x) BY <1>1
  <2> HIDE DEF b, k
  <2>5. SubSeq(x, b, k) \in Text BY <2>3, <2>4, PieceFacts
  <2>6. QED BY <2>1, <2>5 DEF k
<1>3. RequestLine(x) = ParseRequestLine(NewRequest, line) BY DEF RequestLine
<1> HIDE DEF line, e
<1>4. /\ r \in Request /\ ParamsOfQuery(r) /\ r.headers = NoHeaders /\ r.body = <<>>
      /\ r.contentLength = 0
  BY <1>2, <1>3, RequestLineType
<1>5. Headed(x) = [r EXCEPT !.headers = HeadersIn(x)] BY DEF Headed, HeadersIn
<1>6. HeadersIn(x) \in {NoHeaders} \cup {HeadersIn(y) : y \in Text} OBVIOUS
<1> DEFINE h == HeadersIn(x)
           s == [r EXCEPT !.headers = h]
<1> HIDE DEF r, h
<1>7. s \in Request /\ s.params = r.params /\ s.query = r.query /\ s.headers = h
      /\ s.body = r.body /\ s.contentLength = r.contentLength
  BY <1>4, <1>6 DEF Request, h
<1> HIDE DEF s
<1>8. Headed(x) = s BY <1>5 DEF s, h
<1>9. QED BY <1>4, <1>5, <1>7, <1>8 DEF ParamsOfQuery, r, h

\* Without headers it is the one of the request line.
LEMMA NoHeadersYet ==
  ASSUME NEW x \in Text, Ends(x) # {}, Headers(x) = {}
  PROVE  Headed(x) = RequestLine(x).request
<1> DEFINE e == Min(Ends(x))
           r == RequestLine(x).request
<1>1. r \in Request /\ Headed(x) = [r EXCEPT !.headers = HeadersIn(x)] BY HeadedType
<1>2. HeadersIn(x) = NoHeaders BY DEF HeadersIn, LastOfEach, NoHeaders
<1>3. r.headers = NoHeaders BY HeadedType
<1> HIDE DEF r
<1>4. [r EXCEPT !.headers = r.headers] = r BY <1>1 DEF Request
<1>5. QED BY <1>1, <1>2, <1>3, <1>4 DEF r

\* finalize_headers leaves the body and the parameters alone.
LEMMA FinalType ==
  ASSUME NEW r \in Request
  PROVE  LET f == FinalizeHeaders(r)
         IN f \in Request /\ f.params = r.params /\ f.query = r.query /\ f.body = r.body
<1> DEFINE h == r.headers
           length == IF <<"content-length">> \in DOMAIN h THEN h[<<"content-length">>] ELSE <<>>
           c == IF length # <<>> /\ Head(length) \in DOMAIN Number THEN Number[Head(length)] ELSE 0
           k == IF <<"connection">> \in DOMAIN h
                THEN \E i \in DOMAIN h[<<"connection">>] :
                       Lower(h[<<"connection">>][i]) = "keep-alive"
                ELSE r.version = "HTTP/1.1"
<1>1. c \in Nat
  <2>1. \A d \in DOMAIN Number : Number[d] \in Nat BY DEF Number
  <2> HIDE DEF length
  <2>2. QED BY <2>1
<1>2. k \in BOOLEAN OBVIOUS
<1>3. FinalizeHeaders(r) = [r EXCEPT !.contentLength = c, !.keepAlive = k] BY DEF FinalizeHeaders
<1> HIDE DEF c, k
<1>4. QED BY <1>1, <1>2, <1>3 DEF Request

\* A body goes into the request of the headers.
LEMMA BodyFacts ==
  ASSUME NEW r \in Request, NEW b \in Text, NEW c \in Text
  PROVE  /\ [r EXCEPT !.body = b] \in Request
         /\ [r EXCEPT !.body = b].body = b
         /\ [r EXCEPT !.body = b].params = r.params /\ [r EXCEPT !.body = b].query = r.query
         /\ [r EXCEPT !.body = b].contentLength = r.contentLength
         /\ [[r EXCEPT !.body = b] EXCEPT !.body = c] = [r EXCEPT !.body = c]
         /\ [r EXCEPT !.body = r.body] = r
BY DEF Request


-----------------------------------------------------------------------------
(* What the parser has made of a text between two turns                      *)

Parser == [request : Request, state : {"REQUEST_LINE", "HEADERS", "BODY", "COMPLETE", "ERROR"},
           buffer : Text, bodyRead : Nat]

\* A text whose first line and headers can be read, one that has the whole head, and what
\* comes after the head.
HeadRead(x) ==
  Ends(x) # {} /\ RequestLine(x).ok /\ \A e \in Headers(x) : IsHeader(Line(x, e))
HeadDone(x) == HeadRead(x) /\ Blanks(x) # {}
Rest(x) == From(x, Min(Blanks(x)) + 2)
Final(x) == FinalizeHeaders(Headed(x))

AtStart(p, text) == p.buffer = text /\ p.request = NewRequest /\ p.bodyRead = 0
InHeaders(p, text) ==
  /\ p.bodyRead = 0
  /\ \E x \in Text : /\ text = x \o p.buffer /\ x # <<>> /\ Whole(x)
                     /\ HeadRead(x) /\ Blanks(x) = {} /\ p.request = Headed(x)
InBody(p, text) ==
  /\ HeadDone(text) /\ p.bodyRead <= Final(text).contentLength /\ p.bodyRead <= Len(Rest(text))
  /\ p.request = [Final(text) EXCEPT !.body = SubSeq(Rest(text), 1, p.bodyRead)]
  /\ p.buffer = From(Rest(text), p.bodyRead + 1)
Completed(p, text) ==
  /\ HeadDone(text) /\ p.bodyRead <= Final(text).contentLength
  /\ Final(text).contentLength <= Len(Rest(text))
  /\ p.request = [Final(text) EXCEPT !.body = SubSeq(Rest(text), 1, Final(text).contentLength)]
Failed(p, text) ==
  /\ p.bodyRead = 0 /\ Ends(text) # {}
  /\ ~RequestLine(text).ok \/ \E e \in Headers(text) : ~IsHeader(Line(text, e))

Parsed(p, text) ==
  /\ p \in Parser /\ ParamsOfQuery(p.request)
  /\ p.state = "REQUEST_LINE" => AtStart(p, text)
  /\ p.state = "HEADERS" => InHeaders(p, text)
  /\ p.state = "BODY" => InBody(p, text)
  /\ p.state = "COMPLETE" => Completed(p, text)
  /\ p.state = "ERROR" => Failed(p, text)

\* The end of a text to which another is added, and its beginning.
LEMMA EndOfJoin ==
  ASSUME NEW x \in Text, NEW z \in Text, NEW n \in 0..Len(x)
  PROVE  /\ From(x \o z, n + 1) = From(x, n + 1) \o z
         /\ SubSeq(x \o z, 1, n) = SubSeq(x, 1, n)
<1> DEFINE y == x \o z
           a == SubSeq(x, 1, n)
           b == From(x, n + 1)
           c == SubSeq(y, 1, n)
           d == From(y, n + 1)
<1>1. /\ a \in Text /\ b \in Text /\ x = a \o b /\ Len(a) = n /\ Len(b) = Len(x) - n
  BY CutFacts
<1>2. /\ y \in Text /\ Len(x) \in Nat /\ Len(z) \in Nat /\ Len(y) = Len(x) + Len(z)
      /\ n \in 0..Len(y)
  BY JoinFacts
<1> HIDE DEF y
<1>3. c \in Text /\ d \in Text /\ y = c \o d /\ Len(c) = n /\ Len(d) = Len(y) - n
  BY <1>2, CutFacts
<1> HIDE DEF a, b, c, d
<1>4. y = a \o (b \o z) BY <1>1, JoinThree DEF y
<1>5. b \o z \in Text /\ Len(b \o z) = Len(b) + Len(z) BY <1>1, JoinFacts
<1> DEFINE w == b \o z
<1> HIDE DEF w
<1>6. w \in Text /\ Len(w) = Len(d) BY <1>1, <1>2, <1>3, <1>5 DEF w
<1>7. a = c /\ w = d
  <2>1. a \o w = c \o d BY <1>3, <1>4 DEF w
  <2>2. /\ \A i \in 1..Len(a) : (a \o w)[i] = a[i]
        /\ \A i \in 1..Len(c) : (c \o d)[i] = c[i]
    BY <1>1, <1>3, <1>6, JoinFacts
  <2>3. a = c
    <3>1. \A i \in 1..Len(a) : a[i] = c[i] BY <1>1, <1>3, <2>1, <2>2
    <3>2. QED BY <1>1, <1>3, <3>1, SameText
  <2>4. /\ \A i \in 1..Len(w) : (a \o w)[Len(a) + i] = w[i]
        /\ \A i \in 1..Len(d) : (c \o d)[Len(c) + i] = d[i]
    BY <1>1, <1>3, <1>6, JoinFacts
  <2>5. w = d
    <3>1. \A i \in 1..Len(w) : w[i] = d[i] BY <1>1, <1>3, <1>6, <2>1, <2>4
    <3>2. QED BY <1>3, <1>6, <3>1, SameText
  <2>6. QED BY <2>3, <2>5
<1>8. QED BY <1>7 DEF a, b, c, d, w, y

\* Once the head is there, more text only adds to the rest.
LEMMA HeadOfLonger ==
  ASSUME NEW x \in Text, NEW z \in Text, HeadDone(x)
  PROVE  /\ HeadDone(x \o z) /\ Final(x \o z) = Final(x) /\ Rest(x \o z) = Rest(x) \o z
         /\ Rest(x) \in Text /\ Rest(x \o z) \in Text
<1> DEFINE y == x \o z
           b == Min(Blanks(x))
<1>1. /\ Blanks(y) # {} /\ Min(Blanks(y)) = b /\ Headers(y) = Headers(x)
      /\ Headed(y) = Headed(x) /\ Ends(x) # {} /\ RequestLine(y) = RequestLine(x)
  BY HeadersOfLonger DEF HeadDone
<1>2. \A e \in Headers(x) : Line(y, e) = Line(x, e)
  <2>1. \A e \in Headers(x) : e \in Ends(x) BY LinesType
  <2>2. QED BY <2>1, LineOfLonger
<1>3. Ends(y) # {} BY <1>1, FirstOfLonger
<1>4. HeadDone(y) BY <1>1, <1>2, <1>3 DEF HeadDone, HeadRead
<1>5. Final(y) = Final(x) BY <1>1 DEF Final
<1>6. b \in Ends(x) BY LinesType DEF HeadDone
<1> DEFINE n == b + 1
<1> HIDE DEF b
<1>7. n \in 0..Len(x) /\ b + 2 = n + 1
  <2>1. b \in 1..(Len(x) - 1) /\ Len(x) \in Nat BY <1>6, EndsType
  <2>2. QED BY <2>1
<1>8. Len(x) \in Nat /\ Len(y) = Len(x) + Len(z) /\ Len(z) \in Nat /\ y \in Text BY JoinFacts
<1> HIDE DEF y, n
<1>9. n \in 0..Len(y) BY <1>7, <1>8
<1>10. From(y, n + 1) = From(x, n + 1) \o z BY <1>7, EndOfJoin DEF y
<1>11. From(x, n + 1) \in Text BY <1>7, CutFacts
<1>12. From(y, n + 1) \in Text BY <1>8, <1>9, CutFacts
<1>13. Rest(x) = From(x, n + 1) /\ Rest(y) = From(y, n + 1) BY <1>1, <1>7 DEF Rest, b
<1>14. QED BY <1>4, <1>5, <1>10, <1>11, <1>12, <1>13 DEF y

\* A chunk changes nothing but the buffer.
LEMMA ChunkKeeps ==
  ASSUME NEW p, NEW text \in Text, NEW z \in Text, Parsed(p, text)
  PROVE  Parsed([p EXCEPT !.buffer = @ \o z], text \o z)
<1> DEFINE q == [p EXCEPT !.buffer = @ \o z]
<1>1. p \in Parser BY DEF Parsed
<1>2. p.buffer \in Text /\ p.buffer \o z \in Text /\ text \o z \in Text
  <2>1. p.buffer \in Text BY <1>1 DEF Parser
  <2>2. QED BY <2>1, JoinFacts
<1> DEFINE b == p.buffer \o z
<1>3. b \in Text BY <1>2
<1>4. q = [p EXCEPT !.buffer = b] OBVIOUS
<1> HIDE DEF b, q
<1>5. /\ q \in Parser /\ q.request = p.request /\ q.state = p.state /\ q.buffer = b
      /\ q.bodyRead = p.bodyRead /\ p.bodyRead \in Nat
  BY <1>1, <1>3, <1>4 DEF Parser
<1>6. ParamsOfQuery(q.request) BY <1>5 DEF Parsed
<1>7. ASSUME p.state = "REQUEST_LINE" PROVE AtStart(q, text \o z)
  BY <1>5, <1>7 DEF Parsed, AtStart, b
<1>8. ASSUME p.state = "HEADERS" PROVE InHeaders(q, text \o z)
  <2>1. PICK x \in Text : /\ text = x \o p.buffer /\ x # <<>> /\ Whole(x)
                          /\ HeadRead(x) /\ Blanks(x) = {} /\ p.request = Headed(x)
    BY <1>8 DEF Parsed, InHeaders
  <2>2. (x \o p.buffer) \o z = x \o (p.buffer \o z) BY <1>2, JoinThree
  <2>3. text \o z = x \o q.buffer BY <1>5, <2>1, <2>2 DEF b
  <2>4. q.bodyRead = 0 BY <1>5, <1>8 DEF Parsed, InHeaders
  <2>5. QED BY <1>5, <2>1, <2>3, <2>4 DEF InHeaders
<1>9. ASSUME p.state = "BODY" PROVE InBody(q, text \o z)
  <2>1. InBody(p, text) BY <1>9 DEF Parsed
  <2> DEFINE m == p.bodyRead
             r == Rest(text)
             y == text \o z
  <2>2. /\ HeadDone(y) /\ Final(y) = Final(text) /\ Rest(y) = r \o z /\ r \in Text
        /\ Rest(y) \in Text
    BY <2>1, HeadOfLonger DEF InBody
  <2> HIDE DEF y, r
  <2>3. m <= Len(r) /\ Len(r) \in Nat /\ Len(z) \in Nat /\ Len(Rest(y)) = Len(r) + Len(z)
    BY <2>1, <2>2, JoinFacts DEF InBody, r
  <2>4. m \in 0..Len(r) /\ m <= Len(Rest(y)) BY <1>5, <2>3
  <2> HIDE DEF m
  <2>5. /\ From(r \o z, m + 1) = From(r, m + 1) \o z /\ SubSeq(r \o z, 1, m) = SubSeq(r, 1, m)
    BY <2>2, <2>4, EndOfJoin
  <2>6. /\ m <= Final(text).contentLength
        /\ p.request = [Final(text) EXCEPT !.body = SubSeq(r, 1, m)]
        /\ p.buffer = From(r, m + 1)
    BY <2>1 DEF InBody, r, m
  <2>7. q.bodyRead = m BY <1>5 DEF m
  <2>8. InBody(q, y) BY <1>5, <2>2, <2>4, <2>5, <2>6, <2>7 DEF InBody, b
  <2>9. QED BY <2>8 DEF y
<1>10. ASSUME p.state = "COMPLETE" PROVE Completed(q, text \o z)
  <2>1. Completed(p, text) BY <1>10 DEF Parsed
  <2> DEFINE m == Final(text).contentLength
             r == Rest(text)
             y == text \o z
  <2>2. /\ HeadDone(y) /\ Final(y) = Final(text) /\ Rest(y) = r \o z /\ r \in Text
        /\ Rest(y) \in Text
    BY <2>1, HeadOfLonger DEF Completed
  <2>3. m \in Nat
    <3>1. Ends(text) # {} BY <2>1 DEF Completed, HeadDone, HeadRead
    <3>2. Headed(text) \in Request BY <3>1, HeadedType
    <3>3. Final(text) \in Request BY <3>2, FinalType DEF Final
    <3>4. QED BY <3>3 DEF Request
  <2> HIDE DEF y, r
  <2>4. m <= Len(r) /\ Len(r) \in Nat /\ Len(z) \in Nat /\ Len(Rest(y)) = Len(r) + Len(z)
    BY <2>1, <2>2, JoinFacts DEF Completed, r
  <2>5. m \in 0..Len(r) /\ m <= Len(Rest(y)) BY <2>3, <2>4
  <2>6. /\ p.bodyRead <= m
        /\ p.request = [Final(text) EXCEPT !.body = SubSeq(r, 1, m)]
    BY <2>1 DEF Completed, r
  <2>7. Final(y).contentLength = m BY <2>2
  <2> HIDE DEF m
  <2>8. SubSeq(r \o z, 1, m) = SubSeq(r, 1, m) BY <2>2, <2>5, EndOfJoin
  <2>9. Completed(q, y) BY <1>5, <2>2, <2>5, <2>6, <2>7, <2>8 DEF Completed
  <2>10. QED BY <2>9 DEF y
<1>11. ASSUME p.state = "ERROR" PROVE Failed(q, text \o z)
  <2>1. Failed(p, text) BY <1>11 DEF Parsed
  <2>2. Ends(text) # {} BY <2>1 DEF Failed
  <2>3. Ends(text \o z) # {} /\ RequestLine(text \o z) = RequestLine(text)
    BY <2>2, FirstOfLonger
  <2>4. \A e \in Headers(text) : e \in Headers(text \o z) /\ Line(text \o z, e) = Line(text, e)
    <3>1. \A e \in Headers(text) : e \in Ends(text) BY LinesType
    <3>2. Headers(text) \subseteq Headers(text \o z) BY HeadersOfLonger
    <3>3. QED BY <3>1, <3>2, LineOfLonger
  <2>5. QED BY <1>5, <2>1, <2>3, <2>4 DEF Failed
<1>12. Parsed(q, text \o z) BY <1>5, <1>6, <1>7, <1>8, <1>9, <1>10, <1>11 DEF Parsed
<1>13. QED BY <1>12 DEF q


\* A whole text as a piece of itself, and a piece made of two.
LEMMA FullPiece ==
  ASSUME NEW x \in Text
  PROVE  SubSeq(x, 1, Len(x)) = x /\ From(x, Len(x) + 1) = <<>>
<1>1. Len(x) \in Nat BY LenProperties DEF Text
<1> DEFINE n == Len(x)
           b == From(x, n + 1)
<1>2. n \in 0..Len(x) BY <1>1
<1> HIDE DEF n
<1>3. /\ SubSeq(x, 1, n) \in Text /\ b \in Text /\ Len(SubSeq(x, 1, n)) = n
      /\ Len(b) = Len(x) - n /\ x = SubSeq(x, 1, n) \o b
  BY <1>2, CutFacts
<1> HIDE DEF b
<1>4. Len(b) = 0 BY <1>1, <1>3 DEF n
<1>5. b = <<>> BY <1>3, <1>4, EmptySeq DEF Text
<1>6. SubSeq(x, 1, n) \o <<>> = SubSeq(x, 1, n) BY <1>3, ConcatEmptySeq DEF Text
<1>7. QED BY <1>3, <1>5, <1>6 DEF n, b

\* A text cut in two pieces up to some place is the text up to that place.
LEMMA TwoPieces ==
  ASSUME NEW x \in Text, NEW k \in 0..Len(x), NEW m \in 0..k
  PROVE  SubSeq(x, 1, m) \o SubSeq(From(x, m + 1), 1, k - m) = SubSeq(x, 1, k)
<1>1. Len(x) \in Nat /\ m \in 0..Len(x) /\ k - m \in Nat BY LenProperties DEF Text
<1> DEFINE a == SubSeq(x, 1, m)
           b == From(x, m + 1)
           j == k - m
           c == SubSeq(b, 1, j)
           d == From(b, j + 1)
           y == a \o c
<1>2. a \in Text /\ b \in Text /\ x = a \o b /\ Len(a) = m /\ Len(b) = Len(x) - m
  BY <1>1, CutFacts
<1> HIDE DEF a, b
<1>3. j \in 0..Len(b) BY <1>1, <1>2
<1> HIDE DEF j
<1>4. c \in Text /\ d \in Text /\ b = c \o d /\ Len(c) = j BY <1>2, <1>3, CutFacts
<1> HIDE DEF c, d
<1>5. x = y \o d
  <2>1. a \in Text /\ c \in Text /\ d \in Text BY <1>2, <1>4
  <2>2. (a \o c) \o d = a \o (c \o d) BY <2>1, JoinThree
  <2>3. QED BY <1>2, <1>4, <2>2
<1>6. y \in Text /\ Len(y) = m + j BY <1>2, <1>4, JoinFacts
<1> HIDE DEF y
<1>7. m + j = k BY <1>1 DEF j
<1>8. k \in 0..Len(y) /\ Len(y) = k BY <1>1, <1>6, <1>7
<1>9. SubSeq(y \o d, 1, k) = SubSeq(y, 1, k) BY <1>4, <1>6, <1>8, EndOfJoin
<1>10. SubSeq(y, 1, k) = y BY <1>6, <1>8, FullPiece
<1>11. QED BY <1>5, <1>9, <1>10 DEF y, a, c, b, j

\* Where feed stops: at the end of a request, or short of bytes.
Settled(p) ==
  \/ p.state \in {"COMPLETE", "ERROR"}
  \/ p.state \in {"REQUEST_LINE", "HEADERS"} /\ Ends(p.buffer) = {}
  \/ p.state = "BODY" /\ p.buffer = <<>> /\ p.bodyRead < p.request.contentLength

\* A turn in the BODY state is the last.
LEMMA BodyTurnKeeps ==
  ASSUME NEW p, NEW text \in Text, Parsed(p, text), p.state = "BODY"
  PROVE  Parsed(TakeBody(p), text) /\ Settled(TakeBody(p))
<1> DEFINE F == Final(text)
           r == Rest(text)
           m == p.bodyRead
           l == F.contentLength
           b == p.buffer
<1>1. p \in Parser /\ InBody(p, text) /\ ParamsOfQuery(p.request) BY DEF Parsed
<1>2. m \in Nat /\ b \in Text /\ p.request \in Request BY <1>1 DEF Parser
<1>3. F \in Request
  <2>1. Ends(text) # {} BY <1>1 DEF InBody, HeadDone, HeadRead
  <2>2. Headed(text) \in Request BY <2>1, HeadedType
  <2>3. QED BY <2>2, FinalType DEF Final
<1>4. r \in Text /\ HeadDone(text)
  <2>1. <<>> \in Text BY NoParameters
  <2>2. HeadDone(text) BY <1>1 DEF InBody
  <2>3. QED BY <2>1, <2>2, HeadOfLonger
<1>5. /\ m <= l /\ m <= Len(r) /\ b = From(r, m + 1)
      /\ p.request = [F EXCEPT !.body = SubSeq(r, 1, m)]
  BY <1>1 DEF InBody
<1>6. l \in Nat /\ Len(r) \in Nat BY <1>3, <1>4, LenProperties DEF Request, Text
<1> HIDE DEF F, r, m, b
<1>7. m \in 0..Len(r) BY <1>2, <1>5, <1>6
<1>8. /\ SubSeq(r, 1, m) \in Text /\ r = SubSeq(r, 1, m) \o b /\ Len(b) = Len(r) - m
  BY <1>4, <1>5, <1>7, CutFacts
<1> DEFINE a == SubSeq(r, 1, m)
<1> HIDE DEF a
<1>9. a \in Text /\ p.request = [F EXCEPT !.body = a] BY <1>5, <1>8 DEF a
<1>10. /\ p.request.body = a /\ p.request.contentLength = l
       /\ p.request.params = F.params /\ p.request.query = F.query
  BY <1>3, <1>9 DEF Request
<1>11. ParamsOfQuery(F) BY <1>1, <1>10 DEF ParamsOfQuery
<1> HIDE DEF l
<1>12. ASSUME NEW c \in Text
       PROVE  /\ [p.request EXCEPT !.body = c] = [F EXCEPT !.body = c]
              /\ [F EXCEPT !.body = c] \in Request /\ ParamsOfQuery([F EXCEPT !.body = c])
              /\ [F EXCEPT !.body = c].contentLength = l
  <2>1. [[F EXCEPT !.body = a] EXCEPT !.body = c] = [F EXCEPT !.body = c]
    BY <1>3, <1>9, BodyFacts
  <2>2. /\ [F EXCEPT !.body = c] \in Request
        /\ [F EXCEPT !.body = c].params = F.params /\ [F EXCEPT !.body = c].query = F.query
        /\ [F EXCEPT !.body = c].contentLength = F.contentLength
    BY <1>3, <1>9, BodyFacts
  <2>3. QED BY <1>9, <1>11, <2>1, <2>2 DEF ParamsOfQuery, l
<1>13. CASE Len(b) < l - m
  <2> DEFINE q == TakeBody(p)
             req == [F EXCEPT !.body = r]
             n == Len(r)
  <2>1. m + Len(b) = n BY <1>6, <1>7, <1>8
  <2>2. p.request.body \o p.buffer = r BY <1>8, <1>10 DEF a, b
  <2>3. q = [p EXCEPT !.request = [p.request EXCEPT !.body = p.request.body \o p.buffer],
                      !.bodyRead = m + Len(b), !.buffer = <<>>]
    BY <1>1, <1>2, <1>10, <1>13 DEF TakeBody, Advanced, m, b, Parser, Request
  <2>4. /\ req \in Request /\ [p.request EXCEPT !.body = r] = req /\ ParamsOfQuery(req)
        /\ req.contentLength = l
    BY <1>4, <1>12
  <2> HIDE DEF q, req, n
  <2>5. q = [p EXCEPT !.request = req, !.bodyRead = n, !.buffer = <<>>] BY <2>1, <2>2, <2>3, <2>4
  <2>6. <<>> \in Text /\ n \in Nat BY <1>6, NoParameters DEF n
  <2>7. /\ q \in Parser /\ q.request = req /\ q.state = "BODY" /\ q.buffer = <<>> /\ q.bodyRead = n
    BY <1>1, <2>4, <2>5, <2>6 DEF Parser
  <2>8. n <= l /\ n <= Len(r) BY <1>2, <1>6, <1>13, <2>1 DEF n
  <2>9. SubSeq(r, 1, n) = r /\ From(r, n + 1) = <<>> BY <1>4, FullPiece DEF n
  <2>10. InBody(q, text) BY <1>4, <2>7, <2>8, <2>9 DEF InBody, req, F, r, l
  <2>11. n < l BY <1>2, <1>6, <1>13, <2>1 DEF n
  <2>12. Settled(q) BY <2>4, <2>7, <2>11 DEF Settled
  <2>13. QED BY <2>4, <2>7, <2>10, <2>12 DEF Parsed, q
<1>14. CASE ~(Len(b) < l - m)
  <2> DEFINE q == TakeBody(p)
             j == l - m
             body == SubSeq(r, 1, l)
             req == [F EXCEPT !.body = body]
             rest == From(b, j + 1)
  <2>1. l \in 0..Len(r) /\ m \in 0..l /\ j \in 0..Len(b) BY <1>2, <1>5, <1>6, <1>7, <1>8, <1>14
  <2>2. a \o SubSeq(b, 1, j) = body BY <1>4, <1>5, <2>1, TwoPieces DEF a
  <2>3. body \in Text BY <1>4, <2>1, CutFacts
  <2> HIDE DEF j
  <2>4. rest \in Text BY <1>2, <2>1, CutFacts DEF b
  <2>5. q = [p EXCEPT !.request = [p.request EXCEPT !.body = p.request.body \o SubSeq(b, 1, j)],
                      !.buffer = rest, !.state = "COMPLETE"]
    BY <1>1, <1>2, <1>10, <1>14 DEF TakeBody, m, b, j, Parser, Request
  <2> HIDE DEF body
  <2>6. req \in Request /\ [p.request EXCEPT !.body = body] = req /\ ParamsOfQuery(req)
    BY <2>3, <1>12
  <2> HIDE DEF q, req, rest
  <2>7. q = [p EXCEPT !.request = req, !.buffer = rest, !.state = "COMPLETE"]
    BY <1>10, <2>2, <2>5, <2>6
  <2>8. /\ q \in Parser /\ q.request = req /\ q.state = "COMPLETE" /\ q.bodyRead = m
    BY <1>1, <2>4, <2>6, <2>7 DEF Parser, m
  <2>9. m <= l /\ l <= Len(r) BY <1>5, <2>1
  <2>10. Completed(q, text) BY <1>4, <2>8, <2>9 DEF Completed, req, body, F, r, l
  <2>11. Settled(q) BY <2>8 DEF Settled
  <2>12. QED BY <2>6, <2>8, <2>10, <2>11 DEF Parsed, q
<1>15. QED BY <1>13, <1>14


\* What a turn takes from the buffer: a line, and the end of it.
LEMMA TakenLine ==
  ASSUME NEW x \in Text, Whole(x), NEW z \in Text, Ends(z) # {}
  PROVE  LET i == Min(Ends(z))
             y == x \o SubSeq(z, 1, i + 1)
             rest == From(z, i + 2)
         IN /\ i \in Nat /\ y \in Text /\ rest \in Text /\ y # <<>> /\ Whole(y)
            /\ x \o z = y \o rest /\ Len(y) = Len(x) + i + 1
            /\ Ends(y) = Ends(x) \cup {Len(x) + i}
            /\ Line(y, Len(x) + i) = SubSeq(z, 1, i - 1)
            /\ SubSeq(z, 1, i - 1) \in Text /\ Len(SubSeq(z, 1, i - 1)) = i - 1
<1> DEFINE i == Min(Ends(z))
           n == i + 1
           c == SubSeq(z, 1, n)
           rest == From(z, n + 1)
           y == x \o c
           k == i - 1
<1>1. /\ i \in Ends(z) /\ i \in 1..(Len(z) - 1) /\ Len(z) \in Nat /\ Len(x) \in Nat
      /\ \A e \in Ends(z) : i <= e
  BY EndsType
<1> HIDE DEF i
<1>2. n \in 0..Len(z) /\ i + 2 = n + 1 BY <1>1
<1> HIDE DEF n
<1>3. c \in Text /\ rest \in Text /\ z = c \o rest /\ Len(c) = n BY <1>2, CutFacts
<1> HIDE DEF c, rest
<1>4. \A e \in 1..(Len(c) - 1) : e \in Ends(z) <=> e \in Ends(c) BY <1>3, EndsOfLonger
<1>5. Ends(c) = {i}
  <2>1. i \in Ends(c)
    <3>1. i \in 1..(Len(c) - 1) BY <1>1, <1>3 DEF n
    <3>2. QED BY <1>1, <1>4, <3>1
  <2>2. ASSUME NEW e \in Ends(c) PROVE e = i
    <3>1. e \in 1..(Len(c) - 1) BY <1>3, EndsType
    <3>2. e \in Ends(z) BY <1>4, <3>1
    <3>3. e <= i /\ i <= e BY <1>1, <1>3, <3>1, <3>2 DEF n
    <3>4. QED BY <1>1, <3>1, <3>3
  <2>3. QED BY <2>1, <2>2
<1>6. Min(Ends(c)) = i
  <2>1. Min(Ends(c)) \in Ends(c) BY <1>3, <1>5, EndsType
  <2>2. QED BY <1>5, <2>1
<1>7. Ends(y) = Ends(x) \cup {Len(x) + i}
  <2>1. Ends(y) = Ends(x) \cup {Len(x) + j : j \in Ends(c)} BY <1>3, EndsOfJoin
  <2>2. QED BY <1>5, <2>1
<1>8. k \in 0..Len(c) /\ k \in 0..Len(z) BY <1>1, <1>3 DEF n
<1> HIDE DEF k
<1>9. Line(y, Len(x) + i) = SubSeq(c, 1, k) BY <1>3, <1>5, <1>6, NextLine DEF k
<1>10. SubSeq(c, 1, k) = SubSeq(z, 1, k) BY <1>3, <1>8, EndOfJoin
<1>11. SubSeq(z, 1, k) \in Text /\ Len(SubSeq(z, 1, k)) = k BY <1>8, CutFacts
<1>12. x \o z = y \o rest
  <2>1. (x \o c) \o rest = x \o (c \o rest) BY <1>3, JoinThree
  <2>2. QED BY <1>3, <2>1
<1>13. y \in Text /\ Len(y) = Len(x) + n
  <2>1. y \in Text /\ Len(y) = Len(x) + Len(c) BY <1>3, JoinFacts
  <2>2. QED BY <1>3, <2>1
<1> HIDE DEF y
<1>14. Len(y) = Len(x) + i + 1 /\ Len(y) - 1 = Len(x) + i BY <1>1, <1>13 DEF n
<1>15. Whole(y) BY <1>7, <1>14 DEF Whole
<1>16. y # <<>>
  <2>1. Len(<<>>) = 0 OBVIOUS
  <2>2. QED BY <1>1, <1>14, <2>1
<1>17. i \in Nat BY <1>1
<1>18. QED BY <1>2, <1>3, <1>7, <1>9, <1>10, <1>11, <1>12, <1>13, <1>14, <1>15, <1>16, <1>17
       DEF i, n, c, rest, y, k


\* A turn in the REQUEST_LINE state.
LEMMA RequestTurnKeeps ==
  ASSUME NEW p, NEW text \in Text, Parsed(p, text), p.state = "REQUEST_LINE", Ends(p.buffer) # {}
  PROVE  /\ Parsed(Turn(p), text)
         /\ Settled(Turn(p)) \/ Len(Turn(p).buffer) < Len(p.buffer)
<1> DEFINE i == Min(Ends(text))
           x == <<>>
           y == x \o SubSeq(text, 1, i + 1)
           rest == From(text, i + 2)
           line == SubSeq(text, 1, i - 1)
           read == ParseRequestLine(NewRequest, line)
           q == Turn(p)
<1>1. /\ p \in Parser /\ p.buffer = text /\ p.request = NewRequest /\ p.bodyRead = 0
      /\ Ends(text) # {}
  BY DEF Parsed, AtStart
<1>2. x \in Text /\ Whole(x) /\ Len(x) = 0 /\ Ends(x) = {} /\ x \o text = text
  <2>1. x \in Text BY NoParameters
  <2>2. x \o text = text BY ConcatEmptySeq DEF Text
  <2>3. Len(x) = 0 OBVIOUS
  <2>4. Ends(x) = {} BY <2>3 DEF Ends
  <2>5. QED BY <2>1, <2>2, <2>3, <2>4 DEF Whole
<1> HIDE DEF x
<1>3. /\ i \in Nat /\ y \in Text /\ rest \in Text /\ y # <<>> /\ Whole(y)
      /\ x \o text = y \o rest /\ Len(y) = Len(x) + i + 1
      /\ Ends(y) = Ends(x) \cup {Len(x) + i}
      /\ Line(y, Len(x) + i) = line /\ line \in Text /\ Len(line) = i - 1
  BY <1>1, <1>2, TakenLine
<1> HIDE DEF i, y, line
<1>4. /\ text = y \o rest /\ Len(y) = i + 1 /\ Ends(y) = {i} /\ Line(y, i) = line
  <2>1. Len(x) + i = i BY <1>2, <1>3
  <2>2. QED BY <1>2, <1>3, <2>1
<1> HIDE DEF rest
<1>5. Len(rest) < Len(text)
  <2>1. y \in Text /\ rest \in Text BY <1>3
  <2>2. Len(y \o rest) = Len(y) + Len(rest) /\ Len(rest) \in Nat BY <2>1, JoinFacts
  <2>3. QED BY <1>3, <1>4, <2>2
<1>6. RequestLine(y) = read /\ RequestLine(text) = read
  <2>1. Min(Ends(y)) = i
    <3>1. Min(Ends(y)) \in Ends(y) BY <1>3, <1>4, EndsType
    <3>2. QED BY <1>4, <3>1
  <2>2. RequestLine(y) = read BY <1>4, <2>1 DEF RequestLine
  <2>3. RequestLine(y \o rest) = RequestLine(y) BY <1>3, <1>4, FirstOfLonger
  <2>4. QED BY <1>4, <2>2, <2>3
<1>7. From(p.buffer, Len(line) + 3) = rest
  <2>1. Len(line) + 3 = i + 2 BY <1>3
  <2>2. QED BY <1>1, <2>1 DEF rest
<1>8. q = IF read.ok
          THEN [p EXCEPT !.buffer = rest, !.request = read.request, !.state = "HEADERS"]
          ELSE [p EXCEPT !.state = "ERROR"]
  <2>1. SubSeq(p.buffer, 1, Min(Ends(p.buffer)) - 1) = line BY <1>1 DEF line, i
  <2>2. [[p EXCEPT !.buffer = rest] EXCEPT !.request = read.request, !.state = "HEADERS"]
          = [p EXCEPT !.buffer = rest, !.request = read.request, !.state = "HEADERS"]
    OBVIOUS
  <2>3. q = IF read.ok
            THEN [[p EXCEPT !.buffer = From(p.buffer, Len(line) + 3)]
                    EXCEPT !.request = read.request, !.state = "HEADERS"]
            ELSE [p EXCEPT !.state = "ERROR"]
    BY <1>1, <2>1 DEF Turn, Parser
  <2>4. QED BY <1>7, <2>2, <2>3
<1> HIDE DEF q, read
<1>9. CASE read.ok
  <2> DEFINE req == read.request
  <2>1. req \in Request /\ ParamsOfQuery(req) BY <1>3, RequestLineType DEF read
  <2> HIDE DEF req
  <2>2. q = [p EXCEPT !.buffer = rest, !.request = req, !.state = "HEADERS"]
    BY <1>8, <1>9 DEF req
  <2>3. /\ q \in Parser /\ q.request = req /\ q.state = "HEADERS" /\ q.buffer = rest
        /\ q.bodyRead = p.bodyRead
    BY <1>1, <1>3, <2>1, <2>2 DEF Parser
  <2>4. Headers(y) = {} /\ Blanks(y) = {}
    <3>1. Min(Ends(y)) \in Ends(y) BY <1>3, <1>4, EndsType
    <3>2. Later(y) = {} BY <1>4, <3>1 DEF Later
    <3>3. QED BY <3>2 DEF Headers, Blanks
  <2>5. HeadRead(y) BY <1>4, <1>6, <1>9, <2>4 DEF HeadRead
  <2>6. Ends(y) # {} BY <1>4
  <2>7. Headed(y) = req BY <1>3, <1>6, <2>4, <2>6, NoHeadersYet DEF req
  <2>8. InHeaders(q, text) BY <1>1, <1>3, <1>4, <2>3, <2>4, <2>5, <2>7 DEF InHeaders
  <2>9. Parsed(q, text) BY <2>1, <2>3, <2>8 DEF Parsed
  <2>10. Len(q.buffer) < Len(p.buffer) BY <1>1, <1>5, <2>3
  <2>11. QED BY <2>9, <2>10 DEF q
<1>10. CASE ~read.ok
  <2>1. q = [p EXCEPT !.state = "ERROR"] BY <1>8, <1>10
  <2>2. /\ q \in Parser /\ q.request = p.request /\ q.state = "ERROR" /\ q.bodyRead = 0
    BY <1>1, <2>1 DEF Parser
  <2>3. Failed(q, text) BY <1>1, <1>6, <1>10, <2>2 DEF Failed
  <2>4. Parsed(q, text) BY <2>2, <2>3 DEF Parsed
  <2>5. Settled(q) BY <2>2 DEF Settled
  <2>6. QED BY <2>4, <2>5 DEF q
<1>11. QED BY <1>9, <1>10

\* Whether a line is a header does not depend on the request it is read for.
LEMMA HeaderFacts ==
  ASSUME NEW r \in Request, NEW line
  PROVE  /\ ParseHeaderLine(r, line).ok = IsHeader(line)
         /\ IsHeader(line) => ParseHeaderLine(r, line).request
              = [r EXCEPT !.headers = With(r.headers, Field(line).key, Field(line).value)]
<1>1. NewRequest \in Request BY NewRequestFacts
<1> HIDE DEF NewRequest
<1>2. CASE Find(line, ":", 1) = 0
  <2>1. ParseHeaderLine(r, line).ok = FALSE BY <1>2 DEF ParseHeaderLine
  <2>2. ParseHeaderLine(NewRequest, line).ok = FALSE BY <1>2 DEF ParseHeaderLine
  <2>3. QED BY <2>1, <2>2 DEF IsHeader
<1>3. CASE Find(line, ":", 1) # 0
  <2>1. ParseHeaderLine(r, line).ok = TRUE BY <1>3 DEF ParseHeaderLine
  <2>2. ParseHeaderLine(NewRequest, line).ok = TRUE BY <1>3 DEF ParseHeaderLine
  <2>3. ParseHeaderLine(r, line).request
          = [r EXCEPT !.headers = With(r.headers, Field(line).key, Field(line).value)]
    BY <1>3 DEF ParseHeaderLine, Request
  <2>4. QED BY <2>1, <2>2, <2>3 DEF IsHeader
<1>4. QED BY <1>2, <1>3


\* What one more line makes of the head: its end, when it is empty, and otherwise one
\* more header.
LEMMA LineAdded ==
  ASSUME NEW x \in Text, Whole(x), Ends(x) # {}, Blanks(x) = {}, NEW z \in Text, Ends(z) # {}
  PROVE  LET e == Len(x) + Min(Ends(z))
             y == x \o SubSeq(z, 1, Min(Ends(z)) + 1)
             line == SubSeq(z, 1, Min(Ends(z)) - 1)
         IN /\ RequestLine(y) = RequestLine(x) /\ e \in Nat /\ \A d \in Headers(x) : d < e
            /\ \A d \in Headers(x) : Line(y, d) = Line(x, d)
            /\ line = <<>> => Blanks(y) = {e} /\ Headers(y) = Headers(x)
            /\ line # <<>> => Blanks(y) = {} /\ Headers(y) = Headers(x) \cup {e}
<1> DEFINE i == Min(Ends(z))
           e == Len(x) + i
           n == i + 1
           c == SubSeq(z, 1, n)
           y == x \o c
           line == SubSeq(z, 1, i - 1)
<1>1. Ends(y) = Ends(x) \cup {e} /\ Line(y, e) = line /\ y \in Text BY TakenLine
<1>2. i \in 1..(Len(z) - 1) /\ Len(z) \in Nat /\ Len(x) \in Nat BY EndsType
<1> HIDE DEF i, line
<1>3. c \in Text
  <2>1. n \in 0..Len(z) BY <1>2
  <2> HIDE DEF n
  <2>2. QED BY <2>1, CutFacts
<1> HIDE DEF c
<1>4. RequestLine(y) = RequestLine(x) /\ Min(Ends(y)) = Min(Ends(x)) BY <1>3, FirstOfLonger
<1>5. \A d \in Ends(x) : Line(y, d) = Line(x, d) BY <1>3, LineOfLonger
<1>6. e \in Nat /\ \A d \in Ends(x) : d \in Nat /\ d < e
  <2>1. \A d \in Ends(x) : d \in Nat /\ d <= Len(x) - 1 BY <1>2, EndsType
  <2>2. QED BY <1>2, <2>1
<1>7. Min(Ends(x)) \in Ends(x) BY EndsType
<1> HIDE DEF e, y
<1>8. e \notin Ends(x) /\ e # Min(Ends(x))
  <2>1. ~(e < e) BY <1>6
  <2>2. QED BY <1>6, <1>7, <2>1
<1>9. Later(y) = Later(x) \cup {e} BY <1>1, <1>4, <1>8 DEF Later
<1>10. Later(x) \subseteq Ends(x) BY DEF Later
<1>11. \A d \in Later(x) : Line(x, d) # <<>> BY DEF Blanks
<1>12. Headers(x) = Later(x) BY DEF Headers
<1>13. \A d \in Later(x) : d < e /\ ~(e < d) /\ Line(y, d) = Line(x, d)
  <2>1. \A d \in Nat : d < e => ~(e < d) BY <1>6
  <2>2. QED BY <1>5, <1>6, <1>10, <2>1
<1>14. ASSUME line = <<>> PROVE Blanks(y) = {e} /\ Headers(y) = Headers(x)
  <2>1. Blanks(y) = {e} BY <1>1, <1>9, <1>11, <1>13, <1>14 DEF Blanks
  <2>2. ~(e < e) BY <1>6
  <2>3. QED BY <1>9, <1>12, <1>13, <2>1, <2>2 DEF Headers
<1>15. ASSUME line # <<>> PROVE Blanks(y) = {} /\ Headers(y) = Headers(x) \cup {e}
  <2>1. Blanks(y) = {} BY <1>1, <1>9, <1>11, <1>13, <1>15 DEF Blanks
  <2>2. QED BY <1>9, <1>12, <2>1 DEF Headers
<1>16. QED BY <1>4, <1>6, <1>12, <1>13, <1>14, <1>15 DEF e, y, c, n, line, i

\* A turn in the HEADERS state.
LEMMA HeaderTurnKeeps ==
  ASSUME NEW p, NEW text \in Text, Parsed(p, text), p.state = "HEADERS", Ends(p.buffer) # {}
  PROVE  /\ Parsed(Turn(p), text)
         /\ Settled(Turn(p)) \/ Len(Turn(p).buffer) < Len(p.buffer)
<1>1. /\ p \in Parser /\ ParamsOfQuery(p.request) /\ InHeaders(p, text) BY DEF Parsed
<1>2. PICK x \in Text : /\ text = x \o p.buffer /\ x # <<>> /\ Whole(x)
                        /\ HeadRead(x) /\ Blanks(x) = {} /\ p.request = Headed(x)
  BY <1>1 DEF InHeaders
<1> DEFINE z == p.buffer
           i == Min(Ends(z))
           e == Len(x) + i
           y == x \o SubSeq(z, 1, i + 1)
           rest == From(z, i + 2)
           line == SubSeq(z, 1, i - 1)
           q == Turn(p)
           next == [p EXCEPT !.buffer = rest]
           new == [p.request EXCEPT !.headers = With(p.request.headers, Field(line).key,
                                                                        Field(line).value)]
<1>3. z \in Text /\ Ends(z) # {} /\ p.bodyRead = 0 /\ p.request \in Request
  BY <1>1 DEF Parser, InHeaders
<1> HIDE DEF z
<1>4. Ends(x) # {} BY <1>2 DEF HeadRead
<1>5. /\ i \in Nat /\ y \in Text /\ rest \in Text /\ y # <<>> /\ Whole(y)
      /\ x \o z = y \o rest /\ Len(y) = e + 1
      /\ Ends(y) = Ends(x) \cup {e}
      /\ Line(y, e) = line /\ line \in Text /\ Len(line) = i - 1
  BY <1>2, <1>3, TakenLine
<1>6. /\ RequestLine(y) = RequestLine(x) /\ e \in Nat /\ \A d \in Headers(x) : d < e
      /\ \A d \in Headers(x) : Line(y, d) = Line(x, d)
      /\ line = <<>> => Blanks(y) = {e} /\ Headers(y) = Headers(x)
      /\ line # <<>> => Blanks(y) = {} /\ Headers(y) = Headers(x) \cup {e}
  BY <1>2, <1>3, <1>4, LineAdded
<1>7. Len(rest) < Len(z) /\ Len(z) \in Nat
  <2>1. i \in 1..(Len(z) - 1) /\ Len(z) \in Nat BY <1>3, EndsType
  <2> DEFINE n == i + 1
  <2> HIDE DEF i
  <2>2. n \in 0..Len(z) /\ i + 2 = n + 1 BY <2>1
  <2>3. Len(z) - n < Len(z) BY <2>1
  <2> HIDE DEF n
  <2>4. Len(From(z, n + 1)) = Len(z) - n BY <1>3, <2>2, CutFacts
  <2>5. QED BY <2>1, <2>2, <2>3, <2>4
<1> HIDE DEF i, e, y, rest, line
<1>8. text = y \o rest BY <1>2, <1>5 DEF z
<1>9. From(p.buffer, Len(line) + 3) = rest
  <2>1. Len(line) + 3 = i + 2 BY <1>5
  <2>2. QED BY <2>1 DEF rest, z
<1>10. SubSeq(p.buffer, 1, Min(Ends(p.buffer)) - 1) = line BY DEF line, i, z
<1>11. next \in Parser /\ next.request = p.request /\ next.buffer = rest /\ next.bodyRead = 0
  BY <1>1, <1>3, <1>5 DEF Parser
<1>12. line = <<>> => q = [next EXCEPT !.request = FinalizeHeaders(p.request), !.state = "BODY"]
  BY <1>9, <1>10, <1>11, <1>3 DEF Turn, z
<1>13. /\ line # <<>> /\ IsHeader(line) => q = [next EXCEPT !.request = new, !.state = "HEADERS"]
       /\ line # <<>> /\ ~IsHeader(line) => q = [p EXCEPT !.state = "ERROR"]
  <2> DEFINE read == ParseHeaderLine(p.request, line)
  <2>1. read.ok = IsHeader(line) /\ (IsHeader(line) => read.request = new)
    BY <1>3, HeaderFacts
  <2> HIDE DEF read, new
  <2>2. line # <<>> => q = IF read.ok THEN [next EXCEPT !.request = read.request, !.state = "HEADERS"]
                           ELSE [p EXCEPT !.state = "ERROR"]
    BY <1>9, <1>10, <1>3 DEF Turn, read, z
  <2>3. QED BY <2>1, <2>2
<1> HIDE DEF q, next
<1>14. Ends(y) # {} /\ RequestLine(y).ok /\ \A d \in Headers(x) : IsHeader(Line(y, d))
  BY <1>2, <1>5, <1>6 DEF HeadRead
<1>15. CASE line = <<>>
  <2> DEFINE F == Final(text)
  <2>1. q = [next EXCEPT !.request = FinalizeHeaders(p.request), !.state = "BODY"]
    BY <1>12, <1>15
  <2>2. Blanks(y) = {e} /\ Headers(y) = Headers(x) BY <1>6, <1>15
  <2>3. Headed(y) = p.request BY <1>2, <1>6, <2>2, SameHead
  <2>4. HeadDone(y) BY <1>14, <2>2 DEF HeadDone, HeadRead
  <2>5. /\ HeadDone(text) /\ Final(text) = Final(y) /\ Rest(text) = Rest(y) \o rest
    BY <1>5, <1>8, <2>4, HeadOfLonger
  <2>6. Rest(text) = rest
    <3>1. Min(Blanks(y)) \in Blanks(y) BY <1>5, <2>2, LinesType
    <3>2. Min(Blanks(y)) = e BY <2>2, <3>1
    <3>3. e + 2 = Len(y) + 1 BY <1>5, <1>6
    <3>4. From(y, Len(y) + 1) = <<>> BY <1>5, FullPiece
    <3>5. Rest(y) = <<>> BY <3>2, <3>3, <3>4 DEF Rest
    <3>6. <<>> \o rest = rest BY <1>5, ConcatEmptySeq DEF Text
    <3>7. QED BY <2>5, <3>5, <3>6
  <2>7. F = FinalizeHeaders(p.request) BY <2>3, <2>5 DEF Final
  <2> HIDE DEF F
  <2>8. F \in Request /\ F.params = p.request.params /\ F.query = p.request.query
        /\ F.body = p.request.body
    BY <1>3, <2>7, FinalType
  <2>9. F.body = <<>> BY <1>5, <1>14, <2>3, <2>8, HeadedType
  <2>10. F.contentLength \in Nat /\ [F EXCEPT !.body = <<>>] = F BY <2>8, <2>9 DEF Request
  <2>11. ParamsOfQuery(F) BY <1>1, <2>8 DEF ParamsOfQuery
  <2>12. /\ q \in Parser /\ q.request = F /\ q.state = "BODY" /\ q.buffer = rest
         /\ q.bodyRead = 0
    BY <1>11, <2>1, <2>7, <2>8 DEF Parser
  <2>13. Len(rest) \in Nat /\ SubSeq(rest, 1, 0) = <<>> /\ From(rest, 0 + 1) = rest
    <3>1. Len(rest) \in Nat BY <1>5, LenProperties DEF Text
    <3> DEFINE n == 0
    <3>2. n \in 0..Len(rest) BY <3>1
    <3> HIDE DEF n
    <3>3. /\ SubSeq(rest, 1, n) \in Text /\ From(rest, n + 1) \in Text
          /\ rest = SubSeq(rest, 1, n) \o From(rest, n + 1) /\ Len(SubSeq(rest, 1, n)) = n
      BY <1>5, <3>2, CutFacts
    <3>4. SubSeq(rest, 1, n) = <<>> BY <3>3, EmptySeq DEF Text, n
    <3>5. <<>> \o From(rest, n + 1) = From(rest, n + 1) BY <3>3, ConcatEmptySeq DEF Text
    <3>6. QED BY <3>1, <3>3, <3>4, <3>5 DEF n
  <2>14. InBody(q, text)
    <3>1. SubSeq(Rest(text), 1, q.bodyRead) = <<>> /\ From(Rest(text), q.bodyRead + 1) = rest
      BY <2>6, <2>12, <2>13
    <3>2. q.bodyRead <= F.contentLength /\ q.bodyRead <= Len(Rest(text))
      BY <2>6, <2>10, <2>12, <2>13
    <3>3. q.request = [F EXCEPT !.body = SubSeq(Rest(text), 1, q.bodyRead)]
      BY <2>10, <2>12, <3>1
    <3>4. q.buffer = From(Rest(text), q.bodyRead + 1) BY <2>12, <3>1
    <3>5. QED BY <2>5, <3>2, <3>3, <3>4 DEF InBody, F
  <2>15. Parsed(q, text) BY <2>11, <2>12, <2>14 DEF Parsed
  <2>16. Len(q.buffer) < Len(p.buffer) BY <1>7, <2>12 DEF z
  <2>17. QED BY <2>15, <2>16 DEF q
<1>16. CASE line # <<>> /\ IsHeader(line)
  <2> DEFINE R == RequestLine(x).request
             f == HeadersIn(x)
             g == HeadersIn(y)
             key == Field(line).key
             value == Field(line).value
  <2>1. q = [next EXCEPT !.request = new, !.state = "HEADERS"] BY <1>13, <1>16
  <2>2. Blanks(y) = {} /\ Headers(y) = Headers(x) \cup {e} BY <1>6, <1>16
  <2>3. HeadRead(y) BY <1>5, <1>14, <1>16, <2>2 DEF HeadRead
  <2>4. g = With(f, key, value)
    <3> DEFINE at == Headers(x)
               at2 == Headers(y)
               k1 == [d \in at |-> Field(Line(x, d)).key]
               v1 == [d \in at |-> Field(Line(x, d)).value]
               k2 == [d \in at2 |-> Field(Line(y, d)).key]
               v2 == [d \in at2 |-> Field(Line(y, d)).value]
    <3>1. f = LastOfEach(at, k1, v1) /\ g = LastOfEach(at2, k2, v2) BY DEF HeadersIn
    <3>2. \A d \in at : k2[d] = k1[d] /\ v2[d] = v1[d] BY <1>6, <2>2
    <3>3. k2[e] = key /\ v2[e] = value BY <1>5, <2>2
    <3>4. at2 = at \cup {e} BY <2>2
    <3>5. at \in SUBSET Nat BY LinesType
    <3>6. e \in Nat /\ \A d \in at : d < e BY <1>6
    <3> HIDE DEF at, at2, k1, k2, v1, v2, f, g, key, value
    <3>7. LastOfEach(at \cup {e}, k2, v2) = With(LastOfEach(at, k1, v1), k2[e], v2[e])
      BY <3>2, <3>5, <3>6, LastGrows
    <3>8. QED BY <3>1, <3>3, <3>4, <3>7
  <2>5. /\ R \in Request /\ p.request = [R EXCEPT !.headers = f] /\ p.request.headers = f
    BY <1>2, <1>4, HeadedType
  <2>6. /\ Headed(y) = [R EXCEPT !.headers = g] /\ Headed(y) \in Request
        /\ ParamsOfQuery(Headed(y))
    BY <1>5, <1>6, <1>14, HeadedType
  <2> HIDE DEF R, f, g, key, value
  <2>7. [[R EXCEPT !.headers = f] EXCEPT !.headers = g] = [R EXCEPT !.headers = g]
    BY <2>5 DEF Request
  <2>8. new = Headed(y) BY <2>4, <2>5, <2>6, <2>7 DEF key, value
  <2> HIDE DEF new
  <2>9. /\ q \in Parser /\ q.request = Headed(y) /\ q.state = "HEADERS" /\ q.buffer = rest
        /\ q.bodyRead = 0
    BY <1>11, <2>1, <2>6, <2>8 DEF Parser
  <2>10. InHeaders(q, text) BY <1>5, <1>8, <2>2, <2>3, <2>9 DEF InHeaders
  <2>11. Parsed(q, text) BY <2>6, <2>9, <2>10 DEF Parsed
  <2>12. Len(q.buffer) < Len(p.buffer) BY <1>7, <2>9 DEF z
  <2>13. QED BY <2>11, <2>12 DEF q
<1>17. CASE line # <<>> /\ ~IsHeader(line)
  <2>1. q = [p EXCEPT !.state = "ERROR"] BY <1>13, <1>17
  <2>2. /\ q \in Parser /\ q.request = p.request /\ q.state = "ERROR" /\ q.bodyRead = 0
    BY <1>1, <1>3, <2>1 DEF Parser
  <2>3. e \in Headers(y) BY <1>6, <1>17
  <2>4. e \in Headers(text) BY <1>5, <1>8, <2>3, HeadersOfLonger
  <2>5. Line(text, e) = line
    <3>1. e \in Ends(y) BY <1>5
    <3>2. Line(y \o rest, e) = Line(y, e) BY <1>5, <3>1, LineOfLonger
    <3>3. QED BY <1>5, <1>8, <3>2
  <2>6. Ends(text) # {} BY <1>5, <1>8, <1>14, FirstOfLonger
  <2>7. Failed(q, text) BY <1>17, <2>2, <2>4, <2>5, <2>6 DEF Failed
  <2>8. Parsed(q, text) BY <1>1, <2>2, <2>7 DEF Parsed
  <2>9. Settled(q) BY <2>2 DEF Settled
  <2>10. QED BY <2>8, <2>9 DEF q
<1>18. QED BY <1>15, <1>16, <1>17


\* Every turn keeps what has been made of the text, and takes bytes unless it is the last.
LEMMA TurnKeeps ==
  ASSUME NEW text \in Text, NEW p, Parsed(p, text)
  PROVE  /\ Parsed(Turn(p), text)
         /\ Settled(Turn(p)) \/ Len(Turn(p).buffer) < Len(p.buffer)
<1>1. p \in Parser BY DEF Parsed
<1>2. p.state \in {"REQUEST_LINE", "HEADERS", "BODY", "COMPLETE", "ERROR"} BY <1>1 DEF Parser
<1>3. CASE p.state \in {"COMPLETE", "ERROR"}
  <2>1. Turn(p) = p BY <1>3 DEF Turn
  <2>2. QED BY <1>3, <2>1 DEF Settled
<1>4. CASE p.state = "BODY"
  <2>1. Turn(p) = TakeBody(p) BY <1>4 DEF Turn
  <2>2. QED BY <1>4, <2>1, BodyTurnKeeps
<1>5. CASE p.state \in {"REQUEST_LINE", "HEADERS"} /\ Ends(p.buffer) = {}
  <2>1. Turn(p) = p BY <1>5 DEF Turn
  <2>2. QED BY <1>5, <2>1 DEF Settled
<1>6. CASE p.state = "REQUEST_LINE" /\ Ends(p.buffer) # {} BY <1>6, RequestTurnKeeps
<1>7. CASE p.state = "HEADERS" /\ Ends(p.buffer) # {} BY <1>7, HeaderTurnKeeps
<1>8. QED BY <1>2, <1>3, <1>4, <1>5, <1>6, <1>7

\* The turns of feed come to where it stops.
LEMMA ParseFacts ==
  ASSUME NEW text \in Text, NEW p, Parsed(p, text)
  PROVE  Parsed(Parse(p), text) /\ Settled(Parse(p))
<1> DEFINE n == Len(p.buffer) + 1
           S == {x \in Parser : Parsed(x, text)}
           Step == [x \in S |-> Turn(x)]
           Left(x) == IF Settled(x) THEN 0 ELSE Len(x.buffer) + 1
           left == [x \in S |-> Left(x)]
<1>1. \A x \in S : Parsed(x, text) /\ Len(x.buffer) \in Nat
  <2>1. \A x \in S : Parsed(x, text) /\ x.buffer \in Text BY DEF Parser
  <2>2. QED BY <2>1, LenProperties DEF Text
<1>2. \A x : Parsed(x, text) => x \in S BY DEF Parsed
<1> HIDE DEF S
<1>3. p \in S BY <1>2
<1>4. n \in Nat /\ Left(p) <= n BY <1>1, <1>3
<1>5. ASSUME NEW x \in S PROVE Turn(x) \in S /\ (Settled(Turn(x)) \/ Len(Turn(x).buffer) < Len(x.buffer))
  <2>1. Parsed(x, text) BY <1>1
  <2>2. /\ Parsed(Turn(x), text)
        /\ Settled(Turn(x)) \/ Len(Turn(x).buffer) < Len(x.buffer)
    BY <2>1, TurnKeeps
  <2>3. QED BY <1>2, <2>2
<1>6. ASSUME NEW x \in S PROVE Left(Turn(x)) = 0 \/ Left(Turn(x)) < Left(x) \/ Settled(x)
  <2>1. Turn(x) \in S /\ Len(x.buffer) \in Nat /\ Len(Turn(x).buffer) \in Nat BY <1>1, <1>5
  <2>2. QED BY <1>5, <2>1
<1>7. ASSUME NEW x \in S, Settled(x) PROVE Settled(Turn(x))
  <2>1. x \in Parser BY <1>1 DEF Parsed
  <2>2. CASE x.state \in {"COMPLETE", "ERROR"} BY <1>7, <2>2 DEF Turn
  <2>3. CASE x.state \in {"REQUEST_LINE", "HEADERS"} /\ Ends(x.buffer) = {}
    BY <1>7, <2>3 DEF Turn
  <2>4. CASE x.state = "BODY"
    <3>1. Turn(x) = TakeBody(x) BY <2>4 DEF Turn
    <3>2. Parsed(x, text) BY <1>1
    <3>3. QED BY <2>4, <3>1, <3>2, BodyTurnKeeps
  <2>5. QED BY <1>7, <2>2, <2>3, <2>4 DEF Settled
<1>8. \A x \in S : Left(x) \in Nat BY <1>1
<1>9. \A x \in S : Left(Turn(x)) = 0 \/ Left(Turn(x)) < Left(x) BY <1>6, <1>7
<1>10. \A x \in S : Left(x) = 0 => Settled(x) BY <1>1
<1> DEFINE turn[k \in 0..n] == IF k = 0 THEN p ELSE Turn(turn[k - 1])
<1>11. Parse(p) = turn[n] BY DEF Parse
<1> HIDE DEF n, Left
<1>12. Step \in [S -> S] /\ left \in [S -> Nat] /\ left[p] <= n BY <1>3, <1>4, <1>5, <1>8
<1>13. \A x \in S : Step[x] = Turn(x) /\ left[x] = Left(x) OBVIOUS
<1> HIDE DEF Step, left
<1>14. \A x \in S : left[Step[x]] = 0 \/ left[Step[x]] < left[x]
  <2> SUFFICES ASSUME NEW x \in S PROVE left[Step[x]] = 0 \/ left[Step[x]] < left[x] OBVIOUS
  <2>1. Step[x] = Turn(x) /\ Turn(x) \in S BY <1>5, <1>13
  <2>2. QED BY <1>9, <1>13, <2>1
<1>15. PICK f \in [0..n -> S] : f = [k \in 0..n |-> IF k = 0 THEN p ELSE Step[f[k - 1]]]
  <2>1. Runs(n, S, p, Step) # {} BY <1>3, <1>4, <1>12, LoopExists
  <2>2. QED BY <2>1 DEF Runs
<1>16. f = [k \in 0..n |-> IF k = 0 THEN p ELSE Turn(f[k - 1])]
  <2>1. \A k \in 0..n : k # 0 => f[k - 1] \in S
    <3>1. \A k \in 0..n : k # 0 => k - 1 \in 0..n BY <1>4
    <3>2. QED BY <3>1
  <2>2. QED BY <1>13, <1>15, <2>1
<1>17. turn = [k \in 0..n |-> IF k = 0 THEN p ELSE Turn(turn[k - 1])] BY <1>16
<1> HIDE DEF turn
<1>18. turn[0] = p /\ \A k \in 1..n : turn[k] = Turn(turn[k - 1])
  <2>1. 0 \in 0..n /\ \A k \in 1..n : k \in 0..n /\ k # 0 BY <1>4
  <2>2. QED BY <1>17, <2>1
<1>19. turn[n] \in S /\ left[turn[n]] = 0
  <2>1. turn[0] \in S /\ left[turn[0]] <= n BY <1>3, <1>12, <1>18
  <2>2. \A k \in 1..n : turn[k - 1] \in S => turn[k] = Step[turn[k - 1]] BY <1>13, <1>18
  <2>3. Over(turn, n, S, Step, left) BY <1>4, <1>12, <1>14, <2>1, <2>2, LoopEnds
  <2>4. QED BY <2>3 DEF Over
<1>20. QED BY <1>1, <1>10, <1>11, <1>13, <1>19

-----------------------------------------------------------------------------
(* What it means                                                             *)

\* Where feed stops, what it has made of the text is what the text means.
LEMMA SettledMeans ==
  ASSUME NEW text \in Text, NEW p, Parsed(p, text), Settled(p)
  PROVE  LET m == Meaning(text)
         IN p.state = m.state /\ (m.state # "ERROR" => p.request = m.request)
<1> DEFINE m == Meaning(text)
<1>1. p \in Parser BY DEF Parsed
<1>2. p.state \in {"REQUEST_LINE", "HEADERS", "BODY", "COMPLETE", "ERROR"} /\ p.buffer \in Text
  BY <1>1 DEF Parser
<1>3. CASE p.state = "REQUEST_LINE"
  <2>1. p.buffer = text /\ p.request = NewRequest /\ Ends(text) = {}
    BY <1>3 DEF Parsed, AtStart, Settled
  <2>2. m = [state |-> "REQUEST_LINE", request |-> NewRequest] BY <2>1 DEF Meaning
  <2> HIDE DEF m
  <2>3. m.state = "REQUEST_LINE" /\ m.request = NewRequest BY <2>2
  <2>4. QED BY <1>3, <2>1, <2>3 DEF m
<1>4. CASE p.state = "HEADERS"
  <2>1. PICK x \in Text : /\ text = x \o p.buffer /\ x # <<>> /\ Whole(x)
                          /\ HeadRead(x) /\ Blanks(x) = {} /\ p.request = Headed(x)
    BY <1>4 DEF Parsed, InHeaders
  <2>2. Ends(p.buffer) = {} BY <1>4 DEF Settled
  <2>3. Ends(text) = Ends(x)
    <3>1. Ends(x \o p.buffer) = Ends(x) \cup {Len(x) + i : i \in Ends(p.buffer)}
      BY <1>2, <2>1, EndsOfJoin
    <3>2. QED BY <2>1, <2>2, <3>1
  <2>4. \A e \in Ends(x) : Line(text, e) = Line(x, e) BY <1>2, <2>1, LineOfLonger
  <2>5. Ends(x) # {} BY <2>1 DEF HeadRead
  <2>6. RequestLine(text) = RequestLine(x) BY <1>2, <2>1, <2>5, FirstOfLonger
  <2>7. Later(text) = Later(x) /\ Later(x) \subseteq Ends(x) BY <2>3 DEF Later
  <2>8. Blanks(text) = {} BY <2>1, <2>4, <2>7 DEF Blanks
  <2>9. Headers(text) = Headers(x) /\ Headers(x) \subseteq Ends(x)
    BY <2>1, <2>7, <2>8 DEF Headers
  <2>10. Headed(text) = Headed(x) BY <2>4, <2>6, <2>9, SameHead
  <2>11. HeadRead(text) BY <2>1, <2>3, <2>4, <2>6, <2>9 DEF HeadRead
  <2>12. m = [state |-> "HEADERS", request |-> Headed(text)]
    BY <2>8, <2>11 DEF Meaning, HeadRead
  <2> HIDE DEF m
  <2>13. m.state = "HEADERS" /\ m.request = Headed(text) BY <2>12
  <2>14. QED BY <1>4, <2>1, <2>10, <2>13 DEF m
<1>5. CASE p.state = "BODY"
  <2>1. InBody(p, text) /\ p.buffer = <<>> /\ p.bodyRead < p.request.contentLength
    BY <1>5 DEF Parsed, Settled
  <2> DEFINE F == Final(text)
             r == Rest(text)
             k == p.bodyRead
  <2>2. HeadDone(text) BY <2>1 DEF InBody
  <2>3. F \in Request
    <3>1. Ends(text) # {} BY <2>2 DEF HeadDone, HeadRead
    <3>2. Headed(text) \in Request BY <3>1, HeadedType
    <3>3. QED BY <3>2, FinalType DEF Final
  <2>4. r \in Text
    <3>1. <<>> \in Text BY NoParameters
    <3>2. QED BY <2>2, <3>1, HeadOfLonger
  <2>5. /\ k <= Len(r) /\ k \in Nat /\ From(r, k + 1) = <<>>
        /\ p.request = [F EXCEPT !.body = SubSeq(r, 1, k)]
    BY <1>1, <2>1 DEF InBody, Parser
  <2> HIDE DEF F, r, k
  <2>6. Len(r) \in Nat /\ k = Len(r)
    <3>1. Len(r) \in Nat BY <2>4, LenProperties DEF Text
    <3>2. k \in 0..Len(r) BY <2>5, <3>1
    <3>3. Len(From(r, k + 1)) = Len(r) - k BY <2>4, <3>2, CutFacts
    <3>4. Len(<<>>) = 0 OBVIOUS
    <3>5. QED BY <2>5, <3>1, <3>3, <3>4
  <2>7. SubSeq(r, 1, k) = r BY <2>4, <2>6, FullPiece
  <2>8. p.request = [F EXCEPT !.body = r] BY <2>5, <2>7
  <2>9. p.request.contentLength = F.contentLength BY <2>3, <2>8 DEF Request
  <2>10. Len(r) < F.contentLength BY <2>1, <2>6, <2>9 DEF k
  <2>11. m = [state |-> "BODY", request |-> [F EXCEPT !.body = r]]
    BY <2>2, <2>10 DEF Meaning, HeadDone, HeadRead, F, Final, r, Rest
  <2> HIDE DEF m
  <2>12. m.state = "BODY" /\ m.request = [F EXCEPT !.body = r] BY <2>11
  <2>13. QED BY <1>5, <2>8, <2>12 DEF m
<1>6. CASE p.state = "COMPLETE"
  <2>1. Completed(p, text) BY <1>6 DEF Parsed
  <2> DEFINE F == Final(text)
             r == Rest(text)
             l == F.contentLength
  <2>2. HeadDone(text) BY <2>1 DEF Completed
  <2>3. l \in Nat
    <3>1. Ends(text) # {} BY <2>2 DEF HeadDone, HeadRead
    <3>2. Headed(text) \in Request BY <3>1, HeadedType
    <3>3. F \in Request BY <3>2, FinalType DEF Final
    <3>4. QED BY <3>3 DEF Request
  <2>4. Len(r) \in Nat
    <3>1. <<>> \in Text BY NoParameters
    <3>2. r \in Text BY <2>2, <3>1, HeadOfLonger
    <3>3. QED BY <3>2, LenProperties DEF Text
  <2>5. l <= Len(r) /\ p.request = [F EXCEPT !.body = SubSeq(r, 1, l)] BY <2>1 DEF Completed
  <2>6. ~(Len(r) < l) BY <2>3, <2>4, <2>5
  <2>7. m = [state |-> "COMPLETE", request |-> [F EXCEPT !.body = SubSeq(r, 1, l)]]
    BY <2>2, <2>6 DEF Meaning, HeadDone, HeadRead, Final, Rest
  <2> HIDE DEF m, F, r, l
  <2>8. m.state = "COMPLETE" /\ m.request = [F EXCEPT !.body = SubSeq(r, 1, l)] BY <2>7
  <2>9. QED BY <1>6, <2>5, <2>8 DEF m
<1>7. CASE p.state = "ERROR"
  <2>1. Failed(p, text) BY <1>7 DEF Parsed
  <2>2. m = [state |-> "ERROR"] BY <2>1 DEF Failed, Meaning
  <2> HIDE DEF m
  <2>3. m.state = "ERROR" BY <2>2
  <2>4. QED BY <1>7, <2>3 DEF m
<1>8. QED BY <1>2, <1>3, <1>4, <1>5, <1>6, <1>7


-----------------------------------------------------------------------------
(* The specification                                                         *)

\* The inductive invariant: the parser has stopped at what it has made of the bytes fed.
ParserInv ==
  /\ fed \in Text /\ unsent \in Text
  /\ Parsed(parser, fed) /\ Settled(parser)

\* A new parser has made nothing of nothing.
LEMMA NewParserFacts == <<>> \in Text /\ Parsed(NewParser, <<>>) /\ Settled(NewParser)
<1> DEFINE x == <<>>
           p == NewParser
<1>1. x \in Text /\ Len(x) = 0 BY NoParameters
<1>2. p.request = NewRequest /\ p.state = "REQUEST_LINE" /\ p.buffer = x /\ p.bodyRead = 0
  BY DEF NewParser
<1>3. NewRequest \in Request /\ ParamsOfQuery(NewRequest) BY NewRequestFacts
<1> HIDE DEF NewRequest
<1>4. p \in Parser BY <1>1, <1>3 DEF NewParser, Parser
<1>5. Ends(x) = {} BY <1>1 DEF Ends
<1> HIDE DEF p, x
<1>6. Settled(p) BY <1>2, <1>5 DEF Settled
<1>7. AtStart(p, x) BY <1>2 DEF AtStart
<1>8. Parsed(p, x) BY <1>2, <1>3, <1>4, <1>7 DEF Parsed
<1>9. QED BY <1>1, <1>6, <1>8 DEF p, x

\* A recv and a feed keep the invariant.
LEMMA FeedKeeps == ParserInv /\ Feed => ParserInv'
<1> SUFFICES ASSUME ParserInv, Feed PROVE ParserInv' OBVIOUS
<1>1. PICK n \in 1..MaxChunk :
        /\ n <= Len(unsent)
        /\ parser' = Parse([parser EXCEPT !.buffer = @ \o SubSeq(unsent, 1, n)])
        /\ fed' = fed \o SubSeq(unsent, 1, n)
        /\ unsent' = From(unsent, n + 1)
  BY DEF Feed
<1>2. fed \in Text /\ unsent \in Text /\ Parsed(parser, fed) BY DEF ParserInv
<1>3. n \in 0..Len(unsent)
  <2>1. Len(unsent) \in Nat BY <1>2, LenProperties DEF Text
  <2>2. QED BY <1>1, <2>1
<1> DEFINE z == SubSeq(unsent, 1, n)
           text == fed \o z
           p == [parser EXCEPT !.buffer = @ \o z]
<1>4. z \in Text /\ From(unsent, n + 1) \in Text BY <1>2, <1>3, CutFacts
<1> HIDE DEF z
<1>5. text \in Text BY <1>2, <1>4, JoinFacts
<1>6. Parsed(p, text) BY <1>2, <1>4, ChunkKeeps
<1> HIDE DEF text, p
<1>7. Parsed(Parse(p), text) /\ Settled(Parse(p)) BY <1>5, <1>6, ParseFacts
<1>8. parser' = Parse(p) /\ fed' = text /\ unsent' \in Text BY <1>1, <1>4 DEF p, text, z
<1>9. QED BY <1>5, <1>7, <1>8 DEF ParserInv

\* So do all the steps of the specification.
LEMMA InvariantHolds == Spec => []ParserInv
<1>1. Init => ParserInv
  <2> SUFFICES ASSUME Init PROVE ParserInv OBVIOUS
  <2>1. parser = NewParser /\ fed = <<>> /\ unsent \in Streams BY DEF Init
  <2>2. unsent \in Text BY <2>1, ParserAssumption DEF Text
  <2>3. QED BY <2>1, <2>2, NewParserFacts DEF ParserInv
<1>2. ParserInv /\ [Next]_vars => ParserInv'
  <2> SUFFICES ASSUME ParserInv, [Next]_vars PROVE ParserInv' OBVIOUS
  <2>1. CASE Feed BY <2>1, FeedKeeps
  <2>2. CASE Reset
    <3>1. parser' = NewParser /\ fed' = <<>> /\ unsent' = unsent
      BY <2>2 DEF Reset, AfterReset
    <3>2. unsent \in Text BY DEF ParserInv
    <3>3. QED BY <3>1, <3>2, NewParserFacts DEF ParserInv
  <2>3. CASE UNCHANGED vars BY <2>3 DEF ParserInv, vars
  <2>4. QED BY <2>1, <2>2, <2>3 DEF Next
<1>3. QED BY <1>1, <1>2, PTL DEF Spec

\* The fields have their types and body_bytes_read_ never passes content_length, for any
\* streams and any cuts: the subtraction in the BODY state (http_parser.cpp:73) never wraps.
THEOREM TypesHold == Spec => []TypeOK
<1>1. ParserInv => TypeOK
  <2> SUFFICES ASSUME ParserInv PROVE TypeOK OBVIOUS
  <2> DEFINE p == parser
  <2>1. Parsed(p, fed) /\ fed \in Text BY DEF ParserInv
  <2>2. p \in Parser BY <2>1 DEF Parsed
  <2>3. /\ p.state \in {"REQUEST_LINE", "HEADERS", "BODY", "COMPLETE", "ERROR"}
        /\ p.request \in Request /\ p.bodyRead \in Nat
    BY <2>2 DEF Parser
  <2>4. p.request.method \in Methods \cup {"UNKNOWN"} /\ p.request.contentLength \in Nat
    BY <2>3 DEF Request
  <2>5. p.state \notin {"BODY", "COMPLETE"} => p.bodyRead = 0
    BY <2>1, <2>3 DEF Parsed, AtStart, InHeaders, Failed
  <2>6. ASSUME HeadDone(fed), NEW b \in Text, p.request = [Final(fed) EXCEPT !.body = b]
        PROVE  p.request.contentLength = Final(fed).contentLength
    <3>1. Ends(fed) # {} BY <2>6 DEF HeadDone, HeadRead
    <3>2. Headed(fed) \in Request BY <2>1, <3>1, HeadedType
    <3>3. Final(fed) \in Request BY <3>2, FinalType DEF Final
    <3>4. QED BY <2>6, <3>3 DEF Request
  <2>7. ASSUME HeadDone(fed), NEW k \in Nat, k <= Len(Rest(fed)) PROVE SubSeq(Rest(fed), 1, k) \in Text
    <3> DEFINE r == Rest(fed)
    <3>1. <<>> \in Text BY NoParameters
    <3>2. r \in Text BY <2>1, <2>7, <3>1, HeadOfLonger
    <3> HIDE DEF r
    <3>3. Len(r) \in Nat BY <3>2, LenProperties DEF Text
    <3>4. k \in 0..Len(r) BY <2>7, <3>3 DEF r
    <3>5. SubSeq(r, 1, k) \in Text BY <3>2, <3>4, CutFacts
    <3>6. QED BY <3>5 DEF r
  <2>8. CASE p.state = "BODY"
    <3>1. InBody(p, fed) BY <2>1, <2>8 DEF Parsed
    <3>2. SubSeq(Rest(fed), 1, p.bodyRead) \in Text BY <2>3, <2>7, <3>1 DEF InBody
    <3>3. p.request.contentLength = Final(fed).contentLength BY <2>6, <3>1, <3>2 DEF InBody
    <3>4. p.bodyRead <= p.request.contentLength BY <3>1, <3>3 DEF InBody
    <3>5. QED BY <2>3, <2>4, <2>8, <3>4 DEF TypeOK
  <2>9. CASE p.state = "COMPLETE"
    <3>1. Completed(p, fed) BY <2>1, <2>9 DEF Parsed
    <3>2. Final(fed).contentLength \in Nat
      <4>1. Ends(fed) # {} BY <3>1 DEF Completed, HeadDone, HeadRead
      <4>2. Headed(fed) \in Request BY <2>1, <4>1, HeadedType
      <4>3. Final(fed) \in Request BY <4>2, FinalType DEF Final
      <4>4. QED BY <4>3 DEF Request
    <3>3. SubSeq(Rest(fed), 1, Final(fed).contentLength) \in Text BY <2>7, <3>1, <3>2 DEF Completed
    <3>4. p.request.contentLength = Final(fed).contentLength BY <2>6, <3>1, <3>3 DEF Completed
    <3>5. p.bodyRead <= p.request.contentLength BY <3>1, <3>4 DEF Completed
    <3>6. QED BY <2>3, <2>4, <2>9, <3>5 DEF TypeOK
  <2>10. CASE p.state \notin {"BODY", "COMPLETE"} BY <2>3, <2>4, <2>5, <2>10 DEF TypeOK
  <2>11. QED BY <2>8, <2>9, <2>10
<1>2. QED BY <1>1, InvariantHolds, PTL

\* However the stream is cut into chunks, for any streams, feed has made of the bytes what
\* they mean as a whole, nothing of a request survives reset(), and the parameters are
\* those the client has encoded.
THEOREM StreamsParsedAsWhole == Spec => []ParsedAsWhole
<1>1. ParserInv => ParsedAsWhole
  <2> SUFFICES ASSUME ParserInv PROVE ParsedAsWhole OBVIOUS
  <2> DEFINE p == parser
             m == Meaning(fed)
             q == p.request.query
  <2>1. Parsed(p, fed) /\ fed \in Text /\ Settled(p) BY DEF ParserInv
  <2>2. p.state = m.state /\ (m.state # "ERROR" => p.request = m.request)
    BY <2>1, SettledMeans
  <2>3. q \in Text /\ p.request.params = ParseQueryString(NoHeaders, q)
    <3>1. p.request \in Request BY <2>1 DEF Parsed, Parser
    <3>2. q \in Text BY <3>1 DEF Request
    <3>3. QED BY <2>1, <3>2 DEF Parsed, ParamsOfQuery
  <2>4. WellFormed(q) => p.request.params = Parameters(q) BY <2>3, QueryAsMeant
  <2>5. QED BY <2>2, <2>4 DEF ParsedAsWhole
<1>2. QED BY <1>1, InvariantHolds, PTL
=============================================================================
