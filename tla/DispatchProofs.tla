--------------------------- MODULE DispatchProofs ---------------------------
(***************************************************************************)
(* Proofs about Dispatch and the Router for any number of workers, and any   *)
(* tables of routes, chains of middlewares, requests and files.  The loops   *)
(* of match, sanitize_path and execute are functions of the number of turns  *)
(* done, and what they compute is proved by induction on it.                 *)
(***************************************************************************)
EXTENDS Dispatch, InductionLemmas, SequenceTheorems

-----------------------------------------------------------------------------
(* The router                                                                *)

RouteEntry == [method : STRING, pattern : Seq(STRING), handler : STRING \ {"none"}]
Table == Seq(RouteEntry)
Found(table) == [handler : {"none"} \cup {table[i].handler : i \in 1..Len(table)},
                 methodMatched : BOOLEAN]

\* The loop of match looks at one route after the other.
LEMMA MatchLoop ==
  ASSUME NEW table \in Table, NEW req
  PROVE  \E found \in [0..Len(table) -> Found(table)] :
           /\ found[0] = NoMatch
           /\ \A i \in 1..Len(table) : found[i] = TryRoute(found[i - 1], table[i], req)
           /\ Match(table, req) =
                IF found[Len(table)].handler = "none" /\ found[Len(table)].methodMatched
                THEN "method_not_allowed" ELSE found[Len(table)].handler
<1> DEFINE n == Len(table)
           S == Found(table)
           Step == [x \in (1..n) \X S |-> TryRoute(x[2], table[x[1]], req)]
<1>1. n \in Nat BY LenProperties DEF Table
<1>2. NoMatch \in S BY DEF NoMatch, Found
<1>3. ASSUME NEW i \in 1..n, NEW f \in S PROVE TryRoute(f, table[i], req) \in S
  BY DEF TryRoute, Found
<1> HIDE DEF n, S
<1>4. Step \in Turns(n, S)
  <2>1. \A x \in (1..n) \X S : x[1] \in 1..n /\ x[2] \in S OBVIOUS
  <2>2. QED BY <1>3, <2>1 DEF Turns
<1>5. \A i \in 1..n, f \in S : Step[<<i, f>>] = TryRoute(f, table[i], req) OBVIOUS
<1> HIDE DEF Step
<1>6. PICK f \in [0..n -> S] : f[0] = NoMatch /\ \A i \in 1..n : f[i] = Step[<<i, f[i - 1]>>]
  BY <1>1, <1>2, <1>4, Iteration
<1>7. \A i \in 1..n : f[i] = TryRoute(f[i - 1], table[i], req)
  <2>1. \A i \in 1..n : i - 1 \in 0..n BY <1>1
  <2>2. QED BY <1>5, <1>6, <2>1
<1>8. f = [i \in 0..n |-> IF i = 0 THEN NoMatch ELSE TryRoute(f[i - 1], table[i], req)]
  <2>1. \A i \in 0..n : i # 0 => i \in 1..n BY <1>1
  <2>2. f = [i \in 0..n |-> f[i]] OBVIOUS
  <2>3. QED BY <1>6, <1>7, <2>1, <2>2
<1> DEFINE found[i \in 0..n] == IF i = 0 THEN NoMatch ELSE TryRoute(found[i - 1], table[i], req)
<1>9. found = [i \in 0..n |-> IF i = 0 THEN NoMatch ELSE TryRoute(found[i - 1], table[i], req)]
  BY <1>8
<1>10. Match(table, req) = IF found[n].handler = "none" /\ found[n].methodMatched
                           THEN "method_not_allowed" ELSE found[n].handler
  BY DEF Match, n
<1> HIDE DEF found
<1>11. \A i \in 0..n : found[i] = IF i = 0 THEN NoMatch ELSE TryRoute(found[i - 1], table[i], req)
  BY <1>9
<1>12. \A i \in 0..n : found[i] \in S
  <2> DEFINE T == {i \in 0..n : found[i] \in S}
  <2>1. 0 \in T BY <1>1, <1>2, <1>11
  <2>2. ASSUME NEW i \in 0..(n - 1), i \in T PROVE i + 1 \in T
    <3>1. i + 1 \in 0..n /\ i + 1 # 0 /\ i + 1 \in 1..n /\ (i + 1) - 1 = i BY <1>1
    <3>2. found[i + 1] = TryRoute(found[i], table[i + 1], req) BY <1>11, <3>1
    <3>3. QED BY <1>3, <2>2, <3>1, <3>2
  <2> HIDE DEF T
  <2>3. 0..n \subseteq T BY <1>1, <2>1, <2>2, InductionUpTo
  <2>4. QED BY <2>3 DEF T
<1>13. found \in [0..n -> S] BY <1>9, <1>12
<1>14. 0 \in 0..n /\ \A i \in 1..n : i \in 0..n /\ i # 0 BY <1>1
<1>15. found[0] = NoMatch /\ \A i \in 1..n : found[i] = TryRoute(found[i - 1], table[i], req)
  BY <1>11, <1>14
<1>16. QED BY <1>10, <1>13, <1>15 DEF n, S

\* What the loop has found after k routes: the handler of the first route of the
\* path and method, or else whether there was a route of the path.
OfPath(table, req, i) == Matches(table[i].pattern, req.path)
OfBoth(table, req, i) == OfPath(table, req, i) /\ table[i].method = req.method
FoundIn(found, table, req, k) ==
  IF found.handler = "none"
  THEN /\ \A i \in 1..k : ~OfBoth(table, req, i)
       /\ found.methodMatched <=> \E i \in 1..k : OfPath(table, req, i)
  ELSE \E i \in 1..k : /\ OfBoth(table, req, i) /\ found.handler = table[i].handler
                       /\ \A j \in 1..k : OfBoth(table, req, j) => i <= j

\* The loop of match keeps that invariant.
LEMMA TryRouteFinds ==
  ASSUME NEW table \in Table, NEW req, NEW k \in 0..(Len(table) - 1), NEW found \in Found(table),
         FoundIn(found, table, req, k)
  PROVE  FoundIn(TryRoute(found, table[k + 1], req), table, req, k + 1)
<1> DEFINE r == table[k + 1]
           next == TryRoute(found, r, req)
<1>1. /\ Len(table) \in Nat /\ k \in Nat /\ k + 1 \in 1..Len(table)
      /\ \A i \in 1..(k + 1) : i \in 1..k \/ i = k + 1
      /\ \A i \in 1..k : i \in 1..(k + 1) /\ i <= k + 1
      /\ k + 1 \in 1..(k + 1)
  BY LenProperties DEF Table
<1>2. r.handler # "none"
  <2>1. r \in RouteEntry BY <1>1, ElementOfSeq DEF Table
  <2>2. QED BY <2>1 DEF RouteEntry
<1>3. OfPath(table, req, k + 1) <=> Matches(r.pattern, req.path)
  BY DEF OfPath
<1>4. OfBoth(table, req, k + 1) <=> Matches(r.pattern, req.path) /\ r.method = req.method
  BY DEF OfBoth, OfPath
<1>5. CASE found.handler # "none"
  <2>1. next = found BY <1>5 DEF TryRoute
  <2>2. PICK i \in 1..k : /\ OfBoth(table, req, i) /\ found.handler = table[i].handler
                          /\ \A j \in 1..k : OfBoth(table, req, j) => i <= j
    BY <1>5 DEF FoundIn
  <2>3. \A j \in 1..(k + 1) : OfBoth(table, req, j) => i <= j BY <1>1, <2>2
  <2>4. QED BY <1>1, <1>5, <2>1, <2>2, <2>3 DEF FoundIn
<1>6. CASE found.handler = "none" /\ ~Matches(r.pattern, req.path)
  <2>1. next = found BY <1>6 DEF TryRoute
  <2>2. ~OfBoth(table, req, k + 1) /\ ~OfPath(table, req, k + 1) BY <1>3, <1>4, <1>6
  <2>3. QED BY <1>1, <1>6, <2>1, <2>2 DEF FoundIn
<1>7. CASE found.handler = "none" /\ Matches(r.pattern, req.path) /\ r.method # req.method
  <2>1. next.handler = "none" /\ next.methodMatched = TRUE BY <1>7 DEF TryRoute, Found
  <2>2. ~OfBoth(table, req, k + 1) /\ OfPath(table, req, k + 1) BY <1>3, <1>4, <1>7
  <2>3. QED BY <1>1, <1>7, <2>1, <2>2 DEF FoundIn
<1>8. CASE found.handler = "none" /\ Matches(r.pattern, req.path) /\ r.method = req.method
  <2>1. next.handler = r.handler BY <1>8 DEF TryRoute, Found
  <2>2. OfBoth(table, req, k + 1) BY <1>4, <1>8
  <2>3. \A j \in 1..k : ~OfBoth(table, req, j) BY <1>8 DEF FoundIn
  <2>4. \A j \in 1..(k + 1) : OfBoth(table, req, j) => k + 1 <= j BY <1>1, <2>3
  <2>5. next.handler # "none" /\ next.handler = table[k + 1].handler BY <1>2, <2>1
  <2>6. QED BY <1>1, <2>2, <2>4, <2>5 DEF FoundIn
<1>9. QED BY <1>5, <1>6, <1>7, <1>8

\* Whatever the table, match chooses the handler that the table means: the loop that
\* goes on past a route of another method and stops at the first of the method finds
\* what the quantifiers over the whole table say.
THEOREM RoutesAsMeant ==
  ASSUME NEW table \in Table, NEW req
  PROVE  HandlerOf(table, req) = MeansHandler(table, req)
<1> DEFINE n == Len(table)
<1>1. n \in Nat BY LenProperties DEF Table
<1>2. PICK found \in [0..n -> Found(table)] :
           /\ found[0] = NoMatch
           /\ \A i \in 1..n : found[i] = TryRoute(found[i - 1], table[i], req)
           /\ Match(table, req) = IF found[n].handler = "none" /\ found[n].methodMatched
                                  THEN "method_not_allowed" ELSE found[n].handler
  BY MatchLoop
<1> DEFINE T == {k \in 0..n : FoundIn(found[k], table, req, k)}
<1>3. 0 \in T
  <2>1. FoundIn(NoMatch, table, req, 0) BY DEF FoundIn, NoMatch
  <2>2. QED BY <1>1, <1>2, <2>1
<1>4. ASSUME NEW k \in 0..(n - 1), k \in T PROVE k + 1 \in T
  <2>1. k \in 0..n /\ k + 1 \in 0..n /\ k + 1 \in 1..n /\ (k + 1) - 1 = k BY <1>1
  <2>2. found[k] \in Found(table) /\ found[k + 1] = TryRoute(found[k], table[k + 1], req)
    BY <1>2, <2>1
  <2>3. QED BY <1>4, <2>1, <2>2, TryRouteFinds
<1>5. FoundIn(found[n], table, req, n)
  <2> HIDE DEF T
  <2>1. 0..n \subseteq T BY <1>1, <1>3, <1>4, InductionUpTo
  <2>2. QED BY <1>1, <2>1 DEF T
<1> DEFINE last == found[n]
           ofPath == {i \in 1..n : Matches(table[i].pattern, req.path)}
           ofBoth == {i \in ofPath : table[i].method = req.method}
<1>6. \A i \in 1..n : (i \in ofPath <=> OfPath(table, req, i)) /\ (i \in ofBoth <=> OfBoth(table, req, i))
  BY DEF OfPath, OfBoth
<1>7. ofPath \subseteq 1..n /\ ofBoth \subseteq 1..n OBVIOUS
<1>8. MeansHandler(table, req) =
        IF ofBoth # {} THEN table[CHOOSE i \in ofBoth : \A j \in ofBoth : i <= j].handler
        ELSE IF ofPath # {} THEN "method_not_allowed" ELSE "not_found"
  BY DEF MeansHandler
<1>9. HandlerOf(table, req) =
        IF last.handler # "none" THEN last.handler
        ELSE IF last.methodMatched THEN "method_not_allowed" ELSE "not_found"
  BY <1>2 DEF HandlerOf
<1> HIDE DEF ofPath, ofBoth, last
<1>10. CASE last.handler # "none"
  <2>1. PICK i \in 1..n : /\ OfBoth(table, req, i) /\ last.handler = table[i].handler
                          /\ \A j \in 1..n : OfBoth(table, req, j) => i <= j
    BY <1>5, <1>10 DEF FoundIn, last
  <2>2. i \in ofBoth /\ \A j \in ofBoth : i <= j BY <1>6, <1>7, <2>1
  <2>3. i = CHOOSE k \in ofBoth : \A j \in ofBoth : k <= j
    <3>1. \A k \in ofBoth : (\A j \in ofBoth : k <= j) => k = i BY <1>7, <2>2
    <3>2. QED BY <2>2, <3>1
  <2>4. QED BY <1>8, <1>9, <1>10, <2>1, <2>2, <2>3
<1>11. CASE last.handler = "none"
  <2>1. /\ \A i \in 1..n : ~OfBoth(table, req, i)
        /\ last.methodMatched <=> \E i \in 1..n : OfPath(table, req, i)
    BY <1>5, <1>11 DEF FoundIn, last
  <2>2. ofBoth = {} BY <1>6, <1>7, <2>1
  <2>3. last.methodMatched <=> ofPath # {} BY <1>6, <1>7, <2>1
  <2>4. QED BY <1>8, <1>9, <1>11, <2>2, <2>3
<1>12. QED BY <1>10, <1>11

-----------------------------------------------------------------------------
(* The paths of files                                                        *)

Path == Seq(STRING)
Parts == Seq(STRING)

\* What one segment makes of the parts.
LEMMA AddSegmentParts ==
  ASSUME NEW parts \in Parts, NEW segment \in STRING
  PROVE  /\ AddSegment(parts, segment) \in Parts
         /\ segment \in {"/", "."} => AddSegment(parts, segment) = parts
         /\ segment \notin {"/", ".", ".."} => AddSegment(parts, segment) = Append(parts, segment)
         /\ segment = ".." /\ parts = <<>> => AddSegment(parts, segment) = parts
         /\ segment = ".." /\ parts # <<>> =>
              /\ Len(AddSegment(parts, segment)) = Len(parts) - 1
              /\ \A k \in 1..(Len(parts) - 1) : AddSegment(parts, segment)[k] = parts[k]
<1> USE DEF Parts
<1>1. segment \in {"/", "."} => AddSegment(parts, segment) = parts BY DEF AddSegment
<1>2. segment \notin {"/", ".", ".."} => /\ AddSegment(parts, segment) = Append(parts, segment)
                                         /\ AddSegment(parts, segment) \in Parts
  BY AppendProperties DEF AddSegment
<1>3. segment = ".." /\ parts = <<>> => AddSegment(parts, segment) = parts BY DEF AddSegment
<1>4. ASSUME segment = "..", parts # <<>>
      PROVE  /\ AddSegment(parts, segment) \in Parts
             /\ Len(AddSegment(parts, segment)) = Len(parts) - 1
             /\ \A k \in 1..(Len(parts) - 1) : AddSegment(parts, segment)[k] = parts[k]
  <2> DEFINE m == Len(parts) - 1
             front == SubSeq(parts, 1, m)
  <2>1. AddSegment(parts, segment) = front BY <1>4 DEF AddSegment, Front
  <2>2. Len(parts) \in Nat \ {0} BY <1>4, EmptySeq
  <2>3. m \in Nat /\ \A i \in 1..m : i \in 1..Len(parts) BY <2>2
  <2>4. \A i \in 1..m : parts[i] \in STRING BY <2>3, ElementOfSeq
  <2> HIDE DEF m
  <2>5. /\ front \in Parts
        /\ Len(front) = IF 1 <= m THEN m - 1 + 1 ELSE 0
        /\ \A i \in 1..(m - 1 + 1) : front[i] = parts[1 + i - 1]
    BY <2>3, <2>4, SubSeqProperties
  <2>6. \A i \in 1..m : i \in 1..(m - 1 + 1) /\ 1 + i - 1 = i BY <2>3
  <2>7. Len(front) = m BY <2>3, <2>5
  <2> HIDE DEF front
  <2>8. \A i \in 1..m : front[i] = parts[i] BY <2>5, <2>6
  <2>9. QED BY <2>1, <2>5, <2>7, <2>8 DEF m
<1>5. QED BY <1>1, <1>2, <1>3, <1>4

\* The loop of sanitize_path takes one segment after the other.
LEMMA SanitizeLoop ==
  ASSUME NEW path \in Path
  PROVE  \E parts \in [0..Len(path) -> Parts] :
           /\ parts[0] = <<>>
           /\ \A i \in 1..Len(path) : parts[i] = AddSegment(parts[i - 1], path[i])
           /\ SanitizePath(path) = parts[Len(path)]
<1> DEFINE n == Len(path)
           Step == [x \in (1..n) \X Parts |-> AddSegment(x[2], path[x[1]])]
<1>1. n \in Nat BY LenProperties DEF Path
<1>2. <<>> \in Parts BY EmptySeq DEF Parts
<1>3. ASSUME NEW i \in 1..n, NEW p \in Parts PROVE AddSegment(p, path[i]) \in Parts
  <2>1. path[i] \in STRING BY ElementOfSeq DEF Path
  <2>2. QED BY <2>1, AddSegmentParts
<1> HIDE DEF n
<1>4. Step \in Turns(n, Parts)
  <2>1. \A x \in (1..n) \X Parts : x[1] \in 1..n /\ x[2] \in Parts OBVIOUS
  <2>2. QED BY <1>3, <2>1 DEF Turns
<1>5. \A i \in 1..n, p \in Parts : Step[<<i, p>>] = AddSegment(p, path[i]) OBVIOUS
<1> HIDE DEF Step
<1>6. PICK f \in [0..n -> Parts] : f[0] = <<>> /\ \A i \in 1..n : f[i] = Step[<<i, f[i - 1]>>]
  BY <1>1, <1>2, <1>4, Iteration
<1>7. \A i \in 1..n : f[i] = AddSegment(f[i - 1], path[i])
  <2>1. \A i \in 1..n : i - 1 \in 0..n BY <1>1
  <2>2. QED BY <1>5, <1>6, <2>1
<1>8. f = [i \in 0..n |-> IF i = 0 THEN <<>> ELSE AddSegment(f[i - 1], path[i])]
  <2>1. \A i \in 0..n : i # 0 => i \in 1..n BY <1>1
  <2>2. f = [i \in 0..n |-> f[i]] OBVIOUS
  <2>3. QED BY <1>6, <1>7, <2>1, <2>2
<1> DEFINE parts[i \in 0..n] == IF i = 0 THEN <<>> ELSE AddSegment(parts[i - 1], path[i])
<1>9. parts = [i \in 0..n |-> IF i = 0 THEN <<>> ELSE AddSegment(parts[i - 1], path[i])]
  BY <1>8
<1>10. SanitizePath(path) = parts[n]
  BY DEF SanitizePath, n
<1> HIDE DEF parts
<1>11. \A i \in 0..n : parts[i] = IF i = 0 THEN <<>> ELSE AddSegment(parts[i - 1], path[i])
  BY <1>9
<1>12. \A i \in 0..n : parts[i] \in Parts
  <2> DEFINE T == {i \in 0..n : parts[i] \in Parts}
  <2>1. 0 \in T BY <1>1, <1>2, <1>11
  <2>2. ASSUME NEW i \in 0..(n - 1), i \in T PROVE i + 1 \in T
    <3>1. i + 1 \in 0..n /\ i + 1 # 0 /\ i + 1 \in 1..n /\ (i + 1) - 1 = i BY <1>1
    <3>2. parts[i + 1] = AddSegment(parts[i], path[i + 1]) BY <1>11, <3>1
    <3>3. QED BY <1>3, <2>2, <3>1, <3>2
  <2> HIDE DEF T
  <2>3. 0..n \subseteq T BY <1>1, <2>1, <2>2, InductionUpTo
  <2>4. QED BY <2>3 DEF T
<1>13. parts \in [0..n -> Parts] BY <1>9, <1>12
<1>14. 0 \in 0..n /\ \A i \in 1..n : i \in 0..n /\ i # 0 BY <1>1
<1>15. parts[0] = <<>> /\ \A i \in 1..n : parts[i] = AddSegment(parts[i - 1], path[i])
  BY <1>11, <1>14
<1>16. QED BY <1>10, <1>13, <1>15 DEF n

\* The level after each segment, and the file that MeansFile finds with it.
IsName(segment) == segment \notin {"/", ".", ".."}
NextLevel(before, segment) ==
  IF IsName(segment) THEN before + 1
  ELSE IF segment = ".." /\ before > 0 THEN before - 1 ELSE before
DownTo(path, level, n) == {i \in 1..Len(path) : IsName(path[i]) /\ level[i] = n}
FileOf(path, level) ==
  [n \in 1..level[Len(path)] |->
     path[CHOOSE i \in DownTo(path, level, n) : \A j \in DownTo(path, level, n) : j <= i]]

\* The levels of MeansFile are the values of one function that follows the path.
LEMMA LevelLoop ==
  ASSUME NEW path \in Path
  PROVE  \E level \in [0..Len(path) -> Nat] :
           /\ level[0] = 0
           /\ \A i \in 1..Len(path) : level[i] = NextLevel(level[i - 1], path[i])
           /\ MeansFile(path) = IF FileOf(path, level) \in Directories
                                THEN Append(FileOf(path, level), "index.html")
                                ELSE FileOf(path, level)
<1> DEFINE n == Len(path)
           S == Nat
           Step == [x \in (1..n) \X S |-> NextLevel(x[2], path[x[1]])]
<1>1. n \in Nat BY LenProperties DEF Path
<1>2. /\ 0 \in S
      /\ \A i \in 1..n, p \in S : NextLevel(p, path[i]) \in S
  BY DEF NextLevel
<1> HIDE DEF n, S
<1>3. Step \in Turns(n, S)
  <2>1. \A x \in (1..n) \X S : x[1] \in 1..n /\ x[2] \in S OBVIOUS
  <2>2. QED BY <1>2, <2>1 DEF Turns
<1>4. \A i \in 1..n, p \in S : Step[<<i, p>>] = NextLevel(p, path[i]) OBVIOUS
<1> HIDE DEF Step
<1>5. PICK f \in [0..n -> S] : f[0] = 0 /\ \A i \in 1..n : f[i] = Step[<<i, f[i - 1]>>]
  BY <1>1, <1>2, <1>3, Iteration
<1>6. \A i \in 1..n : f[i] = NextLevel(f[i - 1], path[i])
  <2>1. \A i \in 1..n : i - 1 \in 0..n BY <1>1
  <2>2. QED BY <1>4, <1>5, <2>1
<1> DEFINE IsN(i) == path[i] \notin {"/", ".", ".."}
           Down(g, i) == LET before == g[i - 1]
                         IN IF IsN(i) THEN before + 1
                            ELSE IF path[i] = ".." /\ before > 0 THEN before - 1 ELSE before
<1>7. \A g, i : Down(g, i) = NextLevel(g[i - 1], path[i])
  BY DEF NextLevel, IsName
<1> HIDE DEF Down
<1>8. f = [i \in 0..n |-> IF i = 0 THEN 0 ELSE Down(f, i)]
  <2>1. \A i \in 0..n : i # 0 => i \in 1..n BY <1>1
  <2>2. f = [i \in 0..n |-> f[i]] OBVIOUS
  <2>3. QED BY <1>5, <1>6, <1>7, <2>1, <2>2
<1> DEFINE level[i \in 0..n] == IF i = 0 THEN 0 ELSE Down(level, i)
<1>9. level = [i \in 0..n |-> IF i = 0 THEN 0 ELSE Down(level, i)]
  BY <1>8
<1>10. MeansFile(path) = IF FileOf(path, level) \in Directories
                         THEN Append(FileOf(path, level), "index.html") ELSE FileOf(path, level)
  BY DEF MeansFile, FileOf, DownTo, IsName, n, Down
<1> HIDE DEF level
<1>11. \A i \in 0..n : level[i] = IF i = 0 THEN 0 ELSE NextLevel(level[i - 1], path[i])
  BY <1>7, <1>9
<1>12. \A i \in 0..n : level[i] \in S
  <2> DEFINE T == {i \in 0..n : level[i] \in S}
  <2>1. 0 \in T BY <1>1, <1>2, <1>11
  <2>2. ASSUME NEW i \in 0..(n - 1), i \in T PROVE i + 1 \in T
    <3>1. i + 1 \in 0..n /\ i + 1 # 0 /\ i + 1 \in 1..n /\ (i + 1) - 1 = i BY <1>1
    <3>2. level[i + 1] = NextLevel(level[i], path[i + 1]) BY <1>11, <3>1
    <3>3. QED BY <1>2, <2>2, <3>1, <3>2
  <2> HIDE DEF T
  <2>3. 0..n \subseteq T BY <1>1, <2>1, <2>2, InductionUpTo
  <2>4. QED BY <2>3 DEF T
<1>13. level \in [0..n -> Nat] BY <1>9, <1>12 DEF S
<1>14. 0 \in 0..n /\ \A i \in 1..n : i \in 0..n /\ i # 0 BY <1>1
<1>15. level[0] = 0 /\ \A i \in 1..n : level[i] = NextLevel(level[i - 1], path[i])
  BY <1>11, <1>14
<1>16. QED BY <1>10, <1>13, <1>15 DEF n

\* The parts after i segments are as many as the level, and the part at a level is the
\* name that went down to it last.
LastDown(path, level, k, i, m) ==
  /\ m \in 1..i /\ IsName(path[m]) /\ level[m] = k
  /\ \A j \in 1..i : IsName(path[j]) /\ level[j] = k => j <= m
PartsAt(path, level, parts, i) ==
  /\ Len(parts) = level[i]
  /\ \A k \in 1..level[i] : \E m \in 1..i : LastDown(path, level, k, i, m) /\ parts[k] = path[m]

\* One more segment keeps that.
LEMMA SegmentParts ==
  ASSUME NEW path \in Path, NEW level \in [0..Len(path) -> Nat],
         NEW i \in 0..(Len(path) - 1), NEW parts \in Parts,
         level[i + 1] = NextLevel(level[i], path[i + 1]),
         PartsAt(path, level, parts, i)
  PROVE  PartsAt(path, level, AddSegment(parts, path[i + 1]), i + 1)
<1> DEFINE seg == path[i + 1]
           next == AddSegment(parts, seg)
           d == level[i]
<1>1. Len(path) \in Nat BY LenProperties DEF Path
<1>2. /\ i \in Nat /\ i + 1 \in 1..Len(path) /\ d \in Nat /\ i + 1 \in 1..(i + 1)
      /\ \A j \in 1..(i + 1) : j \in 1..i \/ j = i + 1
      /\ \A j \in 1..i : j \in 1..(i + 1) /\ j <= i + 1
  BY <1>1
<1>3. seg \in STRING BY <1>2, ElementOfSeq DEF Path
<1>4. /\ Len(parts) = d
      /\ \A k \in 1..d : \E m \in 1..i : LastDown(path, level, k, i, m) /\ parts[k] = path[m]
  BY DEF PartsAt
<1>5. level[i + 1] = NextLevel(d, seg) OBVIOUS
<1> HIDE DEF next, d
\* a level that the new segment does not go down to has the name it had
<1>6. ASSUME NEW k \in 1..d, ~(IsName(seg) /\ level[i + 1] = k)
      PROVE  \E m \in 1..(i + 1) : LastDown(path, level, k, i + 1, m) /\ parts[k] = path[m]
  <2>1. PICK m \in 1..i : LastDown(path, level, k, i, m) /\ parts[k] = path[m] BY <1>4
  <2>2. \A j \in 1..(i + 1) : IsName(path[j]) /\ level[j] = k => j <= m
    BY <1>2, <1>6, <2>1 DEF LastDown
  <2>3. LastDown(path, level, k, i + 1, m) BY <1>2, <2>1, <2>2 DEF LastDown
  <2>4. QED BY <1>2, <2>1, <2>3
<1>7. CASE IsName(seg)
  <2>1. level[i + 1] = d + 1 BY <1>5, <1>7 DEF NextLevel
  <2>2. next = Append(parts, seg) BY <1>3, <1>7, AddSegmentParts DEF IsName, next
  <2>3. /\ Len(next) = d + 1 /\ next[d + 1] = seg
        /\ \A k \in 1..d : next[k] = parts[k]
    BY <1>3, <1>4, <2>2, AppendProperties DEF Parts
  <2>4. ASSUME NEW k \in 1..d
        PROVE  \E m \in 1..(i + 1) : LastDown(path, level, k, i + 1, m) /\ next[k] = path[m]
    <3>1. level[i + 1] # k BY <1>2, <2>1
    <3>2. QED BY <1>6, <2>3, <3>1
  <2>5. LastDown(path, level, d + 1, i + 1, i + 1) /\ next[d + 1] = path[i + 1]
    BY <1>2, <1>7, <2>1, <2>3 DEF LastDown
  <2>6. \A k \in 1..(d + 1) : k \in 1..d \/ k = d + 1 BY <1>2
  <2>7. \A k \in 1..(d + 1) :
          \E m \in 1..(i + 1) : LastDown(path, level, k, i + 1, m) /\ next[k] = path[m]
    BY <1>2, <2>4, <2>5, <2>6
  <2>8. QED BY <2>1, <2>3, <2>7 DEF PartsAt, next
<1>8. CASE ~IsName(seg) /\ seg = ".." /\ d > 0
  <2>1. level[i + 1] = d - 1 BY <1>5, <1>8 DEF NextLevel
  <2>2. parts # <<>> BY <1>4, <1>8, EmptySeq DEF Parts
  <2>3. Len(next) = d - 1 /\ \A k \in 1..(d - 1) : next[k] = parts[k]
    BY <1>3, <1>4, <1>8, <2>2, AddSegmentParts DEF next
  <2>4. \A k \in 1..(d - 1) : k \in 1..d BY <1>2
  <2>5. \A k \in 1..(d - 1) :
          \E m \in 1..(i + 1) : LastDown(path, level, k, i + 1, m) /\ next[k] = path[m]
    BY <1>6, <1>8, <2>3, <2>4
  <2>6. QED BY <2>1, <2>3, <2>5 DEF PartsAt, next
<1>9. CASE ~IsName(seg) /\ ~(seg = ".." /\ d > 0)
  <2>1. level[i + 1] = d BY <1>5, <1>9 DEF NextLevel
  <2>2. next = parts
    <3>1. CASE seg = ".."
      <4>1. d = 0 BY <1>2, <1>9, <3>1
      <4>2. parts = <<>> BY <1>4, <4>1, EmptySeq DEF Parts
      <4>3. QED BY <1>3, <3>1, <4>2, AddSegmentParts DEF next
    <3>2. CASE seg # ".."
      <4>1. seg \in {"/", "."} BY <1>9, <3>2 DEF IsName
      <4>2. QED BY <1>3, <4>1, AddSegmentParts DEF next
    <3>3. QED BY <3>1, <3>2
  <2>3. \A k \in 1..d :
          \E m \in 1..(i + 1) : LastDown(path, level, k, i + 1, m) /\ next[k] = path[m]
    BY <1>6, <1>9, <2>2
  <2>4. QED BY <1>4, <2>1, <2>2, <2>3 DEF PartsAt, next
<1>10. QED BY <1>7, <1>8, <1>9

\* Whatever the path, the loop of sanitize_path that drops the last part at each ".."
\* comes to the file that the path means, level by level.
THEOREM PathsAsMeant ==
  ASSUME NEW path \in Path
  PROVE  Resolved(path) = MeansFile(path)
<1> DEFINE n == Len(path)
<1>1. n \in Nat BY LenProperties DEF Path
<1>2. PICK parts \in [0..n -> Parts] :
           /\ parts[0] = <<>>
           /\ \A i \in 1..n : parts[i] = AddSegment(parts[i - 1], path[i])
           /\ SanitizePath(path) = parts[n]
  BY SanitizeLoop
<1>3. PICK level \in [0..n -> Nat] :
           /\ level[0] = 0
           /\ \A i \in 1..n : level[i] = NextLevel(level[i - 1], path[i])
           /\ MeansFile(path) = IF FileOf(path, level) \in Directories
                                THEN Append(FileOf(path, level), "index.html")
                                ELSE FileOf(path, level)
  BY LevelLoop
<1> DEFINE T == {i \in 0..n : PartsAt(path, level, parts[i], i)}
<1>4. 0 \in T
  <2>1. Len(parts[0]) = 0 BY <1>2, EmptySeq
  <2>2. PartsAt(path, level, parts[0], 0) BY <1>3, <2>1 DEF PartsAt
  <2>3. QED BY <1>1, <2>2
<1>5. ASSUME NEW i \in 0..(n - 1), i \in T PROVE i + 1 \in T
  <2>1. i \in 0..n /\ i + 1 \in 0..n /\ i + 1 \in 1..n /\ (i + 1) - 1 = i BY <1>1
  <2>2. /\ parts[i] \in Parts /\ parts[i + 1] = AddSegment(parts[i], path[i + 1])
        /\ level[i + 1] = NextLevel(level[i], path[i + 1])
    BY <1>2, <1>3, <2>1
  <2>3. PartsAt(path, level, parts[i], i) BY <1>5
  <2>4. PartsAt(path, level, parts[i + 1], i + 1)
    BY <2>2, <2>3, SegmentParts
  <2>5. QED BY <2>1, <2>4
<1>6. PartsAt(path, level, parts[n], n)
  <2> HIDE DEF T
  <2>1. 0..n \subseteq T BY <1>1, <1>4, <1>5, InductionUpTo
  <2>2. QED BY <1>1, <2>1 DEF T
<1> DEFINE file == FileOf(path, level)
           last == parts[n]
<1>7. last \in Parts /\ level[n] \in Nat /\ Len(last) = level[n]
  <2>1. n \in 0..n BY <1>1
  <2>2. parts[n] \in Parts BY <1>2, <2>1
  <2>3. level[n] \in Nat BY <1>3, <2>1
  <2>4. Len(parts[n]) = level[n] BY <1>6 DEF PartsAt
  <2>5. QED BY <2>2, <2>3, <2>4
<1>8. file = [k \in 1..level[n] |->
                path[CHOOSE i \in DownTo(path, level, k) : \A j \in DownTo(path, level, k) : j <= i]]
  BY DEF FileOf
<1>9. ASSUME NEW k \in 1..level[n] PROVE last[k] = file[k]
  <2>1. PICK m \in 1..n : LastDown(path, level, k, n, m) /\ last[k] = path[m]
    BY <1>6 DEF PartsAt
  <2>2. m \in DownTo(path, level, k) /\ \A j \in DownTo(path, level, k) : j <= m
    BY <2>1 DEF LastDown, DownTo
  <2>3. DownTo(path, level, k) \subseteq Nat BY DEF DownTo
  <2>4. m = CHOOSE i \in DownTo(path, level, k) : \A j \in DownTo(path, level, k) : j <= i
    <3>1. \A i \in DownTo(path, level, k) : (\A j \in DownTo(path, level, k) : j <= i) => i = m
      BY <2>2, <2>3
    <3>2. QED BY <2>2, <3>1
  <2> HIDE DEF file, last
  <2>5. QED BY <1>8, <2>1, <2>4
<1>10. last = file
  <2>1. last = [k \in 1..level[n] |-> last[k]]
    <3> HIDE DEF last
    <3>1. last \in [1..Len(last) -> STRING] BY <1>7, LenProperties DEF Parts
    <3>2. QED BY <1>7, <3>1
  <2>2. file = [k \in 1..level[n] |-> file[k]] BY <1>8
  <2> HIDE DEF file, last
  <2>3. QED BY <1>9, <2>1, <2>2
<1> HIDE DEF file
<1>11. SanitizePath(path) = file BY <1>2, <1>10
<1>12. QED BY <1>3, <1>11 DEF Resolved, file

-----------------------------------------------------------------------------
(* Back up the chain                                                         *)

Middleware == {"log", "rate", "gzip", "security", "id", "cors"}
Marks == {"X-RateLimit-Limit", "Access-Control-Allow-Origin", "X-Content-Type-Options",
          "X-Request-ID", "Content-Encoding"}
Statuses == {0, 200, 204, 304, 400, 404, 405, 422, 429, 500}
Response == [status : Statuses, length : Int, body : Nat, compressed : BOOLEAN,
             marks : SUBSET Marks, etag : Int, version : Int]

\* What the middlewares on the way up leave of a response: its framing as it was, or
\* that of a compressed body.
Carries(passed, resp, req) ==
  /\ passed.status = resp.status /\ passed.version = resp.version /\ passed.etag = resp.etag
  /\ \/ /\ passed.length = resp.length /\ passed.body = resp.body
        /\ passed.compressed = resp.compressed
     \/ passed.compressed /\ req.gzip /\ passed.length = passed.body

\* One middleware.
LEMMA PassFacts ==
  ASSUME NEW m \in Middleware, NEW resp \in Response, NEW req, NEW zlength \in Nat
  PROVE  LET p == Pass(m, resp, req, zlength)
         IN /\ p \in Response /\ Carries(p, resp, req) /\ resp.marks \subseteq p.marks
            /\ m = "security" => "X-Content-Type-Options" \in p.marks
            /\ m = "id" => "X-Request-ID" \in p.marks
<1> USE DEF Response
<1>1. CASE m = "gzip"
  <2>1. Pass(m, resp, req, zlength) = GzipCompression(resp, req, zlength) BY <1>1 DEF Pass
  <2>2. CASE resp.compressed \/ resp.body = 0 \/ ~req.gzip \/ zlength = 0
    <3>1. GzipCompression(resp, req, zlength) = resp BY <2>2 DEF GzipCompression
    <3>2. QED BY <1>1, <2>1, <3>1 DEF Carries
  <2>3. CASE ~(resp.compressed \/ resp.body = 0 \/ ~req.gzip \/ zlength = 0)
    <3>1. GzipCompression(resp, req, zlength) = Compressed(resp, zlength)
      BY <2>3 DEF GzipCompression
    <3>2. Compressed(resp, zlength) \in Response
      <4>1. resp.marks \cup {"Content-Encoding"} \in SUBSET Marks BY DEF Marks
      <4>2. TRUE \in BOOLEAN /\ zlength \in Int OBVIOUS
      <4>3. QED BY <4>1, <4>2 DEF Compressed
    <3>3. LET c == Compressed(resp, zlength)
          IN /\ c.status = resp.status /\ c.version = resp.version /\ c.etag = resp.etag
             /\ c.compressed = TRUE /\ c.length = zlength /\ c.body = zlength
             /\ resp.marks \subseteq c.marks
      BY DEF Compressed
    <3>4. QED BY <1>1, <2>1, <2>3, <3>1, <3>2, <3>3 DEF Carries
  <2>4. QED BY <2>2, <2>3
<1>2. CASE m = "log"
  <2>1. Pass(m, resp, req, zlength) = resp BY <1>2 DEF Pass, RequestLogger
  <2>2. QED BY <1>2, <2>1 DEF Carries
<1>3. CASE m = "rate"
  <2>1. Pass(m, resp, req, zlength) = [resp EXCEPT !.marks = @ \cup {"X-RateLimit-Limit"}]
    BY <1>3 DEF Pass, RateLimiter
  <2>2. QED BY <1>3, <2>1 DEF Carries, Marks
<1>4. CASE m = "cors"
  <2>1. Pass(m, resp, req, zlength) =
          [resp EXCEPT !.marks = @ \cup {"Access-Control-Allow-Origin"}]
    BY <1>4 DEF Pass, Cors
  <2>2. QED BY <1>4, <2>1 DEF Carries, Marks
<1>5. CASE m = "security"
  <2>1. Pass(m, resp, req, zlength) = [resp EXCEPT !.marks = @ \cup {"X-Content-Type-Options"}]
    BY <1>5 DEF Pass, SecurityHeaders
  <2>2. QED BY <1>5, <2>1 DEF Carries, Marks
<1>6. CASE m = "id"
  <2>1. Pass(m, resp, req, zlength) = [resp EXCEPT !.marks = @ \cup {"X-Request-ID"}]
    BY <1>6 DEF Pass, RequestId
  <2>2. QED BY <1>6, <2>1 DEF Carries, Marks
<1>7. QED BY <1>1, <1>2, <1>3, <1>4, <1>5, <1>6 DEF Middleware

\* The responses on the way up, from the innermost of the callers to the outermost.
WayUp(passed, callers, resp, req, zlength) ==
  /\ passed[0] = resp
  /\ \A i \in 1..Len(callers) :
       passed[i] = Pass(callers[Len(callers) + 1 - i], passed[i - 1], req, zlength)
  /\ PassedUp(callers, resp, req, zlength) = passed[Len(callers)]

\* They are responses.
LEMMA PassedLoop ==
  ASSUME NEW callers \in Seq(Middleware), NEW resp \in Response, NEW req, NEW zlength \in Nat
  PROVE  \E passed \in [0..Len(callers) -> Response] :
           WayUp(passed, callers, resp, req, zlength)
<1> DEFINE n == Len(callers)
           Up(i, r) == Pass(callers[n + 1 - i], r, req, zlength)
           Step == [x \in (1..n) \X Response |-> Up(x[1], x[2])]
<1>1. n \in Nat BY LenProperties
<1>2. ASSUME NEW i \in 1..n, NEW r \in Response PROVE Up(i, r) \in Response
  <2>1. callers[n + 1 - i] \in Middleware BY <1>1, ElementOfSeq
  <2>2. QED BY <2>1, PassFacts
<1> HIDE DEF n, Up
<1>3. Step \in Turns(n, Response)
  <2>1. \A x \in (1..n) \X Response : x[1] \in 1..n /\ x[2] \in Response OBVIOUS
  <2>2. QED BY <1>2, <2>1 DEF Turns
<1>4. \A i \in 1..n, r \in Response : Step[<<i, r>>] = Up(i, r) OBVIOUS
<1> HIDE DEF Step
<1>5. PICK f \in [0..n -> Response] : f[0] = resp /\ \A i \in 1..n : f[i] = Step[<<i, f[i - 1]>>]
  BY <1>1, <1>3, Iteration
<1>6. \A i \in 1..n : f[i] = Up(i, f[i - 1])
  <2>1. \A i \in 1..n : i - 1 \in 0..n BY <1>1
  <2>2. QED BY <1>4, <1>5, <2>1
<1>7. f = [i \in 0..n |-> IF i = 0 THEN resp ELSE Up(i, f[i - 1])]
  <2>1. \A i \in 0..n : i # 0 => i \in 1..n BY <1>1
  <2>2. f = [i \in 0..n |-> f[i]] OBVIOUS
  <2>3. QED BY <1>5, <1>6, <2>1, <2>2
<1> DEFINE passed[i \in 0..n] == IF i = 0 THEN resp ELSE Up(i, passed[i - 1])
<1>8. passed = [i \in 0..n |-> IF i = 0 THEN resp ELSE Up(i, passed[i - 1])]
  BY <1>7
<1>9. PassedUp(callers, resp, req, zlength) = passed[n]
  BY DEF PassedUp, n, Up
<1> HIDE DEF passed
<1>10. \A i \in 0..n : passed[i] = IF i = 0 THEN resp ELSE Up(i, passed[i - 1])
  BY <1>8
<1>11. \A i \in 0..n : passed[i] \in Response
  <2> DEFINE T == {i \in 0..n : passed[i] \in Response}
  <2>1. 0 \in T BY <1>1, <1>10
  <2>2. ASSUME NEW i \in 0..(n - 1), i \in T PROVE i + 1 \in T
    <3>1. i + 1 \in 0..n /\ i + 1 # 0 /\ i + 1 \in 1..n /\ (i + 1) - 1 = i BY <1>1
    <3>2. passed[i + 1] = Up(i + 1, passed[i]) BY <1>10, <3>1
    <3>3. QED BY <1>2, <2>2, <3>1, <3>2
  <2> HIDE DEF T
  <2>3. 0..n \subseteq T BY <1>1, <2>1, <2>2, InductionUpTo
  <2>4. QED BY <2>3 DEF T
<1>12. passed \in [0..n -> Response] BY <1>8, <1>11
<1>13. 0 \in 0..n /\ \A i \in 1..n : i \in 0..n /\ i # 0 BY <1>1
<1>14. passed[0] = resp /\ \A i \in 1..n : passed[i] = Up(i, passed[i - 1])
  BY <1>10, <1>13
<1>15. QED BY <1>9, <1>12, <1>14 DEF n, Up, WayUp

\* Every caller leaves its mark on the response that the whole way up makes.
LEMMA PassedUpFacts ==
  ASSUME NEW callers \in Seq(Middleware), NEW resp \in Response, NEW req, NEW zlength \in Nat
  PROVE  LET p == PassedUp(callers, resp, req, zlength)
         IN /\ p \in Response /\ Carries(p, resp, req)
            /\ \A i \in 1..Len(callers) :
                 /\ callers[i] = "security" => "X-Content-Type-Options" \in p.marks
                 /\ callers[i] = "id" => "X-Request-ID" \in p.marks
<1> DEFINE n == Len(callers)
<1>1. n \in Nat BY LenProperties
<1>2. PICK passed \in [0..n -> Response] :
           /\ passed[0] = resp
           /\ \A i \in 1..n : passed[i] = Pass(callers[n + 1 - i], passed[i - 1], req, zlength)
           /\ PassedUp(callers, resp, req, zlength) = passed[n]
  <2>1. \E passed \in [0..n -> Response] : WayUp(passed, callers, resp, req, zlength)
    BY PassedLoop
  <2>2. QED BY <2>1 DEF WayUp
<1> DEFINE Marked(p, k) == \A i \in (n + 1 - k)..n :
                              /\ callers[i] = "security" => "X-Content-Type-Options" \in p.marks
                              /\ callers[i] = "id" => "X-Request-ID" \in p.marks
           T == {k \in 0..n : Carries(passed[k], resp, req) /\ Marked(passed[k], k)}
<1>3. 0 \in T
  <2>1. Carries(passed[0], resp, req) BY <1>2 DEF Carries
  <2>2. Marked(passed[0], 0) BY <1>1
  <2>3. QED BY <1>1, <2>1, <2>2
<1>4. ASSUME NEW k \in 0..(n - 1), k \in T PROVE k + 1 \in T
  <2> DEFINE m == callers[n - k]
             p == passed[k]
             q == passed[k + 1]
  <2>1. /\ k \in 0..n /\ k + 1 \in 0..n /\ k + 1 \in 1..n /\ (k + 1) - 1 = k
        /\ n + 1 - (k + 1) = n - k /\ n - k \in 1..n
        /\ \A i \in (n + 1 - (k + 1))..n : i \in (n + 1 - k)..n \/ i = n - k
    BY <1>1
  <2>2. p \in Response /\ m \in Middleware /\ q = Pass(m, p, req, zlength)
    <3>1. m \in Middleware BY <2>1, ElementOfSeq
    <3>2. QED BY <1>2, <2>1, <3>1
  <2>3. Carries(p, resp, req) /\ Marked(p, k) BY <1>4
  <2> HIDE DEF m, p, q
  <2>4. /\ q \in Response /\ Carries(q, p, req) /\ p.marks \subseteq q.marks
        /\ m = "security" => "X-Content-Type-Options" \in q.marks
        /\ m = "id" => "X-Request-ID" \in q.marks
    BY <2>2, PassFacts
  <2>5. Carries(q, resp, req) BY <2>3, <2>4 DEF Carries
  <2>6. Marked(q, k + 1)
    <3> SUFFICES ASSUME NEW i \in (n + 1 - (k + 1))..n
                 PROVE  /\ callers[i] = "security" => "X-Content-Type-Options" \in q.marks
                        /\ callers[i] = "id" => "X-Request-ID" \in q.marks
      OBVIOUS
    <3>1. CASE i \in (n + 1 - k)..n BY <2>3, <2>4, <3>1
    <3>2. CASE i = n - k BY <2>4, <3>2 DEF m
    <3>3. QED BY <2>1, <3>1, <3>2
  <2>7. QED BY <2>1, <2>5, <2>6 DEF q
<1>5. n \in T
  <2> HIDE DEF T
  <2>1. 0..n \subseteq T BY <1>1, <1>3, <1>4, InductionUpTo
  <2>2. QED BY <1>1, <2>1
<1>6. \A i \in 1..n : i \in (n + 1 - n)..n BY <1>1
<1>7. passed[n] \in Response BY <1>1, <1>2
<1>8. QED BY <1>2, <1>5, <1>6, <1>7

-----------------------------------------------------------------------------
(* The inductive invariant                                                   *)

Paths == {<<>>} \cup {Resolved(req.path) : req \in Requests}
HandlerNames == {"none"} \cup {HandlerOf(table, req) : table \in Tables, req \in Requests}
Kept == [file : Files \cup {<<>>}, etag : Int, version : Int]
Job == [req : Requests, kept : Kept, depth : Nat, handler : HandlerNames, file : Paths,
        sized : Nat, etag : Int, resp : Response, past : SUBSET Nat]

DispatchType ==
  /\ routes \in Tables /\ chain \in Chains
  /\ latest \in 1..MaxVersion
  /\ disk \in [Files -> 0..latest] /\ cached \in [Files -> Kept]
  /\ pc \in [Workers -> Steps] /\ job \in [Workers -> Job]

\* The rest of the invariant is about the job j of one worker at a step, when the disk
\* is d, there have been n versions, and the server has the routes t and the chain c.

\* An answer that was made of a file: the file has not gone back since to an older
\* version, and the tag is not that of a younger one.
AnswerOf(file, etag, version, d, n) ==
  /\ file \in Files /\ version \in 1..n
  /\ d[file] = 0 \/ version <= d[file]
  /\ etag = UnknownETag \/ \E v \in 1..version : TagOf(etag, v)

CachedInv ==
  \A f \in Files :
    \/ cached[f] = NoKept
    \/ /\ cached[f].file = f
       /\ AnswerOf(f, cached[f].etag, cached[f].version, disk, latest)

\* What a worker has at every step.
NumbersInv(j, d, n) ==
  /\ j.past \subseteq 0..n /\ j.sized \in 0..n /\ j.resp.version \in 0..n
  /\ j.kept = NoKept \/ AnswerOf(j.file, j.kept.etag, j.kept.version, d, n)

\* The handler that was chosen, and the file of the static one.
RoutedInv(j, t) ==
  /\ j.handler # "none" => j.handler = HandlerOf(t, j.req)
  /\ j.handler = "static" => j.file = Resolved(j.req.path)

\* While a file is looked at, the version it has is one of the past of the request.
LooksInv(j, step, d, c) ==
  /\ step \in {"size", "time", "etag", "open"} =>
       /\ j.handler = "static" /\ j.depth = Len(c) + 1
       /\ j.file \in Files => d[j.file] \in j.past
       /\ j.file \notin Files => 0 \in j.past
  /\ step \in {"time", "etag", "open"} =>
       j.sized # 0 /\ j.file \in Files /\ (d[j.file] = 0 \/ j.sized <= d[j.file])

\* The tag that was generated is that of a version the file had, not older than the
\* one the client has kept and not younger than the one it has now.
TaggedInv(j, step, d) ==
  step = "open" =>
    \/ j.etag = UnknownETag
    \/ \E v \in j.past \ {0} :
         /\ TagOf(j.etag, v) /\ (d[j.file] = 0 \/ v <= d[j.file])
         /\ j.kept # NoKept => j.kept.version <= v

\* What an answer is, from the handler that made it to its client.
AnsweredInv(j, step, d, n, c) ==
  /\ step \in {"respond", "sent"} =>
       /\ j.depth \in 1..(Len(c) + 1)
       /\ j.resp.version # 0 => AnswerOf(j.file, j.resp.etag, j.resp.version, d, n)
       /\ j.resp.status = 304 => Confirmed(j)
       /\ j.handler = "static" /\ 0 \notin j.past =>
            \/ j.resp.status = 304
            \/ j.resp.status = 200 /\ j.resp.version \in j.past
  /\ step = "thrown" => j.handler \in {"echo", "not_found"}

\* What an answer is before the middlewares have it: those that harden it have called
\* next(), unless the rate limiter made it.
MadeInv(j, step, c) ==
  step = "respond" =>
    /\ ~j.resp.compressed
    /\ \/ j.resp.length \in {Absent, j.resp.body}
       \/ j.resp.length \in Nat /\ j.resp.version # 0 /\ j.resp.version # j.sized
    /\ j.resp.status # 429 =>
         \A m \in {"security", "id"} : \E i \in 1..(j.depth - 1) : c[i] = m

\* What it is when it is sent: Framed and Hardened.
SentInv(j, step) ==
  step = "sent" =>
    /\ j.resp.length \in Nat
    /\ \/ j.resp.length = j.resp.body
       \/ j.resp.version # 0 /\ j.resp.version # j.sized /\ ~j.resp.compressed
    /\ j.resp.status # 429 => {"X-Content-Type-Options", "X-Request-ID"} \subseteq j.resp.marks
    /\ j.resp.compressed => j.req.gzip

JobInv(j, step, d, n, t, c) ==
  /\ NumbersInv(j, d, n) /\ RoutedInv(j, t) /\ LooksInv(j, step, d, c) /\ TaggedInv(j, step, d)
  /\ AnsweredInv(j, step, d, n, c) /\ MadeInv(j, step, c) /\ SentInv(j, step)

JobsInv == \A w \in Workers : JobInv(job[w], pc[w], disk, latest, routes, chain)

DispatchInv == DispatchType /\ CachedInv /\ JobsInv

\* The constants of the model.
LEMMA ConstantFacts ==
  /\ SizeOf \in [1..MaxVersion -> Nat] /\ ModifiedAt \in [1..MaxVersion -> Nat]
  /\ MaxVersion \in Nat \ {0} /\ JsonLength \in Nat /\ GzipLengths \cup {0} \subseteq Nat
  /\ Files \cap Directories = {}
<1>1. SizeOf \in [1..MaxVersion -> Nat] /\ ModifiedAt \in [1..MaxVersion -> Nat]
  BY Zenon, DispatchAssumption
<1>2. MaxVersion \in Nat \ {0} /\ JsonLength \in Nat \ {0} /\ GzipLengths \subseteq Nat \ {0}
  BY Zenon, DispatchAssumption
<1>3. Files \cap Directories = {} BY Zenon, DispatchAssumption
<1>4. QED BY <1>1, <1>2, <1>3

\* The tag of a version is a number, which NoETag and UnknownETag are not.
LEMMA TagIsNumber ==
  ASSUME NEW v \in 1..MaxVersion, NEW etag, TagOf(etag, v)
  PROVE  etag \in Nat
<1>1. PICK s \in 1..v : etag = BitXor(ModifiedAt[v], SizeOf[s]) BY DEF TagOf
<1>2. s \in 1..MaxVersion BY ConstantFacts
<1>3. QED BY <1>1, <1>2, DispatchAssumption

\* What a response is made of.
LEMMA ResponseType ==
  ASSUME NEW status \in Statuses, NEW length \in Int, NEW body \in Nat, NEW marks \in SUBSET Marks,
         NEW etag \in Int, NEW version \in Int
  PROVE  [status |-> status, length |-> length, body |-> body, compressed |-> FALSE,
          marks |-> marks, etag |-> etag, version |-> version] \in Response
BY DEF Response

\* An empty response has the fields that HttpResponse is constructed with.
LEMMA PlainFacts ==
  ASSUME NEW status \in Statuses
  PROVE  /\ Plain(status) \in Response
         /\ Plain(status).status = status /\ Plain(status).version = 0
         /\ Plain(status).compressed = FALSE /\ Plain(status).length = Absent
<1>1. {} \in SUBSET Marks /\ 0 \in Int /\ 0 \in Nat /\ Absent \in Int /\ NoETag \in Int
  BY DEF Absent, NoETag
<1>2. Plain(status) \in Response BY <1>1, ResponseType DEF Plain
<1>3. QED BY <1>2 DEF Plain

\* An answer that no file was read for.
MadeOf(a, status) == /\ a \in Response /\ a.status = status /\ a.version = 0
                     /\ a.compressed = FALSE /\ a.length \in {Absent, a.body}

\* A JSON answer of the server itself has no file in it and its length is that of its body.
LEMMA JsonFacts ==
  ASSUME NEW status \in Statuses
  PROVE  MadeOf(Json(status), status)
<1>1. JsonLength \in Nat /\ JsonLength \in Int BY ConstantFacts
<1>2. Plain(status) \in Response BY PlainFacts
<1>3. Json(status) \in Response
  <2>1. [Plain(status) EXCEPT !.length = JsonLength] \in Response BY <1>1, <1>2 DEF Response
  <2>2. [[Plain(status) EXCEPT !.length = JsonLength] EXCEPT !.body = JsonLength] \in Response
    BY <1>1, <2>1 DEF Response
  <2>3. QED BY <1>2, <2>2 DEF Json, Response
<1>4. /\ Plain(status).status = status /\ Plain(status).version = 0
      /\ Plain(status).compressed = FALSE
  BY PlainFacts
<1>5. /\ Json(status).status = status /\ Json(status).version = 0
      /\ Json(status).compressed = FALSE /\ Json(status).length = Json(status).body
  BY <1>2, <1>4 DEF Json, Response
<1>6. QED BY <1>3, <1>5 DEF MadeOf

\* Whatever the handlers other than that of the static files answer.
LEMMA AnswerFacts ==
  ASSUME NEW handler, NEW req
  PROVE  \E status \in Statuses \ {304, 429} : MadeOf(Answer(handler, req), status)
<1>1. ASSUME NEW status \in {200, 400, 404, 405, 422}
      PROVE  status \in Statuses \ {304, 429} /\ MadeOf(Json(status), status)
  <2>1. status \in Statuses \ {304, 429} BY DEF Statuses
  <2>2. QED BY <2>1, JsonFacts
<1>2. 200 \in Statuses \ {304, 429} /\ MadeOf([Plain(200) EXCEPT !.body = JsonLength], 200)
  <2>1. 200 \in Statuses BY DEF Statuses
  <2>2. /\ Plain(200) \in Response
        /\ Plain(200).status = 200 /\ Plain(200).version = 0
        /\ Plain(200).compressed = FALSE /\ Plain(200).length = Absent
    BY <2>1, PlainFacts
  <2>3. JsonLength \in Nat BY ConstantFacts
  <2>4. MadeOf([Plain(200) EXCEPT !.body = JsonLength], 200)
    BY <2>2, <2>3 DEF MadeOf, Response
  <2>5. QED BY <2>1, <2>4
<1>3. \/ \E status \in {200, 400, 404, 405, 422} : Answer(handler, req) = Json(status)
      \/ Answer(handler, req) = [Plain(200) EXCEPT !.body = JsonLength]
  BY DEF Answer
<1>4. QED BY <1>1, <1>2, <1>3

\* Whatever a middleware answers itself.
LEMMA RefusalFacts ==
  ASSUME NEW m
  PROVE  MadeOf(Refusal(m), IF m = "rate" THEN 429 ELSE 204)
<1>1. CASE m = "rate"
  <2>1. Refusal(m) = [Json(429) EXCEPT !.marks = {"X-RateLimit-Limit"}] BY <1>1 DEF Refusal
  <2>0. 429 \in Statuses BY DEF Statuses
  <2>2. MadeOf(Json(429), 429) BY <2>0, JsonFacts
  <2>3. QED BY <1>1, <2>1, <2>2 DEF MadeOf, Response, Marks
<1>2. CASE m # "rate"
  <2>1. Refusal(m) = [Plain(204) EXCEPT !.marks = {"Access-Control-Allow-Origin"}]
    BY <1>2 DEF Refusal
  <2>0. 204 \in Statuses BY DEF Statuses
  <2>2. /\ Plain(204) \in Response /\ Plain(204).status = 204 /\ Plain(204).version = 0
        /\ Plain(204).compressed = FALSE /\ Plain(204).length = Absent
    BY <2>0, PlainFacts
  <2>3. QED BY <1>2, <2>1, <2>2 DEF MadeOf, Response, Marks
<1>3. QED BY <1>1, <1>2

-----------------------------------------------------------------------------
(* The invariant is inductive                                                *)

\* A worker without a request.
LEMMA NoJobFacts ==
  /\ NoJob \in Job
  /\ \A d, n, t, c : n \in Nat => JobInv(NoJob, "idle", d, n, t, c)
<1>1. 0 \in Statuses BY DEF Statuses
<1>2. Plain(0) \in Response /\ Plain(0).version = 0 BY <1>1, PlainFacts
<1>3. NoJob.req \in Requests
  <2>1. (CHOOSE r \in Requests : TRUE) \in Requests BY DispatchAssumption
  <2>2. QED BY <2>1 DEF NoJob
<1>4. NoKept \in Kept BY DEF NoKept, Kept, NoETag
<1>5. <<>> \in Paths /\ "none" \in HandlerNames /\ NoETag \in Int
  BY DEF Paths, HandlerNames, NoETag
<1>6. /\ NoJob.kept = NoKept /\ NoJob.depth = 0 /\ NoJob.handler = "none" /\ NoJob.file = <<>>
      /\ NoJob.sized = 0 /\ NoJob.etag = NoETag /\ NoJob.resp = Plain(0) /\ NoJob.past = {}
  BY DEF NoJob
<1>7. NoJob \in Job
  <2>1. NoJob = [req |-> NoJob.req, kept |-> NoKept, depth |-> 0, handler |-> "none",
                 file |-> <<>>, sized |-> 0, etag |-> NoETag, resp |-> Plain(0), past |-> {}]
    BY DEF NoJob
  <2>2. 0 \in Nat /\ {} \in SUBSET Nat OBVIOUS
  <2> HIDE DEF NoJob, NoKept, Plain
  <2>3. QED BY <1>2, <1>3, <1>4, <1>5, <2>1, <2>2 DEF Job
<1>8. ASSUME NEW d, NEW n, NEW t, NEW c, n \in Nat PROVE JobInv(NoJob, "idle", d, n, t, c)
  <2>1. NumbersInv(NoJob, d, n) BY <1>2, <1>6, <1>8 DEF NumbersInv
  <2>2. RoutedInv(NoJob, t) BY <1>6 DEF RoutedInv
  <2>3. QED BY <2>1, <2>2 DEF JobInv, LooksInv, TaggedInv, AnsweredInv, MadeInv, SentInv
<1>9. QED BY <1>7, <1>8

\* The server has just started.
LEMMA InitDispatch == Init => DispatchInv
<1> SUFFICES ASSUME Init PROVE DispatchInv OBVIOUS
<1>2. latest = 1 BY DEF Init
<1>3. latest \in 1..MaxVersion BY <1>2, ConstantFacts
<1>4. disk \in [Files -> 0..latest] BY <1>2 DEF Init
<1>5. NoKept \in Kept BY DEF NoKept, Kept, NoETag
<1>6. cached \in [Files -> Kept] /\ CachedInv BY <1>5 DEF Init, CachedInv
<1>7. pc \in [Workers -> Steps] BY DEF Init, Steps
<1>8. job \in [Workers -> Job] BY NoJobFacts DEF Init
<1>9. JobsInv
  <2>1. \A w \in Workers : job[w] = NoJob /\ pc[w] = "idle" BY DEF Init
  <2>2. latest \in Nat BY <1>2
  <2>3. JobInv(NoJob, "idle", disk, latest, routes, chain) BY <2>2, NoJobFacts
  <2>4. QED BY <2>1, <2>3 DEF JobsInv
<1>10. QED BY <1>2, <1>3, <1>4, <1>6, <1>7, <1>8, <1>9 DEF DispatchInv, DispatchType, Init

\* A step of a worker that leaves the files alone, and the invariant for that worker.
LEMMA WorkerKeeps ==
  ASSUME DispatchInv, NEW w \in Workers, NEW k \in Job, NEW step \in Steps,
         job' = [job EXCEPT ![w] = k], pc' = [pc EXCEPT ![w] = step],
         UNCHANGED <<routes, chain, disk, latest>>,
         JobInv(k, step, disk, latest, routes, chain),
         cached' \in [Files -> Kept], CachedInv'
  PROVE  DispatchInv'
<1>1. job' \in [Workers -> Job] /\ pc' \in [Workers -> Steps]
  BY DEF DispatchInv, DispatchType
<1>2. DispatchType' BY <1>1 DEF DispatchInv, DispatchType
<1>3. ASSUME NEW u \in Workers
      PROVE  JobInv(job'[u], pc'[u], disk', latest', routes', chain')
  <2>1. CASE u = w
    <3>1. job'[u] = k /\ pc'[u] = step BY <2>1 DEF DispatchInv, DispatchType
    <3>2. QED BY <3>1
  <2>2. CASE u # w
    <3>1. job'[u] = job[u] /\ pc'[u] = pc[u] BY <2>2 DEF DispatchInv, DispatchType
    <3>2. JobInv(job[u], pc[u], disk, latest, routes, chain) BY DEF DispatchInv, JobsInv
    <3>3. QED BY <3>1, <3>2
  <2>3. QED BY <2>1, <2>2
<1>4. JobsInv' BY <1>3 DEF JobsInv
<1>5. QED BY <1>2, <1>4 DEF DispatchInv

\* What was true of an answer made of a file stays true when a file is replaced by a
\* younger version or removed.
LEMMA AnswerKept ==
  ASSUME NEW n \in Nat, NEW d \in [Files -> 0..n], NEW f \in Files, NEW v \in Nat, NEW m \in Nat,
         (v = 0 /\ m = n) \/ (v = n + 1 /\ m = n + 1),
         NEW file, NEW etag, NEW version,
         AnswerOf(file, etag, version, d, n)
  PROVE  AnswerOf(file, etag, version, [d EXCEPT ![f] = v], m)
<1> DEFINE e == [d EXCEPT ![f] = v]
<1>1. /\ file \in Files /\ version \in 1..n /\ (d[file] = 0 \/ version <= d[file])
      /\ etag = UnknownETag \/ \E u \in 1..version : TagOf(etag, u)
  BY DEF AnswerOf
<1>2. version \in 1..m BY <1>1
<1>3. e[file] = 0 \/ version <= e[file]
  <2>1. CASE file = f
    <3>1. e[file] = v BY <1>1, <2>1
    <3>2. QED BY <1>1, <3>1
  <2>2. CASE file # f
    <3>1. e[file] = d[file] BY <1>1, <2>2
    <3>2. QED BY <1>1, <3>1
  <2>3. QED BY <2>1, <2>2
<1> HIDE DEF e
<1>4. QED BY <1>1, <1>2, <1>3 DEF AnswerOf, e

\* The job of a worker when a file changes: the past of a request grows by the version
\* its file has from then on.
LEMMA JobKept ==
  ASSUME NEW n \in Nat, NEW d \in [Files -> 0..n], NEW f \in Files, NEW v \in Nat, NEW m \in Nat,
         (v = 0 /\ m = n) \/ (v = n + 1 /\ m = n + 1),
         NEW j \in Job, NEW step, NEW t, NEW c, JobInv(j, step, d, n, t, c),
         NEW k, k = IF j.file = f THEN [j EXCEPT !.past = @ \cup {v}] ELSE j
  PROVE  k \in Job /\ JobInv(k, step, [d EXCEPT ![f] = v], m, t, c)
<1> DEFINE e == [d EXCEPT ![f] = v]
<1>1. /\ k \in Job /\ k.req = j.req /\ k.kept = j.kept /\ k.depth = j.depth
      /\ k.handler = j.handler /\ k.file = j.file /\ k.sized = j.sized /\ k.etag = j.etag
      /\ k.resp = j.resp /\ j.past \subseteq k.past
      /\ k.past = IF j.file = f THEN j.past \cup {v} ELSE j.past
  <2>1. CASE j.file = f
    <3>1. j.past \cup {v} \in SUBSET Nat BY DEF Job
    <3>2. k = [j EXCEPT !.past = j.past \cup {v}] BY <2>1
    <3>3. QED BY <2>1, <3>1, <3>2 DEF Job
  <2>2. CASE j.file # f BY <2>2
  <2>3. QED BY <2>1, <2>2
<1>2. \A g \in Files : e[g] = IF g = f THEN v ELSE d[g] OBVIOUS
<1>3. \A file, etag, version :
        AnswerOf(file, etag, version, d, n) => AnswerOf(file, etag, version, e, m)
  BY AnswerKept
<1> HIDE DEF e
<1>4. n <= m /\ v \in 0..m OBVIOUS
<1>5. NumbersInv(k, e, m)
  <2>1. NumbersInv(j, d, n) BY DEF JobInv
  <2>2. k.past \subseteq 0..m BY <1>1, <1>4, <2>1 DEF NumbersInv
  <2>3. k.sized \in 0..m /\ k.resp.version \in 0..m BY <1>1, <1>4, <2>1 DEF NumbersInv
  <2>4. k.kept = NoKept \/ AnswerOf(k.file, k.kept.etag, k.kept.version, e, m)
    BY <1>1, <1>3, <2>1 DEF NumbersInv
  <2>5. QED BY <2>2, <2>3, <2>4 DEF NumbersInv
<1>6. RoutedInv(k, t) BY <1>1 DEF JobInv, RoutedInv
<1>7. LooksInv(k, step, e, c)
  <2>1. LooksInv(j, step, d, c) BY DEF JobInv
  <2>2. ASSUME step \in {"size", "time", "etag", "open"}, k.file \in Files PROVE e[k.file] \in k.past
    BY <1>1, <1>2, <2>1, <2>2 DEF LooksInv
  <2>3. ASSUME step \in {"size", "time", "etag", "open"}, k.file \notin Files PROVE 0 \in k.past
    BY <1>1, <2>1, <2>3 DEF LooksInv
  <2>4. ASSUME step \in {"time", "etag", "open"}
        PROVE  /\ k.sized # 0 /\ k.file \in Files
               /\ e[k.file] = 0 \/ k.sized <= e[k.file]
    <3>1. /\ j.sized # 0 /\ j.file \in Files
          /\ d[j.file] = 0 \/ j.sized <= d[j.file]
      BY <2>1, <2>4 DEF LooksInv
    <3>2. j.sized \in 0..n BY DEF JobInv, NumbersInv
    <3>3. CASE j.file = f
      <4>1. e[j.file] = v BY <1>2, <3>1, <3>3
      <4>2. v = 0 \/ j.sized <= v BY <3>2
      <4>3. QED BY <1>1, <3>1, <4>1, <4>2
    <3>4. CASE j.file # f
      <4>1. e[j.file] = d[j.file] BY <1>2, <3>1, <3>4
      <4>2. QED BY <1>1, <3>1, <4>1
    <3>5. QED BY <3>3, <3>4
  <2>5. step \in {"size", "time", "etag", "open"} =>
          k.handler = "static" /\ k.depth = Len(c) + 1
    BY <1>1, <2>1 DEF LooksInv
  <2>6. QED BY <2>2, <2>3, <2>4, <2>5 DEF LooksInv
<1>8. TaggedInv(k, step, e)
  <2>1. SUFFICES ASSUME step = "open", k.etag # UnknownETag PROVE TaggedInv(k, step, e)
    BY DEF TaggedInv
  <2>2. PICK u \in j.past \ {0} : /\ TagOf(j.etag, u) /\ (d[j.file] = 0 \/ u <= d[j.file])
                                  /\ j.kept # NoKept => j.kept.version <= u
    BY <1>1, <2>1 DEF JobInv, TaggedInv
  <2>3. j.file \in Files BY <2>1 DEF JobInv, LooksInv
  <2>4. u \in 0..n BY <2>2 DEF JobInv, NumbersInv
  <2>5. e[j.file] = 0 \/ u <= e[j.file] BY <1>2, <2>2, <2>3, <2>4
  <2>6. u \in k.past \ {0} BY <1>1, <2>2
  <2>7. QED BY <1>1, <2>2, <2>5, <2>6 DEF TaggedInv
<1>9. AnsweredInv(k, step, e, m, c)
  <2>1. AnsweredInv(j, step, d, n, c) BY DEF JobInv
  <2>2. ASSUME step \in {"respond", "sent"}
        PROVE  /\ k.depth \in 1..(Len(c) + 1)
               /\ k.resp.version # 0 => AnswerOf(k.file, k.resp.etag, k.resp.version, e, m)
    BY <1>1, <1>3, <2>1, <2>2 DEF AnsweredInv
  <2>3. ASSUME step \in {"respond", "sent"}
        PROVE  /\ k.resp.status = 304 => Confirmed(k)
               /\ k.handler = "static" /\ 0 \notin k.past =>
                    \/ k.resp.status = 304
                    \/ k.resp.status = 200 /\ k.resp.version \in k.past
    BY <1>1, <2>1, <2>3 DEF AnsweredInv, Confirmed, Coincides
  <2>4. QED BY <1>1, <2>1, <2>2, <2>3 DEF AnsweredInv
<1>10. MadeInv(k, step, c) BY <1>1 DEF JobInv, MadeInv
<1>11. SentInv(k, step) BY <1>1 DEF JobInv, SentInv
<1>12. QED BY <1>1, <1>5, <1>6, <1>7, <1>8, <1>9, <1>10, <1>11 DEF JobInv, e

\* Another process writes a file.
LEMMA WritingKeeps ==
  ASSUME DispatchInv, NEW f \in Files, ReplaceFile(f) \/ RemoveFile(f)
  PROVE  DispatchInv'
<1> DEFINE n == latest
           m == latest'
<1>1. /\ n \in Nat /\ n \in 1..MaxVersion /\ disk \in [Files -> 0..n]
      /\ job \in [Workers -> Job] /\ MaxVersion \in Nat
  BY ConstantFacts DEF DispatchInv, DispatchType
<1>2. /\ m \in Nat /\ m \in 1..MaxVersion
      /\ \E v \in Nat : ((v = 0 /\ m = n) \/ (v = n + 1 /\ m = n + 1)) /\ Written(f, v)
  <2>1. CASE ReplaceFile(f)
    <3>2. m = n + 1 BY <2>1 DEF ReplaceFile
    <3>3. n < MaxVersion /\ Written(f, n + 1) BY <2>1 DEF ReplaceFile
    <3>4. m \in 1..MaxVersion /\ n + 1 \in Nat BY <1>1, <3>2, <3>3
    <3>5. QED BY <1>1, <3>2, <3>3, <3>4
  <2>2. CASE RemoveFile(f)
    <3>1. latest' = latest /\ Written(f, 0) BY <2>2 DEF RemoveFile
    <3>2. QED BY <1>1, <3>1
  <2>3. QED BY <2>1, <2>2
<1>3. PICK v \in Nat : ((v = 0 /\ m = n) \/ (v = n + 1 /\ m = n + 1)) /\ Written(f, v) BY <1>2
<1>4. /\ disk' = [disk EXCEPT ![f] = v] /\ routes' = routes /\ chain' = chain
      /\ cached' = cached /\ pc' = pc
      /\ job' = [w \in Workers |-> IF job[w].file = f THEN [job[w] EXCEPT !.past = @ \cup {v}]
                                   ELSE job[w]]
  BY <1>3 DEF Written
<1> HIDE DEF n, m
<1>5. disk' \in [Files -> 0..m] BY <1>1, <1>2, <1>3, <1>4
<1>6. ASSUME NEW w \in Workers
      PROVE  job'[w] \in Job /\ JobInv(job'[w], pc'[w], disk', m, routes', chain')
  <2>1. job[w] \in Job /\ JobInv(job[w], pc[w], disk, n, routes, chain)
    BY <1>1 DEF DispatchInv, JobsInv, n
  <2>2. job'[w] = IF job[w].file = f THEN [job[w] EXCEPT !.past = @ \cup {v}] ELSE job[w]
    BY <1>4
  <2>3. job'[w] \in Job /\ JobInv(job'[w], pc[w], [disk EXCEPT ![f] = v], m, routes, chain)
    BY <1>1, <1>2, <1>3, <2>1, <2>2, JobKept
  <2>4. QED BY <1>4, <2>3
<1>7. job' \in [Workers -> Job] BY <1>4, <1>6
<1>8. CachedInv'
  <2>1. ASSUME NEW g \in Files
        PROVE  \/ cached'[g] = NoKept
               \/ /\ cached'[g].file = g
                  /\ AnswerOf(g, cached'[g].etag, cached'[g].version, disk', m)
    <3>1. \/ cached[g] = NoKept
          \/ /\ cached[g].file = g
             /\ AnswerOf(g, cached[g].etag, cached[g].version, disk, n)
      BY DEF DispatchInv, CachedInv, n
    <3>2. AnswerOf(g, cached[g].etag, cached[g].version, disk, n) =>
            AnswerOf(g, cached[g].etag, cached[g].version, [disk EXCEPT ![f] = v], m)
      BY <1>1, <1>2, <1>3, AnswerKept
    <3>3. QED BY <1>4, <3>1, <3>2
  <2>2. QED BY <2>1 DEF CachedInv, m
<1>9. DispatchType'
  BY <1>2, <1>4, <1>5, <1>7 DEF DispatchInv, DispatchType, m
<1>10. JobsInv' BY <1>6 DEF JobsInv, m
<1>11. QED BY <1>8, <1>9, <1>10 DEF DispatchInv


\* The middleware that answers a request itself is the first that has a reason to.
LEMMA DepthFacts ==
  ASSUME NEW req, NEW limited \in BOOLEAN, chain \in Chains
  PROVE  /\ Depth(req, limited) \in 1..(Len(chain) + 1)
         /\ Depth(req, limited) <= Len(chain) =>
              chain[Depth(req, limited)] \in {"rate", "cors"}
<1> DEFINE answers == {i \in DOMAIN chain : \/ chain[i] = "rate" /\ limited
                                            \/ chain[i] = "cors" /\ req.method = "OPTIONS"}
<1>1. chain \in Seq(Middleware) BY ChainAssumption DEF Middleware
<1>2. Len(chain) \in Nat /\ DOMAIN chain = 1..Len(chain) BY <1>1, LenProperties
<1>3. Depth(req, limited) = IF answers = {} THEN Len(chain) + 1 ELSE Min(answers)
  BY DEF Depth
<1>4. answers \subseteq 1..Len(chain) /\ \A i \in answers : chain[i] \in {"rate", "cors"}
  BY <1>2
<1> HIDE DEF answers
<1>5. CASE answers = {} BY <1>2, <1>3, <1>5
<1>6. CASE answers # {}
  <2>1. answers \subseteq Nat BY <1>2, <1>4
  <2>2. PICK i \in answers : \A k \in answers : i <= k BY <1>6, <2>1, LeastNumber
  <2>3. Min(answers) \in answers BY <2>2 DEF Min
  <2>4. Depth(req, limited) \in answers BY <1>3, <1>6, <2>3
  <2>5. Depth(req, limited) \in 1..Len(chain) BY <1>4, <2>4
  <2>6. chain[Depth(req, limited)] \in {"rate", "cors"} BY <1>4, <2>4
  <2>7. QED BY <1>2, <2>5, <2>6
<1>7. QED BY <1>5, <1>6

\* The middlewares that harden a response come before the router and before CORS.
LEMMA HardenersFirst ==
  ASSUME chain \in Chains, NEW depth \in 1..(Len(chain) + 1),
         depth <= Len(chain) => chain[depth] = "cors"
  PROVE  \A m \in {"security", "id"} : \E i \in 1..(depth - 1) : chain[i] = m
<1>1. chain \in Seq(Middleware) BY ChainAssumption DEF Middleware
<1>2. Len(chain) \in Nat BY <1>1, LenProperties
<1>3. ASSUME NEW m \in {"security", "id"} PROVE \E i \in 1..(depth - 1) : chain[i] = m
  <2>1. PICK i \in 1..Len(chain) :
               chain[i] = m /\ \A j \in 1..Len(chain) : chain[j] = "cors" => i < j
    BY ChainAssumption
  <2>2. i \in 1..(depth - 1)
    <3>1. CASE depth <= Len(chain) BY <1>2, <2>1, <3>1
    <3>2. CASE ~(depth <= Len(chain)) BY <1>2, <3>2
    <3>3. QED BY <3>1, <3>2
  <2>3. QED BY <2>1, <2>2
<1>4. QED BY <1>3

\* A worker with a request that is answered at once.
AtOnce(req, depth, handler, resp) ==
  [NoJob EXCEPT !.req = req, !.depth = depth, !.handler = handler, !.resp = resp]
\* The fields of such a job.
LEMMA AtOnceFacts ==
  ASSUME NEW req \in Requests, NEW depth \in Nat, NEW handler \in HandlerNames,
         NEW resp \in Response
  PROVE  LET k == AtOnce(req, depth, handler, resp)
         IN /\ k \in Job
            /\ k.req = req /\ k.kept = NoKept /\ k.depth = depth /\ k.handler = handler
            /\ k.file = <<>> /\ k.sized = 0 /\ k.resp = resp /\ k.past = {}
<1>1. NoJob \in Job BY NoJobFacts
<1>2. [NoJob EXCEPT !.req = req] \in Job BY <1>1 DEF Job
<1>3. [[NoJob EXCEPT !.req = req] EXCEPT !.depth = depth] \in Job BY <1>2 DEF Job
<1>4. [[[NoJob EXCEPT !.req = req] EXCEPT !.depth = depth] EXCEPT !.handler = handler] \in Job
  BY <1>3 DEF Job
<1>5. [[[[NoJob EXCEPT !.req = req] EXCEPT !.depth = depth] EXCEPT !.handler = handler]
         EXCEPT !.resp = resp] \in Job
  BY <1>4 DEF Job
<1>6. AtOnce(req, depth, handler, resp) \in Job BY <1>5 DEF AtOnce
<1>7. /\ NoJob.kept = NoKept /\ NoJob.file = <<>> /\ NoJob.sized = 0 /\ NoJob.past = {}
  BY DEF NoJob
<1>8. QED BY <1>1, <1>6, <1>7 DEF AtOnce, Job

\* A worker with a request for a file.
ForFile(req, depth, file, kept, version) ==
  [NoJob EXCEPT !.req = req, !.depth = depth, !.handler = "static", !.file = file,
                !.kept = kept, !.past = {version}]
\* The fields of such a job: the file has been seen in the version it has now.
LEMMA ForFileFacts ==
  ASSUME NEW req \in Requests, NEW depth \in Nat, "static" \in HandlerNames,
         NEW file \in Paths, NEW kept \in Kept, NEW version \in Nat
  PROVE  LET k == ForFile(req, depth, file, kept, version)
         IN /\ k \in Job
            /\ k.req = req /\ k.kept = kept /\ k.depth = depth /\ k.handler = "static"
            /\ k.file = file /\ k.sized = 0 /\ k.resp = Plain(0) /\ k.past = {version}
<1>1. NoJob \in Job BY NoJobFacts
<1>2. [NoJob EXCEPT !.req = req] \in Job BY <1>1 DEF Job
<1>3. [[NoJob EXCEPT !.req = req] EXCEPT !.depth = depth] \in Job BY <1>2 DEF Job
<1>4. [[[NoJob EXCEPT !.req = req] EXCEPT !.depth = depth] EXCEPT !.handler = "static"] \in Job
  BY <1>3 DEF Job
<1>5. [[[[NoJob EXCEPT !.req = req] EXCEPT !.depth = depth] EXCEPT !.handler = "static"]
         EXCEPT !.file = file] \in Job
  BY <1>4 DEF Job
<1>6. [[[[[NoJob EXCEPT !.req = req] EXCEPT !.depth = depth] EXCEPT !.handler = "static"]
         EXCEPT !.file = file] EXCEPT !.kept = kept] \in Job
  BY <1>5 DEF Job
<1>7. {version} \in SUBSET Nat OBVIOUS
<1>8. [[[[[[NoJob EXCEPT !.req = req] EXCEPT !.depth = depth] EXCEPT !.handler = "static"]
         EXCEPT !.file = file] EXCEPT !.kept = kept] EXCEPT !.past = {version}] \in Job
  BY <1>6, <1>7 DEF Job
<1>9. ForFile(req, depth, file, kept, version) \in Job BY <1>8 DEF ForFile
<1>10. NoJob.sized = 0 /\ NoJob.resp = Plain(0) BY DEF NoJob
<1>11. QED BY <1>1, <1>9, <1>10 DEF ForFile, Job


\* What a middleware or a handler that is not that of the static files comes to.
MadeAtOnce(req, depth, handler, resp, status, step) ==
  /\ req \in Requests /\ handler \in HandlerNames /\ depth \in 1..(Len(chain) + 1)
  /\ resp \in Response /\ status \in Statuses /\ step \in {"respond", "thrown"}
  /\ MadeOf(resp, status) /\ status # 304 /\ handler # "static"
  /\ handler # "none" => handler = HandlerOf(routes, req)
  /\ step = "thrown" => handler \in {"echo", "not_found"}
  /\ status # 429 => (depth <= Len(chain) => chain[depth] = "cors")

\* A handler that is not that of the static files has made its answer, or throws.
LEMMA AnsweredAtOnce ==
  ASSUME chain \in Chains, NEW n \in Nat, NEW d, NEW req, NEW depth, NEW handler, NEW resp,
         NEW status, NEW step,
         MadeAtOnce(req, depth, handler, resp, status, step)
  PROVE  /\ AtOnce(req, depth, handler, resp) \in Job
         /\ JobInv(AtOnce(req, depth, handler, resp), step, d, n, routes, chain)
<1> DEFINE k == AtOnce(req, depth, handler, resp)
<1>1. /\ req \in Requests /\ handler \in HandlerNames /\ depth \in 1..(Len(chain) + 1)
      /\ resp \in Response /\ status \in Statuses /\ step \in {"respond", "thrown"}
      /\ MadeOf(resp, status) /\ status # 304 /\ handler # "static"
      /\ handler # "none" => handler = HandlerOf(routes, req)
      /\ step = "thrown" => handler \in {"echo", "not_found"}
      /\ status # 429 => (depth <= Len(chain) => chain[depth] = "cors")
  BY DEF MadeAtOnce
<1>2. depth \in Nat
  <2>1. Len(chain) \in Nat
    <3>1. chain \in Seq(Middleware) BY ChainAssumption DEF Middleware
    <3>2. QED BY <3>1, LenProperties
  <2>2. QED BY <1>1, <2>1
<1>3. /\ resp.status = status /\ resp.version = 0
      /\ resp.compressed = FALSE /\ resp.length \in {Absent, resp.body}
  BY <1>1 DEF MadeOf
<1>4. /\ k \in Job
      /\ k.req = req /\ k.kept = NoKept /\ k.depth = depth /\ k.handler = handler
      /\ k.file = <<>> /\ k.sized = 0 /\ k.resp = resp /\ k.past = {}
  BY <1>1, <1>2, AtOnceFacts
<1> HIDE DEF k
<1>5. NumbersInv(k, d, n) BY <1>3, <1>4 DEF NumbersInv
<1>6. RoutedInv(k, routes) BY <1>1, <1>4 DEF RoutedInv
<1>7. LooksInv(k, step, d, chain) /\ TaggedInv(k, step, d) /\ SentInv(k, step)
  BY <1>1 DEF LooksInv, TaggedInv, SentInv
<1>8. AnsweredInv(k, step, d, n, chain)
  <2>1. k.depth \in 1..(Len(chain) + 1) BY <1>1, <1>4
  <2>2. QED BY <1>1, <1>3, <1>4, <2>1 DEF AnsweredInv
<1>9. MadeInv(k, step, chain)
  <2>1. ~k.resp.compressed /\ k.resp.length \in {Absent, k.resp.body} BY <1>3, <1>4
  <2>2. ASSUME k.resp.status # 429
        PROVE  \A m \in {"security", "id"} : \E i \in 1..(k.depth - 1) : chain[i] = m
    BY <1>1, <1>3, <1>4, <2>2, HardenersFirst
  <2>3. QED BY <2>1, <2>2 DEF MadeInv
<1>10. QED BY <1>4, <1>5, <1>6, <1>7, <1>8, <1>9 DEF JobInv, k

\* A request goes down the chain.
LEMMA BeginKeeps ==
  ASSUME DispatchInv, NEW w \in Workers, Begin(w)
  PROVE  DispatchInv'
<1>1. /\ routes \in Tables /\ chain \in Chains /\ latest \in Nat
      /\ disk \in [Files -> 0..latest] /\ cached \in [Files -> Kept]
      /\ pc \in [Workers -> Steps] /\ job \in [Workers -> Job]
  BY ConstantFacts DEF DispatchInv, DispatchType
<1>2. Len(chain) \in Nat
  <2>1. chain \in Seq(Middleware) BY <1>1, ChainAssumption DEF Middleware
  <2>2. QED BY <2>1, LenProperties
<1>3. UNCHANGED <<routes, chain, disk, latest, cached>> BY DEF Begin
<1>4. cached' \in [Files -> Kept] BY <1>1, <1>3
<1>5. CachedInv' BY <1>3 DEF DispatchInv, CachedInv
<1>6. ASSUME NEW k \in Job, NEW step \in Steps, job' = [job EXCEPT ![w] = k],
             pc' = [pc EXCEPT ![w] = step],
             JobInv(k, step, disk, latest, routes, chain)
      PROVE  DispatchInv'
  BY <1>3, <1>4, <1>5, <1>6, WorkerKeeps
<1>7. PICK req \in Requests, limited \in BOOLEAN :
        LET depth == Depth(req, limited)
            handler == HandlerOf(routes, req)
            started == [NoJob EXCEPT !.req = req, !.depth = depth]
            file == Resolved(req.path)
        IN \/ /\ depth <= Len(chain)
              /\ job' = [job EXCEPT ![w] = [started EXCEPT !.resp = Refusal(chain[depth])]]
              /\ pc' = [pc EXCEPT ![w] = "respond"]
           \/ /\ depth > Len(chain) /\ handler # "static"
              /\ job' = [job EXCEPT ![w] =
                   [started EXCEPT !.handler = handler, !.resp = Answer(handler, req)]]
              /\ pc' = [pc EXCEPT ![w] = IF Throws(handler, req) THEN "thrown" ELSE "respond"]
           \/ /\ depth > Len(chain) /\ handler = "static"
              /\ \E kept \in {NoKept} \cup {cached[f] : f \in Files \cap {file}} :
                   job' = [job EXCEPT ![w] =
                     [started EXCEPT !.handler = handler, !.file = file, !.kept = kept,
                                     !.past = {VersionOf(file)}]]
              /\ pc' = [pc EXCEPT ![w] = "size"]
  BY DEF Begin
<1> DEFINE depth == Depth(req, limited)
           handler == HandlerOf(routes, req)
           file == Resolved(req.path)
<1>8. /\ depth \in 1..(Len(chain) + 1)
      /\ depth <= Len(chain) => chain[depth] \in {"rate", "cors"}
  BY <1>1, DepthFacts
<1>9. handler \in HandlerNames /\ "none" \in HandlerNames BY <1>1 DEF HandlerNames
<1>10. file \in Paths BY DEF Paths
<1> HIDE DEF depth, handler, file
<1>11. CASE /\ depth <= Len(chain)
            /\ job' = [job EXCEPT ![w] = AtOnce(req, depth, "none", Refusal(chain[depth]))]
            /\ pc' = [pc EXCEPT ![w] = "respond"]
  <2> DEFINE status == IF chain[depth] = "rate" THEN 429 ELSE 204
             resp == Refusal(chain[depth])
             k == AtOnce(req, depth, "none", resp)
  <2>1. MadeOf(resp, status) /\ status \in Statuses BY RefusalFacts DEF Statuses
  <2>2. status # 304 /\ (status # 429 => chain[depth] = "cors") BY <1>8, <1>11
  <2> HIDE DEF status, resp
  <2>3. resp \in Response BY <2>1 DEF MadeOf
  <2>4. MadeAtOnce(req, depth, "none", resp, status, "respond")
    BY <1>8, <1>9, <2>1, <2>2, <2>3 DEF MadeAtOnce
  <2>5. k \in Job /\ JobInv(k, "respond", disk, latest, routes, chain)
    BY <1>1, <2>4, AnsweredAtOnce
  <2>6. "respond" \in Steps BY DEF Steps
  <2> HIDE DEF k
  <2>7. job' = [job EXCEPT ![w] = k] BY <1>11 DEF k, resp
  <2>8. QED BY <1>6, <1>11, <2>5, <2>6, <2>7
<1>12. CASE /\ depth > Len(chain) /\ handler # "static"
            /\ job' = [job EXCEPT ![w] = AtOnce(req, depth, handler, Answer(handler, req))]
            /\ pc' = [pc EXCEPT ![w] = IF Throws(handler, req) THEN "thrown" ELSE "respond"]
  <2> DEFINE step == IF Throws(handler, req) THEN "thrown" ELSE "respond"
             k == AtOnce(req, depth, handler, Answer(handler, req))
  <2>1. PICK status \in Statuses \ {304, 429} : MadeOf(Answer(handler, req), status)
    BY AnswerFacts
  <2>2. step \in {"respond", "thrown"} /\ (step = "thrown" => handler \in {"echo", "not_found"})
    BY DEF Throws
  <2>3. ~(depth <= Len(chain)) BY <1>2, <1>8, <1>12
  <2> HIDE DEF step
  <2>4. k \in Job /\ JobInv(k, step, disk, latest, routes, chain)
    <3> DEFINE n == latest
               resp == Answer(handler, req)
    <3>1. handler = HandlerOf(routes, req) BY DEF handler
    <3>2. MadeOf(resp, status) /\ status # 304 BY <2>1
    <3>3. resp \in Response BY <3>2 DEF MadeOf
    <3> HIDE DEF n, resp
    <3>4. MadeAtOnce(req, depth, handler, resp, status, step)
      BY <1>8, <1>9, <1>12, <2>1, <2>2, <2>3, <3>1, <3>2, <3>3 DEF MadeAtOnce
    <3>5. n \in Nat BY <1>1 DEF n
    <3>6. /\ AtOnce(req, depth, handler, resp) \in Job
          /\ JobInv(AtOnce(req, depth, handler, resp), step, disk, n, routes, chain)
      BY <1>1, <3>4, <3>5, AnsweredAtOnce
    <3>7. QED BY <3>6 DEF n, resp
  <2>5. step \in Steps BY <2>2 DEF Steps
  <2> HIDE DEF k
  <2>6. job' = [job EXCEPT ![w] = k] /\ pc' = [pc EXCEPT ![w] = step] BY <1>12 DEF k, step
  <2>7. QED BY <1>6, <2>4, <2>5, <2>6
<1>13. ASSUME depth > Len(chain), handler = "static",
              NEW kept \in {NoKept} \cup {cached[f] : f \in Files \cap {file}},
              job' = [job EXCEPT ![w] = ForFile(req, depth, file, kept, VersionOf(file))],
              pc' = [pc EXCEPT ![w] = "size"]
       PROVE  DispatchInv'
  <2> DEFINE version == VersionOf(file)
             k == ForFile(req, depth, file, kept, version)
             n == latest
  <2>1. version \in 0..n /\ version \in Nat BY <1>1 DEF VersionOf
  <2>2. /\ file \in Files => version = disk[file]
        /\ file \notin Files => version = 0
    BY DEF VersionOf
  <2>3. kept \in Kept /\ (kept = NoKept \/ AnswerOf(file, kept.etag, kept.version, disk, n))
    <3>1. CASE kept = NoKept BY <3>1 DEF NoKept, Kept, NoETag
    <3>2. CASE kept # NoKept
      <4>1. file \in Files /\ kept = cached[file] BY <1>13, <3>2
      <4>2. QED BY <1>1, <3>2, <4>1 DEF DispatchInv, CachedInv
    <3>3. QED BY <3>1, <3>2
  <2>4. depth \in Nat /\ depth = Len(chain) + 1 BY <1>2, <1>8, <1>13
  <2> HIDE DEF version
  <2>5. "static" \in HandlerNames BY <1>9, <1>13
  <2>6. /\ k \in Job
        /\ k.req = req /\ k.kept = kept /\ k.depth = depth /\ k.handler = "static"
        /\ k.file = file /\ k.sized = 0 /\ k.resp = Plain(0) /\ k.past = {version}
    BY <1>10, <2>1, <2>3, <2>4, <2>5, ForFileFacts
  <2>7. Plain(0).version = 0
    <3>1. 0 \in Statuses BY DEF Statuses
    <3>2. QED BY <3>1, PlainFacts
  <2> HIDE DEF k
  <2>8. NumbersInv(k, disk, n) BY <1>1, <2>1, <2>3, <2>6, <2>7 DEF NumbersInv
  <2>9. RoutedInv(k, routes) BY <1>13, <2>6 DEF RoutedInv, handler, file
  <2>10. LooksInv(k, "size", disk, chain) BY <2>2, <2>4, <2>6 DEF LooksInv
  <2>11. JobInv(k, "size", disk, n, routes, chain)
    BY <2>8, <2>9, <2>10 DEF JobInv, TaggedInv, AnsweredInv, MadeInv, SentInv
  <2>12. job' = [job EXCEPT ![w] = k] BY <1>13 DEF k, version
  <2>13. "size" \in Steps BY DEF Steps
  <2>14. QED BY <1>6, <1>13, <2>6, <2>11, <2>12, <2>13
<1>14. NoJob = [NoJob EXCEPT !.handler = "none"]
  <2>1. NoJob \in Job /\ NoJob.handler = "none" BY NoJobFacts DEF NoJob
  <2>2. QED BY <2>1 DEF Job
<1>15. \A r : [[NoJob EXCEPT !.req = req, !.depth = depth] EXCEPT !.resp = r]
                = AtOnce(req, depth, "none", r)
  BY <1>14 DEF AtOnce
<1>16. \A r : [[NoJob EXCEPT !.req = req, !.depth = depth] EXCEPT !.handler = handler, !.resp = r]
                = AtOnce(req, depth, handler, r)
  BY DEF AtOnce
<1>17. \A kept, past :
         [[NoJob EXCEPT !.req = req, !.depth = depth]
            EXCEPT !.handler = "static", !.file = file, !.kept = kept, !.past = past]
           = [NoJob EXCEPT !.req = req, !.depth = depth, !.handler = "static", !.file = file,
                           !.kept = kept, !.past = past]
  OBVIOUS
<1>18. QED BY <1>7, <1>11, <1>12, <1>13, <1>15, <1>16, <1>17 DEF depth, handler, file, ForFile


\* The version that a file has while a worker looks at it is one of the past.
LEMMA LookFacts ==
  ASSUME DispatchInv, NEW w \in Workers, pc[w] \in {"size", "time", "etag", "open"}
  PROVE  /\ job[w] \in Job /\ JobInv(job[w], pc[w], disk, latest, routes, chain)
         /\ VersionOf(job[w].file) \in job[w].past
         /\ VersionOf(job[w].file) \in 0..latest
         /\ VersionOf(job[w].file) # 0 => /\ job[w].file \in Files
                                          /\ disk[job[w].file] = VersionOf(job[w].file)
         /\ job[w].depth = Len(chain) + 1 /\ Len(chain) \in Nat
         /\ job[w].handler = "static"
<1> DEFINE j == job[w]
<1>1. j \in Job /\ JobInv(j, pc[w], disk, latest, routes, chain)
  BY DEF DispatchInv, DispatchType, JobsInv
<1>2. /\ disk \in [Files -> 0..latest] /\ chain \in Chains /\ latest \in Nat
  BY ConstantFacts DEF DispatchInv, DispatchType
<1>3. Len(chain) \in Nat
  <2>1. chain \in Seq(Middleware) BY <1>2, ChainAssumption DEF Middleware
  <2>2. QED BY <2>1, LenProperties
<1> HIDE DEF j
<1>4. LooksInv(j, pc[w], disk, chain) BY <1>1 DEF JobInv
<1>5. CASE j.file \in Files
  <2>1. VersionOf(j.file) = disk[j.file] BY <1>5 DEF VersionOf
  <2>2. disk[j.file] \in 0..latest /\ disk[j.file] \in j.past BY <1>2, <1>4, <1>5 DEF LooksInv
  <2>3. j.depth = Len(chain) + 1 /\ j.handler = "static" BY <1>4 DEF LooksInv
  <2>4. QED BY <1>1, <1>3, <1>5, <2>1, <2>2, <2>3 DEF j
<1>6. CASE j.file \notin Files
  <2>1. VersionOf(j.file) = 0 BY <1>6 DEF VersionOf
  <2>2. 0 \in 0..latest /\ 0 \in j.past BY <1>2, <1>4, <1>6 DEF LooksInv
  <2>3. j.depth = Len(chain) + 1 /\ j.handler = "static" BY <1>4 DEF LooksInv
  <2>4. QED BY <1>1, <1>3, <2>1, <2>2, <2>3 DEF j
<1>7. QED BY <1>5, <1>6

\* What the handler of the files may answer.
Allowed(j, resp, d, n) ==
  /\ resp.status # 429 /\ ~resp.compressed
  /\ \/ resp.length \in {Absent, resp.body}
     \/ resp.length \in Nat /\ resp.version # 0 /\ resp.version # j.sized
  /\ resp.version \in 0..n
  /\ resp.version # 0 => AnswerOf(j.file, resp.etag, resp.version, d, n)
  /\ resp.status = 304 => Confirmed(j)
  /\ 0 \notin j.past => \/ resp.status = 304
                        \/ resp.status = 200 /\ resp.version \in j.past

\* A worker that has come to an allowed response keeps the invariant.
LEMMA RespondKeeps ==
  ASSUME DispatchInv, NEW w \in Workers, pc[w] \in {"size", "time", "etag", "open"},
         NEW resp \in Response, Respond(w, resp), Allowed(job[w], resp, disk, latest),
         UNCHANGED <<routes, chain, disk, latest, cached>>
  PROVE  DispatchInv'
<1> DEFINE j == job[w]
           n == latest
           k == [j EXCEPT !.resp = resp]
<1>1. /\ j \in Job /\ JobInv(j, pc[w], disk, n, routes, chain)
      /\ j.depth = Len(chain) + 1 /\ Len(chain) \in Nat /\ j.handler = "static"
  BY LookFacts
<1>2. /\ k \in Job /\ k.req = j.req /\ k.kept = j.kept /\ k.depth = j.depth
      /\ k.handler = j.handler /\ k.file = j.file /\ k.sized = j.sized
      /\ k.resp = resp /\ k.past = j.past
  BY <1>1 DEF Job
<1>3. job' = [job EXCEPT ![w] = k] /\ pc' = [pc EXCEPT ![w] = "respond"]
  <2>1. job \in [Workers -> Job] BY DEF DispatchInv, DispatchType
  <2>2. job' = [job EXCEPT ![w].resp = resp] BY DEF Respond
  <2>3. QED BY <2>1, <2>2 DEF Respond
<1> HIDE DEF k, j
<1>4. NumbersInv(k, disk, n)
  <2>1. NumbersInv(j, disk, n) BY <1>1 DEF JobInv
  <2>2. resp.version \in 0..n BY DEF Allowed, j
  <2>3. QED BY <1>2, <2>1, <2>2 DEF NumbersInv
<1>5. RoutedInv(k, routes) BY <1>1, <1>2 DEF JobInv, RoutedInv
<1>6. AnsweredInv(k, "respond", disk, n, chain)
  <2>1. k.depth \in 1..(Len(chain) + 1) BY <1>1, <1>2
  <2>2. /\ resp.version # 0 => AnswerOf(j.file, resp.etag, resp.version, disk, n)
        /\ resp.status = 304 => Confirmed(j)
        /\ 0 \notin j.past => \/ resp.status = 304
                              \/ resp.status = 200 /\ resp.version \in j.past
    BY DEF Allowed, j
  <2>3. Confirmed(j) => Confirmed(k) BY <1>2 DEF Confirmed, Coincides
  <2>4. QED BY <1>2, <2>1, <2>2, <2>3 DEF AnsweredInv
<1>7. MadeInv(k, "respond", chain)
  <2>1. /\ ~resp.compressed
        /\ \/ resp.length \in {Absent, resp.body}
           \/ resp.length \in Nat /\ resp.version # 0 /\ resp.version # j.sized
    BY DEF Allowed, j
  <2>2. chain \in Chains BY DEF DispatchInv, DispatchType
  <2>3. \A m \in {"security", "id"} : \E i \in 1..(k.depth - 1) : chain[i] = m
    <3>1. k.depth \in 1..(Len(chain) + 1) /\ ~(k.depth <= Len(chain)) BY <1>1, <1>2
    <3>2. QED BY <2>2, <3>1, HardenersFirst
  <2>4. QED BY <1>2, <2>1, <2>3 DEF MadeInv
<1>8. JobInv(k, "respond", disk, n, routes, chain)
  BY <1>4, <1>5, <1>6, <1>7 DEF JobInv, LooksInv, TaggedInv, SentInv
<1>9. "respond" \in Steps BY DEF Steps
<1>10. cached' \in [Files -> Kept] /\ CachedInv' BY DEF DispatchInv, DispatchType, CachedInv
<1>11. QED BY <1>2, <1>3, <1>8, <1>9, <1>10, WorkerKeeps

\* A response without a file is one that the handler of the files may give when the
\* file was missing.
LEMMA MissingAllowed ==
  ASSUME NEW j, NEW d, NEW n \in Nat, 0 \in j.past, NEW status \in {404, 500}
  PROVE  Json(status) \in Response /\ Allowed(j, Json(status), d, n)
<1>1. status \in Statuses BY DEF Statuses
<1>2. MadeOf(Json(status), status) BY <1>1, JsonFacts
<1>3. QED BY <1>2 DEF MadeOf, Allowed

\* is_regular_file, file_size and the first last_write_time of resolve_file.
LEMMA StatKeeps ==
  ASSUME DispatchInv, NEW w \in Workers, StatSize(w) \/ StatTime(w)
  PROVE  DispatchInv'
<1> DEFINE j == job[w]
           n == latest
           version == VersionOf(j.file)
<1>1. pc[w] \in {"size", "time", "etag", "open"} BY DEF StatSize, StatTime
<1>2. /\ j \in Job /\ JobInv(j, pc[w], disk, n, routes, chain)
      /\ version \in j.past /\ version \in 0..n /\ (version # 0 => j.file \in Files)
      /\ n \in Nat
  BY <1>1, LookFacts, LenProperties DEF DispatchInv, DispatchType
<1>3. UNCHANGED <<routes, chain, disk, latest, cached>> BY DEF StatSize, StatTime
<1>4. cached' \in [Files -> Kept] /\ CachedInv'
  BY <1>3 DEF DispatchInv, DispatchType, CachedInv
<1>5. CASE version = 0
  <2>1. Respond(w, Json(404)) BY <1>5 DEF StatSize, StatTime
  <2>2. Json(404) \in Response /\ Allowed(j, Json(404), disk, n) BY <1>2, <1>5, MissingAllowed
  <2>3. QED BY <1>1, <1>3, <2>1, <2>2, RespondKeeps
<1>6. CASE version # 0 /\ StatSize(w)
  <2> DEFINE k == [j EXCEPT !.sized = version]
  <2>1. /\ k \in Job /\ k.req = j.req /\ k.kept = j.kept /\ k.depth = j.depth
        /\ k.handler = j.handler /\ k.file = j.file /\ k.sized = version
        /\ k.resp = j.resp /\ k.past = j.past
    BY <1>2 DEF Job
  <2>2. pc[w] = "size" /\ pc' = [pc EXCEPT ![w] = "time"] BY <1>6 DEF StatSize
  <2>3. job' = [job EXCEPT ![w] = k]
    <3>1. job \in [Workers -> Job] BY DEF DispatchInv, DispatchType
    <3>2. job' = [job EXCEPT ![w].sized = version] BY <1>6 DEF StatSize
    <3>3. QED BY <3>1, <3>2
  <2> HIDE DEF k, version, j
  <2>4. NumbersInv(k, disk, n) BY <1>2, <2>1 DEF JobInv, NumbersInv
  <2>5. RoutedInv(k, routes) BY <1>2, <2>1 DEF JobInv, RoutedInv
  <2>6. LooksInv(k, "time", disk, chain)
    <3>1. LooksInv(j, "size", disk, chain) BY <1>2, <2>2 DEF JobInv
    <3>2. j.file \in Files /\ version # 0 BY <1>2, <1>6
    <3>3. version = disk[j.file] BY <3>2 DEF VersionOf, version
    <3>4. /\ j.handler = "static" /\ j.depth = Len(chain) + 1
          /\ disk[j.file] \in j.past
      BY <3>1, <3>2 DEF LooksInv
    <3>5. disk[j.file] <= disk[j.file] BY <1>2, <3>3
    <3>6. QED BY <2>1, <3>2, <3>3, <3>4, <3>5 DEF LooksInv
  <2>7. JobInv(k, "time", disk, n, routes, chain)
    BY <2>4, <2>5, <2>6 DEF JobInv, TaggedInv, AnsweredInv, MadeInv, SentInv
  <2>8. "time" \in Steps BY DEF Steps
  <2>9. QED BY <1>3, <1>4, <2>1, <2>2, <2>3, <2>7, <2>8, WorkerKeeps
<1>7. CASE version # 0 /\ StatTime(w)
  <2>1. pc[w] = "time" /\ pc' = [pc EXCEPT ![w] = "etag"] /\ job' = job BY <1>7 DEF StatTime
  <2>2. job' = [job EXCEPT ![w] = j]
    <3>1. job \in [Workers -> Job] BY DEF DispatchInv, DispatchType
    <3>2. QED BY <2>1, <3>1
  <2> HIDE DEF version, j
  <2>3. LooksInv(j, "etag", disk, chain)
    <3>1. LooksInv(j, "time", disk, chain) BY <1>2, <2>1 DEF JobInv
    <3>2. QED BY <3>1 DEF LooksInv
  <2>4. JobInv(j, "etag", disk, n, routes, chain)
    BY <1>2, <2>3 DEF JobInv, TaggedInv, AnsweredInv, MadeInv, SentInv
  <2>5. "etag" \in Steps BY DEF Steps
  <2>6. QED BY <1>2, <1>3, <1>4, <2>1, <2>2, <2>4, <2>5, WorkerKeeps
<1>8. QED BY <1>5, <1>6, <1>7

\* generate_etag.
LEMMA TagKeeps ==
  ASSUME DispatchInv, NEW w \in Workers, GenerateETag(w)
  PROVE  DispatchInv'
<1> DEFINE j == job[w]
           n == latest
           version == VersionOf(j.file)
           etag == IF version = 0 THEN UnknownETag ELSE ETag(ModifiedAt[version], SizeOf[j.sized])
           k == [j EXCEPT !.etag = etag]
<1>1. pc[w] = "etag" /\ pc' = [pc EXCEPT ![w] = "open"] BY DEF GenerateETag
<1>2. /\ j \in Job /\ JobInv(j, "etag", disk, n, routes, chain)
      /\ version \in j.past /\ version \in 0..n
      /\ version # 0 => j.file \in Files /\ disk[j.file] = version
      /\ n \in 1..MaxVersion /\ n \in Nat /\ MaxVersion \in Nat
  BY <1>1, LookFacts, LenProperties, ConstantFacts DEF DispatchInv, DispatchType
<1>3. UNCHANGED <<routes, chain, disk, latest, cached>> BY DEF GenerateETag
<1>4. cached' \in [Files -> Kept] /\ CachedInv'
  BY <1>3 DEF DispatchInv, DispatchType, CachedInv
<1>5. job' = [job EXCEPT ![w] = k]
  <2>1. job \in [Workers -> Job] BY DEF DispatchInv, DispatchType
  <2>2. job' = [job EXCEPT ![w].etag = etag] BY DEF GenerateETag
  <2>3. QED BY <2>1, <2>2
<1>6. j.sized \in 0..n /\ j.sized # 0 /\ j.file \in Files
  <2>1. NumbersInv(j, disk, n) /\ LooksInv(j, "etag", disk, chain) BY <1>2 DEF JobInv
  <2>2. QED BY <2>1 DEF NumbersInv, LooksInv
<1>7. version # 0 => j.sized \in 1..version
  <2>1. LooksInv(j, "etag", disk, chain) BY <1>2 DEF JobInv
  <2>2. QED BY <1>2, <1>6, <2>1 DEF LooksInv
<1>8. etag \in Int
  <2>1. CASE version = 0 BY <2>1 DEF UnknownETag
  <2>2. CASE version # 0
    <3>1. version \in 1..MaxVersion /\ j.sized \in 1..MaxVersion BY <1>2, <1>7, <2>2
    <3>2. BitXor(ModifiedAt[version], SizeOf[j.sized]) \in Nat BY <3>1, DispatchAssumption
    <3>3. etag = BitXor(ModifiedAt[version], SizeOf[j.sized]) BY <2>2 DEF ETag
    <3> HIDE DEF etag
    <3>4. QED BY <3>2, <3>3
  <2>3. QED BY <2>1, <2>2
<1>9. version # 0 => TagOf(etag, version) BY <1>7 DEF TagOf, ETag
<1>10. version = 0 => etag = UnknownETag OBVIOUS
<1> HIDE DEF etag, version
<1>11. /\ k \in Job /\ k.req = j.req /\ k.kept = j.kept /\ k.depth = j.depth
       /\ k.handler = j.handler /\ k.file = j.file /\ k.sized = j.sized
       /\ k.etag = etag /\ k.resp = j.resp /\ k.past = j.past
  BY <1>2, <1>8 DEF Job
<1> HIDE DEF k, j
<1>12. NumbersInv(k, disk, n) BY <1>2, <1>11 DEF JobInv, NumbersInv
<1>13. RoutedInv(k, routes) BY <1>2, <1>11 DEF JobInv, RoutedInv
<1>14. LooksInv(k, "open", disk, chain)
  <2>1. LooksInv(j, "etag", disk, chain) BY <1>2 DEF JobInv
  <2>2. QED BY <1>11, <2>1 DEF LooksInv
<1>15. TaggedInv(k, "open", disk)
  <2>1. CASE version = 0 BY <1>10, <1>11, <2>1 DEF TaggedInv
  <2>2. CASE version # 0
    <3>1. /\ version \in k.past \ {0} /\ TagOf(k.etag, version) /\ version <= disk[k.file]
          /\ disk[k.file] = version
      BY <1>2, <1>9, <1>11, <2>2
    <3>2. ASSUME k.kept # NoKept PROVE k.kept.version <= version
      <4>1. AnswerOf(k.file, k.kept.etag, k.kept.version, disk, n)
        BY <1>12, <3>2 DEF NumbersInv
      <4>2. QED BY <2>2, <3>1, <4>1 DEF AnswerOf
    <3>3. QED BY <3>1, <3>2 DEF TaggedInv
  <2>3. QED BY <2>1, <2>2
<1>16. JobInv(k, "open", disk, n, routes, chain)
  BY <1>12, <1>13, <1>14, <1>15 DEF JobInv, AnsweredInv, MadeInv, SentInv
<1>17. "open" \in Steps BY DEF Steps
<1>18. QED BY <1>1, <1>3, <1>4, <1>5, <1>11, <1>16, <1>17, WorkerKeeps


\* A response as it is constructed.
LEMMA PlainMade ==
  ASSUME NEW status \in Statuses
  PROVE  MadeOf(Plain(status), status)
BY PlainFacts DEF MadeOf

\* The answers 304 and 200 of serve_file.
NotModified(etag) == [Plain(304) EXCEPT !.etag = etag]
FileAnswer(length, body, etag, version) ==
  [Plain(200) EXCEPT !.length = length, !.body = body, !.etag = etag, !.version = version]
IsFileAnswer(r, length, body, etag, version) ==
  /\ r \in Response /\ r.status = 200 /\ r.compressed = FALSE
  /\ r.length = length /\ r.body = body /\ r.etag = etag /\ r.version = version
\* The two answers of serve_file have the fields that it sets.
LEMMA FileAnswerFacts ==
  ASSUME NEW length, NEW body, NEW etag, NEW version,
         length \in Int, body \in Nat, etag \in Int, version \in Int
  PROVE  /\ MadeOf(NotModified(etag), 304)
         /\ IsFileAnswer(FileAnswer(length, body, etag, version), length, body, etag, version)
<1>1. 304 \in Statuses BY DEF Statuses
<1>2. 200 \in Statuses BY DEF Statuses
<1>3. MadeOf(Plain(304), 304) BY <1>1, PlainMade
<1>4. MadeOf(Plain(200), 200) BY <1>2, PlainMade
<1>5. ASSUME NEW r \in Response
      PROVE  /\ [r EXCEPT !.length = length] \in Response
             /\ [r EXCEPT !.body = body] \in Response
             /\ [r EXCEPT !.etag = etag] \in Response
             /\ [r EXCEPT !.version = version] \in Response
  BY DEF Response
<1>6. [Plain(304) EXCEPT !.etag = etag] \in Response
  <2>1. Plain(304) \in Response BY <1>3 DEF MadeOf
  <2>2. QED BY <1>5, <2>1
<1>7. FileAnswer(length, body, etag, version) \in Response
  <2>1. Plain(200) \in Response BY <1>4 DEF MadeOf
  <2>2. [Plain(200) EXCEPT !.length = length] \in Response BY <1>5, <2>1
  <2>3. [[Plain(200) EXCEPT !.length = length] EXCEPT !.body = body] \in Response
    BY <1>5, <2>2
  <2>4. [[[Plain(200) EXCEPT !.length = length] EXCEPT !.body = body] EXCEPT !.etag = etag]
          \in Response
    BY <1>5, <2>3
  <2>5. [[[[Plain(200) EXCEPT !.length = length] EXCEPT !.body = body] EXCEPT !.etag = etag]
           EXCEPT !.version = version] \in Response
    BY <1>5, <2>4
  <2>6. QED BY <2>5 DEF FileAnswer
<1>8. MadeOf(NotModified(etag), 304) BY <1>3, <1>6 DEF MadeOf, NotModified, Response
<1>9. QED BY <1>4, <1>7, <1>8 DEF MadeOf, FileAnswer, IsFileAnswer, Response

\* serve_file.
LEMMA ServeKeeps ==
  ASSUME DispatchInv, NEW w \in Workers, ServeFile(w)
  PROVE  DispatchInv'
<1> DEFINE j == job[w]
           n == latest
           version == VersionOf(j.file)
<1>1. pc[w] = "open" BY DEF ServeFile
<1>2. /\ j \in Job /\ JobInv(j, "open", disk, n, routes, chain)
      /\ version \in j.past /\ version \in 0..n
      /\ version # 0 => j.file \in Files /\ disk[j.file] = version
      /\ n \in 1..MaxVersion /\ n \in Nat /\ MaxVersion \in Nat
  BY <1>1, LookFacts, LenProperties, ConstantFacts DEF DispatchInv, DispatchType
<1>3. UNCHANGED <<routes, chain, disk, latest, cached>> BY DEF ServeFile
<1>4. /\ j.sized \in 0..n /\ j.sized # 0 /\ j.past \subseteq 0..n
      /\ j.kept = NoKept \/ AnswerOf(j.file, j.kept.etag, j.kept.version, disk, n)
  BY <1>2 DEF JobInv, NumbersInv, LooksInv
<1>5. \/ j.etag = UnknownETag
      \/ \E v \in j.past \ {0} :
           /\ TagOf(j.etag, v) /\ (disk[j.file] = 0 \/ v <= disk[j.file])
           /\ j.kept # NoKept => j.kept.version <= v
  BY <1>2 DEF JobInv, TaggedInv
<1>6. j.etag \in Int BY <1>2 DEF Job
<1>7. ASSUME NEW resp \in Response, Respond(w, resp), Allowed(j, resp, disk, n)
      PROVE  DispatchInv'
  BY <1>1, <1>3, <1>7, RespondKeeps
<1>8. CASE ~IsModifiedSince(j)
  <2> DEFINE resp == NotModified(j.etag)
  <2>1. Respond(w, resp) BY <1>8 DEF ServeFile, NotModified
  <2>2. j.kept # NoKept /\ j.kept.etag = j.etag BY <1>8 DEF IsModifiedSince
  <2>5. MadeOf(resp, 304)
    <3>1. 0 \in Int /\ 0 \in Nat OBVIOUS
    <3>2. QED BY <1>6, <3>1, FileAnswerFacts
  <2>6. Confirmed(j)
    <3>1. SUFFICES ASSUME j.etag # UnknownETag, j.kept.version \notin j.past
                   PROVE  Coincides(j)
      BY <2>2 DEF Confirmed
    <3>2. PICK v \in j.past \ {0} : TagOf(j.etag, v) /\ j.kept.version <= v
      BY <1>5, <2>2, <3>1
    <3>3. /\ j.kept.version \in 1..n
          /\ \E u \in 1..j.kept.version : TagOf(j.etag, u)
      BY <1>4, <2>2, <3>1 DEF AnswerOf
    <3>4. PICK u \in 1..j.kept.version : TagOf(j.etag, u) BY <3>3
    <3>5. u < v BY <1>4, <3>1, <3>2, <3>3
    <3>6. QED BY <2>2, <3>2, <3>4, <3>5 DEF Coincides
  <2> HIDE DEF resp, j
  <2>7. resp \in Response /\ Allowed(j, resp, disk, n) BY <1>2, <2>5, <2>6 DEF MadeOf, Allowed
  <2>8. QED BY <1>7, <2>1, <2>7
<1>9. CASE IsModifiedSince(j) /\ version = 0
  <2>1. Respond(w, Json(500)) BY <1>9 DEF ServeFile
  <2>2. Json(500) \in Response /\ Allowed(j, Json(500), disk, n) BY <1>2, <1>9, MissingAllowed
  <2>3. QED BY <1>7, <2>1, <2>2
<1>10. CASE IsModifiedSince(j) /\ version # 0
  <2> DEFINE resp == FileAnswer(SizeOf[j.sized], SizeOf[version], j.etag, version)
  <2>1. Respond(w, resp) BY <1>10 DEF ServeFile, FileAnswer
  <2>2. SizeOf[j.sized] \in Nat /\ SizeOf[version] \in Nat
    <3>1. j.sized \in 1..MaxVersion /\ version \in 1..MaxVersion BY <1>2, <1>4, <1>10
    <3>2. QED BY <3>1, ConstantFacts
  <2>5. /\ resp \in Response
        /\ resp.status = 200 /\ resp.compressed = FALSE /\ resp.length = SizeOf[j.sized]
        /\ resp.body = SizeOf[version] /\ resp.etag = j.etag /\ resp.version = version
    <3>1. SizeOf[j.sized] \in Int /\ version \in Int BY <1>2, <2>2
    <3> HIDE DEF version, j
    <3>2. IsFileAnswer(resp, SizeOf[j.sized], SizeOf[version], j.etag, version)
      BY <1>6, <2>2, <3>1, FileAnswerFacts
    <3>3. QED BY <3>2 DEF IsFileAnswer
  <2> HIDE DEF resp
  <2>7. AnswerOf(j.file, resp.etag, resp.version, disk, n)
    <3>1. j.file \in Files /\ version \in 1..n /\ disk[j.file] = version BY <1>2, <1>10
    <3>2. ASSUME j.etag # UnknownETag PROVE \E v \in 1..version : TagOf(j.etag, v)
      <4>1. PICK v \in j.past \ {0} :
                   TagOf(j.etag, v) /\ (disk[j.file] = 0 \/ v <= disk[j.file])
        BY <1>5, <3>2
      <4>2. v \in 1..version BY <1>4, <1>10, <3>1, <4>1
      <4>3. QED BY <4>1, <4>2
    <3> HIDE DEF version, j
    <3>3. QED BY <1>2, <2>5, <3>1, <3>2 DEF AnswerOf
  <2>8. Allowed(j, resp, disk, n)
    <3>1. \/ resp.length = resp.body
          \/ resp.length \in Nat /\ resp.version # 0 /\ resp.version # j.sized
      BY <1>10, <2>2, <2>5
    <3> HIDE DEF version, j
    <3>2. QED BY <1>2, <2>5, <2>7, <3>1 DEF Allowed
  <2>9. QED BY <1>7, <2>1, <2>5, <2>8
<1>11. QED BY <1>8, <1>9, <1>10

\* What is sent of a response that came up the chain.
LEMMA FinalizedFacts ==
  ASSUME NEW p \in Response
  PROVE  LET sent == Finalized(p)
         IN /\ sent \in Response
            /\ sent.status = p.status /\ sent.version = p.version /\ sent.etag = p.etag
            /\ sent.body = p.body /\ sent.compressed = p.compressed /\ sent.marks = p.marks
            /\ sent.length = IF p.length = Absent /\ ~p.compressed THEN p.body ELSE p.length
<1>1. CASE p.length = Absent /\ ~p.compressed
  <2>1. Finalized(p) = [p EXCEPT !.length = p.body] BY <1>1 DEF Finalized
  <2>2. p.body \in Int BY DEF Response
  <2>3. QED BY <1>1, <2>1, <2>2 DEF Response
<1>2. CASE ~(p.length = Absent /\ ~p.compressed)
  <2>1. Finalized(p) = p BY <1>2 DEF Finalized
  <2>2. QED BY <1>2, <2>1
<1>3. QED BY <1>1, <1>2

\* A response goes up the chain and to its client.
LEMMA SendKeeps ==
  ASSUME DispatchInv, NEW w \in Workers, Send(w)
  PROVE  DispatchInv'
<1> DEFINE j == job[w]
           n == latest
           callers == Callers(j)
<1>1. pc[w] = "respond" /\ pc' = [pc EXCEPT ![w] = "sent"] /\ UNCHANGED <<routes, chain, disk, latest>>
  BY DEF Send
<1>2. PICK zlength \in GzipLengths \cup {0} :
        LET sent == Finalized(PassedUp(callers, j.resp, j.req, zlength))
        IN /\ job' = [job EXCEPT ![w].resp = sent]
           /\ \/ UNCHANGED cached
              \/ /\ sent.version # 0
                 /\ cached' = [cached EXCEPT ![j.file] =
                      [file |-> j.file, etag |-> sent.etag, version |-> sent.version]]
  BY DEF Send
<1> DEFINE p == PassedUp(callers, j.resp, j.req, zlength)
           sent == Finalized(p)
           k == [j EXCEPT !.resp = sent]
<1>3. /\ j \in Job /\ JobInv(j, "respond", disk, n, routes, chain) /\ j.resp \in Response
      /\ n \in Nat
  BY <1>1, LenProperties DEF DispatchInv, DispatchType, JobsInv, Job
<1>4. chain \in Seq(Middleware) /\ Len(chain) \in Nat
  <2>1. chain \in Seq(Middleware) BY ChainAssumption DEF DispatchInv, DispatchType, Middleware
  <2>2. QED BY <2>1, LenProperties
<1>5. AnsweredInv(j, "respond", disk, n, chain) /\ MadeInv(j, "respond", chain)
  BY <1>3 DEF JobInv
<1>6. j.depth \in 1..(Len(chain) + 1) BY <1>5 DEF AnsweredInv
<1>7. /\ callers \in Seq(Middleware) /\ Len(callers) = j.depth - 1
      /\ \A i \in 1..(j.depth - 1) : callers[i] = chain[i]
  <2>1. 1 \in 1..(Len(chain) + 1) /\ j.depth - 1 \in (1 - 1)..Len(chain) BY <1>4, <1>6
  <2>2. /\ SubSeq(chain, 1, j.depth - 1) \in Seq(Middleware)
        /\ Len(SubSeq(chain, 1, j.depth - 1)) = j.depth - 1
        /\ \A i \in 1..(j.depth - 1) : SubSeq(chain, 1, j.depth - 1)[i] = chain[i]
    <3> DEFINE m == j.depth - 1
    <3>1. m \in 0..Len(chain) BY <1>4, <1>6
    <3> HIDE DEF m, j
    <3>2. QED BY <1>4, <3>1 DEF m
  <2>3. QED BY <2>2 DEF Callers
<1>8. zlength \in Nat BY ConstantFacts
<1> HIDE DEF callers
<1>9. /\ p \in Response /\ Carries(p, j.resp, j.req)
      /\ \A i \in 1..Len(callers) :
           /\ callers[i] = "security" => "X-Content-Type-Options" \in p.marks
           /\ callers[i] = "id" => "X-Request-ID" \in p.marks
  BY <1>3, <1>7, <1>8, PassedUpFacts
<1> HIDE DEF p
<1>10. /\ sent \in Response
       /\ sent.status = p.status /\ sent.version = p.version /\ sent.etag = p.etag
       /\ sent.body = p.body /\ sent.compressed = p.compressed /\ sent.marks = p.marks
       /\ sent.length = IF p.length = Absent /\ ~p.compressed THEN p.body ELSE p.length
  BY <1>9, FinalizedFacts
<1>11. p.status = j.resp.status /\ p.version = j.resp.version /\ p.etag = j.resp.etag
  BY <1>9 DEF Carries
<1> HIDE DEF sent
<1>12. /\ k \in Job /\ k.req = j.req /\ k.kept = j.kept /\ k.depth = j.depth
       /\ k.handler = j.handler /\ k.file = j.file /\ k.sized = j.sized
       /\ k.resp = sent /\ k.past = j.past
  BY <1>3, <1>10 DEF Job
<1>13. job' = [job EXCEPT ![w] = k]
  <2>1. job \in [Workers -> Job] BY DEF DispatchInv, DispatchType
  <2>2. job' = [job EXCEPT ![w].resp = sent] BY <1>2 DEF sent, p
  <2>3. QED BY <2>1, <2>2
<1>14. ASSUME sent.version # 0 PROVE AnswerOf(j.file, sent.etag, sent.version, disk, n)
  BY <1>5, <1>10, <1>11, <1>14 DEF AnsweredInv
<1>15. cached' \in [Files -> Kept] /\ CachedInv'
  <2>1. CASE cached' = cached
    BY <1>1, <2>1 DEF DispatchInv, DispatchType, CachedInv
  <2>2. CASE sent.version # 0 /\ cached' = [cached EXCEPT ![j.file] =
                 [file |-> j.file, etag |-> sent.etag, version |-> sent.version]]
    <3> DEFINE kept == [file |-> j.file, etag |-> sent.etag, version |-> sent.version]
    <3>1. AnswerOf(j.file, sent.etag, sent.version, disk, n) BY <1>14, <2>2
    <3>2. j.file \in Files BY <3>1 DEF AnswerOf
    <3>3. kept \in Kept BY <1>10, <3>2 DEF Kept, Response
    <3>4. cached \in [Files -> Kept] BY DEF DispatchInv, DispatchType
    <3>5. kept.file = j.file /\ kept.etag = sent.etag /\ kept.version = sent.version OBVIOUS
    <3> HIDE DEF kept, j
    <3>6. cached' = [cached EXCEPT ![j.file] = kept] BY <2>2 DEF kept
    <3>7. cached' \in [Files -> Kept] BY <3>2, <3>3, <3>4, <3>6
    <3>8. ASSUME NEW f \in Files
          PROVE  \/ cached'[f] = NoKept
                 \/ cached'[f].file = f /\ AnswerOf(f, cached'[f].etag, cached'[f].version, disk, n)
      <4>1. CASE f = j.file
        <5>1. cached'[f] = kept BY <3>2, <3>4, <3>6, <4>1
        <5>2. QED BY <3>1, <3>5, <4>1, <5>1
      <4>2. CASE f # j.file
        <5>1. cached'[f] = cached[f] BY <3>2, <3>4, <3>6, <4>2
        <5>2. QED BY <5>1 DEF DispatchInv, CachedInv
      <4>3. QED BY <4>1, <4>2
    <3>9. QED BY <1>1, <3>7, <3>8 DEF CachedInv
  <2>3. QED BY <1>2, <2>1, <2>2 DEF sent, p
<1> HIDE DEF k, j
<1>16. NumbersInv(k, disk, n)
  <2>1. NumbersInv(j, disk, n) BY <1>3 DEF JobInv
  <2>2. sent.version \in 0..n BY <1>10, <1>11, <2>1 DEF NumbersInv
  <2>3. QED BY <1>12, <2>1, <2>2 DEF NumbersInv
<1>17. RoutedInv(k, routes) BY <1>3, <1>12 DEF JobInv, RoutedInv
<1>18. AnsweredInv(k, "sent", disk, n, chain)
  <2>1. Confirmed(j) => Confirmed(k) BY <1>12 DEF Confirmed, Coincides
  <2>2. QED BY <1>5, <1>10, <1>11, <1>12, <2>1 DEF AnsweredInv
<1>19. SentInv(k, "sent")
  <2>1. /\ ~j.resp.compressed
        /\ \/ j.resp.length \in {Absent, j.resp.body}
           \/ j.resp.length \in Nat /\ j.resp.version # 0 /\ j.resp.version # j.sized
    BY <1>5 DEF MadeInv
  <2>2. p.body \in Nat /\ j.resp.body \in Nat BY <1>3, <1>9 DEF Response
  <2>3. /\ sent.length \in Nat
        /\ \/ sent.length = sent.body
           \/ sent.version # 0 /\ sent.version # j.sized /\ ~sent.compressed
        /\ sent.compressed => j.req.gzip
    <3>1. CASE p.length = j.resp.length /\ p.body = j.resp.body /\ p.compressed = j.resp.compressed
      <4>1. ~p.compressed /\ ~sent.compressed BY <1>10, <2>1, <3>1
      <4>2. CASE j.resp.length = Absent BY <1>10, <2>2, <3>1, <4>1, <4>2
      <4>3. CASE j.resp.length = j.resp.body /\ j.resp.length # Absent
        BY <1>10, <2>2, <3>1, <4>1, <4>3
      <4>4. CASE /\ j.resp.length \in Nat /\ j.resp.length # Absent
                 /\ j.resp.version # 0 /\ j.resp.version # j.sized
        BY <1>10, <1>11, <3>1, <4>1, <4>4
      <4>5. QED BY <2>1, <4>2, <4>3, <4>4
    <3>2. CASE p.compressed /\ j.req.gzip /\ p.length = p.body
      BY <1>10, <2>2, <3>2
    <3>3. QED BY <1>9, <3>1, <3>2 DEF Carries
  <2>4. ASSUME sent.status # 429
        PROVE  {"X-Content-Type-Options", "X-Request-ID"} \subseteq sent.marks
    <3>1. \A m \in {"security", "id"} : \E i \in 1..(j.depth - 1) : chain[i] = m
      BY <1>5, <1>10, <1>11, <2>4 DEF MadeInv
    <3>2. PICK a \in 1..(j.depth - 1) : chain[a] = "security" BY <3>1
    <3>3. PICK b \in 1..(j.depth - 1) : chain[b] = "id" BY <3>1
    <3>4. "X-Content-Type-Options" \in p.marks BY <1>7, <1>9, <3>2
    <3>5. "X-Request-ID" \in p.marks BY <1>7, <1>9, <3>3
    <3>6. QED BY <1>10, <3>4, <3>5
  <2>5. QED BY <1>12, <2>3, <2>4 DEF SentInv
<1>20. JobInv(k, "sent", disk, n, routes, chain)
  BY <1>16, <1>17, <1>18, <1>19 DEF JobInv, LooksInv, TaggedInv, MadeInv
<1>21. "sent" \in Steps BY DEF Steps
<1>22. QED BY <1>1, <1>12, <1>13, <1>15, <1>20, <1>21, WorkerKeeps

\* on_request_ has returned or thrown.
LEMMA ReturnKeeps ==
  ASSUME DispatchInv, NEW w \in Workers, Return(w)
  PROVE  DispatchInv'
<1>1. /\ job' = [job EXCEPT ![w] = NoJob] /\ pc' = [pc EXCEPT ![w] = "idle"]
      /\ UNCHANGED <<routes, chain, disk, latest, cached>>
  BY DEF Return
<1>2. cached' \in [Files -> Kept] /\ CachedInv'
  BY <1>1 DEF DispatchInv, DispatchType, CachedInv
<1>3. latest \in Nat BY ConstantFacts DEF DispatchInv, DispatchType
<1>4. NoJob \in Job /\ JobInv(NoJob, "idle", disk, latest, routes, chain)
  BY <1>3, NoJobFacts
<1>5. "idle" \in Steps BY DEF Steps
<1>6. QED BY <1>1, <1>2, <1>4, <1>5, WorkerKeeps


\* Whatever a worker or another process does.
LEMMA NextDispatch == DispatchInv /\ [Next]_vars => DispatchInv'
<1> SUFFICES ASSUME DispatchInv, [Next]_vars PROVE DispatchInv' OBVIOUS
<1>1. ASSUME NEW w \in Workers, WorkerStep(w) PROVE DispatchInv'
  BY <1>1, BeginKeeps, StatKeeps, TagKeeps, ServeKeeps, SendKeeps, ReturnKeeps DEF WorkerStep
<1>2. ASSUME NEW f \in Files, ReplaceFile(f) \/ RemoveFile(f) PROVE DispatchInv'
  BY <1>2, WritingKeeps
<1>3. CASE UNCHANGED vars
  <2>1. /\ routes' = routes /\ chain' = chain /\ disk' = disk /\ latest' = latest
        /\ cached' = cached /\ pc' = pc /\ job' = job
    BY <1>3 DEF vars
  <2>2. DispatchType' BY <2>1 DEF DispatchInv, DispatchType
  <2>3. CachedInv' BY <2>1 DEF DispatchInv, CachedInv
  <2>4. JobsInv' BY <2>1 DEF DispatchInv, JobsInv
  <2>5. QED BY <2>2, <2>3, <2>4 DEF DispatchInv
<1>4. QED BY <1>1, <1>2, <1>3 DEF Next

-----------------------------------------------------------------------------
(* The theorems                                                              *)

\* The inductive invariant of the dispatch of requests: what every worker has found
\* out about its request and its file, and what every client has kept, agree with the
\* files as they were at some moment of the request.
THEOREM DispatchInvariant == Spec => []DispatchInv
<1>1. Init => DispatchInv BY InitDispatch
<1>2. DispatchInv /\ [Next]_vars => DispatchInv' BY NextDispatch
<1>3. QED BY <1>1, <1>2, PTL DEF Spec

\* Every variable has its type, and every response that is sent has a Content-Length.
THEOREM TypesHold == Spec => []TypeOK
<1>1. DispatchInv => TypeOK
  <2> SUFFICES ASSUME DispatchInv PROVE TypeOK OBVIOUS
  <2>1. /\ routes \in Tables /\ chain \in Chains
        /\ latest \in 1..MaxVersion /\ disk \in [Files -> 0..latest]
        /\ pc \in [Workers -> Steps] /\ job \in [Workers -> Job] /\ MaxVersion \in Nat
    BY ConstantFacts DEF DispatchInv, DispatchType
  <2>3. ASSUME NEW f \in Files
        PROVE  \/ cached[f] = NoKept
               \/ /\ cached[f].file = f /\ cached[f].etag # NoETag
                  /\ cached[f].version \in 1..latest
    <3>1. SUFFICES ASSUME cached[f] # NoKept
                   PROVE  /\ cached[f].file = f /\ cached[f].etag # NoETag
                          /\ cached[f].version \in 1..latest
      OBVIOUS
    <3>2. /\ cached[f].file = f
          /\ AnswerOf(f, cached[f].etag, cached[f].version, disk, latest)
      BY <3>1 DEF DispatchInv, CachedInv
    <3>3. cached[f].version \in 1..latest BY <3>2 DEF AnswerOf
    <3>4. cached[f].etag # NoETag
      <4>1. CASE cached[f].etag = UnknownETag BY <4>1 DEF UnknownETag, NoETag
      <4>2. CASE cached[f].etag # UnknownETag
        <5>1. PICK v \in 1..cached[f].version : TagOf(cached[f].etag, v)
          BY <3>2, <4>2 DEF AnswerOf
        <5>2. v \in 1..MaxVersion BY <2>1, <3>3, <5>1
        <5>3. cached[f].etag \in Nat BY <5>1, <5>2, TagIsNumber
        <5>4. QED BY <5>3 DEF NoETag
      <4>3. QED BY <4>1, <4>2
    <3>5. QED BY <3>2, <3>3, <3>4
  <2>4. ASSUME NEW w \in Workers
        PROVE  /\ job[w].req \in Requests /\ job[w].past \subseteq 0..latest
               /\ job[w].sized \in 0..latest /\ job[w].resp.version \in 0..latest
               /\ pc[w] = "sent" => job[w].resp.length \in Nat
    <3>1. job[w] \in Job BY <2>1
    <3>2. NumbersInv(job[w], disk, latest) /\ SentInv(job[w], pc[w])
      BY DEF DispatchInv, JobsInv, JobInv
    <3>3. job[w].req \in Requests BY <3>1 DEF Job
    <3>4. QED BY <3>2, <3>3 DEF NumbersInv, SentInv
  <2>5. QED BY <2>1, <2>3, <2>4 DEF TypeOK
<1>2. QED BY <1>1, DispatchInvariant, PTL

\* A body is framed by its own length, or else its file was replaced between file_size
\* and the opening of it and no middleware compressed it.
THEOREM FramingHolds == Spec => []Framed
<1>1. DispatchInv => Framed
  <2> SUFFICES ASSUME DispatchInv, NEW w \in Workers, pc[w] = "sent"
               PROVE  \/ job[w].resp.length = job[w].resp.body
                      \/ /\ job[w].resp.version # 0 /\ job[w].resp.version # job[w].sized
                         /\ ~job[w].resp.compressed
    BY DEF Framed
  <2>1. SentInv(job[w], pc[w]) BY DEF DispatchInv, JobsInv, JobInv
  <2>2. QED BY <2>1 DEF SentInv
<1>2. QED BY <1>1, DispatchInvariant, PTL

\* A client that is told 304 Not Modified has kept content that the file had at some
\* moment of the request, whoever replaces files meanwhile and whatever sizes and times
\* they have, unless its tag is "unknown" or is that of a younger version too.
THEOREM FreshnessHolds == Spec => []NotModifiedIsFresh
<1>1. DispatchInv => NotModifiedIsFresh
  <2> SUFFICES ASSUME DispatchInv, NEW w \in Workers, pc[w] = "sent", job[w].resp.status = 304
               PROVE  Confirmed(job[w])
    BY DEF NotModifiedIsFresh
  <2>1. AnsweredInv(job[w], pc[w], disk, latest, chain) BY DEF DispatchInv, JobsInv, JobInv
  <2>2. QED BY <2>1 DEF AnsweredInv
<1>2. QED BY <1>1, DispatchInvariant, PTL

\* A request gets to the handler that the table of routes means and to the file that
\* its path means, and a file that is there throughout the request is served.
THEOREM RoutingHolds == Spec => []RoutedAsMeant
<1>1. DispatchInv => RoutedAsMeant
  <2> SUFFICES ASSUME DispatchInv, NEW w \in Workers, job[w].handler # "none"
               PROVE  LET j == job[w]
                      IN /\ j.handler = MeansHandler(routes, j.req)
                         /\ j.handler = "static" => j.file = MeansFile(j.req.path)
                         /\ j.handler = "static" /\ pc[w] = "sent" /\ 0 \notin j.past =>
                              \/ j.resp.status = 304
                              \/ j.resp.status = 200 /\ j.resp.version \in j.past
                         /\ pc[w] = "thrown" => j.handler \in {"echo", "not_found"}
    BY DEF RoutedAsMeant
  <2> DEFINE j == job[w]
  <2>1. /\ RoutedInv(j, routes) /\ AnsweredInv(j, pc[w], disk, latest, chain)
        /\ j \in Job /\ routes \in Tables
    BY DEF DispatchInv, DispatchType, JobsInv, JobInv
  <2> HIDE DEF j
  <2>2. j.req \in Requests BY <2>1 DEF Job
  <2>3. routes \in Table BY <2>1, DispatchAssumption DEF Table, RouteEntry
  <2>4. j.req.path \in Seq(STRING) BY <2>2, DispatchAssumption
  <2>5. HandlerOf(routes, j.req) = MeansHandler(routes, j.req) BY <2>3, RoutesAsMeant
  <2>6. Resolved(j.req.path) = MeansFile(j.req.path)
    <3> DEFINE path == j.req.path
    <3> HIDE DEF path
    <3>1. path \in Path BY <2>4 DEF path, Path
    <3>2. Resolved(path) = MeansFile(path) BY <3>1, PathsAsMeant
    <3>3. QED BY <3>2 DEF path
  <2>7. /\ j.handler = HandlerOf(routes, j.req)
        /\ j.handler = "static" => j.file = Resolved(j.req.path)
    BY <2>1 DEF RoutedInv, j
  <2>8. /\ j.handler = "static" /\ pc[w] = "sent" /\ 0 \notin j.past =>
             \/ j.resp.status = 304
             \/ j.resp.status = 200 /\ j.resp.version \in j.past
        /\ pc[w] = "thrown" => j.handler \in {"echo", "not_found"}
    BY <2>1 DEF AnsweredInv
  <2>9. QED BY <2>5, <2>6, <2>7, <2>8 DEF j
<1>2. QED BY <1>1, DispatchInvariant, PTL

\* Every response but the 429 of the rate limiter is hardened and has an id, in every
\* chain whose head the constructor of Server made, and gzip goes to clients that
\* accept it.
THEOREM HardeningHolds == Spec => []Hardened
<1>1. DispatchInv => Hardened
  <2> SUFFICES ASSUME DispatchInv, NEW w \in Workers, pc[w] = "sent"
               PROVE  /\ job[w].resp.status # 429 =>
                           {"X-Content-Type-Options", "X-Request-ID"} \subseteq job[w].resp.marks
                      /\ job[w].resp.compressed => job[w].req.gzip
    BY DEF Hardened
  <2>1. SentInv(job[w], pc[w]) BY DEF DispatchInv, JobsInv, JobInv
  <2>2. QED BY <2>1 DEF SentInv
<1>2. QED BY <1>1, DispatchInvariant, PTL
=============================================================================
