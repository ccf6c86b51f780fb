--------------------- MODULE ExamplesProjectionProofs ---------------------
(* Proofs about what the readers of the examples show: a todo list, a        *)
(* memory, a list of emails and a dashboard are always what the facts on the *)
(* log make of them, however frames are repeated and readers restarted.      *)
EXTENDS ExamplesEngineProofs

-----------------------------------------------------------------------------
(* Folds of the log.  A reducer is a function here, on a set of states and  *)
(* a set of facts, so that one lemma serves them all.                       *)
Unfolds(g, S, initial, R, events) ==
  /\ g \in [0 .. Len(events) -> S] /\ g[0] = initial
  /\ \A i \in 1 .. Len(events) : g[i] = R[g[i - 1]][events[i]]

LEMMA FoldExists ==
  ASSUME NEW S, NEW D, NEW R \in [S -> [D -> S]], NEW initial \in S, NEW events \in Seq(D)
  PROVE  \E g : Unfolds(g, S, initial, R, events)
<1>1. PICK n \in Nat : n = Len(events) /\ events \in [1 .. n -> D]
  BY LenProperties
<1> DEFINE Reaches(g, k) == g \in [0 .. k -> S] /\ g[0] = initial /\ \A i \in 1 .. k : g[i] = R[g[i - 1]][events[i]]
           T == {k \in 0 .. n : ~\E g : Reaches(g, k)}
<1>2. T = {}
  <2>1. SUFFICES ASSUME T # {} PROVE FALSE
    OBVIOUS
  <2>2. PICK x \in T : \A y \in T : x <= y
    <3>1. T \subseteq Nat
      OBVIOUS
    <3> HIDE DEF T
    <3> QED BY <2>1, <3>1, SmallestNumber
  <2>3. x \in 0 .. n /\ ~\E g : Reaches(g, x)
    OBVIOUS
  <2>4. x # 0
    <3>1. Reaches([i \in 0 .. 0 |-> initial], 0)
      OBVIOUS
    <3> QED BY <2>3, <3>1
  <2>5. x - 1 \in 0 .. n /\ x \in 1 .. n
    BY <2>3, <2>4
  <2>6. PICK g : Reaches(g, x - 1)
    <3>1. x - 1 \notin T
      <4>1. ~(x <= x - 1)
        BY <2>5
      <4> HIDE DEF T
      <4> QED BY <2>2, <4>1
    <3> HIDE DEF Reaches
    <3> QED BY <2>5, <3>1
  <2> DEFINE h == [i \in 0 .. x |-> IF i = x THEN R[g[x - 1]][events[x]] ELSE g[i]]
  <2>7. R[g[x - 1]][events[x]] \in S
    <3>1. g[x - 1] \in S /\ events[x] \in D
      BY <1>1, <2>5, <2>6
    <3> QED BY <3>1
  <2>8. \A i \in 0 .. x : i # x => i \in 0 .. (x - 1)
    BY <2>5
  <2>9. h \in [0 .. x -> S] /\ h[0] = initial /\ h[x] = R[g[x - 1]][events[x]] /\ \A i \in 0 .. (x - 1) : h[i] = g[i]
    BY <2>5, <2>6, <2>7, <2>8
  <2>10. ASSUME NEW i \in 1 .. x PROVE h[i] = R[h[i - 1]][events[i]]
    <3>1. i - 1 \in 0 .. (x - 1) /\ (i # x => i \in 0 .. (x - 1) /\ i \in 1 .. (x - 1))
      BY <2>5
    <3> HIDE DEF h
    <3>2. CASE i = x
      BY <2>9, <3>1, <3>2
    <3>3. CASE i # x
      BY <2>6, <2>9, <3>1, <3>3
    <3> QED BY <3>2, <3>3
  <2>11. Reaches(h, x)
    <3> HIDE DEF h
    <3> QED BY <2>9, <2>10
  <2> HIDE DEF Reaches
  <2> QED BY <2>3, <2>11
<1>3. PICK g : Reaches(g, n)
  <2>1. n \in 0 .. n
    OBVIOUS
  <2> HIDE DEF Reaches
  <2> QED BY <1>2, <2>1
<1> QED BY <1>1, <1>3 DEF Unfolds

Alike(g, h, n) == g[0] = h[0] /\ \A i \in 1 .. n : g[i - 1] = h[i - 1] => g[i] = h[i]
LEMMA SameValues ==
  ASSUME NEW n \in Nat, NEW g, NEW h, Alike(g, h, n)
  PROVE  \A i \in 0 .. n : g[i] = h[i]
<1> USE DEF Alike
<1> DEFINE T == {i \in 0 .. n : g[i] # h[i]}
<1>1. SUFFICES ASSUME T # {} PROVE FALSE
  OBVIOUS
<1>2. PICK x \in T : \A y \in T : x <= y
  <2>1. T \subseteq Nat
    OBVIOUS
  <2> HIDE DEF T
  <2> QED BY <1>1, <2>1, SmallestNumber
<1>3. x \in 0 .. n /\ g[x] # h[x] /\ x # 0
  OBVIOUS
<1>4. x \in 1 .. n /\ x - 1 \in 0 .. n /\ ~(x <= x - 1)
  BY <1>3
<1>5. x - 1 \notin T
  <2> HIDE DEF T
  <2> QED BY <1>2, <1>4
<1> QED BY <1>3, <1>4, <1>5

(* What a projection is handed, position by position.                       *)
Copies(i, twice) == IF i \in twice THEN <<log[i], log[i]>> ELSE <<log[i]>>
SeenBy(seen, D, twice) ==
  /\ seen \in [0 .. Len(log) -> Seq(D)] /\ seen[0] = <<>>
  /\ \A i \in 1 .. Len(log) : seen[i] = seen[i - 1] \o Copies(i, twice)

LEMMA HandledIs ==
  ASSUME NEW D, log \in Seq(D), NEW twice
  PROVE  \E seen : SeenBy(seen, D, twice) /\ Handled(twice) = seen[Len(log)]
<1>1. PICK n \in Nat : n = Len(log) /\ log \in [1 .. n -> D]
  BY LenProperties
<1> DEFINE places == [i \in 1 .. n |-> i]
           R == [s \in Seq(D) |-> [i \in 1 .. n |-> s \o Copies(i, twice)]]
           F(h) == [i \in 0 .. n |-> IF i = 0 THEN <<>> ELSE h[i - 1] \o (IF i \in twice THEN <<log[i], log[i]>> ELSE <<log[i]>>)]
<1>2. \A i \in 1 .. n : Copies(i, twice) \in Seq(D)
  BY <1>1 DEF Copies
<1>3. R \in [Seq(D) -> [1 .. n -> Seq(D)]]
  <2>1. \A s \in Seq(D), i \in 1 .. n : s \o Copies(i, twice) \in Seq(D)
    BY <1>2, ConcatProperties
  <2> QED BY <2>1
<1>4. places \in Seq(1 .. n) /\ Len(places) = n /\ <<>> \in Seq(D)
  OBVIOUS
<1>5. PICK g : Unfolds(g, Seq(D), <<>>, R, places)
  <2> HIDE DEF R, places
  <2> QED BY <1>3, <1>4, FoldExists
<1>6. /\ g \in [0 .. n -> Seq(D)] /\ g[0] = <<>>
      /\ \A i \in 1 .. n : g[i] = g[i - 1] \o Copies(i, twice)
  <2>1. /\ g \in [0 .. n -> Seq(D)] /\ g[0] = <<>>
        /\ \A i \in 1 .. n : g[i] = R[g[i - 1]][places[i]]
    <3> HIDE DEF R, places
    <3> QED BY <1>4, <1>5 DEF Unfolds
  <2>2. ASSUME NEW i \in 1 .. n PROVE R[g[i - 1]][places[i]] = g[i - 1] \o Copies(i, twice)
    <3>1. g[i - 1] \in Seq(D) /\ places[i] = i
      BY <2>1
    <3> QED BY <3>1
  <2> HIDE DEF R, places
  <2> QED BY <2>1, <2>2
<1>7. g = F(g)
  <2>1. ASSUME NEW i \in 0 .. n
        PROVE  g[i] = IF i = 0 THEN <<>> ELSE g[i - 1] \o (IF i \in twice THEN <<log[i], log[i]>> ELSE <<log[i]>>)
    <3>1. i = 0 \/ i \in 1 .. n
      OBVIOUS
    <3>2. ASSUME i \in 1 .. n PROVE i # 0 /\ g[i] = g[i - 1] \o (IF i \in twice THEN <<log[i], log[i]>> ELSE <<log[i]>>)
      <4>1. i # 0 /\ g[i] = g[i - 1] \o Copies(i, twice)
        <5>1. i # 0
          BY <3>2
        <5>2. g[i] = g[i - 1] \o Copies(i, twice)
          BY <1>6, <3>2
        <5> QED BY <5>1, <5>2
      <4> QED BY <4>1 DEF Copies
    <3> QED BY <1>6, <3>1, <3>2
  <2>2. DOMAIN g = 0 .. n /\ g = [i \in 0 .. n |-> g[i]]
    BY <1>6
  <2> QED BY <2>1, <2>2
<1>8. PICK h : h = F(h) /\ Handled(twice) = h[n]
  BY <1>1, <1>7 DEF Handled
<1>9. \A i \in 0 .. n : h[i] = IF i = 0 THEN <<>> ELSE h[i - 1] \o Copies(i, twice)
  <2>1. PICK f : f = F(h) /\ f = h
    BY <1>8
  <2>2. \A i \in 0 .. n : f[i] = IF i = 0 THEN <<>> ELSE h[i - 1] \o Copies(i, twice)
    BY <2>1 DEF Copies
  <2> QED BY <2>1, <2>2
<1>10. \A i \in 0 .. n : g[i] = h[i]
  <2>1. g[0] = h[0] /\ \A i \in 1 .. n : g[i - 1] = h[i - 1] => g[i] = h[i]
    <3>1. g[0] = h[0]
      BY <1>6, <1>9
    <3>2. ASSUME NEW i \in 1 .. n, g[i - 1] = h[i - 1] PROVE g[i] = h[i]
      <4>1. i \in 0 .. n /\ i # 0
        OBVIOUS
      <4>2. h[i] = h[i - 1] \o Copies(i, twice)
        BY <1>9, <4>1
      <4> QED BY <1>6, <3>2, <4>2
    <3> QED BY <3>1, <3>2
  <2>2. Alike(g, h, n)
    BY <2>1, Zenon DEF Alike
  <2> QED BY <2>2, SameValues
<1>11. SeenBy(g, D, twice) /\ Handled(twice) = g[n]
  BY <1>1, <1>6, <1>8, <1>10 DEF SeenBy
<1> QED BY <1>1, <1>11

(* A reducer that takes no notice of a repetition sees the log.             *)
FinalState(g, events) == g[Len(events)]
Forgives(R, S, D) == \A s \in S, f \in D : R[R[s][f]][f] = R[s][f]
Folds(R, S, D, initial, twice) ==
  R \in [S -> [D -> S]] /\ initial \in S /\ log \in Seq(D) /\ (twice = {} \/ Forgives(R, S, D))

LEMMA FoldOfHandled ==
  ASSUME NEW S, NEW D, NEW R, NEW initial, NEW twice, Folds(R, S, D, initial, twice),
         NEW g, Unfolds(g, S, initial, R, Handled(twice)), NEW G, Unfolds(G, S, initial, R, log)
  PROVE  FinalState(g, Handled(twice)) = FinalState(G, log)
<1> USE DEF Folds
<1>1. PICK n \in Nat : n = Len(log) /\ log \in [1 .. n -> D]
  BY LenProperties
<1>2. PICK seen : SeenBy(seen, D, twice) /\ Handled(twice) = seen[Len(log)]
  BY HandledIs
<1>3. /\ seen \in [0 .. n -> Seq(D)] /\ seen[0] = <<>>
      /\ \A i \in 1 .. n : seen[i] = seen[i - 1] \o Copies(i, twice)
  BY <1>1, <1>2 DEF SeenBy
<1>4. G \in [0 .. n -> S] /\ G[0] = initial /\ \A i \in 1 .. n : G[i] = R[G[i - 1]][log[i]]
  BY <1>1 DEF Unfolds
<1> DEFINE Agree(i) == \E h : Unfolds(h, S, initial, R, seen[i]) /\ h[Len(seen[i])] = G[i]
           T == {i \in 0 .. n : ~Agree(i)}
<1>5. Agree(0)
  <2>1. seen[0] = <<>> /\ Len(seen[0]) = 0 /\ G[0] = initial
    BY <1>3, <1>4
  <2>2. Unfolds([i \in 0 .. 0 |-> initial], S, initial, R, seen[0])
    BY <2>1 DEF Unfolds
  <2>3. [i \in 0 .. 0 |-> initial][Len(seen[0])] = G[0]
    BY <2>1
  <2> QED BY <2>2, <2>3
<1>6. ASSUME NEW i \in 1 .. n, Agree(i - 1) PROVE Agree(i)
  <2>1. PICK m \in Nat : m = Len(seen[i - 1]) /\ seen[i - 1] \in Seq(D)
    <3>1. seen[i - 1] \in Seq(D)
      BY <1>3
    <3>2. Len(seen[i - 1]) \in Nat
      BY <3>1, LenProperties
    <3> QED BY <3>1, <3>2
  <2>2. PICK f \in D : f = log[i]
    BY <1>1
  <2>3. PICK h : Unfolds(h, S, initial, R, seen[i - 1]) /\ h[m] = G[i - 1]
    BY <1>6, <2>1
  <2>4. h \in [0 .. m -> S] /\ h[0] = initial /\ \A k \in 1 .. m : h[k] = R[h[k - 1]][seen[i - 1][k]]
    BY <2>1, <2>3 DEF Unfolds
  <2>5. G[i - 1] \in S /\ G[i] = R[G[i - 1]][f] /\ G[i] \in S
    BY <1>4, <2>2
  <2>6. CASE i \notin twice
    <3> DEFINE u == [k \in 0 .. (m + 1) |-> IF k = m + 1 THEN G[i] ELSE h[k]]
    <3>1. PICK s : s = seen[i] /\ s = seen[i - 1] \o <<f>>
      BY <1>3, <2>2, <2>6 DEF Copies
    <3>2. Len(s) = m + 1 /\ s[m + 1] = f /\ \A k \in 1 .. m : s[k] = seen[i - 1][k]
      BY <2>1, <3>1
    <3>3. \A k \in 0 .. (m + 1) : k # m + 1 => k \in 0 .. m
      OBVIOUS
    <3>4. u \in [0 .. (m + 1) -> S] /\ u[m + 1] = G[i] /\ \A k \in 0 .. m : u[k] = h[k]
      BY <2>4, <2>5, <3>3
    <3>5. ASSUME NEW k \in 1 .. (m + 1) PROVE u[k] = R[u[k - 1]][s[k]]
      <4>1. k - 1 \in 0 .. m /\ (k # m + 1 => k \in 1 .. m /\ k \in 0 .. m)
        OBVIOUS
      <4> HIDE DEF u
      <4>2. CASE k = m + 1
        <5>1. u[k - 1] = G[i - 1] /\ s[k] = f
          BY <2>3, <3>2, <3>4, <4>1, <4>2
        <5> QED BY <2>5, <3>4, <4>2, <5>1
      <4>3. CASE k # m + 1
        BY <2>4, <3>2, <3>4, <4>1, <4>3
      <4> QED BY <4>2, <4>3
    <3>6. Unfolds(u, S, initial, R, seen[i]) /\ u[Len(seen[i])] = G[i]
      <4>1. u[0] = initial
        BY <2>4, <3>4
      <4> HIDE DEF u
      <4> QED BY <3>1, <3>2, <3>4, <3>5, <4>1 DEF Unfolds
    <3> HIDE DEF u
    <3> QED BY <3>6
  <2>7. CASE i \in twice
    <3> DEFINE u == [k \in 0 .. (m + 2) |-> IF k > m THEN G[i] ELSE h[k]]
    <3>1. PICK s : s = seen[i] /\ s = seen[i - 1] \o <<f, f>>
      BY <1>3, <2>2, <2>7 DEF Copies
    <3>2. Len(s) = m + 2 /\ s[m + 1] = f /\ s[m + 2] = f /\ \A k \in 1 .. m : s[k] = seen[i - 1][k]
      BY <2>1, <3>1
    <3>3. \A k \in 0 .. (m + 2) : ~(k > m) => k \in 0 .. m
      OBVIOUS
    <3>4. u \in [0 .. (m + 2) -> S] /\ u[m + 1] = G[i] /\ u[m + 2] = G[i] /\ \A k \in 0 .. m : u[k] = h[k]
      BY <2>4, <2>5, <3>3
    <3>5. R[G[i]][f] = G[i]
      BY <2>5, <2>7 DEF Forgives
    <3>6. ASSUME NEW k \in 1 .. (m + 2) PROVE u[k] = R[u[k - 1]][s[k]]
      <4>1. k \in 1 .. m \/ k = m + 1 \/ k = m + 2
        OBVIOUS
      <4> HIDE DEF u
      <4>2. CASE k = m + 2
        <5>1. u[k - 1] = G[i] /\ s[k] = f
          BY <3>2, <3>4, <4>2
        <5> QED BY <3>4, <3>5, <4>2, <5>1
      <4>3. CASE k = m + 1
        <5>1. u[k - 1] = G[i - 1] /\ s[k] = f
          BY <2>3, <3>2, <3>4, <4>3
        <5> QED BY <2>5, <3>4, <4>3, <5>1
      <4>4. CASE k \in 1 .. m
        <5>1. k - 1 \in 0 .. m /\ k \in 0 .. m
          BY <4>4
        <5> QED BY <2>4, <3>2, <3>4, <4>4, <5>1
      <4> QED BY <4>1, <4>2, <4>3, <4>4
    <3>7. Unfolds(u, S, initial, R, seen[i]) /\ u[Len(seen[i])] = G[i]
      <4>1. u[0] = initial
        BY <2>4, <3>4
      <4> HIDE DEF u
      <4> QED BY <3>1, <3>2, <3>4, <3>6, <4>1 DEF Unfolds
    <3> HIDE DEF u
    <3> QED BY <3>7
  <2> QED BY <2>6, <2>7
<1>7. T = {}
  <2>1. SUFFICES ASSUME T # {} PROVE FALSE
    OBVIOUS
  <2>2. PICK x \in T : \A y \in T : x <= y
    <3>1. T \subseteq Nat
      OBVIOUS
    <3> HIDE DEF T
    <3> QED BY <2>1, <3>1, SmallestNumber
  <2>3. x \in 0 .. n /\ ~Agree(x)
    OBVIOUS
  <2> HIDE DEF Agree
  <2>4. x # 0
    BY <1>5, <2>3
  <2>5. x \in 1 .. n /\ x - 1 \in 0 .. n /\ ~(x <= x - 1)
    BY <2>3, <2>4
  <2>6. x - 1 \notin T
    <3> HIDE DEF T
    <3> QED BY <2>2, <2>5
  <2> QED BY <1>6, <2>3, <2>5, <2>6
<1>8. PICK h : Unfolds(h, S, initial, R, Handled(twice)) /\ h[Len(Handled(twice))] = G[n]
  <2>1. n \in 0 .. n
    OBVIOUS
  <2>2. Agree(n)
    <3> HIDE DEF Agree
    <3> QED BY <1>7, <2>1
  <2> QED BY <1>1, <1>2, <2>2
<1>9. PICK m \in Nat : m = Len(Handled(twice))
  <2>1. seen[n] \in Seq(D)
    BY <1>3
  <2> QED BY <1>1, <1>2, <2>1, LenProperties
<1>10. g[m] = h[m]
  <2>1. g[0] = h[0] /\ \A i \in 1 .. m : g[i - 1] = h[i - 1] => g[i] = h[i]
    <3>1. g[0] = h[0]
      BY <1>8 DEF Unfolds
    <3>2. /\ \A i \in 1 .. m : g[i] = R[g[i - 1]][Handled(twice)[i]]
          /\ \A i \in 1 .. m : h[i] = R[h[i - 1]][Handled(twice)[i]]
      BY <1>8, <1>9, Zenon DEF Unfolds
    <3> QED BY <3>1, <3>2
  <2>2. Alike(g, h, m) /\ m \in 0 .. m
    <3>1. Alike(g, h, m)
      BY <2>1, Zenon DEF Alike
    <3>2. m \in 0 .. m
      OBVIOUS
    <3> QED BY <3>1, <3>2
  <2>3. \A i \in 0 .. m : g[i] = h[i]
    BY <2>2, SameValues
  <2> QED BY <2>2, <2>3
<1> QED BY <1>1, <1>8, <1>9, <1>10 DEF FinalState

LEMMA HandledIsSeq == ASSUME NEW D, log \in Seq(D), NEW twice PROVE Handled(twice) \in Seq(D)
<1>1. PICK n : n = Len(log) /\ n \in Nat
  BY LenProperties
<1>2. PICK seen : SeenBy(seen, D, twice) /\ Handled(twice) = seen[Len(log)]
  BY HandledIs
<1> QED BY <1>1, <1>2 DEF SeenBy

(* The memory of documents.                                                 *)
DocSets(D) == SUBSET {f.on : f \in D}
LEMMA DocMemoryIs ==
  ASSUME NEW D, log \in Seq(D), NEW S, S = DocSets(D)
  PROVE  \E G : /\ G \in [0 .. Len(log) -> S] /\ G[0] = {}
                /\ \A i \in 1 .. Len(log) : G[i] = Kept(G[i - 1], log[i])
                /\ \A twice : docMemory(twice) = G[Len(log)]
<1> DEFINE R == [s \in S |-> [f \in D |-> Kept(s, f)]]
<1>1. {} \in S /\ \A s \in S, f \in D : Kept(s, f) \in S
  BY DEF DocSets, Kept
<1>2. R \in [S -> [D -> S]] /\ \A s \in S, f \in D : R[s][f] = Kept(s, f)
  <2> HIDE DEF Kept
  <2> QED BY <1>1
<1>3. Forgives(R, S, D)
  <2>1. \A s \in S, f \in D : Kept(Kept(s, f), f) = Kept(s, f)
    BY DEF DocSets, Kept
  <2> HIDE DEF R
  <2>2. ASSUME NEW s \in S, NEW f \in D PROVE R[R[s][f]][f] = R[s][f]
    <3>1. R[s][f] \in S /\ R[s][f] = Kept(s, f)
      BY <1>1, <1>2
    <3>2. R[R[s][f]][f] = Kept(Kept(s, f), f)
      BY <1>2, <3>1
    <3> QED BY <2>1, <3>1, <3>2
  <2> HIDE DEF Kept
  <2> QED BY <2>2 DEF Forgives
<1> HIDE DEF R
<1>4. PICK G : Unfolds(G, S, {}, R, log)
  BY <1>1, <1>2, FoldExists
<1>5. PICK n : n = Len(log) /\ n \in Nat /\ log \in [1 .. n -> D]
  BY LenProperties
<1>6. /\ G \in [0 .. n -> S] /\ G[0] = {}
      /\ \A i \in 1 .. n : G[i] = Kept(G[i - 1], log[i])
  <2>1. /\ G \in [0 .. n -> S] /\ G[0] = {}
        /\ \A i \in 1 .. n : G[i] = R[G[i - 1]][log[i]]
    BY <1>4, <1>5 DEF Unfolds
  <2>2. \A i \in 1 .. n : G[i - 1] \in S /\ log[i] \in D
    BY <1>5, <2>1
  <2> HIDE DEF Kept
  <2> QED BY <1>2, <2>1, <2>2
<1>7. ASSUME NEW twice PROVE docMemory(twice) = G[n]
  <2>1. PICK events : events = Handled(twice) /\ events \in Seq(D)
    BY HandledIsSeq
  <2>2. PICK m : m = Len(events) /\ m \in Nat /\ events \in [1 .. m -> D]
    BY <2>1, LenProperties
  <2>3. PICK g : Unfolds(g, S, {}, R, events)
    BY <1>1, <1>2, <2>1, FoldExists
  <2>4. /\ g \in [0 .. m -> S] /\ g[0] = {}
        /\ \A i \in 1 .. m : g[i] = Kept(g[i - 1], events[i])
    <3>1. /\ g \in [0 .. m -> S] /\ g[0] = {}
          /\ \A i \in 1 .. m : g[i] = R[g[i - 1]][events[i]]
      BY <2>2, <2>3 DEF Unfolds
    <3>2. \A i \in 1 .. m : g[i - 1] \in S /\ events[i] \in D
      <4>1. m \in Nat /\ events \in [1 .. m -> D] /\ g \in [0 .. m -> S]
        BY <2>2, <3>1
      <4>2. \A i \in 1 .. m : i - 1 \in 0 .. m
        BY <4>1
      <4> QED BY <4>1, <4>2
    <3> QED BY <1>2, <3>1, <3>2
  <2> DEFINE F(h) == [i \in 0 .. m |-> IF i = 0 THEN {} ELSE Kept(h[i - 1], events[i])]
  <2>5. g = F(g)
    <3>1. \A i \in 0 .. m : g[i] = IF i = 0 THEN {} ELSE Kept(g[i - 1], events[i])
      BY <2>4
    <3>2. DOMAIN g = 0 .. m /\ g = [i \in 0 .. m |-> g[i]]
      BY <2>4
    <3> QED BY <3>1, <3>2
  <2>6. PICK h : h = F(h) /\ docMemory(twice) = h[m]
    BY <2>1, <2>2, <2>5 DEF Folded, docMemory
  <2>7. Alike(g, h, m)
    <3>1. PICK f : f = F(h) /\ f = h
      BY <2>6
    <3>2. \A i \in 0 .. m : f[i] = IF i = 0 THEN {} ELSE Kept(h[i - 1], events[i])
      BY <3>1
    <3>3. h[0] = {} /\ \A i \in 1 .. m : h[i] = Kept(h[i - 1], events[i])
      BY <2>2, <3>1, <3>2
    <3> QED BY <2>4, <3>3 DEF Alike
  <2>8. g[m] = h[m]
    <3>1. m \in 0 .. m /\ \A i \in 0 .. m : g[i] = h[i]
      BY <2>2, <2>7, SameValues
    <3> QED BY <3>1
  <2>9. g[m] = G[n]
    <3>1. FinalState(g, Handled(twice)) = FinalState(G, log)
      <4>1. Unfolds(g, S, {}, R, Handled(twice)) 
        BY <2>1, <2>3
      <4>2. Folds(R, S, D, {}, twice)
        BY <1>3, <1>1, <1>2 DEF Folds
      <4> QED BY <1>4, <4>1, <4>2, FoldOfHandled
    <3> QED BY <1>5, <2>1, <2>2, <3>1 DEF FinalState
  <2> QED BY <2>6, <2>8, <2>9
<1> QED BY <1>5, <1>6, <1>7

(* The rules of the reconciliation agent.                                   *)
RuleSets(D) == SUBSET {f.on[1] : f \in D}
LEMMA RulesAre ==
  ASSUME NEW D, log \in Seq(D), NEW S, S = RuleSets(D)
  PROVE  \E G : /\ G \in [0 .. Len(log) -> S] /\ G[0] = {}
                /\ \A i \in 1 .. Len(log) : G[i] = Learned(G[i - 1], log[i])
                /\ \A twice : CuratedRules(twice) = G[Len(log)]
<1> DEFINE R == [s \in S |-> [f \in D |-> Learned(s, f)]]
<1>1. {} \in S /\ \A s \in S, f \in D : Learned(s, f) \in S
  BY DEF RuleSets, Learned
<1>2. R \in [S -> [D -> S]] /\ \A s \in S, f \in D : R[s][f] = Learned(s, f)
  <2> HIDE DEF Learned
  <2> QED BY <1>1
<1>3. Forgives(R, S, D)
  <2>1. \A s \in S, f \in D : Learned(Learned(s, f), f) = Learned(s, f)
    BY DEF RuleSets, Learned
  <2> HIDE DEF R
  <2>2. ASSUME NEW s \in S, NEW f \in D PROVE R[R[s][f]][f] = R[s][f]
    <3>1. R[s][f] \in S /\ R[s][f] = Learned(s, f)
      BY <1>1, <1>2
    <3>2. R[R[s][f]][f] = Learned(Learned(s, f), f)
      BY <1>2, <3>1
    <3> QED BY <2>1, <3>1, <3>2
  <2> HIDE DEF Learned
  <2> QED BY <2>2 DEF Forgives
<1> HIDE DEF R
<1>4. PICK G : Unfolds(G, S, {}, R, log)
  BY <1>1, <1>2, FoldExists
<1>5. PICK n : n = Len(log) /\ n \in Nat /\ log \in [1 .. n -> D]
  BY LenProperties
<1>6. /\ G \in [0 .. n -> S] /\ G[0] = {}
      /\ \A i \in 1 .. n : G[i] = Learned(G[i - 1], log[i])
  <2>1. /\ G \in [0 .. n -> S] /\ G[0] = {}
        /\ \A i \in 1 .. n : G[i] = R[G[i - 1]][log[i]]
    BY <1>4, <1>5 DEF Unfolds
  <2>2. \A i \in 1 .. n : G[i - 1] \in S /\ log[i] \in D
    BY <1>5, <2>1
  <2> HIDE DEF Learned
  <2> QED BY <1>2, <2>1, <2>2
<1>7. ASSUME NEW twice PROVE CuratedRules(twice) = G[n]
  <2>1. PICK events : events = Handled(twice) /\ events \in Seq(D)
    BY HandledIsSeq
  <2>2. PICK m : m = Len(events) /\ m \in Nat /\ events \in [1 .. m -> D]
    BY <2>1, LenProperties
  <2>3. PICK g : Unfolds(g, S, {}, R, events)
    BY <1>1, <1>2, <2>1, FoldExists
  <2>4. /\ g \in [0 .. m -> S] /\ g[0] = {}
        /\ \A i \in 1 .. m : g[i] = Learned(g[i - 1], events[i])
    <3>1. /\ g \in [0 .. m -> S] /\ g[0] = {}
          /\ \A i \in 1 .. m : g[i] = R[g[i - 1]][events[i]]
      BY <2>2, <2>3 DEF Unfolds
    <3>2. \A i \in 1 .. m : g[i - 1] \in S /\ events[i] \in D
      <4>1. m \in Nat /\ events \in [1 .. m -> D] /\ g \in [0 .. m -> S]
        BY <2>2, <3>1
      <4>2. \A i \in 1 .. m : i - 1 \in 0 .. m
        BY <4>1
      <4> QED BY <4>1, <4>2
    <3> QED BY <1>2, <3>1, <3>2
  <2> DEFINE F(h) == [i \in 0 .. m |-> IF i = 0 THEN {} ELSE Learned(h[i - 1], events[i])]
  <2>5. g = F(g)
    <3>1. \A i \in 0 .. m : g[i] = IF i = 0 THEN {} ELSE Learned(g[i - 1], events[i])
      BY <2>4
    <3>2. DOMAIN g = 0 .. m /\ g = [i \in 0 .. m |-> g[i]]
      BY <2>4
    <3> QED BY <3>1, <3>2
  <2>6. PICK h : h = F(h) /\ CuratedRules(twice) = h[m]
    BY <2>1, <2>2, <2>5 DEF Folded, CuratedRules
  <2>7. Alike(g, h, m)
    <3>1. PICK f : f = F(h) /\ f = h
      BY <2>6
    <3>2. \A i \in 0 .. m : f[i] = IF i = 0 THEN {} ELSE Learned(h[i - 1], events[i])
      BY <3>1
    <3>3. h[0] = {} /\ \A i \in 1 .. m : h[i] = Learned(h[i - 1], events[i])
      BY <2>2, <3>1, <3>2
    <3> QED BY <2>4, <3>3 DEF Alike
  <2>8. g[m] = h[m]
    <3>1. m \in 0 .. m /\ \A i \in 0 .. m : g[i] = h[i]
      BY <2>2, <2>7, SameValues
    <3> QED BY <3>1
  <2>9. g[m] = G[n]
    <3>1. FinalState(g, Handled(twice)) = FinalState(G, log)
      <4>1. Unfolds(g, S, {}, R, Handled(twice)) 
        BY <2>1, <2>3
      <4>2. Folds(R, S, D, {}, twice)
        BY <1>3, <1>1, <1>2 DEF Folds
      <4> QED BY <1>4, <4>1, <4>2, FoldOfHandled
    <3> QED BY <1>5, <2>1, <2>2, <3>1 DEF FinalState
  <2> QED BY <2>6, <2>8, <2>9
<1> QED BY <1>5, <1>6, <1>7

(* The statistics of the quickstart.                                        *)
Tallies(D) == [orders : Nat, revenue : Nat]
LEMMA StatsAre ==
  ASSUME NEW D, log \in Seq(D), NEW S, S = Tallies(D)
  PROVE  \E G : /\ G \in [0 .. Len(log) -> S] /\ G[0] = [orders |-> 0, revenue |-> 0]
                /\ \A i \in 1 .. Len(log) : G[i] = Counted(G[i - 1], log[i])
                /\ OrderStats({}) = G[Len(log)]
<1> DEFINE R == [s \in S |-> [f \in D |-> Counted(s, f)]]
<1>1. [orders |-> 0, revenue |-> 0] \in S /\ \A s \in S, f \in D : Counted(s, f) \in S
  BY DEF Tallies, Counted, Total
<1>2. R \in [S -> [D -> S]] /\ \A s \in S, f \in D : R[s][f] = Counted(s, f)
  <2> HIDE DEF Counted
  <2> QED BY <1>1
<1> HIDE DEF R
<1>4. PICK G : Unfolds(G, S, [orders |-> 0, revenue |-> 0], R, log)
  BY <1>1, <1>2, FoldExists
<1>5. PICK n : n = Len(log) /\ n \in Nat /\ log \in [1 .. n -> D]
  BY LenProperties
<1>6. /\ G \in [0 .. n -> S] /\ G[0] = [orders |-> 0, revenue |-> 0]
      /\ \A i \in 1 .. n : G[i] = Counted(G[i - 1], log[i])
  <2>1. /\ G \in [0 .. n -> S] /\ G[0] = [orders |-> 0, revenue |-> 0]
        /\ \A i \in 1 .. n : G[i] = R[G[i - 1]][log[i]]
    BY <1>4, <1>5 DEF Unfolds
  <2>2. \A i \in 1 .. n : G[i - 1] \in S /\ log[i] \in D
    BY <1>5, <2>1
  <2> HIDE DEF Counted
  <2> QED BY <1>2, <2>1, <2>2
<1>7. OrderStats({}) = G[n]
  <2>1. PICK events : events = Handled({}) /\ events \in Seq(D)
    BY HandledIsSeq
  <2>2. PICK m : m = Len(events) /\ m \in Nat /\ events \in [1 .. m -> D]
    BY <2>1, LenProperties
  <2>3. PICK g : Unfolds(g, S, [orders |-> 0, revenue |-> 0], R, events)
    BY <1>1, <1>2, <2>1, FoldExists
  <2>4. /\ g \in [0 .. m -> S] /\ g[0] = [orders |-> 0, revenue |-> 0]
        /\ \A i \in 1 .. m : g[i] = Counted(g[i - 1], events[i])
    <3>1. /\ g \in [0 .. m -> S] /\ g[0] = [orders |-> 0, revenue |-> 0]
          /\ \A i \in 1 .. m : g[i] = R[g[i - 1]][events[i]]
      BY <2>2, <2>3 DEF Unfolds
    <3>2. \A i \in 1 .. m : g[i - 1] \in S /\ events[i] \in D
      <4>1. m \in Nat /\ events \in [1 .. m -> D] /\ g \in [0 .. m -> S]
        BY <2>2, <3>1
      <4>2. \A i \in 1 .. m : i - 1 \in 0 .. m
        BY <4>1
      <4> QED BY <4>1, <4>2
    <3> QED BY <1>2, <3>1, <3>2
  <2> DEFINE F(h) == [i \in 0 .. m |-> IF i = 0 THEN [orders |-> 0, revenue |-> 0] ELSE Counted(h[i - 1], events[i])]
  <2>5. g = F(g)
    <3>1. \A i \in 0 .. m : g[i] = IF i = 0 THEN [orders |-> 0, revenue |-> 0] ELSE Counted(g[i - 1], events[i])
      BY <2>4
    <3>2. DOMAIN g = 0 .. m /\ g = [i \in 0 .. m |-> g[i]]
      BY <2>4
    <3> QED BY <3>1, <3>2
  <2>6. PICK h : h = F(h) /\ OrderStats({}) = h[m]
    BY <2>1, <2>2, <2>5 DEF Folded, OrderStats
  <2>7. Alike(g, h, m)
    <3>1. PICK f : f = F(h) /\ f = h
      BY <2>6
    <3>2. \A i \in 0 .. m : f[i] = IF i = 0 THEN [orders |-> 0, revenue |-> 0] ELSE Counted(h[i - 1], events[i])
      BY <3>1
    <3>3. h[0] = [orders |-> 0, revenue |-> 0] /\ \A i \in 1 .. m : h[i] = Counted(h[i - 1], events[i])
      BY <2>2, <3>1, <3>2
    <3> QED BY <2>4, <3>3 DEF Alike
  <2>8. g[m] = h[m]
    <3>1. m \in 0 .. m /\ \A i \in 0 .. m : g[i] = h[i]
      BY <2>2, <2>7, SameValues
    <3> QED BY <3>1
  <2>9. g[m] = G[n]
    <3>1. FinalState(g, Handled({})) = FinalState(G, log)
      <4>1. Unfolds(g, S, [orders |-> 0, revenue |-> 0], R, Handled({})) 
        BY <2>1, <2>3
      <4>2. Folds(R, S, D, [orders |-> 0, revenue |-> 0], {})
        BY <1>1, <1>2 DEF Folds
      <4> QED BY <1>4, <4>1, <4>2, FoldOfHandled
    <3> QED BY <1>5, <2>1, <2>2, <3>1 DEF FinalState
  <2> QED BY <2>6, <2>8, <2>9
<1> QED BY <1>5, <1>6, <1>7

(* The memory of the research agent: it counts what it lists.               *)
Memories(D) == {m \in [totalTasks : Nat, topics : Seq({f.by : f \in D})] : m.totalTasks = Len(m.topics)}
LEMMA AgentMemoryIs ==
  ASSUME NEW D, log \in Seq(D), NEW S, S = Memories(D)
  PROVE  \E G : /\ G \in [0 .. Len(log) -> S] /\ G[0] = [totalTasks |-> 0, topics |-> <<>>]
                /\ \A i \in 1 .. Len(log) : G[i] = Remembered(G[i - 1], log[i])
                /\ agentMemory({}) = G[Len(log)]
<1> DEFINE R == [s \in S |-> [f \in D |-> Remembered(s, f)]]
<1>1. [totalTasks |-> 0, topics |-> <<>>] \in S /\ \A s \in S, f \in D : Remembered(s, f) \in S
  BY DEF Memories, Remembered
<1>2. R \in [S -> [D -> S]] /\ \A s \in S, f \in D : R[s][f] = Remembered(s, f)
  <2> HIDE DEF Remembered
  <2> QED BY <1>1
<1> HIDE DEF R
<1>4. PICK G : Unfolds(G, S, [totalTasks |-> 0, topics |-> <<>>], R, log)
  BY <1>1, <1>2, FoldExists
<1>5. PICK n : n = Len(log) /\ n \in Nat /\ log \in [1 .. n -> D]
  BY LenProperties
<1>6. /\ G \in [0 .. n -> S] /\ G[0] = [totalTasks |-> 0, topics |-> <<>>]
      /\ \A i \in 1 .. n : G[i] = Remembered(G[i - 1], log[i])
  <2>1. /\ G \in [0 .. n -> S] /\ G[0] = [totalTasks |-> 0, topics |-> <<>>]
        /\ \A i \in 1 .. n : G[i] = R[G[i - 1]][log[i]]
    BY <1>4, <1>5 DEF Unfolds
  <2>2. \A i \in 1 .. n : G[i - 1] \in S /\ log[i] \in D
    BY <1>5, <2>1
  <2> HIDE DEF Remembered
  <2> QED BY <1>2, <2>1, <2>2
<1>7. agentMemory({}) = G[n]
  <2>1. PICK events : events = Handled({}) /\ events \in Seq(D)
    BY HandledIsSeq
  <2>2. PICK m : m = Len(events) /\ m \in Nat /\ events \in [1 .. m -> D]
    BY <2>1, LenProperties
  <2>3. PICK g : Unfolds(g, S, [totalTasks |-> 0, topics |-> <<>>], R, events)
    BY <1>1, <1>2, <2>1, FoldExists
  <2>4. /\ g \in [0 .. m -> S] /\ g[0] = [totalTasks |-> 0, topics |-> <<>>]
        /\ \A i \in 1 .. m : g[i] = Remembered(g[i - 1], events[i])
    <3>1. /\ g \in [0 .. m -> S] /\ g[0] = [totalTasks |-> 0, topics |-> <<>>]
          /\ \A i \in 1 .. m : g[i] = R[g[i - 1]][events[i]]
      BY <2>2, <2>3 DEF Unfolds
    <3>2. \A i \in 1 .. m : g[i - 1] \in S /\ events[i] \in D
      <4>1. m \in Nat /\ events \in [1 .. m -> D] /\ g \in [0 .. m -> S]
        BY <2>2, <3>1
      <4>2. \A i \in 1 .. m : i - 1 \in 0 .. m
        BY <4>1
      <4> QED BY <4>1, <4>2
    <3> QED BY <1>2, <3>1, <3>2
  <2> DEFINE F(h) == [i \in 0 .. m |-> IF i = 0 THEN [totalTasks |-> 0, topics |-> <<>>] ELSE Remembered(h[i - 1], events[i])]
  <2>5. g = F(g)
    <3>1. \A i \in 0 .. m : g[i] = IF i = 0 THEN [totalTasks |-> 0, topics |-> <<>>] ELSE Remembered(g[i - 1], events[i])
      BY <2>4
    <3>2. DOMAIN g = 0 .. m /\ g = [i \in 0 .. m |-> g[i]]
      BY <2>4
    <3> QED BY <3>1, <3>2
  <2>6. PICK h : h = F(h) /\ agentMemory({}) = h[m]
    BY <2>1, <2>2, <2>5 DEF Folded, agentMemory
  <2>7. Alike(g, h, m)
    <3>1. PICK f : f = F(h) /\ f = h
      BY <2>6
    <3>2. \A i \in 0 .. m : f[i] = IF i = 0 THEN [totalTasks |-> 0, topics |-> <<>>] ELSE Remembered(h[i - 1], events[i])
      BY <3>1
    <3>3. h[0] = [totalTasks |-> 0, topics |-> <<>>] /\ \A i \in 1 .. m : h[i] = Remembered(h[i - 1], events[i])
      BY <2>2, <3>1, <3>2
    <3> QED BY <2>4, <3>3 DEF Alike
  <2>8. g[m] = h[m]
    <3>1. m \in 0 .. m /\ \A i \in 0 .. m : g[i] = h[i]
      BY <2>2, <2>7, SameValues
    <3> QED BY <3>1
  <2>9. g[m] = G[n]
    <3>1. FinalState(g, Handled({})) = FinalState(G, log)
      <4>1. Unfolds(g, S, [totalTasks |-> 0, topics |-> <<>>], R, Handled({})) 
        BY <2>1, <2>3
      <4>2. Folds(R, S, D, [totalTasks |-> 0, topics |-> <<>>], {})
        BY <1>1, <1>2 DEF Folds
      <4> QED BY <1>4, <4>1, <4>2, FoldOfHandled
    <3> QED BY <1>5, <2>1, <2>2, <3>1 DEF FinalState
  <2> QED BY <2>6, <2>8, <2>9
<1> QED BY <1>5, <1>6, <1>7

(* Along a list.                                                            *)
LEMMA AllPlaces ==
  ASSUME NEW n \in Nat, NEW P, 0 \in P, \A i \in 1 .. n : i - 1 \in P => i \in P
  PROVE  \A i \in 0 .. n : i \in P
<1> DEFINE T == {i \in 0 .. n : i \notin P}
<1>1. SUFFICES ASSUME T # {} PROVE FALSE
  OBVIOUS
<1>2. PICK x \in T : \A y \in T : x <= y
  <2>1. T \subseteq Nat
    OBVIOUS
  <2> HIDE DEF T
  <2> QED BY <1>1, <2>1, SmallestNumber
<1>3. x \in 0 .. n /\ x \notin P /\ x # 0
  OBVIOUS
<1>4. x \in 1 .. n /\ x - 1 \in 0 .. n /\ ~(x <= x - 1)
  BY <1>3
<1>5. x - 1 \notin T
  <2> HIDE DEF T
  <2> QED BY <1>2, <1>4
<1> QED BY <1>3, <1>4, <1>5

(* Deleting a todo: the others stay, each once.                             *)
OneEach(s) == \A i, j \in DOMAIN s : s[i].id = s[j].id => i = j
Lacks(s, t) == \A j \in DOMAIN s : s[j].id # t
Spares1(w, s, t) ==
  /\ \A k \in DOMAIN w : w[k].id # t /\ \E j \in DOMAIN s : w[k] = s[j]
  /\ \A j \in DOMAIN s : s[j].id # t => \E k \in DOMAIN w : w[k] = s[j]
  /\ OneEach(w)
  /\ Lacks(s, t) => w = s

LEMMA WithoutIs ==
  ASSUME NEW T, NEW s \in Seq(T), OneEach(s), NEW t
  PROVE  Without(s, t) \in Seq(T) /\ Spares1(Without(s, t), s, t)
<1> DEFINE R == [r \in Seq(T) |-> [e \in T |-> IF e.id = t THEN r ELSE Append(r, e)]]
<1>1. PICK n : n = Len(s) /\ n \in Nat /\ s \in [1 .. n -> T] /\ DOMAIN s = 1 .. n
  BY LenProperties
<1>2. R \in [Seq(T) -> [T -> Seq(T)]] /\ <<>> \in Seq(T)
  OBVIOUS
<1>3. PICK g : Unfolds(g, Seq(T), <<>>, R, s)
  <2> HIDE DEF R
  <2> QED BY <1>2, FoldExists
<1>4. g \in [0 .. n -> Seq(T)] /\ g[0] = <<>> /\ \A i \in 1 .. n : g[i] = R[g[i - 1]][s[i]]
  <2> HIDE DEF R
  <2> QED BY <1>1, <1>3 DEF Unfolds
<1>5. ASSUME NEW i \in 1 .. n
      PROVE  /\ i - 1 \in 0 .. n /\ g[i - 1] \in Seq(T) /\ s[i] \in T /\ g[i] \in Seq(T)
             /\ g[i] = IF s[i].id = t THEN g[i - 1] ELSE Append(g[i - 1], s[i])
  <2>1. i - 1 \in 0 .. n /\ i \in 0 .. n
    BY <1>1
  <2>2. g[i - 1] \in Seq(T) /\ s[i] \in T /\ g[i] \in Seq(T) /\ g[i] = R[g[i - 1]][s[i]]
    BY <1>1, <1>4, <2>1
  <2> QED BY <2>1, <2>2
<1> HIDE DEF R
<1>6. Without(s, t) = g[n]
  <2> DEFINE F(h) == [i \in 0 .. n |-> IF i = 0 THEN <<>> ELSE IF s[i].id = t THEN h[i - 1] ELSE Append(h[i - 1], s[i])]
  <2>1. g = F(g)
    <3>1. \A i \in 0 .. n : g[i] = IF i = 0 THEN <<>> ELSE IF s[i].id = t THEN g[i - 1] ELSE Append(g[i - 1], s[i])
      <4>1. \A i \in 0 .. n : i = 0 \/ i \in 1 .. n
        BY <1>1
      <4>2. \A i \in 1 .. n : i # 0
        OBVIOUS
      <4> QED BY <1>4, <1>5, <4>1, <4>2
    <3>2. DOMAIN g = 0 .. n /\ g = [i \in 0 .. n |-> g[i]]
      BY <1>4
    <3> QED BY <3>1, <3>2
  <2>2. PICK h : h = F(h) /\ Without(s, t) = h[n]
    BY <1>1, <2>1 DEF Without, Folded
  <2>3. Alike(g, h, n)
    <3>1. PICK f : f = F(h) /\ f = h
      BY <2>2
    <3>2. \A i \in 0 .. n : f[i] = IF i = 0 THEN <<>> ELSE IF s[i].id = t THEN h[i - 1] ELSE Append(h[i - 1], s[i])
      BY <3>1
    <3>3. h[0] = <<>> /\ \A i \in 1 .. n : h[i] = IF s[i].id = t THEN h[i - 1] ELSE Append(h[i - 1], s[i])
      <4>1. h[0] = <<>>
        BY <1>1, <3>1, <3>2
      <4>2. ASSUME NEW i \in 1 .. n PROVE h[i] = IF s[i].id = t THEN h[i - 1] ELSE Append(h[i - 1], s[i])
        <5>1. i \in 0 .. n /\ i # 0
          BY <1>1
        <5> HIDE <3>1
        <5>2. f[i] = IF s[i].id = t THEN h[i - 1] ELSE Append(h[i - 1], s[i])
          BY <3>2, <5>1
        <5> QED BY <3>1, <5>2
      <4> QED BY <4>1, <4>2
    <3>4. \A i \in 1 .. n : g[i] = IF s[i].id = t THEN g[i - 1] ELSE Append(g[i - 1], s[i])
      BY <1>5
    <3> QED BY <1>4, <3>3, <3>4 DEF Alike
  <2>4. n \in 0 .. n /\ \A i \in 0 .. n : g[i] = h[i]
    BY <1>1, <2>3, SameValues
  <2> QED BY <2>2, <2>4
<1> DEFINE Here(i) == \A k \in DOMAIN g[i] : g[i][k].id # t /\ \E j \in 1 .. i : g[i][k] = s[j]
           Stay(i) == \A j \in 1 .. i : s[j].id # t => \E k \in DOMAIN g[i] : g[i][k] = s[j]
           AsIs(i) == Lacks(s, t) => Len(g[i]) = i /\ \A k \in 1 .. i : g[i][k] = s[k]
           P == {i \in 0 .. n : Here(i) /\ Stay(i) /\ OneEach(g[i]) /\ AsIs(i)}
<1>7. 0 \in P
  <2>1. g[0] = <<>> /\ DOMAIN g[0] = {} /\ Len(g[0]) = 0 /\ 0 \in 0 .. n /\ 1 .. 0 = {}
    BY <1>1, <1>4
  <2> QED BY <2>1 DEF OneEach
<1>8. ASSUME NEW i \in 1 .. n, i - 1 \in P PROVE i \in P
  <2>1. Here(i - 1) /\ Stay(i - 1) /\ OneEach(g[i - 1]) /\ AsIs(i - 1)
    BY <1>8
  <2>2. /\ i - 1 \in 0 .. n /\ g[i - 1] \in Seq(T) /\ s[i] \in T
        /\ g[i] = IF s[i].id = t THEN g[i - 1] ELSE Append(g[i - 1], s[i])
    BY <1>5
  <2>3. i \in 0 .. n /\ i \in Nat /\ 1 .. i = 1 .. (i - 1) \cup {i} /\ \A j \in 1 .. (i - 1) : j # i
    BY <1>1
  <2>4. CASE s[i].id = t
    <3>1. g[i] = g[i - 1] /\ ~Lacks(s, t)
      BY <1>1, <2>2, <2>4 DEF Lacks
    <3>2. Here(i) /\ Stay(i) /\ OneEach(g[i]) /\ AsIs(i)
      BY <2>1, <2>3, <2>4, <3>1
    <3> QED BY <2>3, <3>2
  <2>5. CASE s[i].id # t
    <3>1. PICK m : m = Len(g[i - 1]) /\ m \in Nat /\ DOMAIN g[i - 1] = 1 .. m
      BY <2>2, LenProperties
    <3>2. PICK r : r = g[i - 1] /\ r \in Seq(T) /\ m = Len(r) /\ DOMAIN r = 1 .. m
      BY <2>2, <3>1
    <3>3. PICK a : a = Append(r, s[i]) /\ a = g[i]
      BY <2>2, <2>5, <3>2
    <3>4. Len(a) = m + 1 /\ DOMAIN a = 1 .. (m + 1) /\ a[m + 1] = s[i] /\ \A k \in 1 .. m : a[k] = r[k]
      <4>1. /\ a \in Seq(T) /\ Len(a) = Len(r) + 1 /\ a[Len(r) + 1] = s[i]
            /\ \A k \in 1 .. Len(r) : a[k] = r[k]
        <5>1. PICK e : e \in T /\ e = s[i]
          BY <2>2
        <5>2. PICK b : b = Append(r, e) /\ b = a
          BY <3>3, <5>1
        <5>3. r \in Seq(T)
          BY <3>2
        <5>4. /\ Append(r, e) \in Seq(T)
              /\ Len(Append(r, e)) = Len(r) + 1
              /\ \A k \in 1 .. Len(r) : Append(r, e)[k] = r[k]
              /\ Append(r, e)[Len(r) + 1] = e
          BY <5>1, <5>3, AppendProperties
        <5> QED BY <5>1, <5>2, <5>4
      <4>2. DOMAIN a = 1 .. Len(a)
        BY <4>1, LenProperties
      <4> QED BY <3>2, <4>1, <4>2
    <3>11. /\ \A k \in 1 .. m : r[k].id # t /\ \E j \in 1 .. (i - 1) : r[k] = s[j]
           /\ \A k, l \in 1 .. m : r[k].id = r[l].id => k = l
      <4>1. Here(i - 1) /\ OneEach(r) /\ r = g[i - 1] /\ DOMAIN r = 1 .. m
        BY <2>1, <3>2
      <4>2. \A k, l \in 1 .. m : r[k].id = r[l].id => k = l
        BY <4>1 DEF OneEach
      <4>3. \A k \in 1 .. m : r[k].id # t /\ \E j \in 1 .. (i - 1) : r[k] = s[j]
        BY <4>1
      <4> QED BY <4>2, <4>3
    <3>5. \A k \in 1 .. (m + 1) : k \in 1 .. m \/ k = m + 1
      BY <3>1
    <3>6. m + 1 \in 1 .. (m + 1) /\ \A k \in 1 .. m : k \in 1 .. (m + 1)
      BY <3>1
    <3>7. Here(i)
      <4>1. \A k \in 1 .. (m + 1) : a[k].id # t /\ \E j \in 1 .. i : a[k] = s[j]
        <5>1. i \in 1 .. i /\ \A j \in 1 .. (i - 1) : j \in 1 .. i
          BY <2>3
        <5>2. ASSUME NEW k \in 1 .. m PROVE a[k].id # t /\ \E j \in 1 .. i : a[k] = s[j]
          BY <3>4, <3>11, <5>1
        <5>3. a[m + 1].id # t /\ \E j \in 1 .. i : a[m + 1] = s[j]
          BY <2>5, <3>4, <5>1
        <5> QED BY <3>5, <5>2, <5>3
      <4> QED BY <3>3, <3>4, <4>1
    <3>8. Stay(i)
      <4>1. ASSUME NEW j \in 1 .. (i - 1), s[j].id # t PROVE \E k \in 1 .. (m + 1) : a[k] = s[j]
        <5>1. PICK k \in 1 .. m : r[k] = s[j]
          <6>1. Stay(i - 1) /\ r = g[i - 1] /\ DOMAIN r = 1 .. m
            BY <2>1, <3>2
          <6> QED BY <4>1, <6>1
        <5>2. k \in 1 .. (m + 1) /\ a[k] = r[k]
          BY <3>4, <3>6
        <5> QED BY <5>1, <5>2
      <4>2. \E k \in 1 .. (m + 1) : a[k] = s[i]
        BY <3>4, <3>6
      <4>3. \A j \in 1 .. i : j = i \/ j \in 1 .. (i - 1)
        BY <2>3
      <4>4. \A j \in 1 .. i : s[j].id # t => \E k \in 1 .. (m + 1) : a[k] = s[j]
        BY <4>1, <4>2, <4>3
      <4> QED BY <3>3, <3>4, <4>4
    <3>9. OneEach(g[i])
      <4>1. \A k \in 1 .. m : a[k].id # s[i].id
        <5>1. ASSUME NEW k \in 1 .. m PROVE a[k].id # s[i].id
          <6>1. PICK j \in 1 .. (i - 1) : a[k] = s[j]
            BY <3>4, <3>11
          <6>2. j \in 1 .. n /\ i \in 1 .. n /\ j # i
            BY <1>1, <2>3
          <6> QED BY <1>1, <6>1, <6>2 DEF OneEach
        <5> QED BY <5>1
      <4>2. \A k, l \in 1 .. m : a[k].id = a[l].id => k = l
        BY <3>4, <3>11
      <4>3. \A k, l \in 1 .. (m + 1) : a[k].id = a[l].id => k = l
        BY <3>4, <3>5, <4>1, <4>2
      <4> QED BY <3>3, <3>4, <4>3 DEF OneEach
    <3>10. AsIs(i)
      <4>1. SUFFICES ASSUME Lacks(s, t) PROVE Len(a) = i /\ \A k \in 1 .. i : a[k] = s[k]
        BY <3>3
      <4>2. m = i - 1 /\ \A k \in 1 .. m : r[k] = s[k]
        BY <2>1, <3>2, <4>1
      <4> QED BY <2>3, <3>4, <3>5, <4>2
    <3> QED BY <2>3, <3>7, <3>8, <3>9, <3>10
  <2> QED BY <2>4, <2>5
<1>9. n \in P
  <2>1. n \in 0 .. n
    BY <1>1
  <2> HIDE DEF P
  <2> QED BY <1>1, <1>7, <1>8, <2>1, AllPlaces
<1>10. PICK w : w = g[n] /\ w = Without(s, t) /\ w \in Seq(T)
  BY <1>1, <1>4, <1>6
<1>11. /\ \A k \in DOMAIN w : w[k].id # t /\ \E j \in 1 .. n : w[k] = s[j]
       /\ \A j \in 1 .. n : s[j].id # t => \E k \in DOMAIN w : w[k] = s[j]
       /\ OneEach(w)
       /\ Lacks(s, t) => Len(w) = n /\ \A k \in 1 .. n : w[k] = s[k]
  <2>1. Here(n) /\ Stay(n) /\ OneEach(g[n]) /\ AsIs(n)
    <3> HIDE DEF Here, Stay, AsIs
    <3> QED BY <1>9
  <2> QED BY <1>10, <2>1
<1>12. Lacks(s, t) => w = s
  BY <1>1, <1>10, <1>11
<1>13. Spares1(w, s, t)
  BY <1>1, <1>11, <1>12 DEF Spares1
<1> QED BY <1>10, <1>13

(* What the other events of todos do to a list.                             *)
Rows(I) == [id : I, completed : BOOLEAN]
Shows(s, u, c) == \E k \in DOMAIN s : s[k].id = u /\ s[k].completed = c

LEMMA AppendedIs ==
  ASSUME NEW T, NEW r \in Seq(T), NEW e \in T
  PROVE  \E m \in Nat : /\ Append(r, e) \in Seq(T) /\ DOMAIN r = 1 .. m /\ DOMAIN Append(r, e) = 1 .. (m + 1)
                        /\ Append(r, e)[m + 1] = e /\ \A k \in 1 .. m : Append(r, e)[k] = r[k]
<1>1. Append(r, e) \in Seq(T) /\ Len(Append(r, e)) = Len(r) + 1
  BY AppendProperties
<1>2. (\A k \in 1 .. Len(r) : Append(r, e)[k] = r[k]) /\ Append(r, e)[Len(r) + 1] = e
  BY AppendProperties
<1>3. DOMAIN Append(r, e) = 1 .. (Len(r) + 1)
  BY <1>1, LenProperties
<1>4. Len(r) \in Nat /\ DOMAIN r = 1 .. Len(r)
  BY LenProperties
<1> QED BY <1>1, <1>2, <1>3, <1>4

LEMMA AddedIs ==
  ASSUME NEW I, NEW s \in Seq(Rows(I)), OneEach(s), NEW t \in I
  PROVE  /\ Added(s, t) \in Seq(Rows(I)) /\ OneEach(Added(s, t)) /\ Added(Added(s, t), t) = Added(s, t)
         /\ \A u, c : Shows(Added(s, t), u, c) <=> Shows(s, u, c) \/ (Lacks(s, t) /\ u = t /\ c = FALSE)
<1> DEFINE e == [id |-> t, completed |-> FALSE]
<1>1. CASE \E i \in DOMAIN s : s[i].id = t
  <2>1. Added(s, t) = s /\ ~Lacks(s, t)
    BY <1>1 DEF Added, Lacks
  <2> QED BY <2>1
<1>2. CASE ~\E i \in DOMAIN s : s[i].id = t
  <2>1. e \in Rows(I) /\ Lacks(s, t) /\ e.id = t /\ e.completed = FALSE
    BY <1>2 DEF Rows, Lacks
  <2>2. Added(s, t) = Append(s, e)
    BY <1>2 DEF Added
  <2> HIDE DEF e
  <2>3. PICK m \in Nat : /\ Append(s, e) \in Seq(Rows(I)) /\ DOMAIN s = 1 .. m /\ DOMAIN Append(s, e) = 1 .. (m + 1)
                         /\ Append(s, e)[m + 1] = e /\ \A k \in 1 .. m : Append(s, e)[k] = s[k]
    BY <2>1, AppendedIs
  <2>4. PICK a : a = Added(s, t) /\ a = Append(s, e)
    BY <2>2
  <2>5. /\ a \in Seq(Rows(I)) /\ DOMAIN a = 1 .. (m + 1) /\ a[m + 1] = e /\ \A k \in 1 .. m : a[k] = s[k]
        /\ \A k \in 1 .. (m + 1) : k \in 1 .. m \/ k = m + 1
        /\ m + 1 \in 1 .. (m + 1) /\ \A k \in 1 .. m : k \in 1 .. (m + 1)
    BY <2>3, <2>4
  <2>6. OneEach(a)
    <3>1. \A k \in 1 .. m : s[k].id # t
      BY <2>1, <2>3 DEF Lacks
    <3> QED BY <2>1, <2>3, <2>5, <3>1 DEF OneEach
  <2>7. Added(a, t) = a
    <3>1. a[m + 1].id = t /\ m + 1 \in DOMAIN a
      BY <2>1, <2>5
    <3> QED BY <3>1 DEF Added
  <2>8. ASSUME NEW u, NEW c PROVE Shows(a, u, c) <=> Shows(s, u, c) \/ (u = t /\ c = FALSE)
    <3>1. Shows(a, u, c) <=> \E k \in 1 .. (m + 1) : a[k].id = u /\ a[k].completed = c
      BY <2>5 DEF Shows
    <3>2. Shows(s, u, c) <=> \E k \in 1 .. m : a[k].id = u /\ a[k].completed = c
      BY <2>3, <2>5 DEF Shows
    <3>3. a[m + 1].id = t /\ a[m + 1].completed = FALSE
      BY <2>1, <2>5
    <3> QED BY <2>5, <3>1, <3>2, <3>3
  <2> QED BY <2>1, <2>4, <2>5, <2>6, <2>7, <2>8
<1> QED BY <1>1, <1>2

LEMMA SetToIs ==
  ASSUME NEW I, NEW s \in Seq(Rows(I)), OneEach(s), NEW t, NEW b \in BOOLEAN
  PROVE  /\ SetTo(s, t, b) \in Seq(Rows(I)) /\ OneEach(SetTo(s, t, b)) /\ SetTo(SetTo(s, t, b), t, b) = SetTo(s, t, b)
         /\ \A u, c : Shows(SetTo(s, t, b), u, c) <=> IF u = t THEN c = b /\ ~Lacks(s, t) ELSE Shows(s, u, c)
<1>1. PICK n : n \in Nat /\ s \in [1 .. n -> Rows(I)] /\ DOMAIN s = 1 .. n
  BY LenProperties
<1> DEFINE v(e) == IF e.id = t THEN [e EXCEPT !.completed = b] ELSE e
<1>2. ASSUME NEW e \in Rows(I)
      PROVE  /\ v(e) \in Rows(I) /\ v(e).id = e.id /\ v(v(e)) = v(e)
             /\ v(e).completed = IF e.id = t THEN b ELSE e.completed
  BY DEF Rows
<1>3. SetTo(s, t, b) = [i \in 1 .. n |-> v(s[i])]
  BY <1>1 DEF SetTo
<1>4. PICK w : w = SetTo(s, t, b) /\ w = [i \in 1 .. n |-> v(s[i])]
  BY <1>3
<1>5. SetTo(w, t, b) = [i \in DOMAIN w |-> v(w[i])]
  BY DEF SetTo
<1> HIDE DEF v
<1>6. DOMAIN w = 1 .. n /\ \A i \in 1 .. n : w[i] = v(s[i])
  BY <1>4
<1>7. \A i \in 1 .. n : /\ w[i] \in Rows(I) /\ w[i].id = s[i].id /\ v(w[i]) = w[i]
                        /\ w[i].completed = IF s[i].id = t THEN b ELSE s[i].completed
  BY <1>1, <1>2, <1>6
<1>8. w \in Seq(Rows(I))
  <2>1. w \in [1 .. n -> Rows(I)]
    BY <1>4, <1>7
  <2> QED BY <1>1, <2>1
<1>9. OneEach(w)
  BY <1>1, <1>6, <1>7 DEF OneEach
<1>10. SetTo(w, t, b) = w
  <2>1. [i \in 1 .. n |-> v(w[i])] = [i \in 1 .. n |-> w[i]]
    BY <1>7
  <2>2. w = [i \in 1 .. n |-> w[i]]
    BY <1>4, <1>6
  <2> QED BY <1>5, <1>6, <2>1, <2>2
<1>11. ASSUME NEW u, NEW c PROVE Shows(w, u, c) <=> IF u = t THEN c = b /\ ~Lacks(s, t) ELSE Shows(s, u, c)
  <2>1. Shows(w, u, c) <=> \E i \in 1 .. n : s[i].id = u /\ c = IF u = t THEN b ELSE s[i].completed
    BY <1>6, <1>7 DEF Shows
  <2> QED BY <1>1, <2>1 DEF Shows, Lacks
<1> QED BY <1>4, <1>8, <1>9, <1>10, <1>11

LEMMA WithoutShows ==
  ASSUME NEW T, NEW s \in Seq(T), OneEach(s), NEW t
  PROVE  /\ Without(Without(s, t), t) = Without(s, t)
         /\ \A u, c : Shows(Without(s, t), u, c) <=> u # t /\ Shows(s, u, c)
<1>1. PICK w : w = Without(s, t) /\ w \in Seq(T) /\ Spares1(w, s, t)
  BY WithoutIs
<1>2. OneEach(w) /\ Lacks(w, t)
  BY <1>1 DEF Spares1, Lacks
<1>3. Without(w, t) = w
  <2>1. Spares1(Without(w, t), w, t)
    BY <1>1, <1>2, WithoutIs
  <2> QED BY <1>2, <2>1 DEF Spares1
<1>4. ASSUME NEW u, NEW c PROVE Shows(w, u, c) <=> u # t /\ Shows(s, u, c)
  <2>1. ASSUME Shows(w, u, c) PROVE u # t /\ Shows(s, u, c)
    BY <1>1, <2>1 DEF Spares1, Shows
  <2>2. ASSUME u # t, Shows(s, u, c) PROVE Shows(w, u, c)
    BY <1>1, <2>2 DEF Spares1, Shows
  <2> QED BY <2>1, <2>2
<1> QED BY <1>1, <1>3, <1>4

-----------------------------------------------------------------------------
(* The list of todos.                                                       *)
TodoLists(D) == {s \in Seq(Rows({f.on : f \in D})) : OneEach(s)}

LEMMA ReduceKeeps ==
  ASSUME NEW D, NEW S, S = TodoLists(D)
  PROVE  /\ <<>> \in S
         /\ \A s \in S, f \in D : Reduce(s, f) \in S /\ Reduce(Reduce(s, f), f) = Reduce(s, f)
<1>1. PICK I : I = {f.on : f \in D}
  OBVIOUS
<1>2. <<>> \in S
  <2>1. <<>> \in Seq(Rows(I)) /\ OneEach(<<>>)
    BY DEF OneEach
  <2> QED BY <1>1, <2>1 DEF TodoLists
<1>3. ASSUME NEW s \in S, NEW f \in D
      PROVE  Reduce(s, f) \in S /\ Reduce(Reduce(s, f), f) = Reduce(s, f)
  <2>1. PICK t : t = f.on /\ t \in I /\ s \in Seq(Rows(I)) /\ OneEach(s)
    BY <1>1, <1>3 DEF TodoLists
  <2>2. PICK w : w = Reduce(s, f)
    OBVIOUS
  <2>3. CASE f.name = "todo.added"
    <3>1. \A l : Reduce(l, f) = Added(l, t)
      BY <2>1, <2>3 DEF Reduce, Toggled
    <3>2. w = Added(s, t) /\ w \in Seq(Rows(I)) /\ OneEach(w) /\ Added(w, t) = w
      <4>1. Added(s, t) \in Seq(Rows(I)) /\ OneEach(Added(s, t)) /\ Added(Added(s, t), t) = Added(s, t)
        BY <2>1, AddedIs
      <4> QED BY <2>2, <3>1, <4>1
    <3> QED BY <1>1, <1>3, <2>2, <3>1, <3>2 DEF TodoLists
  <2>4. ASSUME NEW b \in BOOLEAN, f.name = Toggled(b)
        PROVE  Reduce(s, f) \in S /\ Reduce(Reduce(s, f), f) = Reduce(s, f)
    <3>1. \A l : Reduce(l, f) = SetTo(l, t, b)
      BY <2>1, <2>4 DEF Reduce, Toggled
    <3>2. w = SetTo(s, t, b) /\ w \in Seq(Rows(I)) /\ OneEach(w) /\ SetTo(w, t, b) = w
      BY <2>1, <2>2, <3>1, SetToIs
    <3> QED BY <1>1, <1>3, <2>2, <3>1, <3>2 DEF TodoLists
  <2>5. CASE f.name = "todo.deleted"
    <3>1. \A l : Reduce(l, f) = Without(l, t)
      BY <2>1, <2>5 DEF Reduce, Toggled
    <3>2. w = Without(s, t) /\ w \in Seq(Rows(I)) /\ OneEach(w) /\ Without(w, t) = w
      <4>1. w = Without(s, t)
        BY <2>2, <3>1
      <4>2. Without(s, t) \in Seq(Rows(I)) /\ Spares1(Without(s, t), s, t)
        BY <2>1, WithoutIs
      <4>3. Without(Without(s, t), t) = Without(s, t)
        BY <2>1, WithoutShows
      <4> QED BY <4>1, <4>2, <4>3 DEF Spares1
    <3> QED BY <1>1, <1>3, <2>2, <3>1, <3>2 DEF TodoLists
  <2>6. CASE f.name \notin {"todo.added", Toggled(TRUE), Toggled(FALSE), "todo.deleted"}
    <3>1. \A l : Reduce(l, f) = l
      BY <2>6 DEF Reduce
    <3> QED BY <1>3, <3>1
  <2> QED BY <2>3, <2>4, <2>5, <2>6
<1> QED BY <1>2, <1>3

LEMMA TodosAre ==
  ASSUME NEW D, log \in Seq(D), NEW S, S = TodoLists(D)
  PROVE  \E G : /\ G \in [0 .. Len(log) -> S] /\ G[0] = <<>>
                /\ \A i \in 1 .. Len(log) : G[i] = Reduce(G[i - 1], log[i])
                /\ \A twice : TodoList(twice) = G[Len(log)]
<1> DEFINE R == [s \in S |-> [f \in D |-> Reduce(s, f)]]
<1>1. <<>> \in S /\ \A s \in S, f \in D : Reduce(s, f) \in S
  BY ReduceKeeps
<1>2. R \in [S -> [D -> S]] /\ \A s \in S, f \in D : R[s][f] = Reduce(s, f)
  <2> HIDE DEF Reduce
  <2> QED BY <1>1
<1>3. Forgives(R, S, D)
  <2>1. \A s \in S, f \in D : Reduce(Reduce(s, f), f) = Reduce(s, f)
    BY ReduceKeeps
  <2> HIDE DEF R
  <2>2. ASSUME NEW s \in S, NEW f \in D PROVE R[R[s][f]][f] = R[s][f]
    <3>1. R[s][f] \in S /\ R[s][f] = Reduce(s, f)
      BY <1>1, <1>2
    <3>2. R[R[s][f]][f] = Reduce(Reduce(s, f), f)
      BY <1>2, <3>1
    <3> QED BY <2>1, <3>1, <3>2
  <2> HIDE DEF Reduce
  <2> QED BY <2>2 DEF Forgives
<1> HIDE DEF R
<1>4. PICK G : Unfolds(G, S, <<>>, R, log)
  BY <1>1, <1>2, FoldExists
<1>5. PICK n : n = Len(log) /\ n \in Nat /\ log \in [1 .. n -> D]
  BY LenProperties
<1>6. /\ G \in [0 .. n -> S] /\ G[0] = <<>>
      /\ \A i \in 1 .. n : G[i] = Reduce(G[i - 1], log[i])
  <2>1. /\ G \in [0 .. n -> S] /\ G[0] = <<>>
        /\ \A i \in 1 .. n : G[i] = R[G[i - 1]][log[i]]
    BY <1>4, <1>5 DEF Unfolds
  <2>2. \A i \in 1 .. n : G[i - 1] \in S /\ log[i] \in D
    BY <1>5, <2>1
  <2> HIDE DEF Reduce
  <2> QED BY <1>2, <2>1, <2>2
<1>7. ASSUME NEW twice PROVE TodoList(twice) = G[n]
  <2>1. PICK events : events = Handled(twice) /\ events \in Seq(D)
    BY HandledIsSeq
  <2>2. PICK m : m = Len(events) /\ m \in Nat /\ events \in [1 .. m -> D]
    BY <2>1, LenProperties
  <2>3. PICK g : Unfolds(g, S, <<>>, R, events)
    BY <1>1, <1>2, <2>1, FoldExists
  <2>4. /\ g \in [0 .. m -> S] /\ g[0] = <<>>
        /\ \A i \in 1 .. m : g[i] = Reduce(g[i - 1], events[i])
    <3>1. /\ g \in [0 .. m -> S] /\ g[0] = <<>>
          /\ \A i \in 1 .. m : g[i] = R[g[i - 1]][events[i]]
      BY <2>2, <2>3 DEF Unfolds
    <3>2. \A i \in 1 .. m : g[i - 1] \in S /\ events[i] \in D
      <4>1. m \in Nat /\ events \in [1 .. m -> D] /\ g \in [0 .. m -> S]
        BY <2>2, <3>1
      <4>2. \A i \in 1 .. m : i - 1 \in 0 .. m
        BY <4>1
      <4> QED BY <4>1, <4>2
    <3> QED BY <1>2, <3>1, <3>2
  <2> DEFINE F(h) == [i \in 0 .. m |-> IF i = 0 THEN <<>> ELSE Reduce(h[i - 1], events[i])]
  <2>5. g = F(g)
    <3>1. \A i \in 0 .. m : g[i] = IF i = 0 THEN <<>> ELSE Reduce(g[i - 1], events[i])
      BY <2>4
    <3>2. DOMAIN g = 0 .. m /\ g = [i \in 0 .. m |-> g[i]]
      BY <2>4
    <3> QED BY <3>1, <3>2
  <2>6. PICK h : h = F(h) /\ TodoList(twice) = h[m]
    BY <2>1, <2>2, <2>5 DEF Folded, TodoList
  <2>7. Alike(g, h, m)
    <3>1. PICK f : f = F(h) /\ f = h
      BY <2>6
    <3>2. \A i \in 0 .. m : f[i] = IF i = 0 THEN <<>> ELSE Reduce(h[i - 1], events[i])
      BY <3>1
    <3>3. h[0] = <<>> /\ \A i \in 1 .. m : h[i] = Reduce(h[i - 1], events[i])
      BY <2>2, <3>1, <3>2
    <3> QED BY <2>4, <3>3 DEF Alike
  <2>8. g[m] = h[m]
    <3>1. m \in 0 .. m /\ \A i \in 0 .. m : g[i] = h[i]
      BY <2>2, <2>7, SameValues
    <3> QED BY <3>1
  <2>9. g[m] = G[n]
    <3>1. FinalState(g, Handled(twice)) = FinalState(G, log)
      <4>1. Unfolds(g, S, <<>>, R, Handled(twice)) 
        BY <2>1, <2>3
      <4>2. Folds(R, S, D, <<>>, twice)
        BY <1>3, <1>1, <1>2 DEF Folds
      <4> QED BY <1>4, <4>1, <4>2, FoldOfHandled
    <3> QED BY <1>5, <2>1, <2>2, <3>1 DEF FinalState
  <2> QED BY <2>6, <2>8, <2>9
<1> QED BY <1>5, <1>6, <1>7

-----------------------------------------------------------------------------
(* What the memories hold, told without a fold.                             *)
UpTo(T, i) == {j \in T : j <= i}
LEMMA UpToEnds ==
  ASSUME NEW n \in Nat, NEW T, T \subseteq 1 .. n
  PROVE  UpTo(T, 0) = {} /\ UpTo(T, n) = T
<1>1. \A j \in T : ~(j <= 0) /\ j <= n
  OBVIOUS
<1> QED BY <1>1 DEF UpTo

LEMMA UpToFinite ==
  ASSUME NEW n \in Nat, NEW T, T \subseteq 1 .. n, NEW i
  PROVE  IsFiniteSet(UpTo(T, i))
<1>1. UpTo(T, i) \subseteq 1 .. n
  BY DEF UpTo
<1>2. IsFiniteSet(1 .. n)
  BY FS_Interval
<1> QED BY <1>1, <1>2, FS_Subset

LEMMA UpToStep ==
  ASSUME NEW n \in Nat, NEW T, T \subseteq 1 .. n, NEW i \in 1 .. n
  PROVE  UpTo(T, i) = (IF i \in T THEN UpTo(T, i - 1) \cup {i} ELSE UpTo(T, i - 1)) /\ i \notin UpTo(T, i - 1)
<1>1. \A j \in T : j \in Int
  OBVIOUS
<1>2. \A j \in T : j <= i <=> j = i \/ j <= i - 1
  BY <1>1
<1>3. ~(i <= i - 1)
  OBVIOUS
<1> QED BY <1>2, <1>3 DEF UpTo

LEMMA Counting ==
  ASSUME NEW n \in Nat, NEW T, T \subseteq 1 .. n, NEW g, g[0] = 0,
         \A i \in 1 .. n : g[i] = IF i \in T THEN g[i - 1] + 1 ELSE g[i - 1]
  PROVE  g[n] = Cardinality(T) /\ IsFiniteSet(T)
<1> DEFINE P == {i \in 0 .. n : g[i] = Cardinality(UpTo(T, i))}
<1>1. 0 \in P
  <2>1. UpTo(T, 0) = {}
    BY UpToEnds
  <2>2. Cardinality(UpTo(T, 0)) = 0
    BY <2>1, FS_EmptySet
  <2> QED BY <2>2
<1>2. ASSUME NEW i \in 1 .. n, i - 1 \in P PROVE i \in P
  <2>1. g[i - 1] = Cardinality(UpTo(T, i - 1)) /\ i \in 0 .. n
    BY <1>2
  <2>2. CASE i \in T
    <3>1. UpTo(T, i) = UpTo(T, i - 1) \cup {i} /\ i \notin UpTo(T, i - 1) /\ IsFiniteSet(UpTo(T, i - 1))
      BY <2>2, UpToStep, UpToFinite
    <3>2. Cardinality(UpTo(T, i)) = Cardinality(UpTo(T, i - 1)) + 1
      BY <3>1, FS_AddElement
    <3> QED BY <2>1, <2>2, <3>2
  <2>3. CASE i \notin T
    <3>1. UpTo(T, i) = (IF i \in T THEN UpTo(T, i - 1) \cup {i} ELSE UpTo(T, i - 1)) /\ i \notin UpTo(T, i - 1)
      BY UpToStep, Zenon
    <3> QED BY <2>1, <2>3, <3>1
  <2> QED BY <2>2, <2>3
<1>3. n \in P
  <2> HIDE DEF P
  <2>1. \A i \in 0 .. n : i \in P
    BY <1>1, <1>2, AllPlaces
  <2> QED BY <2>1
<1>4. UpTo(T, n) = T /\ IsFiniteSet(UpTo(T, n))
  BY UpToEnds, UpToFinite
<1> QED BY <1>3, <1>4

LEMMA DocsHold ==
  ASSUME LogIs, NEW k \in DOMAIN log, log[k].name = "doc.processed"
  PROVE  log[k].on \in docMemory({})
<1>1. PICK D : log \in Seq(D)
  BY DEF LogIs
<1>2. PICK n : n = Len(log) /\ n \in Nat /\ DOMAIN log = 1 .. n
  BY <1>1, LenProperties
<1>3. PICK G : /\ \A i \in 1 .. n : G[i] = Kept(G[i - 1], log[i])
               /\ docMemory({}) = G[n]
  BY <1>1, <1>2, DocMemoryIs
<1> DEFINE P == {i \in 0 .. n : k <= i => log[k].on \in G[i]}
<1>4. k \in 1 .. n
  BY <1>2
<1>5. 0 \in P
  <2>1. 0 \in 0 .. n /\ ~(k <= 0)
    BY <1>2, <1>4
  <2> QED BY <2>1
<1>6. ASSUME NEW i \in 1 .. n, i - 1 \in P PROVE i \in P
  <2>1. G[i] = IF log[i].name = "doc.processed" THEN G[i - 1] \cup {log[i].on} ELSE G[i - 1]
    BY <1>3 DEF Kept
  <2>2. k <= i => k = i \/ k <= i - 1
    BY <1>4
  <2> QED BY <1>6, <2>1, <2>2
<1>7. n \in P
  <2> HIDE DEF P
  <2>1. \A i \in 0 .. n : i \in P
    BY <1>2, <1>5, <1>6, AllPlaces
  <2> QED BY <1>2, <2>1
<1> QED BY <1>3, <1>4, <1>7

LEMMA TasksAre ==
  ASSUME LogIs
  PROVE  /\ agentMemory({}).totalTasks = Cardinality({k \in DOMAIN log : log[k].name = "agent.research.completed"})
         /\ agentMemory({}).totalTasks = Len(agentMemory({}).topics)
<1>1. PICK D : log \in Seq(D)
  BY DEF LogIs
<1>2. PICK n : n = Len(log) /\ n \in Nat /\ DOMAIN log = 1 .. n
  BY <1>1, LenProperties
<1>3. PICK S : S = Memories(D)
  OBVIOUS
<1>4. PICK G : /\ G \in [0 .. n -> S] /\ G[0] = [totalTasks |-> 0, topics |-> <<>>]
               /\ \A i \in 1 .. n : G[i] = Remembered(G[i - 1], log[i])
               /\ agentMemory({}) = G[n]
  BY <1>1, <1>2, <1>3, AgentMemoryIs
<1>5. \A s \in S : s.totalTasks = Len(s.topics)
  BY <1>3 DEF Memories
<1>6. G[n] \in S
  BY <1>2, <1>4
<1> DEFINE T == {k \in DOMAIN log : log[k].name = "agent.research.completed"}
           g == [i \in 0 .. n |-> G[i].totalTasks]
<1>7. g[0] = 0 /\ T \subseteq 1 .. n
  BY <1>2, <1>4
<1>8. ASSUME NEW i \in 1 .. n PROVE g[i] = IF i \in T THEN g[i - 1] + 1 ELSE g[i - 1]
  <2>1. G[i].totalTasks = IF log[i].name = "agent.research.completed" THEN G[i - 1].totalTasks + 1 ELSE G[i - 1].totalTasks
    <3>1. PICK a, b, f : a = G[i - 1] /\ b = G[i] /\ f = log[i] /\ b = Remembered(a, f)
      BY <1>4
    <3>2. b.totalTasks = IF f.name = "agent.research.completed" THEN a.totalTasks + 1 ELSE a.totalTasks
      BY <3>1 DEF Remembered
    <3> QED BY <3>1, <3>2
  <2>2. i \in T <=> log[i].name = "agent.research.completed"
    BY <1>2
  <2>3. i \in 0 .. n /\ i - 1 \in 0 .. n
    BY <1>2
  <2> QED BY <2>1, <2>2, <2>3
<1>9. g[n] = G[n].totalTasks
  BY <1>2
<1>10. g[n] = Cardinality(T)
  <2> HIDE DEF g, T
  <2> QED BY <1>2, <1>7, <1>8, Counting
<1> QED BY <1>4, <1>5, <1>6, <1>9, <1>10

LEMMA OrdersCounted ==
  ASSUME LogIs
  PROVE  OrderStats({}).orders = Cardinality({k \in DOMAIN log : log[k].name = "order.placed"})
<1>1. PICK D : log \in Seq(D)
  BY DEF LogIs
<1>2. PICK n : n = Len(log) /\ n \in Nat /\ DOMAIN log = 1 .. n
  BY <1>1, LenProperties
<1>3. PICK G : /\ G[0] = [orders |-> 0, revenue |-> 0]
               /\ \A i \in 1 .. n : G[i] = Counted(G[i - 1], log[i])
               /\ OrderStats({}) = G[n]
  BY <1>1, <1>2, StatsAre
<1> DEFINE T == {k \in DOMAIN log : log[k].name = "order.placed"}
           g == [i \in 0 .. n |-> G[i].orders]
<1>4. g[0] = 0 /\ T \subseteq 1 .. n
  BY <1>2, <1>3
<1>5. ASSUME NEW i \in 1 .. n PROVE g[i] = IF i \in T THEN g[i - 1] + 1 ELSE g[i - 1]
  <2>1. G[i].orders = IF log[i].name = "order.placed" THEN G[i - 1].orders + 1 ELSE G[i - 1].orders
    <3>1. PICK a, b, f : a = G[i - 1] /\ b = G[i] /\ f = log[i] /\ b = Counted(a, f)
      BY <1>3
    <3>2. b.orders = IF f.name = "order.placed" THEN a.orders + 1 ELSE a.orders
      BY <3>1 DEF Counted
    <3> QED BY <3>1, <3>2
  <2>2. i \in T <=> log[i].name = "order.placed"
    BY <1>2
  <2>3. i \in 0 .. n /\ i - 1 \in 0 .. n
    BY <1>2
  <2> QED BY <2>1, <2>2, <2>3
<1>6. g[n] = G[n].orders
  BY <1>2
<1>7. g[n] = Cardinality(T)
  <2> HIDE DEF g, T
  <2> QED BY <1>2, <1>4, <1>5, Counting
<1> QED BY <1>3, <1>6, <1>7

(* What the rules and the documents say does not change when an event       *)
(* reaches the projection twice.                                            *)
LEMMA TwiceIsOnce ==
  ASSUME LogIs
  PROVE  RulesAreCurated /\ \A n \in 0 .. Len(log) : docMemory({n}) = docMemory({})
<1>1. PICK D : log \in Seq(D)
  BY DEF LogIs
<1>2. PICK R : \A twice : CuratedRules(twice) = R
  BY <1>1, RulesAre
<1>3. PICK M : \A twice : docMemory(twice) = M
  BY <1>1, DocMemoryIs
<1> QED BY <1>2, <1>3 DEF RulesAreCurated

-----------------------------------------------------------------------------
(* What a run tells in one of its steps only it tells once, unless the step *)
(* was executed again.                                                      *)
OnlyCall(r, i, e) ==
  /\ i \in DOMAIN Steps(r) /\ Calls(r, i) = <<e>> /\ e.op \in Telling /\ e.name \notin Outcomes
  /\ \A i2 \in DOMAIN Steps(r) :
       /\ \A j \in DOMAIN Calls(r, i2) :
            LET f == Calls(r, i2)[j] IN f.op \in Telling /\ f.on = e.on /\ f.name = e.name => i2 = i
       /\ \A j \in DOMAIN Steps(r)[i2].undo :
            LET f == Steps(r)[i2].undo[j] IN f.op \in Telling /\ f.on = e.on => f.name # e.name
ToldAs(r, e) == {k \in DOMAIN log : log[k].by = r /\ log[k].on = e.on /\ log[k].name = e.name}
Repeats(r) == job[r].errors = "retry" /\ \E h \in hit : h[1] = r
GaveUp(rec) == rec.mode \in {"undo", "failed"}
OnceOf(r, i, e) ==
  /\ \A k, l \in ToldAs(r, e) : k = l
  /\ ToldAs(r, e) # {} => GaveUp(run[r]) \/ i <= Len(run[r].memo)
OnceInv == \A r \in Runs : ~Repeats(r) => \A i, e : OnlyCall(r, i, e) => OnceOf(r, i, e)

(* A run that gives up never goes on.                                       *)
LEMMA GivenUp ==
  ASSUME NEW r \in DOMAIN run, IsPlaced(r), IsFunction(job[r]), GaveUp(run[r]),
         Advance(r) \/ LoseAnswer(r) \/ Crash(r) \/ Elapse(r)
  PROVE  GaveUp(run'[r])
<1>1. PICK S : 0 \in S /\ run[r] \in RunState(S)
  BY PlacedRun
<1>2. PICK u \in RunState(S) : u = run[r]
  BY <1>1
<1>3. run[r].mode = "undo"
  <2>1. CASE run[r].mode = "failed"
    <3>1. ~Busy(r) /\ run[r].mode # "parked" /\ run[r].mode # "waiting" /\ \A op : ~Doing(r, op)
      BY <2>1 DEF Busy, Doing, Working
    <3> QED BY <3>1 DEF Advance, Start, ReadStore, ReadView, Park, Woken, Check, Call, Conflict, Pass,
              LoseAnswer, Crash, Elapse, CanWrite
  <2> QED BY <2>1 DEF GaveUp
<1>4. \A b : UndoFrom(r, b).mode \in {"undo", "failed"}
  <2>1. ASSUME NEW b PROVE UndoFrom(r, b).mode \in {"undo", "failed"}
    <3>1. PICK x : x = GoTo(r, b) /\ x = [u EXCEPT !.pc = b, !.at = 1, !.got = 0, !.tries = 1]
      BY <1>2 DEF GoTo
    <3>2. UndoFrom(r, b) = [x EXCEPT !.mode = IF b = 0 THEN "failed" ELSE "undo"]
      BY <3>1 DEF UndoFrom
    <3> QED BY <1>2, <3>1, <3>2 DEF RunState
  <2> QED BY <2>1
<1>5. (\A v : GaveUp(Returned(r, v))) /\ GaveUp(GivesUp(r)) /\ \A b : GaveUp(GoTo(r, b))
  BY <1>2, <1>3, <1>4 DEF GaveUp, Returned, GivesUp, Undoes, GoTo, RunState
<1>6. /\ \A v : GaveUp([run[r] EXCEPT !.at = @ + 1, !.got = v])
      /\ GaveUp([run[r] EXCEPT !.at = 1, !.got = 0, !.tries = @ + 1])
  BY <1>2, <1>3 DEF GaveUp, RunState
<1>7. \A rec : Set(r, rec) => run'[r] = rec
  BY SetRun
<1>8. ASSUME NEW v, Answer(r, v) PROVE GaveUp(run'[r])
  BY <1>5, <1>6, <1>7, <1>8 DEF Answer
<1>9. Throw(r) => GaveUp(run'[r])
  BY <1>5, <1>6, <1>7 DEF Throw
<1>10. ~Doing(r, "wait")
  <2>1. ~NoWait(Steps(r)[run[r].pc].undo) => FALSE
    <3>1. run[r].pc \in DOMAIN Steps(r)
      <4>1. PICK len : len = Len(Steps(r)) /\ len \in Nat /\ DOMAIN Steps(r) = 1 .. len
        BY LenProperties DEF IsFunction, Steps
      <4>2. PICK n, pc : n = Len(run[r].memo) /\ pc = run[r].pc /\ n \in Nat /\ pc \in Nat
        BY <1>1, PlacedRun DEF RunState
      <4>3. 1 <= pc /\ pc <= n /\ n <= len
        BY <1>3, <4>1, <4>2 DEF IsPlaced, Placed
      <4> QED BY <4>1, <4>2, <4>3
    <3> QED BY <3>1 DEF IsFunction, Steps
  <2>2. PICK pc, at, effects : pc = run[r].pc /\ at = run[r].at /\ effects = Steps(r)[pc].undo
    OBVIOUS
  <2>3. Doing(r, "wait") => at <= Len(effects) /\ effects[at].op = "wait"
    BY <1>3, <2>2 DEF Doing, Effects, Current
  <2>4. at \in Nat \ {0}
    BY <1>1, <2>2 DEF RunState
  <2> QED BY <2>1, <2>2, <2>3, <2>4 DEF NoWait
<1> QED BY <1>3, <1>5, <1>7, <1>8, <1>9, <1>10 DEF Advance, Start, ReadStore, ReadView, Park, Woken, Check, Call,
            Conflict, Pass, LoseAnswer, Crash, Elapse, Forward

(* Only a crash takes answers back from a run that goes on.                 *)
KeepsAnswers(r, rec) == GaveUp(rec) \/ rec.memo = run[r].memo \/ \E v : rec.memo = Append(run[r].memo, v)

LEMMA ThrowKeeps ==
  ASSUME NEW r \in DOMAIN run, IsPlaced(r), IsFunction(job[r]), NEW op, Doing(r, op), Throw(r), ~GaveUp(run[r])
  PROVE  /\ KeepsAnswers(r, run'[r])
         /\ job[r].errors # "retry" => GaveUp(run'[r]) \/ \E v : run'[r].memo = Append(run[r].memo, v)
<1>1. run[r].mode = "forward" /\ ~Undoes(r)
  BY DEF Doing, Working, Busy, GaveUp, Undoes
<1>2. CASE Set(r, GivesUp(r))
  <2>1. run'[r] = GivesUp(r) /\ GivesUp(r).mode \in {"failed", "undo"}
    BY <1>1, <1>2, SetRun, GivesUpTo
  <2> QED BY <2>1 DEF GaveUp, KeepsAnswers
<1>3. CASE job[r].errors = "retry" /\ Set(r, [run[r] EXCEPT !.at = 1, !.got = 0, !.tries = @ + 1])
  <2>1. PICK S : run[r] \in RunState(S)
    BY PlacedRun
  <2>2. PICK u \in RunState(S) : u = run[r]
    BY <2>1
  <2>3. run'[r] = [u EXCEPT !.at = 1, !.got = 0, !.tries = @ + 1]
    BY <1>3, <2>2, SetRun
  <2>4. run'[r].memo = u.memo
    BY <2>3 DEF RunState
  <2> QED BY <1>3, <2>2, <2>4 DEF KeepsAnswers
<1>4. CASE Set(r, Returned(r, 0))
  <2>1. run'[r] = Returned(r, 0) /\ Records(r, Returned(r, 0), 0)
    BY <1>1, <1>4, SetRun, ReturnOutcome
  <2> QED BY <2>1 DEF KeepsAnswers, Records
<1> QED BY <1>2, <1>3, <1>4 DEF Throw

LEMMA AnswersStay ==
  ASSUME NEW r \in DOMAIN run, IsPlaced(r), IsFunction(job[r]), ~GaveUp(run[r]), Len(log) \in Nat,
         Advance(r) \/ LoseAnswer(r) \/ Elapse(r)
  PROVE  KeepsAnswers(r, run'[r])
<1>1. ASSUME NEW op, Doing(r, op), NEW v, Answer(r, v), Gives(r, v) PROVE KeepsAnswers(r, run'[r])
  <2>1. ~Undoes(r)
    BY DEF GaveUp, Undoes
  <2>2. CallsOn(r, run'[r]) \/ Records(r, run'[r], v)
    BY <1>1, <2>1, AnswerOutcome
  <2> QED BY <2>2 DEF CallsOn, Same, Records, KeepsAnswers
<1>2. ASSUME NEW op, Doing(r, op), Throw(r) PROVE KeepsAnswers(r, run'[r])
  BY <1>2, ThrowKeeps
<1>3. CASE ReadStore(r)
  <2>1. \E op : Doing(r, op) /\ \E v : Answer(r, v) /\ Gives(r, v)
    BY <1>3 DEF ReadStore, Gives
  <2> QED BY <2>1, <1>1
<1>4. CASE ReadView(r)
  <2>1. Doing(r, "view") /\ \E v : Answer(r, v) /\ Gives(r, v)
    BY <1>4 DEF ReadView, Gives
  <2> QED BY <2>1, <1>1
<1>5. ASSUME run[r].mode \in {"forward", "parked"}, Set(r, GivesUp(r)) PROVE KeepsAnswers(r, run'[r])
  <2>1. run'[r] = GivesUp(r) /\ GivesUp(r).mode \in {"failed", "undo"}
    BY <1>5, SetRun, GivesUpTo
  <2> QED BY <2>1 DEF KeepsAnswers, GaveUp
<1>6. CASE Check(r)
  <2>1. Doing(r, "refuse") /\ (Set(r, GivesUp(r)) \/ \E v : Answer(r, v) /\ Gives(r, v))
    BY <1>6 DEF Check, Gives
  <2>2. run[r].mode = "forward"
    BY <2>1 DEF Doing, Working, Busy, GaveUp
  <2> QED BY <2>1, <2>2, <1>1, <1>5
<1>7. CASE Call(r)
  <2>1. (\E op : Doing(r, op)) /\ Answer(r, Written(r)) /\ Gives(r, Written(r))
    BY <1>7 DEF Call, CanWrite, Gives
  <2> QED BY <2>1, <1>1
<1>8. CASE Conflict(r) \/ LoseAnswer(r)
  <2>1. (\E op : Doing(r, op)) /\ Throw(r)
    BY <1>8 DEF Conflict, LoseAnswer, CanWrite
  <2> QED BY <2>1, <1>2
<1>9. CASE Start(r) \/ Park(r)
  <2>1. Starts(r, run'[r]) \/ Parks(r, run'[r]) \/ Undoes(r)
    BY <1>9, WaitingRuns
  <2> QED BY <2>1 DEF Starts, Parks, Same, KeepsAnswers, Undoes, GaveUp
<1>10. CASE Woken(r)
  <2>1. \E v : Records(r, run'[r], v)
    BY <1>10, WokenOutcome
  <2> QED BY <2>1 DEF Records, KeepsAnswers
<1>11. CASE Pass(r)
  <2>1. run'[r] = Returned(r, 0) /\ run[r].mode = "forward" /\ ~Undoes(r)
    BY <1>11, SetRun DEF Pass, Busy, GaveUp, Undoes
  <2>2. Records(r, Returned(r, 0), 0)
    BY <2>1, ReturnOutcome
  <2> QED BY <2>1, <2>2 DEF Records, KeepsAnswers
<1>12. CASE Elapse(r)
  BY <1>5, <1>12 DEF Elapse
<1> QED BY <1>3, <1>4, <1>6, <1>7, <1>8, <1>9, <1>10, <1>11, <1>12 DEF Advance

(* A crash that takes answers back hits the steps it takes them from.       *)
LEMMA CrashHits ==
  ASSUME NEW r \in DOMAIN run, IsPlaced(r), IsFunction(job[r]), ~GaveUp(run[r]), Crash(r)
  PROVE  Repeats(r)'
<1>1. Forward(r) /\ job[r].errors = "retry"
  BY DEF Crash, Busy, GaveUp, Forward
<1>2. PICK n, pc : n = Len(run[r].memo) /\ pc = run[r].pc /\ n \in Nat /\ pc = n + 1
  BY <1>1, PlacedRun DEF IsPlaced, Placed, Forward
<1>3. PICK S : run[r] \in RunState(S)
  BY PlacedRun
<1>4. PICK k \in run[r].kept .. n : Hit(r, k + 1)
  BY <1>1, <1>2 DEF Crash
<1>5. run[r].kept \in Nat
  BY <1>3 DEF RunState
<1>6. pc \in k + 1 .. pc
  BY <1>2, <1>4, <1>5
<1>7. <<r, run[r].mode, pc>> \in hit'
  BY <1>2, <1>4, <1>6 DEF Hit
<1>8. job' = job
  BY DEF Crash
<1> QED BY <1>1, <1>7, <1>8 DEF Repeats

LEMMA ToldStaysSame ==
  ASSUME LogIs, NEW f, log' = log \/ log' = Append(log, f), NEW r, NEW e,
         f.by = r /\ f.on = e.on /\ f.name = e.name => log' = log
  PROVE  ToldAs(r, e)' = ToldAs(r, e)
<1>1. \A k \in DOMAIN log : k \in DOMAIN log' /\ log'[k] = log[k]
  BY FactsStay
<1>2. \A k \in DOMAIN log' : k \in DOMAIN log \/ (log' # log /\ log'[k] = f)
  <2>1. log' = log => DOMAIN log' = DOMAIN log
    OBVIOUS
  <2> QED BY <2>1, FactsStay
<1>3. PICK L : L = log'
  OBVIOUS
<1>4. ToldAs(r, e)' = {k \in DOMAIN L : L[k].by = r /\ L[k].on = e.on /\ L[k].name = e.name}
  BY <1>3 DEF ToldAs
<1> QED BY <1>1, <1>2, <1>3, <1>4 DEF ToldAs

LEMMA OneTold ==
  ASSUME LogIs, NEW f, log' = Append(log, f), NEW r, NEW e, ToldAs(r, e) = {}
  PROVE  \A k, l \in ToldAs(r, e)' : k = l
<1>1. \A k \in DOMAIN log' : (k \in DOMAIN log /\ log'[k] = log[k]) \/ k = Len(log) + 1
  BY FactsStay
<1>2. PICK L : L = log'
  OBVIOUS
<1>3. ToldAs(r, e)' = {k \in DOMAIN L : L[k].by = r /\ L[k].on = e.on /\ L[k].name = e.name}
  BY <1>2 DEF ToldAs
<1>4. \A k \in ToldAs(r, e)' : k = Len(log) + 1
  BY <1>1, <1>2, <1>3 DEF ToldAs
<1> QED BY <1>4

(* The step of a run that tells, and the others of it.                      *)
LEMMA OnceStep ==
  ASSUME EngineInv, OnceInv, NEW r \in Runs, Advance(r) \/ LoseAnswer(r) \/ Crash(r) \/ Elapse(r),
         ~Repeats(r)', NEW i, NEW e, OnlyCall(r, i, e)
  PROVE  OnceOf(r, i, e)'
<1>1. r \in DOMAIN run /\ IsPlaced(r) /\ IsFunction(job[r]) /\ Len(log) \in Nat /\ LogIs /\ GoodFunction(job[r], {})
  BY GoodIsFunction, LogShape DEF EngineInv
<1>2. job' = job /\ hit \subseteq hit'
  BY StepsOnlyRun DEF OnlyRuns
<1>3. ~Repeats(r)
  BY <1>2 DEF Repeats
<1>4. OnceOf(r, i, e)
  BY <1>3 DEF OnceInv
<1>5. PICK rec, new, n, m :
        rec = run'[r] /\ new = run'[r].memo /\ n = Len(run[r].memo) /\ m = Len(run'[r].memo)
  OBVIOUS
<1>6. n \in Nat /\ i \in Nat
  <2>1. \E S : run[r] \in RunState(S)
    BY <1>1 DEF IsPlaced
  <2>2. DOMAIN Steps(r) = 1 .. Len(Steps(r))
    BY <1>1, LenProperties DEF GoodFunction, Steps
  <2> QED BY <1>5, <2>1, <2>2, LenProperties DEF RunState, OnlyCall
<1>7. \A v : new = Append(run[r].memo, v) => m = n + 1
  <2>1. PICK S : run[r].memo \in Seq(S)
    <3>1. PICK S : run[r] \in RunState(S)
      BY <1>1 DEF IsPlaced
    <3> QED BY <3>1 DEF RunState
  <2>2. ASSUME NEW v, new = Append(run[r].memo, v) PROVE m = n + 1
    <3>1. run[r].memo \in Seq(S \cup {v})
      BY <2>1, SeqMonotonic
    <3> QED BY <1>5, <2>2, <3>1, AppendProperties
  <2> QED BY <2>2
<1>8. GaveUp(run[r]) => GaveUp(rec)
  BY <1>1, <1>5, GivenUp
<1>9. ~GaveUp(run[r]) => ~Crash(r)
  BY <1>1, CrashHits
<1>10. GaveUp(rec) \/ m = n \/ m = n + 1
  <2>1. CASE GaveUp(run[r])
    BY <1>8, <2>1
  <2>2. CASE ~GaveUp(run[r])
    <3>1. KeepsAnswers(r, run'[r])
      BY <1>1, <1>9, <2>2, AnswersStay
    <3> QED BY <1>5, <1>7, <3>1 DEF KeepsAnswers
  <2> QED BY <2>1, <2>2
<1>11. CASE ToldAs(r, e)' = ToldAs(r, e)
  <2>1. ToldAs(r, e) # {} => GaveUp(rec) \/ i <= m
    <3>1. ToldAs(r, e) # {} => GaveUp(run[r]) \/ i <= n
      BY <1>4, <1>5 DEF OnceOf
    <3> QED BY <1>6, <1>8, <1>10, <3>1
  <2>2. \A k, l \in ToldAs(r, e) : k = l
    BY <1>4 DEF OnceOf
  <2> QED BY <1>5, <1>11, <2>1, <2>2 DEF OnceOf
<1>12. CASE ToldAs(r, e)' # ToldAs(r, e)
  <2>1. PICK f : f = Keyed(r)
    OBVIOUS
  <2>2. f.by = r /\ f.on = Effect(r).on /\ f.name = Effect(r).name
    BY <2>1 DEF Keyed
  <2>3. log' = log \/ log' = Append(log, f)
    BY <1>1, <2>1, RunWrites
  <2>4. log' # log /\ f.on = e.on /\ f.name = e.name
    BY <1>1, <1>12, <2>2, <2>3, ToldStaysSame
  <2>5. PICK op \in Telling : Doing(r, op)
    BY <1>1, <2>4, RunWrites
  <2>6. /\ run[r].pc \in DOMAIN Steps(r) /\ Effect(r).op = op
        /\ \/ /\ Forward(r) /\ run[r].at \in DOMAIN Calls(r, run[r].pc)
              /\ Effect(r) = Calls(r, run[r].pc)[run[r].at]
              /\ Effects(r) = Calls(r, run[r].pc) /\ run[r].pc = Len(run[r].memo) + 1
           \/ /\ run[r].at \in DOMAIN Steps(r)[run[r].pc].undo
              /\ Effect(r) = Steps(r)[run[r].pc].undo[run[r].at]
    BY <1>1, <2>5, CallAt
  <2>7. /\ Forward(r) /\ run[r].at \in DOMAIN Calls(r, run[r].pc) /\ Effects(r) = Calls(r, run[r].pc)
        /\ run[r].pc = n + 1 /\ i = run[r].pc
    BY <1>5, <2>2, <2>4, <2>5, <2>6 DEF OnlyCall
  <2>8. run[r].at = 1 /\ Len(Effects(r)) = 1
    <3>1. Effects(r) = <<e>> /\ run[r].at \in DOMAIN <<e>>
      BY <2>7 DEF OnlyCall
    <3>2. Len(<<e>>) = 1 /\ DOMAIN <<e>> = {1}
      OBVIOUS
    <3> QED BY <3>1, <3>2
  <2>9. ~GaveUp(run[r])
    BY <2>7 DEF Forward, GaveUp
  <2>10. ToldAs(r, e) = {}
    <3>1. ~(i <= n)
      BY <1>6, <2>7
    <3> QED BY <1>4, <1>5, <2>9, <3>1 DEF OnceOf
  <2>11. \A k, l \in ToldAs(r, e)' : k = l
    BY <1>1, <2>3, <2>4, <2>10, OneTold
  <2>12. GaveUp(rec) \/ m = n + 1
    <3>1. Call(r) \/ LoseAnswer(r)
      <4>1. PICK S : log \in Seq(S)
        BY <1>1 DEF LogIs
      <4> QED BY <2>4, <4>1, LogGrows
    <3>2. CASE Call(r)
      <4>1. Answer(r, Written(r)) /\ Gives(r, Written(r))
        BY <3>2 DEF Call, Gives
      <4>2. ~CallsOn(r, run'[r]) /\ ~Undoes(r)
        BY <2>7, <2>8 DEF CallsOn, Forward, Undoes
      <4>3. Records(r, run'[r], Written(r))
        BY <1>1, <2>5, <4>1, <4>2, AnswerOutcome
      <4> QED BY <1>5, <1>7, <4>3 DEF Records
    <3>3. CASE LoseAnswer(r)
      <4>1. Hit(r, run[r].pc) /\ Throw(r)
        BY <3>3 DEF LoseAnswer
      <4>2. run[r].pc \in Nat
        BY <1>6, <2>7
      <4>3. <<r, run[r].mode, run[r].pc>> \in hit'
        BY <4>1, <4>2 DEF Hit
      <4>4. job[r].errors # "retry"
        BY <1>2, <4>3 DEF Repeats
      <4> QED BY <1>1, <1>5, <1>7, <2>5, <2>9, <4>1, <4>4, ThrowKeeps
    <3> QED BY <3>1, <3>2, <3>3
  <2>13. GaveUp(rec) \/ i <= m
    BY <1>6, <2>7, <2>12
  <2> QED BY <1>5, <2>11, <2>13 DEF OnceOf
<1> QED BY <1>11, <1>12

LEMMA OnceOthers ==
  ASSUME LogIs, NEW f, log' = log \/ log' = Append(log, f), NEW r, NEW e, run'[r] = run[r],
         log' # log => f.by # r \/ f.name # e.name, NEW i, OnceOf(r, i, e)
  PROVE  OnceOf(r, i, e)'
<1>1. ToldAs(r, e)' = ToldAs(r, e)
  BY ToldStaysSame
<1> QED BY <1>1 DEF OnceOf

LEMMA OnceSteps == ASSUME EngineInv, InboxInv, OnceInv, [ExamplesNext]_exampleVars PROVE OnceInv'
<1>1. LogIs /\ DOMAIN run = Runs
  BY DEF EngineInv
<1>2. SUFFICES ASSUME NEW r \in Runs, ~Repeats(r)', NEW i, NEW e, OnlyCall(r, i, e)' PROVE OnceOf(r, i, e)'
  BY DEF OnceInv
<1>3. job' = job /\ hit \subseteq hit'
  BY JobsStay, StepsOnlyRun, OthersKeepRuns DEF ExamplesNext, exampleVars, vars, OnlyRuns, Next
<1>4. OnlyCall(r, i, e) /\ ~Repeats(r)
  BY <1>2, <1>3 DEF OnlyCall, Steps, Calls, Repeats
<1>5. OnceOf(r, i, e)
  BY <1>4 DEF OnceInv
<1>6. CASE Next /\ UNCHANGED <<inboxVars, notifierVars>>
  <2>1. PICK q \in Runs : Advance(q) \/ LoseAnswer(q) \/ Crash(q) \/ Elapse(q)
    BY <1>6 DEF Next
  <2>2. CASE q = r
    BY <1>2, <1>4, <2>1, <2>2, OnceStep
  <2>3. CASE q # r
    <3>1. log' = log \/ log' = Append(log, Keyed(q))
      BY <1>1, <2>1, RunWrites
    <3>2. run'[r] = run[r] /\ Keyed(q).by = q
      BY <1>1, <2>1, <2>3, StepsOnlyRun DEF OnlyRuns, Keyed
    <3> QED BY <1>1, <1>5, <2>3, <3>1, <3>2, OnceOthers
  <2> QED BY <2>2, <2>3
<1>7. CASE (InboxNext /\ UNCHANGED notifierVars) \/ (NotifierNext /\ UNCHANGED inboxVars) \/ UNCHANGED exampleVars
  <2>1. Drafts = {} => click = <<>>
    BY DEF EngineInv
  <2>2. /\ UNCHANGED <<job, cell, run, hit>>
        /\ \E f : /\ log' = log \/ log' = Append(log, f)
                  /\ log' # log => Drafts # {} /\ f.name \in Outcomes /\ f.by = 0 /\ \A k \in DOMAIN log : log[k].key # f.key
    BY <1>1, <1>7, <2>1, WhatIsEmitted
  <2>3. PICK f : (log' = log \/ log' = Append(log, f)) /\ (log' # log => f.name \in Outcomes)
    BY <2>2
  <2>4. e.name \notin Outcomes /\ run'[r] = run[r]
    BY <1>4, <2>2 DEF OnlyCall
  <2> QED BY <1>1, <1>5, <2>3, <2>4, OnceOthers
<1> QED BY <1>6, <1>7 DEF ExamplesNext

LEMMA OnceStart == Init => OnceInv
<1>1. ASSUME Init, NEW r, NEW e PROVE ToldAs(r, e) = {}
  BY <1>1 DEF Init, InitEngine, ToldAs
<1> QED BY <1>1 DEF OnceInv, OnceOf

(* Every run tells of a thing at most once, unless it was executed again.   *)
LEMMA OnceInvariance == Spec => [](EngineInv /\ OnceInv)
<1> QED BY EngineInvariance, InboxInvariance, OnceStart, OnceSteps, PTL DEF Spec

-----------------------------------------------------------------------------
(* doc-processor-agent: verify.ts ends well only on a document it has seen. *)
PolledOK(r, d) ==
  /\ Forward(r) /\ run[r].at = 2 /\ run[r].got # 0 => Facts(d, "doc.processed") # {}
  /\ run[r].mode = "completed" => Facts(d, "doc.processed") # {}
PollInv == \A r \in Runs : \A d : job[r] = verify(d) => PolledOK(r, d)

LEMMA VerifyIs ==
  ASSUME NEW r, NEW d, job[r] = verify(d)
  PROVE  /\ job[r].errors = "stop" /\ job[r].trigger = Request
         /\ Len(Steps(r)) = 1 /\ DOMAIN Steps(r) = {1} /\ Steps(r)[1].needs = <<>> /\ Steps(r)[1].undo = <<>>
         /\ Steps(r)[1].does = <<View(d, <<"doc.processed">>), Refuse({0})>>
         /\ Steps(r)[1].does # <<>> /\ Len(Steps(r)[1].does) = 2
         /\ Steps(r)[1].does[1] = View(d, <<"doc.processed">>) /\ Steps(r)[1].does[2] = Refuse({0})
<1>1. PICK does : does = <<View(d, <<"doc.processed">>), Refuse({0})>>
  OBVIOUS
<1>2. PICK s : s = Step("poll", does)
  OBVIOUS
<1>3. s.does = does /\ s.needs = <<>> /\ s.undo = <<>>
  BY <1>2 DEF Step
<1>4. verify(d) = Script("verify", Request, <<s>>, "stop")
  BY <1>1, <1>2 DEF verify
<1>5. PICK steps : steps = <<s>>
  OBVIOUS
<1>6. job[r].errors = "stop" /\ job[r].trigger = Request /\ Steps(r) = steps
  BY <1>4, <1>5 DEF Script, Function, Steps
<1>7. Len(steps) = 1 /\ DOMAIN steps = {1} /\ steps[1] = s
  BY <1>5
<1>8. does # <<>> /\ Len(does) = 2 /\ does[1] = View(d, <<"doc.processed">>) /\ does[2] = Refuse({0})
  BY <1>1
<1> QED BY <1>1, <1>3, <1>6, <1>7, <1>8

LEMMA VerifyStep ==
  ASSUME EngineInv, NEW r \in Runs, NEW d, job[r] = verify(d), PolledOK(r, d),
         Advance(r) \/ LoseAnswer(r) \/ Crash(r) \/ Elapse(r)
  PROVE  PolledOK(r, d)'
<1>1. r \in DOMAIN run /\ IsPlaced(r) /\ IsFunction(job[r]) /\ Len(log) \in Nat /\ LogIs /\ Waits(r)
  BY GoodIsFunction, LogShape DEF EngineInv
<1>2. (log' = log \/ log' = Append(log, Keyed(r))) /\ job' = job
  BY <1>1, RunWrites
<1>3. Facts(d, "doc.processed") \subseteq Facts(d, "doc.processed")'
  BY <1>1, <1>2, FactsOfStreams
<1>4. PICK rec : rec = run'[r]
  OBVIOUS
<1>5. SUFFICES (rec.mode = "forward" /\ rec.at = 2 /\ rec.got # 0) \/ rec.mode = "completed" => Facts(d, "doc.processed") # {}
  BY <1>3, <1>4 DEF PolledOK, Forward
<1>6. /\ job[r].errors = "stop" /\ Len(Steps(r)) = 1 /\ Steps(r)[1].needs = <<>> /\ Len(Steps(r)[1].does) = 2
      /\ Steps(r)[1].does[1] = View(d, <<"doc.processed">>) /\ Steps(r)[1].does[2] = Refuse({0})
  BY VerifyIs
<1>7. PICK S : 0 \in S /\ run[r] \in RunState(S)
  BY <1>1, PlacedRun
<1>8. PICK u \in RunState(S) : u = run[r]
  BY <1>7
<1>9. PICK n : n = Len(run[r].memo) /\ n \in Nat
  BY <1>1, PlacedRun
<1>10. run[r].mode \in {"forward", "parked"} => run[r].pc = 1 /\ Current(r) = Steps(r)[1]
  BY <1>1, <1>6, <1>7, <1>9 DEF IsPlaced, Placed, RunState, Current
<1>11. CASE GaveUp(run[r])
  <2>1. GaveUp(rec)
    BY <1>1, <1>4, <1>11, GivenUp
  <2> QED BY <2>1 DEF GaveUp
<1>12. CASE run[r].mode \in {"waiting", "parked", "completed"}
  <2>1. ~Busy(r) /\ \A op : ~Doing(r, op)
    BY <1>12 DEF Busy, Doing, Working
  <2>2. run[r].mode # "parked"
    <3>1. run[r].mode = "parked" => NoWait(Current(r).does)
      BY <1>6, <1>10 DEF NoWait, View, Refuse
    <3> QED BY <1>1, <3>1 DEF Waits
  <2>3. Start(r)
    BY <2>1, <2>2 DEF Advance, ReadStore, ReadView, Park, Woken, Check, Call, Conflict, Pass, LoseAnswer, Crash, Elapse, CanWrite
  <2>4. Starts(r, rec) \/ Parks(r, rec)
    BY <1>1, <1>4, <2>3, WaitingRuns
  <2>5. rec.mode = "forward" /\ rec.at = 1
    <3>1. ~Parks(r, rec)
      BY <2>1 DEF Parks
    <3> QED BY <1>1, <2>4, <3>1 DEF Starts, Waits
  <2> QED BY <2>5
<1>13. CASE run[r].mode = "forward"
  <2>1. /\ Effects(r) = Steps(r)[1].does /\ ~Undoes(r) /\ Needed(r)
    BY <1>6, <1>10, <1>13 DEF Effects, Undoes, Needed
  <2>2. /\ \A op : Doing(r, op) => run[r].at \in {1, 2} /\ (run[r].at = 1 => op = "view") /\ (run[r].at = 2 => op = "refuse")
    <3>1. run[r].at \in Nat \ {0}
      BY <1>7 DEF RunState
    <3>2. Len(Effects(r)) = 2 /\ Effects(r)[1].op = "view" /\ Effects(r)[2].op = "refuse"
      BY <1>6, <2>1 DEF View, Refuse
    <3>3. ASSUME NEW op, Doing(r, op) PROVE run[r].at <= Len(Effects(r)) /\ Effects(r)[run[r].at].op = op
      BY <3>3 DEF Doing
    <3>4. ASSUME NEW op, Doing(r, op)
          PROVE  run[r].at \in {1, 2} /\ (run[r].at = 1 => op = "view") /\ (run[r].at = 2 => op = "refuse")
      <4>1. PICK at \in Nat \ {0} : at = run[r].at
        BY <3>1
      <4>2. at = 1 \/ at = 2
        BY <3>2, <3>3, <3>4, <4>1
      <4> QED BY <3>2, <3>3, <3>4, <4>1, <4>2
    <3> QED BY <3>4
  <2>3. ~Pass(r) /\ ~Crash(r) /\ ~Start(r) /\ ~Woken(r) /\ ~Elapse(r)
    BY <1>6, <1>13, <2>1 DEF Pass, Crash, Start, Woken, Elapse
  <2>4. (ReadView(r) /\ run[r].at = 1) \/ (Check(r) /\ run[r].at = 2)
    BY <2>2, <2>3 DEF Advance, ReadStore, ReadView, Park, Check, Call, Conflict, LoseAnswer, CanWrite
  <2>5. CASE ReadView(r) /\ run[r].at = 1
    <3>1. PICK m \in 0 .. Len(log) : Answer(r, LastOf(r, m))
      BY <2>5 DEF ReadView
    <3>2. Doing(r, "view") /\ Gives(r, LastOf(r, m))
      BY <2>5 DEF ReadView, Gives
    <3>3. CallsOn(r, rec)
      BY <1>1, <1>4, <1>6, <2>1, <2>5, <3>1, <3>2, AnswerOutcome
    <3>4. rec = [u EXCEPT !.at = @ + 1, !.got = LastOf(r, m)]
      BY <1>1, <1>4, <1>6, <1>8, <2>1, <2>5, <3>1, SetRun DEF Answer
    <3>5. rec.mode = "forward" /\ rec.got = LastOf(r, m)
      BY <1>8, <1>13, <3>4 DEF RunState
    <3>6. ASSUME LastOf(r, m) # 0 PROVE Facts(d, "doc.processed") # {}
      <4>1. Effect(r).on = d /\ Effect(r).names = <<"doc.processed">>
        BY <1>6, <2>1, <2>5 DEF Effect, View
      <4>2. PICK k \in 1 .. m : log[k].on = d /\ Named(log[k].name, <<"doc.processed">>) # {}
        BY <3>6, <4>1 DEF LastOf
      <4>3. log[k].name = "doc.processed"
        BY <4>2 DEF Named
      <4>4. k \in DOMAIN log
        <5>1. PICK l \in Nat : l = Len(log) /\ DOMAIN log = 1 .. l
          BY <1>1, LogShape
        <5>2. m \in 0 .. l
          BY <5>1
        <5> QED BY <4>2, <5>1, <5>2
      <4> QED BY <4>2, <4>3, <4>4 DEF Facts, Stream
    <3> QED BY <3>5, <3>6
  <2>6. CASE Check(r) /\ run[r].at = 2
    <3>1. Effect(r).on = {0}
      BY <1>6, <2>1, <2>6 DEF Effect, Refuse
    <3>2. CASE run[r].got = 0
      <4>1. Set(r, GivesUp(r))
        BY <2>6, <3>1, <3>2 DEF Check
      <4>2. rec = GivesUp(r) /\ GivesUp(r).mode \in {"failed", "undo"}
        BY <1>1, <1>4, <1>13, <4>1, SetRun, GivesUpTo
      <4> QED BY <4>2
    <3>3. CASE run[r].got # 0
      BY <1>13, <2>6, <3>3 DEF PolledOK, Forward
    <3> QED BY <3>2, <3>3
  <2> QED BY <2>4, <2>5, <2>6
<1>14. run[r].mode \in Modes
  BY <1>7 DEF RunState
<1> QED BY <1>11, <1>12, <1>13, <1>14 DEF Modes, GaveUp

LEMMA VerifySteps == ASSUME EngineInv, InboxInv, PollInv, [ExamplesNext]_exampleVars PROVE PollInv'
<1>1. LogIs /\ DOMAIN run = Runs
  BY DEF EngineInv
<1>2. job' = job
  BY JobsStay DEF ExamplesNext, exampleVars, vars
<1>3. SUFFICES ASSUME NEW r \in Runs, NEW d, job[r] = verify(d) PROVE PolledOK(r, d)'
  BY <1>2 DEF PollInv
<1>4. PolledOK(r, d)
  BY <1>3 DEF PollInv
<1>5. ASSUME NEW f, log' = log \/ log' = Append(log, f), run'[r] = run[r] PROVE PolledOK(r, d)'
  <2>1. Facts(d, "doc.processed") \subseteq Facts(d, "doc.processed")'
    BY <1>1, <1>5, FactsOfStreams
  <2> QED BY <1>4, <1>5, <2>1 DEF PolledOK, Forward
<1>6. CASE Next /\ UNCHANGED <<inboxVars, notifierVars>>
  <2>1. PICK q \in Runs : Advance(q) \/ LoseAnswer(q) \/ Crash(q) \/ Elapse(q)
    BY <1>6 DEF Next
  <2>2. CASE q = r
    BY <1>3, <1>4, <2>1, <2>2, VerifyStep
  <2>3. CASE q # r
    <3>1. log' = log \/ log' = Append(log, Keyed(q))
      BY <1>1, <2>1, RunWrites
    <3>2. run'[r] = run[r]
      BY <1>1, <2>1, <2>3, StepsOnlyRun DEF OnlyRuns
    <3> QED BY <1>5, <3>1, <3>2
  <2> QED BY <2>2, <2>3
<1>7. CASE (InboxNext /\ UNCHANGED notifierVars) \/ (NotifierNext /\ UNCHANGED inboxVars) \/ UNCHANGED exampleVars
  <2>1. run' = run /\ \E f : log' = log \/ log' = Append(log, f)
    BY <1>7, OthersKeepRuns
  <2> QED BY <1>5, <2>1
<1> QED BY <1>6, <1>7 DEF ExamplesNext

LEMMA VerifyStart == Init => PollInv
<1>1. ASSUME Init, NEW r \in Runs, NEW d, job[r] = verify(d) PROVE PolledOK(r, d)
  <2>1. job[r].trigger = Request
    BY <1>1, VerifyIs
  <2>2. run[r].mode = "forward" /\ run[r].at = 1
    BY <1>1, <2>1 DEF Init, InitEngine, Idle
  <2> QED BY <2>2 DEF PolledOK
<1> QED BY <1>1 DEF PollInv

LEMMA VerifyInvariance == Spec => []PollInv
<1> QED BY EngineInvariance, InboxInvariance, VerifyStart, VerifySteps, PTL DEF Spec

-----------------------------------------------------------------------------
(* Whom the projections of todo-web, quickstart and the two memories follow:*)
(* no function of the other programs tells what they collect.               *)
Readers == {"page", "research-agent", "doc-processor", "verify"}
Plain(f) ==
  GoodFunction(f, Collected) /\ f.id \notin Readers /\ (f.id = "process-order" => Len(f.steps) # 4)

LEMMA PlainById ==
  /\ \A id, t, s : id \notin Readers /\ id # "process-order" /\ GoodFunction(Function(id, t, s), Collected) =>
       Plain(Function(id, t, s))
  /\ \A id, t, s, e : id \notin Readers /\ id # "process-order" /\ GoodFunction(Script(id, t, s, e), Collected) =>
       Plain(Script(id, t, s, e))
<1>1. ASSUME NEW id, NEW t, NEW s, NEW e
      PROVE  Function(id, t, s).id = id /\ Script(id, t, s, e).id = id
  BY DEF Function, Script
<1> QED BY <1>1 DEF Plain

LEMMA PlainShops ==
  /\ Plain(NotDeployed) /\ Plain(Setup) /\ Plain(ProcessOrderCreated) /\ Plain(ProcessOrderShipped)
  /\ \A o, v : Plain(PlaceOrder(o, v)) /\ Plain(FulfillOrder(o))
  /\ \A tx : Plain(EvaluateFraud(tx))
  /\ \A s : Plain(Upload(s)) /\ Plain(Edit(s)) /\ Plain(IngestCorpus(s)) /\ \A x, e : Plain(ProcessUpload(s, x, e))
  /\ \A o, p : Plain(PlaceOrders(o, p)) /\ Plain(PostTwice(o, p)) /\ Plain(GoProcessOrder(o, p)) /\ Plain(process_order(o))
<1>1. Collected \subseteq Reserved \cup Collected
  OBVIOUS
<1>2. Plain(NotDeployed)
  BY UndeployedFunction DEF Plain, Readers
<1>3. Plain(Setup) /\ Plain(ProcessOrderCreated) /\ Plain(ProcessOrderShipped)
  BY <1>1, AuditFunctions, PlainById DEF Setup, ProcessOrderCreated, ProcessOrderShipped, Readers
<1>4. \A o, v : Plain(PlaceOrder(o, v)) /\ Plain(FulfillOrder(o))
  BY <1>1, OrderFunctions, PlainById DEF PlaceOrder, FulfillOrder, Readers
<1>5. \A tx : Plain(EvaluateFraud(tx))
  BY EvaluationFunctions, PlainById DEF EvaluateFraud, Readers
<1>6. \A s : Plain(Upload(s)) /\ Plain(Edit(s)) /\ \A x, e : Plain(ProcessUpload(s, x, e))
  BY UploadFunctions, PlainById DEF Upload, Edit, ProcessUpload, Readers
<1>7. \A s : Plain(IngestCorpus(s))
  BY IngestFunctions, PlainById DEF IngestCorpus, Readers
<1>8. \A o, p : Plain(PlaceOrders(o, p)) /\ Plain(PostTwice(o, p))
  BY <1>1, QuickFunctions, PlainById DEF PlaceOrders, PostTwice, Readers
<1>9. ASSUME NEW o, NEW p PROVE Plain(GoProcessOrder(o, p)) /\ Plain(process_order(o))
  <2>1. GoodFunction(GoProcessOrder(o, p), Collected) /\ GoodFunction(process_order(o), Collected)
    BY <1>1, QuickFunctions
  <2>2. PICK a, b, c : a = ParseOrder(p) /\ b = ChargeOrder /\ c = ConfirmOrder
    OBVIOUS
  <2>3. GoProcessOrder(o, p).id = "process-order" /\ GoProcessOrder(o, p).steps = <<a, b, c>> /\ Len(<<a, b, c>>) = 3
    BY <2>2 DEF GoProcessOrder, Function
  <2>4. PICK x, y : x = Step("price", <<>>) /\ y = Step("receipt", <<>>)
    OBVIOUS
  <2>5. process_order(o).id = "process-order" /\ process_order(o).steps = <<x, y>> /\ Len(<<x, y>>) = 2
    BY <2>4 DEF process_order, Function
  <2> QED BY <2>1, <2>3, <2>5 DEF Plain, Readers
<1> QED BY <1>2, <1>3, <1>4, <1>5, <1>6, <1>7, <1>8, <1>9

LEMMA PlainAgents ==
  /\ \A d : Plain(OpenPr(d))
  /\ \A c, d : Plain(ReconcileStatement(c, d)) /\ Plain(SweepDeadlines(c, d)) /\ Plain(CodeReviewAgent(c, d))
               /\ Plain(ApprovalsAgent(c, d)) /\ \A a : Plain(ReconciliationCase(c, d, a))
  /\ \A r : \A d \in Outcomes : Plain(ApproveContact(r, d)) /\ Plain(ApproveReview(r, d))
  /\ \A c : \A s \in {"confirmed", "unclear"} : Plain(ReplyToCase(c, s))
<1>1. Collected \subseteq Reserved \cup Collected
  OBVIOUS
<1>2. \A d : Plain(OpenPr(d))
  BY <1>1, PeopleFunctions, PlainById DEF OpenPr, Readers
<1>3. \A c, d : Plain(ReconcileStatement(c, d)) /\ Plain(SweepDeadlines(c, d))
  BY <1>1, PeopleFunctions, PlainById DEF ReconcileStatement, SweepDeadlines, Readers
<1>4. \A c, d : Plain(CodeReviewAgent(c, d)) /\ Plain(ApprovalsAgent(c, d))
  BY <1>1, PeopleFunctions, PlainById DEF CodeReviewAgent, ApprovalsAgent, Readers
<1>5. \A c, d, a : Plain(ReconciliationCase(c, d, a))
  BY <1>1, PeopleFunctions, PlainById DEF ReconciliationCase, Readers
<1>6. \A r : \A d \in Outcomes : Plain(ApproveContact(r, d)) /\ Plain(ApproveReview(r, d))
  BY <1>1, PeopleFunctions, PlainById DEF ApproveContact, ApproveReview, Readers
<1>7. \A c : \A s \in {"confirmed", "unclear"} : Plain(ReplyToCase(c, s))
  BY <1>1, PeopleFunctions, PlainById DEF ReplyToCase, Readers
<1> QED BY <1>2, <1>3, <1>4, <1>5, <1>6, <1>7

LEMMA PlainFits ==
  ASSUME NEW m, NEW i \in Runs
  PROVE  /\ Plain(Program(m, <<>>).runs[i])
         /\ \A a : Plain(a) => Plain(Program(m, <<a>>).runs[i])
         /\ \A a, b : Plain(a) /\ Plain(b) => Plain(Program(m, <<a, b>>).runs[i])
         /\ \A a, b, c : Plain(a) /\ Plain(b) /\ Plain(c) => Plain(Program(m, <<a, b, c>>).runs[i])
         /\ \A a, b, c, d : Plain(a) /\ Plain(b) /\ Plain(c) /\ Plain(d) =>
              Plain(Program(m, <<a, b, c, d>>).runs[i])
         /\ \A a, b, c, d, e : Plain(a) /\ Plain(b) /\ Plain(c) /\ Plain(d) /\ Plain(e) =>
              Plain(Program(m, <<a, b, c, d, e>>).runs[i])
<1>1. ASSUME NEW S, \A j \in DOMAIN S : Plain(S[j])
      PROVE  Plain(Program(m, S).runs[i])
  BY <1>1, PlainShops DEF Program
<1>2. \A j \in DOMAIN <<>> : Plain(<<>>[j])
  OBVIOUS
<1>3. \A a : Plain(a) => \A j \in DOMAIN <<a>> : Plain(<<a>>[j])
  OBVIOUS
<1>4. \A a, b : Plain(a) /\ Plain(b) => \A j \in DOMAIN <<a, b>> : Plain(<<a, b>>[j])
  OBVIOUS
<1>5. \A a, b, c : Plain(a) /\ Plain(b) /\ Plain(c) => \A j \in DOMAIN <<a, b, c>> : Plain(<<a, b, c>>[j])
  OBVIOUS
<1>6. \A a, b, c, d : Plain(a) /\ Plain(b) /\ Plain(c) /\ Plain(d) =>
        \A j \in DOMAIN <<a, b, c, d>> : Plain(<<a, b, c, d>>[j])
  OBVIOUS
<1>7. \A a, b, c, d, e : Plain(a) /\ Plain(b) /\ Plain(c) /\ Plain(d) /\ Plain(e) =>
        \A j \in DOMAIN <<a, b, c, d, e>> : Plain(<<a, b, c, d, e>>[j])
  OBVIOUS
<1> QED BY <1>1, <1>2, <1>3, <1>4, <1>5, <1>6, <1>7

Collecting(jobs) ==
  jobs = Todos.runs \/ jobs = QuickOrdering.runs \/ jobs = Research.runs \/ jobs = Documents.runs
Deployment == Collecting(job) \/ \A r \in Runs : Plain(job[r])

LEMMA PlainPrograms ==
  ASSUME NEW p \in Programs
  PROVE  Collecting(p.runs) \/ \A i \in Runs : Plain(p.runs[i])
<1>1. SUFFICES ASSUME ~Collecting(p.runs), NEW i \in Runs PROVE Plain(p.runs[i])
  OBVIOUS
<1>2. /\ \A v : Plain(DuplicateOrder(v).runs[i])
      /\ Plain(TwoOrders.runs[i])
  BY PlainFits, PlainShops DEF DuplicateOrder, TwoOrders
<1>3. Plain(RacingCards.runs[i]) /\ Plain(DuplicateTransaction.runs[i])
  BY PlainFits, PlainShops DEF RacingCards, DuplicateTransaction
<1>4. Plain(Uploads.runs[i]) /\ Plain(Ingests.runs[i]) /\ Plain(Compliance.runs[i])
  BY PlainFits, PlainShops DEF Uploads, Ingests, Compliance
<1>5. Plain(GoOrdering.runs[i]) /\ Plain(FlaskOrdering.runs[i])
  BY PlainFits, PlainShops DEF GoOrdering, FlaskOrdering
<1>6. "approved" \in Outcomes /\ "rejected" \in Outcomes
  BY DEF Outcomes
<1>7. Plain(Statements.runs[i]) /\ Plain(Untriaged.runs[i]) /\ Plain(NextPeriod.runs[i])
  BY <1>6, PlainFits, PlainAgents DEF Statements, Untriaged, NextPeriod, Statement
<1>8. \A s \in {"confirmed", "unclear"} : Plain(SweptReply(s).runs[i])
  BY <1>6, PlainFits, PlainAgents DEF SweptReply, Statement
<1>9. Plain(Review.runs[i]) /\ Plain(Draft(TRUE).runs[i]) /\ Plain(Draft(FALSE).runs[i])
  BY <1>6, PlainFits, PlainAgents DEF Review, Draft
<1>10. Plain(Alerting.runs[i])
  <2>1. Alerting.runs = Program(2, <<>>).runs
    BY DEF Alerting, Watched, Program
  <2> QED BY <2>1, PlainFits
<1> QED BY <1>1, <1>2, <1>3, <1>4, <1>5, <1>7, <1>8, <1>9, <1>10 DEF Programs, Collecting

LEMMA DeploymentStays == ASSUME Deployment, [ExamplesNext]_exampleVars PROVE Deployment'
<1>1. job' = job
  BY JobsStay DEF ExamplesNext, exampleVars, vars
<1> QED BY <1>1 DEF Deployment

(* What a behaviour deploys it keeps deployed.                              *)
LEMMA Deployments == Spec => []Deployment
<1>1. Init => Deployment
  BY PlainPrograms DEF Init, Deployment
<1> QED BY <1>1, DeploymentStays, PTL DEF Spec

LEMMA RunsOfFour ==
  ASSUME NEW m, NEW a, NEW b, NEW c, NEW d, NEW r \in Runs
  PROVE  LET jobs == Program(m, <<a, b, c, d>>).runs IN
           \/ r = 1 /\ jobs[r] = a
           \/ r = 2 /\ jobs[r] = b
           \/ r = 3 /\ jobs[r] = c
           \/ r = 4 /\ jobs[r] = d
           \/ r \notin 1 .. 4 /\ jobs[r] = NotDeployed
<1>1. PICK S : S = <<a, b, c, d>>
  OBVIOUS
<1>2. DOMAIN S = 1 .. 4 /\ S[1] = a /\ S[2] = b /\ S[3] = c /\ S[4] = d
  BY <1>1
<1>3. Program(m, S).runs[r] = IF r \in 1 .. 4 THEN S[r] ELSE NotDeployed
  BY <1>2 DEF Program
<1> QED BY <1>1, <1>2, <1>3

LEMMA RunsOfTwo ==
  ASSUME NEW m, NEW a, NEW b, NEW r \in Runs
  PROVE  LET jobs == Program(m, <<a, b>>).runs IN jobs[r] = a \/ jobs[r] = b \/ jobs[r] = NotDeployed
<1>1. PICK S : S = <<a, b>>
  OBVIOUS
<1>2. DOMAIN S = 1 .. 2 /\ S[1] = a /\ S[2] = b
  BY <1>1
<1>3. Program(m, S).runs[r] = IF r \in 1 .. 2 THEN S[r] ELSE NotDeployed
  BY <1>2 DEF Program
<1> QED BY <1>1, <1>2, <1>3

(* Who tells what the projections collect.                                  *)
LEMMA TodosDeployed ==
  ASSUME job = Todos.runs, NEW r \in Runs
  PROVE  \/ r = 1 /\ job[r] = User(<<AddTodo("t1"), AddTodo("t2")>>)
         \/ r = 2 /\ job[r] = UserOf("t1", <<ToggleTodo("t1", TRUE), ToggleTodo("t1", FALSE)>>)
         \/ r = 3 /\ job[r] = UserOf("t2", <<ToggleTodo("t2", TRUE), DeleteTodo("t2")>>)
         \/ r = 4 /\ job[r] = ProcessTodo("t1", "todo.added")
         \/ r \notin 1 .. 4 /\ job[r] = NotDeployed
BY RunsOfFour DEF Todos

LEMMA OrdersDeployed ==
  ASSUME job = QuickOrdering.runs, NEW r \in Runs
  PROVE  \/ r = 1 /\ job[r] = PlaceOrders("o1", "o2")
         \/ r = 2 /\ job[r] = QuickOrder("o1")
         \/ r = 3 /\ job[r] = QuickOrder("o2")
         \/ r = 4 /\ job[r] = HourlyOrderReport
         \/ r \notin 1 .. 4 /\ job[r] = NotDeployed
BY RunsOfFour DEF QuickOrdering

LEMMA DocumentsDeployed ==
  ASSUME job = Documents.runs, NEW r \in Runs
  PROVE  job[r] \in {trigger("d1"), docProcessor("d1"), verify("d1"), NotDeployed}
BY RunsOfFour DEF Documents

LEMMA ResearchDeployed ==
  ASSUME job = Research.runs, NEW r \in Runs
  PROVE  job[r] \in {researchAgent("quick"), researchAgent("deep"), NotDeployed}
BY RunsOfTwo DEF Research

-----------------------------------------------------------------------------
(* The one step of a run that tells something of a name.                    *)
TellsOnly(r, i, e) ==
  /\ i \in DOMAIN Steps(r) /\ Calls(r, i) = <<e>> /\ e.op \in Telling /\ e.name \notin Outcomes
  /\ \A i2 \in DOMAIN Steps(r) :
       (i2 # i => SparesAll(Calls(r, i2), {e.name})) /\ SparesAll(Steps(r)[i2].undo, {e.name})

LEMMA TellsIsCall ==
  ASSUME NEW r, NEW i, NEW e, TellsOnly(r, i, e)
  PROVE  OnlyCall(r, i, e)
<1>1. ASSUME NEW i2 \in DOMAIN Steps(r), NEW j \in DOMAIN Calls(r, i2), Calls(r, i2)[j].op \in Telling,
             Calls(r, i2)[j].name = e.name
      PROVE  i2 = i
  BY <1>1 DEF TellsOnly, SparesAll, Spares
<1>2. ASSUME NEW i2 \in DOMAIN Steps(r), NEW j \in DOMAIN Steps(r)[i2].undo, Steps(r)[i2].undo[j].op \in Telling
      PROVE  Steps(r)[i2].undo[j].name # e.name
  BY <1>2 DEF TellsOnly, SparesAll, Spares
<1> QED BY <1>1, <1>2 DEF TellsOnly, OnlyCall

LEMMA FactsAreItsStep ==
  ASSUME EngineInv, NEW r \in Runs, NEW i, NEW e, TellsOnly(r, i, e), NEW k \in DOMAIN log, log[k].by = r,
         log[k].name = e.name
  PROVE  k \in ToldAs(r, e) /\ Caused(k, r)
<1>1. ~IsDecision(k)
  BY DEF IsDecision, TellsOnly
<1>2. FromRun(k, r)
  BY <1>1 DEF EngineInv, Sourced
<1>3. PICK i2 \in DOMAIN Steps(r) : DoneBy(k, r, i2) \/ UndoneBy(k, r, i2)
  BY <1>2 DEF FromRun
<1>4. SparesAll(Steps(r)[i2].undo, {e.name}) /\ (i2 # i => SparesAll(Calls(r, i2), {e.name}))
  BY DEF TellsOnly
<1>5. ~UndoneBy(k, r, i2)
  BY <1>4 DEF UndoneBy, SparesAll, Spares, IsFactOf
<1>6. PICK j \in DOMAIN Calls(r, i2) : Calls(r, i2)[j].op \in Telling /\ IsFactOf(k, r, Calls(r, i2)[j])
  BY <1>3, <1>5 DEF DoneBy
<1>7. i2 = i
  BY <1>4, <1>6 DEF SparesAll, Spares, IsFactOf
<1>8. Calls(r, i) = <<e>>
  BY DEF TellsOnly
<1>9. Calls(r, i2)[j] = e
  BY <1>6, <1>7, <1>8
<1> QED BY <1>2, <1>6, <1>9 DEF IsFactOf, ToldAs, FromRun

LEMMA FactsAreFinite ==
  ASSUME LogIs
  PROVE  /\ IsFiniteSet(DOMAIN log) /\ \A r, n : IsFiniteSet(FactsBy(r, n))
         /\ \A n : IsFiniteSet({k \in DOMAIN log : log[k].name = n})
<1>1. IsFiniteSet(DOMAIN log)
  BY LogShape, FS_Interval
<1> QED BY <1>1, FS_Subset DEF FactsBy

LEMMA TellsOnce ==
  ASSUME EngineInv, OnceInv, NEW r \in Runs, ~Repeats(r), NEW i, NEW e, TellsOnly(r, i, e)
  PROVE  Cardinality(FactsBy(r, e.name)) <= 1
<1>1. OnceOf(r, i, e)
  BY TellsIsCall DEF OnceInv
<1>2. \A k \in FactsBy(r, e.name) : k \in ToldAs(r, e)
  BY FactsAreItsStep DEF FactsBy
<1>3. \A k, l \in FactsBy(r, e.name) : k = l
  BY <1>1, <1>2 DEF OnceOf
<1>4. IsFiniteSet(FactsBy(r, e.name))
  BY FactsAreFinite DEF EngineInv
<1> QED BY <1>3, <1>4, AllSame

(* A name that no function of the program tells.                            *)
LEMMA UntoldBy ==
  ASSUME EngineInv, NEW r \in Runs, NEW n, n \notin Outcomes, GoodFunction(job[r], {n})
  PROVE  FactsBy(r, n) = {}
<1>1. SUFFICES ASSUME NEW k \in FactsBy(r, n) PROVE FALSE
  OBVIOUS
<1>2. k \in DOMAIN log /\ log[k].by = r /\ log[k].name = n
  BY <1>1 DEF FactsBy
<1>3. FromRun(k, r)
  BY <1>2 DEF EngineInv, Sourced, IsDecision
<1>4. PICK i \in DOMAIN Steps(r) : DoneBy(k, r, i) \/ UndoneBy(k, r, i)
  BY <1>3 DEF FromRun
<1>5. GoodStep(Steps(r)[i], {n})
  BY <1>4 DEF GoodFunction, Steps
<1> QED BY <1>2, <1>4, <1>5 DEF DoneBy, UndoneBy, IsFactOf, GoodStep, SparesAll, Spares, Calls

LEMMA PlainLast ==
  ASSUME NEW r, NEW i, NEW s, Steps(r)[i] = s, NEW n, NEW e, s = Step(n, <<e>>), e.op \in Telling,
         e.op = "append" => e.key = NoKey
  PROVE  DOMAIN Calls(r, i) = {1} /\ Calls(r, i)[1] = e /\ Calls(r, i) = <<e>> /\ PlainCall(r, i, 1)
         /\ Steps(r)[i].undo = <<>>
<1>1. Calls(r, i) = <<e>> /\ Steps(r)[i].needs = <<>> /\ Steps(r)[i].undo = <<>>
  BY DEF Calls, Step
<1>2. PICK c : c = Calls(r, i)
  OBVIOUS
<1>3. c = <<e>> /\ Len(c) = 1 /\ DOMAIN c = {1} /\ c[1] = e
  BY <1>1, <1>2
<1>4. e.op # "wait"
  BY DEF Telling
<1>5. NoWait(c)
  BY <1>3, <1>4 DEF NoWait
<1> QED BY <1>1, <1>2, <1>3, <1>5 DEF PlainCall

Remembering == Emit("agent.research.completed", "agent-memory")
LEMMA ResearchIs ==
  ASSUME NEW r, NEW depth \in {"quick", "deep"}, job[r] = researchAgent(depth)
  PROVE  /\ job[r].errors = "retry" /\ job[r].id = "research-agent"
         /\ \E i : /\ TellsOnly(r, i, Remembering) /\ Calls(r, i)[1] = Remembering
                   /\ 1 \in DOMAIN Calls(r, i) /\ PlainCall(r, i, 1)
<1>1. PICK n \in Nat : planQueries(depth) = 1 .. n
  <2>1. planQueries("quick") = 1 .. 2 /\ planQueries("deep") = 1 .. 5
    BY DEF planQueries
  <2> QED BY <2>1
<1>2. PICK m, w : m = AppendToMemory("agent-memory", "agent.research.completed") /\ w = summarizeWith
  OBVIOUS
<1> DEFINE searches == [q \in 1 .. n |-> webSearch(q)]
           T == {webSearch(q) : q \in 1 .. n} \cup {w, m}
<1>3. searches \in Seq(T) /\ Len(searches) = n /\ DOMAIN searches = 1 .. n
  OBVIOUS
<1>4. <<w, m>> \in Seq(T) /\ Len(<<w, m>>) = 2 /\ <<w, m>>[1] = w /\ <<w, m>>[2] = m
  OBVIOUS
<1>5. Steps(r) = searches \o <<w, m>> /\ job[r].errors = "retry" /\ job[r].id = "research-agent"
  BY <1>1, <1>2 DEF researchAgent, Function, Steps
<1>6. \A i \in 1 .. n : searches[i] = webSearch(i)
  OBVIOUS
<1> HIDE DEF searches, T
<1>7. /\ Len(Steps(r)) = n + 2 /\ \A i \in 1 .. n + 2 : Steps(r)[i] = IF i <= n THEN searches[i] ELSE <<w, m>>[i - n]
      /\ Steps(r) \in Seq(T)
  <2>1. PICK s : s = <<w, m>>
    OBVIOUS
  <2>2. s \in Seq(T) /\ Len(s) = 2
    BY <1>4, <2>1
  <2> QED BY <1>3, <1>5, <2>1, <2>2, ConcatProperties
<1>8. DOMAIN Steps(r) = 1 .. n + 2
  BY <1>7, LenProperties
<1>9. Steps(r)[n + 2] = m
  <2>1. n + 2 \in 1 .. n + 2 /\ ~(n + 2 <= n) /\ (n + 2) - n = 2
    OBVIOUS
  <2> QED BY <1>4, <1>7, <2>1
<1>10. ASSUME NEW i \in DOMAIN Steps(r), i # n + 2 PROVE Calls(r, i) = <<>> /\ Steps(r)[i].undo = <<>>
  <2>1. CASE i <= n
    <3>1. Steps(r)[i] = webSearch(i)
      BY <1>6, <1>7, <1>8, <2>1
    <3> QED BY <3>1 DEF Calls, webSearch, Step
  <2>2. CASE ~(i <= n)
    <3>1. i \in 1 .. n + 2 /\ i - n = 1
      BY <1>8, <1>10, <2>2
    <3>2. Steps(r)[i] = w
      BY <1>4, <1>7, <2>2, <3>1
    <3> QED BY <1>2, <3>2 DEF Calls, summarizeWith, Step
  <2> QED BY <2>1, <2>2
<1>11. Remembering.op = "append" /\ Remembering.key = NoKey /\ Remembering.name = "agent.research.completed"
  BY DEF Remembering, Emit, Record
<1>12. "append" \in Telling /\ Remembering.name \notin Outcomes
  BY <1>11 DEF Telling, Outcomes
<1>13. m = Step("memory.append", <<Remembering>>)
  BY <1>2 DEF AppendToMemory, Remembering
<1>14. /\ Calls(r, n + 2) = <<Remembering>> /\ Calls(r, n + 2)[1] = Remembering /\ DOMAIN Calls(r, n + 2) = {1}
       /\ PlainCall(r, n + 2, 1) /\ Steps(r)[n + 2].undo = <<>>
  BY <1>9, <1>11, <1>12, <1>13, PlainLast
<1>15. n + 2 \in DOMAIN Steps(r)
  BY <1>8
<1>16. TellsOnly(r, n + 2, Remembering)
  BY <1>10, <1>11, <1>12, <1>14, <1>15, SparingAll DEF TellsOnly
<1> QED BY <1>5, <1>14, <1>16

DocProcessed(d) == Emit("doc.processed", d)
LEMMA DocProcessorIs ==
  ASSUME NEW r, NEW d, job[r] = docProcessor(d)
  PROVE  /\ job[r].errors = "retry" /\ job[r].id = "doc-processor" /\ job[r].trigger[2] = d
         /\ 4 \in DOMAIN Steps(r) /\ 1 \in DOMAIN Calls(r, 4) /\ Calls(r, 4)[1] = DocProcessed(d)
         /\ DocProcessed(d).on = d /\ DocProcessed(d).name = "doc.processed" /\ PlainCall(r, 4, 1)
<1>1. PICK a, b, c, m : a = ocr /\ b = classify /\ c = publish /\ m = AppendToMemory(d, "doc.processed")
  OBVIOUS
<1>2. PICK s : s = <<a, b, c, m>>
  OBVIOUS
<1>3. DOMAIN s = 1 .. 4 /\ s[4] = m
  BY <1>2
<1>4. job[r] = Function("doc-processor", OnFact(d, "doc.received"), s)
  BY <1>1, <1>2 DEF docProcessor
<1>5. Steps(r) = s /\ job[r].errors = "retry" /\ job[r].id = "doc-processor" /\ job[r].trigger = OnFact(d, "doc.received")
  BY <1>4 DEF Function, Steps
<1>6. job[r].trigger[2] = d
  BY <1>5 DEF OnFact
<1>7. /\ DocProcessed(d).op = "append" /\ DocProcessed(d).key = NoKey /\ DocProcessed(d).on = d
      /\ DocProcessed(d).name = "doc.processed" /\ "append" \in Telling
  BY DEF DocProcessed, Emit, Record, Telling
<1>8. m = Step("memory.append", <<DocProcessed(d)>>)
  BY <1>1 DEF AppendToMemory, DocProcessed
<1>9. DOMAIN Calls(r, 4) = {1} /\ Calls(r, 4)[1] = DocProcessed(d) /\ PlainCall(r, 4, 1)
  BY <1>3, <1>5, <1>7, <1>8, PlainLast
<1> QED BY <1>3, <1>5, <1>6, <1>7, <1>9

-----------------------------------------------------------------------------
(* Where a reader of the log runs, its program is deployed.                 *)
LEMMA CollectorIds ==
  /\ NotDeployed.id = "none" /\ HourlyOrderReport.id = "hourly-order-report"
  /\ \A o, p : PlaceOrders(o, p).id = "emit" /\ QuickOrder(o).id = "process-order"
  /\ \A s, t : User(s).id = "page" /\ UserOf(t, s).id = "page" /\ ProcessTodo(t, s).id = "process-todo"
  /\ \A d : /\ researchAgent(d).id = "research-agent" /\ docProcessor(d).id = "doc-processor"
            /\ trigger(d).id = "trigger" /\ verify(d).id = "verify"
<1>1. \A id, t, s, e : Function(id, t, s).id = id /\ Script(id, t, s, e).id = id
  BY DEF Function, Script
<1> QED BY <1>1 DEF NotDeployed, HourlyOrderReport, PlaceOrders, QuickOrder, User, UserOf, ProcessTodo, researchAgent,
                    docProcessor, trigger, verify

LEMMA WhoReads ==
  ASSUME Deployment, NEW r \in Runs
  PROVE  /\ job[r].id = "research-agent" => job = Research.runs
         /\ job[r].id = "page" => job = Todos.runs
         /\ job[r].id = "doc-processor" => job = Documents.runs /\ job[r] = docProcessor("d1")
         /\ job[r].id = "verify" => job = Documents.runs /\ job[r] = verify("d1")
         /\ job[r].id = "process-order" /\ Len(job[r].steps) = 4 => job = QuickOrdering.runs
<1>1. job = Todos.runs => job[r].id \in {"page", "process-todo", "none"}
  BY TodosDeployed, CollectorIds
<1>2. job = QuickOrdering.runs => job[r].id \in {"emit", "process-order", "hourly-order-report", "none"}
  BY OrdersDeployed, CollectorIds
<1>3. job = Research.runs => job[r].id \in {"research-agent", "none"}
  BY ResearchDeployed, CollectorIds
<1>4. job = Documents.runs => job[r].id \in {"trigger", "doc-processor", "verify", "none"}
  BY DocumentsDeployed, CollectorIds
<1>5. job = Documents.runs => /\ job[r].id = "doc-processor" => job[r] = docProcessor("d1")
                              /\ job[r].id = "verify" => job[r] = verify("d1")
  BY DocumentsDeployed, CollectorIds
<1>6. Plain(job[r]) => /\ job[r].id \notin Readers
                       /\ ~(job[r].id = "process-order" /\ Len(job[r].steps) = 4)
  BY DEF Plain
<1> QED BY <1>1, <1>2, <1>3, <1>4, <1>5, <1>6 DEF Deployment, Collecting, Readers

LEMMA OnlyResearchers ==
  ASSUME Deployment, NEW r \in Runs, job[r].id # "research-agent"
  PROVE  GoodFunction(job[r], {"agent.research.completed"})
<1> DEFINE N == {"agent.research.completed"}
<1>1. N \subseteq Reserved \cup Collected /\ "todo.added" \notin N
  BY DEF Collected
<1>2. N \subseteq Collected
  BY DEF Collected
<1> SUFFICES GoodFunction(job[r], N)
  OBVIOUS
<1> HIDE DEF N
<1>3. GoodFunction(NotDeployed, N)
  BY UndeployedFunction
<1>4. CASE job = Todos.runs
  <2>1. /\ GoodFunction(User(<<AddTodo("t1"), AddTodo("t2")>>), N)
        /\ GoodFunction(UserOf("t1", <<ToggleTodo("t1", TRUE), ToggleTodo("t1", FALSE)>>), N)
        /\ GoodFunction(UserOf("t2", <<ToggleTodo("t2", TRUE), DeleteTodo("t2")>>), N)
        /\ GoodFunction(ProcessTodo("t1", "todo.added"), N)
    BY <1>1, TodoFunctions
  <2> QED BY <1>3, <1>4, <2>1, TodosDeployed
<1>5. CASE job = QuickOrdering.runs
  BY <1>1, <1>3, <1>5, OrdersDeployed, QuickFunctions
<1>6. CASE job = Research.runs
  BY <1>3, <1>6, ResearchDeployed, CollectorIds
<1>7. CASE job = Documents.runs
  BY <1>1, <1>3, <1>7, DocumentsDeployed, AgentFunctions
<1>8. CASE Plain(job[r])
  BY <1>2, <1>8, FewerSpared DEF Plain
<1> QED BY <1>4, <1>5, <1>6, <1>7, <1>8 DEF Deployment, Collecting

LEMMA DocumentsAgree ==
  ASSUME EngineInv, PollInv, Deployment, NEW r \in Runs, run[r].mode = "completed"
  PROVE  /\ job[r].id = "doc-processor" => job[r].trigger[2] \in docMemory({})
         /\ job[r].id = "verify" => job[r].steps[1].does[1].on \in docMemory({})
<1>1. LogIs
  BY DEF EngineInv
<1>2. ASSUME job[r].id = "doc-processor" PROVE job[r].trigger[2] \in docMemory({})
  <2>1. job[r] = docProcessor("d1")
    BY <1>2, WhoReads
  <2>2. /\ job[r].errors = "retry" /\ job[r].trigger[2] = "d1" /\ 4 \in DOMAIN Steps(r) /\ 1 \in DOMAIN Calls(r, 4)
        /\ Calls(r, 4)[1] = DocProcessed("d1") /\ PlainCall(r, 4, 1)
        /\ DocProcessed("d1").on = "d1" /\ DocProcessed("d1").name = "doc.processed"
    BY <2>1, DocProcessorIs
  <2>3. HasFact(r, Calls(r, 4)[1])
    BY <2>2, DoneIsTold
  <2>4. PICK k \in DOMAIN log : log[k].on = "d1" /\ log[k].name = "doc.processed"
    BY <2>2, <2>3 DEF HasFact, IsFactOf
  <2> QED BY <1>1, <2>2, <2>4, DocsHold
<1>3. ASSUME job[r].id = "verify" PROVE job[r].steps[1].does[1].on \in docMemory({})
  <2>1. job[r] = verify("d1")
    BY <1>3, WhoReads
  <2>2. job[r].steps[1].does[1] = View("d1", <<"doc.processed">>)
    BY <2>1, VerifyIs DEF Steps
  <2>3. job[r].steps[1].does[1].on = "d1"
    BY <2>2 DEF View
  <2>4. Facts("d1", "doc.processed") # {}
    BY <2>1 DEF PollInv, PolledOK
  <2>5. PICK k \in DOMAIN log : log[k].on = "d1" /\ log[k].name = "doc.processed"
    BY <2>4 DEF Facts, Stream
  <2> QED BY <1>1, <2>3, <2>5, DocsHold
<1> QED BY <1>2, <1>3

LEMMA ResearchersTell ==
  ASSUME EngineInv, Deployment, NEW r \in Runs, job[r].id = "research-agent", run[r].mode = "completed"
  PROVE  \E k \in DOMAIN log : log[k].by = r /\ log[k].name = "agent.research.completed"
<1>1. PICK depth \in {"quick", "deep"} : job[r] = researchAgent(depth)
  BY WhoReads, ResearchDeployed, CollectorIds
<1>2. PICK i : /\ TellsOnly(r, i, Remembering) /\ Calls(r, i)[1] = Remembering /\ 1 \in DOMAIN Calls(r, i)
               /\ PlainCall(r, i, 1) /\ job[r].errors = "retry"
  BY <1>1, ResearchIs
<1>3. HasFact(r, Calls(r, i)[1])
  BY <1>2, DoneIsTold DEF TellsOnly
<1>4. Remembering.name = "agent.research.completed"
  BY DEF Remembering, Emit, Record
<1> QED BY <1>2, <1>3, <1>4 DEF HasFact, IsFactOf

LEMMA ResearchOnce ==
  ASSUME EngineInv, OnceInv, Deployment, {h \in hit : job[h[1]].id = "research-agent"} = {}, NEW r \in Runs
  PROVE  Cardinality(FactsBy(r, "agent.research.completed")) <= 1
<1>1. CASE job[r].id = "research-agent"
  <2>1. PICK depth \in {"quick", "deep"} : job[r] = researchAgent(depth)
    BY <1>1, WhoReads, ResearchDeployed, CollectorIds
  <2>2. PICK i : TellsOnly(r, i, Remembering)
    BY <2>1, ResearchIs
  <2>3. Remembering.name = "agent.research.completed"
    BY DEF Remembering, Emit, Record
  <2>4. ~Repeats(r)
    BY <1>1 DEF Repeats
  <2>5. Cardinality(FactsBy(r, Remembering.name)) <= 1
    BY <2>2, <2>4, TellsOnce
  <2> QED BY <2>3, <2>5
<1>2. CASE job[r].id # "research-agent"
  <2>1. "agent.research.completed" \notin Outcomes
    BY DEF Outcomes
  <2>2. FactsBy(r, "agent.research.completed") = {}
    BY <1>2, <2>1, OnlyResearchers, UntoldBy
  <2>3. Cardinality(FactsBy(r, "agent.research.completed")) = 0
    BY <2>2, FS_EmptySet, Zenon
  <2> QED BY <2>3
<1> QED BY <1>1, <1>2

(* The writers of some facts are at most as many as the facts.              *)
LEMMA FewWriters ==
  ASSUME LogIs, NEW n, NEW C, \A r \in C : \E k \in DOMAIN log : log[k].by = r /\ log[k].name = n
  PROVE  Cardinality(C) <= Cardinality({k \in DOMAIN log : log[k].name = n})
<1> DEFINE T == {k \in DOMAIN log : log[k].name = n}
           W == {k \in T : log[k].by \in C}
           f == [k \in W |-> log[k].by]
<1>1. IsFiniteSet(T) /\ W \subseteq T
  BY FactsAreFinite
<1>2. f \in Surjection(W, C)
  BY DEF Surjection
<1> HIDE DEF T, f
<1>3. IsFiniteSet(W) /\ Cardinality(W) <= Cardinality(T)
  BY <1>1, FS_Subset
<1>4. IsFiniteSet(C) /\ Cardinality(C) <= Cardinality(W)
  <2> HIDE DEF W
  <2> QED BY <1>2, <1>3, FS_Surjection
<1>5. Cardinality(C) \in Nat /\ Cardinality(W) \in Nat /\ Cardinality(T) \in Nat
  BY <1>1, <1>3, <1>4, FS_CardinalityType
<1>6. Cardinality(C) <= Cardinality(T)
  BY <1>3, <1>4, <1>5
<1> QED BY <1>6 DEF T

LEMMA MemoriesAgree ==
  ASSUME EngineInv, OnceInv, PollInv, Deployment
  PROVE  MemoryAgreesWithRuns
<1> DEFINE WentWell(id) == {r \in Runs : job[r].id = id /\ run[r].mode = "completed"}
           Again == {h \in hit : job[h[1]].id = "research-agent"}
           tasks == agentMemory({}).totalTasks
<1>1. LogIs
  BY DEF EngineInv
<1>2. \A n \in 0 .. Len(log) : docMemory({n}) = docMemory({})
  BY <1>1, TwiceIsOnce
<1>3. \A r \in WentWell("doc-processor") : job[r].trigger[2] \in docMemory({})
  BY DocumentsAgree
<1>4. \A r \in WentWell("verify") : job[r].steps[1].does[1].on \in docMemory({})
  BY DocumentsAgree
<1>5. Cardinality(WentWell("research-agent")) <= tasks
  <2>1. PICK C : C = WentWell("research-agent")
    OBVIOUS
  <2>2. \A r \in C : \E k \in DOMAIN log : log[k].by = r /\ log[k].name = "agent.research.completed"
    BY <2>1, ResearchersTell
  <2>3. Cardinality(C) <= Cardinality({k \in DOMAIN log : log[k].name = "agent.research.completed"})
    BY <1>1, <2>2, FewWriters
  <2>4. tasks = Cardinality({k \in DOMAIN log : log[k].name = "agent.research.completed"})
    BY <1>1, TasksAre
  <2> QED BY <2>1, <2>3, <2>4, Zenon
<1>6. Again = {} => \A r \in Runs : Cardinality(FactsBy(r, "agent.research.completed")) <= 1
  BY ResearchOnce
<1>7. tasks = Len(agentMemory({}).topics)
  BY <1>1, TasksAre
<1> QED BY <1>2, <1>3, <1>4, <1>5, <1>6, <1>7, Zenon DEF MemoryAgreesWithRuns

-----------------------------------------------------------------------------
(* quickstart: who is mailed about what.                                    *)
Mailing == Publish("notifications.email", "email")
LEMMA QuickOrderIs ==
  ASSUME NEW r, NEW o, job[r] = QuickOrder(o)
  PROVE  /\ job[r].errors = "retry" /\ job[r].trigger = <<"fact", o, "order.placed">>
         /\ TellsOnly(r, 4, Mailing) /\ Calls(r, 4)[1] = Mailing /\ 1 \in DOMAIN Calls(r, 4) /\ PlainCall(r, 4, 1)
         /\ Mailing.name = "notifications.email"
<1>1. PICK a, b, c, d : a = ValidateQuickOrder /\ b = ProcessPayment /\ c = SendConfirmation /\ d = PublishEmail
  OBVIOUS
<1>2. PICK s : s = <<a, b, c, d>>
  OBVIOUS
<1>3. DOMAIN s = 1 .. 4 /\ s[1] = a /\ s[2] = b /\ s[3] = c /\ s[4] = d
  BY <1>2
<1>4. job[r] = Function("process-order", OnFact(o, "order.placed"), s)
  BY <1>1, <1>2 DEF QuickOrder
<1>5. Steps(r) = s /\ job[r].errors = "retry" /\ job[r].trigger = OnFact(o, "order.placed")
  BY <1>4 DEF Function, Steps
<1>6. job[r].trigger = <<"fact", o, "order.placed">>
  BY <1>5 DEF OnFact
<1>7. Mailing.op = "publish" /\ Mailing.name = "notifications.email" /\ "publish" \in Telling /\ Mailing.name \notin Outcomes
  BY DEF Mailing, Publish, Telling, Outcomes
<1>8. d = Step("publish", <<Mailing>>)
  BY <1>1 DEF PublishEmail, Mailing
<1>9. /\ DOMAIN Calls(r, 4) = {1} /\ Calls(r, 4)[1] = Mailing /\ Calls(r, 4) = <<Mailing>> /\ PlainCall(r, 4, 1)
      /\ Steps(r)[4].undo = <<>>
  BY <1>3, <1>5, <1>7, <1>8, PlainLast
<1>10. \A i \in {1, 2, 3} : Calls(r, i) = <<>> /\ Steps(r)[i].undo = <<>>
  BY <1>1, <1>3, <1>5 DEF Calls, ValidateQuickOrder, ProcessPayment, SendConfirmation, Step
<1>11. DOMAIN Steps(r) = {1, 2, 3, 4}
  BY <1>3, <1>5
<1>12. TellsOnly(r, 4, Mailing)
  BY <1>7, <1>9, <1>10, <1>11, SparingAll DEF TellsOnly
<1> QED BY <1>5, <1>6, <1>7, <1>9, <1>12

LEMMA MailedIs ==
  ASSUME EngineInv, NEW r
  PROVE  /\ Mailed(r) \in Nat /\ (Mailed(r) > 0 <=> FactsBy(r, "notifications.email") # {})
<1>1. PICK S : S = FactsBy(r, "notifications.email")
  OBVIOUS
<1>2. IsFiniteSet(S)
  BY <1>1, FactsAreFinite DEF EngineInv
<1>3. PICK n : n = Cardinality(S) /\ n \in Nat /\ (n = 0 <=> S = {})
  BY <1>2, FS_CardinalityType, FS_EmptySet
<1>4. Mailed(r) = n
  BY <1>1, <1>3 DEF Mailed
<1> QED BY <1>1, <1>3, <1>4

LEMMA QuickOrdersAre ==
  ASSUME Deployment, NEW r \in QuickOrders
  PROVE  \/ r = 2 /\ job[r] = QuickOrder("o1")
         \/ r = 3 /\ job[r] = QuickOrder("o2")
<1>1. r \in Runs /\ job[r].id = "process-order" /\ Len(job[r].steps) = 4
  BY DEF QuickOrders
<1>2. job = QuickOrdering.runs
  BY <1>1, WhoReads
<1> QED BY <1>1, <1>2, OrdersDeployed, CollectorIds

(* The mail of an order's run, and the order before it.                     *)
LEMMA MailsAbout ==
  ASSUME EngineInv, NEW r \in Runs, NEW o, job[r] = QuickOrder(o), FactsBy(r, "notifications.email") # {}
  PROVE  \E k \in DOMAIN log : log[k].on = o /\ log[k].name = "order.placed"
<1>1. /\ job[r].trigger = <<"fact", o, "order.placed">> /\ TellsOnly(r, 4, Mailing)
      /\ Mailing.name = "notifications.email"
  BY QuickOrderIs
<1>2. PICK k \in DOMAIN log : log[k].by = r /\ log[k].name = Mailing.name
  BY <1>1 DEF FactsBy
<1>3. Caused(k, r)
  BY <1>1, <1>2, FactsAreItsStep
<1>4. PICK t : t = job[r].trigger /\ t = <<"fact", o, "order.placed">>
  BY <1>1
<1>5. t[1] = "fact" /\ t[2] = o /\ t[3] = "order.placed"
  BY <1>4
<1>6. PICK k2 \in Facts(o, "order.placed") : TRUE
  BY <1>3, <1>4, <1>5 DEF Caused
<1> QED BY <1>6 DEF Facts, Stream

LEMMA EmailsFollow ==
  ASSUME EngineInv, OnceInv, Deployment
  PROVE  EmailsFollowOrders
<1>1. LogIs
  BY DEF EngineInv
<1> DEFINE M == {r \in QuickOrders : Mailed(r) > 0}
           P == {k \in DOMAIN log : log[k].name = "order.placed"}
           W == {k \in P : (log[k].on = "o1" /\ 2 \in M) \/ (log[k].on = "o2" /\ 3 \in M)}
           f == [k \in W |-> IF log[k].on = "o1" THEN 2 ELSE 3]
<1>2. \A r \in M : r = 2 \/ r = 3
  BY QuickOrdersAre
<1>3. \A r \in M : \E k \in P : IF r = 2 THEN log[k].on = "o1" ELSE log[k].on = "o2"
  <2>1. ASSUME NEW r \in M PROVE \E k \in P : IF r = 2 THEN log[k].on = "o1" ELSE log[k].on = "o2"
    <3>1. FactsBy(r, "notifications.email") # {} /\ r \in Runs
      BY MailedIs DEF QuickOrders
    <3>2. CASE r = 2 /\ job[r] = QuickOrder("o1")
      BY <3>1, <3>2, MailsAbout
    <3>3. CASE r = 3 /\ job[r] = QuickOrder("o2")
      BY <3>1, <3>3, MailsAbout
    <3> QED BY <3>2, <3>3, QuickOrdersAre
  <2> QED BY <2>1
<1>4. f \in Surjection(W, M)
  <2>1. f \in [W -> M]
    OBVIOUS
  <2>2. ASSUME NEW r \in M PROVE \E k \in W : f[k] = r
    <3>1. PICK k \in P : IF r = 2 THEN log[k].on = "o1" ELSE log[k].on = "o2"
      BY <1>3
    <3>2. k \in W /\ f[k] = r
      BY <1>2, <3>1
    <3> QED BY <3>2
  <2> HIDE DEF f, W, M
  <2> QED BY <2>1, <2>2 DEF Surjection
<1>5. IsFiniteSet(P) /\ W \subseteq P
  BY <1>1, FactsAreFinite
<1>6. OrderStats({}).orders = Cardinality(P)
  BY <1>1, OrdersCounted
<1>7. Cardinality(M) <= Cardinality(P)
  <2> HIDE DEF f, W, P, M
  <2>1. IsFiniteSet(W) /\ Cardinality(W) <= Cardinality(P)
    BY <1>5, FS_Subset
  <2>2. IsFiniteSet(M) /\ Cardinality(M) <= Cardinality(W)
    BY <1>4, <2>1, FS_Surjection
  <2> QED BY <1>5, <2>1, <2>2, FS_CardinalityType
<1>8. ASSUME NEW r \in QuickOrders
      PROVE  /\ Mailed(r) > 1 => \E h \in hit : h[1] = r
             /\ run[r].mode = "completed" => Mailed(r) > 0
  <2>1. PICK o : job[r] = QuickOrder(o)
    BY QuickOrdersAre
  <2>2. r \in Runs
    BY DEF QuickOrders
  <2>3. /\ TellsOnly(r, 4, Mailing) /\ Calls(r, 4)[1] = Mailing /\ 1 \in DOMAIN Calls(r, 4) /\ PlainCall(r, 4, 1)
        /\ Mailing.name = "notifications.email" /\ job[r].errors = "retry"
    BY <2>1, QuickOrderIs
  <2>4. ASSUME ~\E h \in hit : h[1] = r PROVE ~(Mailed(r) > 1)
    <3>1. ~Repeats(r)
      BY <2>4 DEF Repeats
    <3>2. Cardinality(FactsBy(r, Mailing.name)) <= 1
      BY <2>2, <2>3, <3>1, TellsOnce
    <3>3. Mailed(r) <= 1
      BY <2>3, <3>2 DEF Mailed
    <3> QED BY <3>3, MailedIs
  <2>5. ASSUME run[r].mode = "completed" PROVE Mailed(r) > 0
    <3>1. HasFact(r, Mailing)
      BY <2>2, <2>3, <2>5, DoneIsTold DEF TellsOnly
    <3>2. FactsBy(r, "notifications.email") # {}
      BY <2>3, <3>1 DEF HasFact, IsFactOf, FactsBy
    <3> QED BY <3>2, MailedIs
  <2> QED BY <2>4, <2>5
<1>9. Cardinality(M) <= OrderStats({}).orders
  <2> HIDE DEF M, P
  <2> QED BY <1>6, <1>7, Zenon
<1> QED BY <1>8, <1>9 DEF EmailsFollowOrders

-----------------------------------------------------------------------------
(* todo-web: what one event does to what the list shows of a todo.          *)
LEMMA LacksIs ==
  ASSUME NEW I, NEW s \in Seq(Rows(I)), NEW t
  PROVE  Lacks(s, t) <=> ~Shows(s, t, TRUE) /\ ~Shows(s, t, FALSE)
<1>1. \A k \in DOMAIN s : s[k] \in Rows(I)
  OBVIOUS
<1>2. \A k \in DOMAIN s : s[k].completed = TRUE \/ s[k].completed = FALSE
  BY <1>1 DEF Rows
<1> QED BY <1>2 DEF Lacks, Shows

LEMMA AddedShows ==
  ASSUME NEW I, NEW s \in Seq(Rows(I)), OneEach(s), NEW t \in I, NEW u, NEW c
  PROVE  Shows(Added(s, t), u, c) <=> Shows(s, u, c) \/ (Lacks(s, t) /\ u = t /\ c = FALSE)
BY AddedIs

LEMMA AddShows ==
  ASSUME NEW I, NEW s \in Seq(Rows(I)), OneEach(s), NEW f, f.on \in I, f.name = "todo.added", NEW t, NEW b \in BOOLEAN
  PROVE  Shows(Reduce(s, f), t, b) <=> Shows(s, t, b) \/ (Lacks(s, f.on) /\ t = f.on /\ b = FALSE)
<1>1. PICK u : u = f.on /\ u \in I
  OBVIOUS
<1>2. Reduce(s, f) = Added(s, u)
  BY <1>1 DEF Reduce, Toggled
<1>3. Shows(Added(s, u), t, b) <=> Shows(s, t, b) \/ (Lacks(s, u) /\ t = u /\ b = FALSE)
  BY <1>1, AddedShows
<1> QED BY <1>1, <1>2, <1>3

LEMMA ToggleShows ==
  ASSUME NEW I, NEW s \in Seq(Rows(I)), OneEach(s), NEW f, NEW c \in BOOLEAN, f.name = Toggled(c), NEW t, NEW b \in BOOLEAN
  PROVE  Shows(Reduce(s, f), t, b) <=> IF t = f.on THEN b = c /\ ~Lacks(s, t) ELSE Shows(s, t, b)
<1>1. PICK u : u = f.on
  OBVIOUS
<1>2. Reduce(s, f) = SetTo(s, u, c)
  BY <1>1 DEF Reduce, Toggled
<1>3. \A w, x : Shows(SetTo(s, u, c), w, x) <=> IF w = u THEN x = c /\ ~Lacks(s, u) ELSE Shows(s, w, x)
  BY SetToIs
<1> QED BY <1>1, <1>2, <1>3

LEMMA DeleteShows ==
  ASSUME NEW I, NEW s \in Seq(Rows(I)), OneEach(s), NEW f, f.name = "todo.deleted", NEW t, NEW b \in BOOLEAN
  PROVE  Shows(Reduce(s, f), t, b) <=> t # f.on /\ Shows(s, t, b)
<1>1. PICK u : u = f.on
  OBVIOUS
<1>2. Reduce(s, f) = Without(s, u)
  BY <1>1 DEF Reduce, Toggled
<1> QED BY <1>1, <1>2, WithoutShows

(* The events of a todo that was added once, up to a place in the log.      *)
Toggles(t, a) == {j \in DOMAIN log : log[j].on = t /\ log[j].name \in {Toggled(TRUE), Toggled(FALSE)} /\ a < j}
DoneAt(t, a, i) ==
  \E j \in Toggles(t, a) : j <= i /\ log[j].name = Toggled(TRUE) /\ \A l \in Toggles(t, a) : l <= i => l <= j
GoneAt(t, a, i) == \E d \in DOMAIN log : log[d].on = t /\ log[d].name = "todo.deleted" /\ a < d /\ d <= i
AddedAt(t, a) ==
  /\ a \in DOMAIN log /\ log[a].on = t /\ log[a].name = "todo.added"
  /\ \A k \in DOMAIN log : log[k].on = t /\ log[k].name = "todo.added" => k = a
Followed(s, t, a, i) ==
  /\ i < a \/ GoneAt(t, a, i) => ~Shows(s, t, TRUE) /\ ~Shows(s, t, FALSE)
  /\ a <= i /\ ~GoneAt(t, a, i) => /\ Shows(s, t, TRUE) <=> DoneAt(t, a, i)
                                   /\ Shows(s, t, FALSE) <=> ~DoneAt(t, a, i)

LEMMA GoneUpTo ==
  ASSUME NEW n \in Nat, DOMAIN log = 1 .. n, NEW t, NEW a \in 1 .. n, NEW i \in 1 .. n
  PROVE  /\ GoneAt(t, a, i) <=> GoneAt(t, a, i - 1) \/ (a < i /\ log[i].on = t /\ log[i].name = "todo.deleted")
         /\ i <= a => ~GoneAt(t, a, i)
<1>1. \A d \in 1 .. n : d <= i <=> d <= i - 1 \/ d = i
  OBVIOUS
<1>2. GoneAt(t, a, i) <=> GoneAt(t, a, i - 1) \/ (a < i /\ log[i].on = t /\ log[i].name = "todo.deleted")
  BY <1>1 DEF GoneAt
<1>3. ASSUME i <= a, NEW d \in 1 .. n, a < d, d <= i PROVE FALSE
  BY <1>3
<1> QED BY <1>2, <1>3 DEF GoneAt

LEMMA DoneUpTo ==
  ASSUME NEW n \in Nat, DOMAIN log = 1 .. n, NEW t, NEW a \in 1 .. n, NEW i \in 1 .. n
  PROVE  /\ i \notin Toggles(t, a) => (DoneAt(t, a, i) <=> DoneAt(t, a, i - 1))
         /\ i \in Toggles(t, a) => (DoneAt(t, a, i) <=> log[i].name = Toggled(TRUE))
         /\ i <= a => ~DoneAt(t, a, i)
<1>1. PICK T : T = Toggles(t, a)
  OBVIOUS
<1>2. T \subseteq 1 .. n /\ \A j \in T : a < j
  BY <1>1 DEF Toggles
<1>3. \A k : DoneAt(t, a, k) <=> \E j \in T : j <= k /\ log[j].name = Toggled(TRUE) /\ \A l \in T : l <= k => l <= j
  BY <1>1 DEF DoneAt
<1>4. ASSUME i \notin T PROVE DoneAt(t, a, i) <=> DoneAt(t, a, i - 1)
  <2>1. \A j \in T : j <= i <=> j <= i - 1
    BY <1>2, <1>4
  <2> QED BY <1>3, <2>1
<1>5. ASSUME i \in T, DoneAt(t, a, i) PROVE log[i].name = Toggled(TRUE)
  <2>1. PICK j \in T : j <= i /\ log[j].name = Toggled(TRUE) /\ \A l \in T : l <= i => l <= j
    BY <1>3, <1>5
  <2>2. j = i
    BY <1>2, <1>5, <2>1
  <2> QED BY <2>1, <2>2
<1>6. ASSUME i \in T, log[i].name = Toggled(TRUE) PROVE DoneAt(t, a, i)
  <2>1. i <= i
    OBVIOUS
  <2> QED BY <1>3, <1>6, <2>1
<1>7. ASSUME i <= a, DoneAt(t, a, i) PROVE FALSE
  <2>1. PICK j \in T : j <= i
    BY <1>3, <1>7
  <2> QED BY <1>2, <1>7, <2>1
<1> QED BY <1>1, <1>4, <1>5, <1>6, <1>7

LEMMA FollowsOn ==
  ASSUME NEW n \in Nat, DOMAIN log = 1 .. n, NEW t, NEW a, AddedAt(t, a), NEW i \in 1 .. n,
         NEW I, NEW s \in Seq(Rows(I)), OneEach(s), log[i].on \in I, Followed(s, t, a, i - 1)
  PROVE  Followed(Reduce(s, log[i]), t, a, i)
<1>1. a \in 1 .. n /\ log[a].on = t /\ log[a].name = "todo.added"
  BY DEF AddedAt
<1>2. /\ GoneAt(t, a, i) <=> GoneAt(t, a, i - 1) \/ (a < i /\ log[i].on = t /\ log[i].name = "todo.deleted")
      /\ i <= a => ~GoneAt(t, a, i)
  <2>1. a \in 1 .. n /\ i \in 1 .. n /\ n \in Nat /\ DOMAIN log = 1 .. n
    BY <1>1
  <2> QED BY <2>1, GoneUpTo, Zenon
<1>15. /\ i \notin Toggles(t, a) => (DoneAt(t, a, i) <=> DoneAt(t, a, i - 1))
       /\ i \in Toggles(t, a) => (DoneAt(t, a, i) <=> log[i].name = Toggled(TRUE))
       /\ i <= a => ~DoneAt(t, a, i)
  BY <1>1, DoneUpTo
<1>3. Lacks(s, t) <=> ~Shows(s, t, TRUE) /\ ~Shows(s, t, FALSE)
  BY LacksIs
<1>4. PICK f : f = log[i]
  OBVIOUS
<1>5. ASSUME NEW b \in BOOLEAN
      PROVE  /\ f.on # t /\ f.name \in {"todo.added", Toggled(TRUE), Toggled(FALSE), "todo.deleted"}
                => (Shows(Reduce(s, f), t, b) <=> Shows(s, t, b))
             /\ f.on = t /\ f.name = "todo.added" =>
                  (Shows(Reduce(s, f), t, b) <=> Shows(s, t, b) \/ (Lacks(s, t) /\ b = FALSE))
             /\ \A c \in BOOLEAN : f.on = t /\ f.name = Toggled(c) =>
                  (Shows(Reduce(s, f), t, b) <=> b = c /\ ~Lacks(s, t))
             /\ f.on = t /\ f.name = "todo.deleted" => ~Shows(Reduce(s, f), t, b)
             /\ f.name \notin {"todo.added", Toggled(TRUE), Toggled(FALSE), "todo.deleted"} => Reduce(s, f) = s
  <2>1. f.on \in I
    BY <1>4
  <2>2. ASSUME f.name = "todo.added"
        PROVE  Shows(Reduce(s, f), t, b) <=> Shows(s, t, b) \/ (Lacks(s, f.on) /\ t = f.on /\ b = FALSE)
    BY <2>1, <2>2, AddShows
  <2>3. ASSUME NEW c \in BOOLEAN, f.name = Toggled(c)
        PROVE  Shows(Reduce(s, f), t, b) <=> IF t = f.on THEN b = c /\ ~Lacks(s, t) ELSE Shows(s, t, b)
    BY <2>3, ToggleShows
  <2>4. f.name = "todo.deleted" => (Shows(Reduce(s, f), t, b) <=> t # f.on /\ Shows(s, t, b))
    BY DeleteShows
  <2>5. f.name \notin {"todo.added", Toggled(TRUE), Toggled(FALSE), "todo.deleted"} => Reduce(s, f) = s
    BY DEF Reduce
  <2> QED BY <2>2, <2>3, <2>4, <2>5
<1>6. PICK w : w = Reduce(s, f)
  OBVIOUS
<1>7. i - 1 < a <=> i < a \/ i = a
  BY <1>1
<1>8. a <= i - 1 <=> a < i
  BY <1>1
<1>9. SUFFICES Followed(w, t, a, i)
  BY <1>4, <1>6
<1>10. CASE f.on # t /\ f.name \in {"todo.added", Toggled(TRUE), Toggled(FALSE), "todo.deleted"}
  <2>1. (Shows(w, t, TRUE) <=> Shows(s, t, TRUE)) /\ (Shows(w, t, FALSE) <=> Shows(s, t, FALSE))
    BY <1>5, <1>6, <1>10
  <2>2. i # a /\ i \notin Toggles(t, a)
    BY <1>1, <1>4, <1>10 DEF Toggles
  <2>3. (GoneAt(t, a, i) <=> GoneAt(t, a, i - 1)) /\ (DoneAt(t, a, i) <=> DoneAt(t, a, i - 1))
    BY <1>2, <1>15, <1>4, <1>10, <2>2
  <2>4. (i < a <=> i - 1 < a) /\ (a <= i <=> a <= i - 1)
    BY <1>1, <2>2
  <2> QED BY <2>1, <2>3, <2>4 DEF Followed
<1>11. CASE f.on = t /\ f.name = "todo.added"
  <2>1. i = a
    BY <1>4, <1>11 DEF AddedAt
  <2>2. ~Shows(s, t, TRUE) /\ ~Shows(s, t, FALSE)
    BY <1>7, <2>1 DEF Followed
  <2>3. ~Shows(w, t, TRUE) /\ Shows(w, t, FALSE)
    BY <1>3, <1>5, <1>6, <1>11, <2>2
  <2>4. ~GoneAt(t, a, i) /\ ~DoneAt(t, a, i) /\ ~(i < a)
    BY <1>1, <1>2, <1>15, <2>1
  <2> QED BY <2>3, <2>4 DEF Followed
<1>12. ASSUME f.on = t, NEW c \in BOOLEAN, f.name = Toggled(c) PROVE Followed(w, t, a, i)
  <2>1. (Shows(w, t, TRUE) <=> c = TRUE /\ ~Lacks(s, t)) /\ (Shows(w, t, FALSE) <=> c = FALSE /\ ~Lacks(s, t))
    BY <1>5, <1>6, <1>12
  <2>2. f.name # "todo.added" /\ f.name # "todo.deleted" /\ (f.name = Toggled(TRUE) <=> c = TRUE)
    BY <1>12 DEF Toggled
  <2>3. i # a /\ (GoneAt(t, a, i) <=> GoneAt(t, a, i - 1))
    BY <1>1, <1>2, <1>4, <2>2
  <2>4. CASE i < a
    <3>1. Lacks(s, t)
      BY <1>3, <1>7, <2>4 DEF Followed
    <3>2. ~(a <= i)
      BY <1>1, <2>4
    <3> QED BY <2>1, <3>1, <3>2 DEF Followed
  <2>5. CASE a < i
    <3>1. i \in Toggles(t, a)
      BY <1>4, <1>12, <2>5 DEF Toggles
    <3>2. DoneAt(t, a, i) <=> c = TRUE
      BY <1>15, <1>4, <2>2, <3>1
    <3>3. GoneAt(t, a, i - 1) => Lacks(s, t)
      BY <1>3 DEF Followed
    <3>4. ~GoneAt(t, a, i - 1) => ~Lacks(s, t)
      BY <1>3, <1>8, <2>5 DEF Followed
    <3>5. ~(i < a)
      BY <1>1, <2>5
    <3> QED BY <2>1, <2>3, <3>2, <3>3, <3>4, <3>5 DEF Followed
  <2> QED BY <1>1, <2>3, <2>4, <2>5
<1>13. CASE f.on = t /\ f.name = "todo.deleted"
  <2>1. ~Shows(w, t, TRUE) /\ ~Shows(w, t, FALSE)
    BY <1>5, <1>6, <1>13
  <2>2. i # a
    BY <1>1, <1>4, <1>13
  <2>3. a < i => GoneAt(t, a, i)
    BY <1>2, <1>4, <1>13
  <2>4. a <= i => a < i
    BY <1>1, <2>2
  <2> QED BY <2>1, <2>3, <2>4 DEF Followed
<1>14. CASE f.name \notin {"todo.added", Toggled(TRUE), Toggled(FALSE), "todo.deleted"}
  <2>1. w = s
    BY <1>5, <1>6, <1>14
  <2>2. i # a /\ i \notin Toggles(t, a)
    BY <1>1, <1>4, <1>14 DEF Toggles
  <2>3. (GoneAt(t, a, i) <=> GoneAt(t, a, i - 1)) /\ (DoneAt(t, a, i) <=> DoneAt(t, a, i - 1))
    BY <1>2, <1>15, <1>4, <1>14, <2>2
  <2>4. (i < a <=> i - 1 < a) /\ (a <= i <=> a <= i - 1)
    BY <1>1, <2>2
  <2> QED BY <2>1, <2>3, <2>4 DEF Followed
<1> QED BY <1>10, <1>11, <1>12, <1>13, <1>14

(* A todo is added once: by the page, which asks for each of its two only   *)
(* once and gives nothing a second try.                                     *)
AddsTwo(r, t, u) ==
  /\ job[r].errors = "skip" /\ DOMAIN Steps(r) = {1, 2}
  /\ Calls(r, 1) = <<Emit("todo.added", t)>> /\ Calls(r, 2) = <<Emit("todo.added", u)>>
  /\ Steps(r)[1].undo = <<>> /\ Steps(r)[2].undo = <<>>

LEMMA AddsAre ==
  ASSUME NEW r, NEW t, NEW u, job[r] = User(<<AddTodo(t), AddTodo(u)>>)
  PROVE  AddsTwo(r, t, u)
<1>1. PICK s : s = <<AddTodo(t), AddTodo(u)>>
  OBVIOUS
<1>2. DOMAIN s = {1, 2} /\ s[1] = AddTodo(t) /\ s[2] = AddTodo(u)
  BY <1>1
<1>3. job[r] = Script("page", Request, s, "skip")
  BY <1>1 DEF User
<1>4. Steps(r) = s /\ job[r].errors = "skip"
  BY <1>3 DEF Script, Function, Steps
<1>5. \A w : AddTodo(w).does = <<Emit("todo.added", w)>> /\ AddTodo(w).undo = <<>>
  BY DEF AddTodo, Step
<1> QED BY <1>2, <1>4, <1>5 DEF AddsTwo, Calls

LEMMA AddedByPage ==
  ASSUME EngineInv, OnceInv, NEW r \in Runs, NEW t, NEW u, t # u, AddsTwo(r, t, u), NEW o,
         NEW k \in DOMAIN log, NEW l \in DOMAIN log,
         log[k].by = r, log[k].name = "todo.added", log[k].on = o, log[l].by = r, log[l].name = "todo.added", log[l].on = o
  PROVE  k = l
<1>1. PICK x, y : x = Emit("todo.added", t) /\ y = Emit("todo.added", u)
  OBVIOUS
<1>2. /\ x.op = "append" /\ x.on = t /\ x.name = "todo.added" /\ y.op = "append" /\ y.on = u /\ y.name = "todo.added"
      /\ "append" \in Telling /\ "todo.added" \notin Outcomes
  BY <1>1 DEF Emit, Record, Telling, Outcomes
<1>3. PICK a, b : a = Calls(r, 1) /\ b = Calls(r, 2) /\ a = <<x>> /\ b = <<y>>
  BY <1>1 DEF AddsTwo
<1>4. DOMAIN a = {1} /\ a[1] = x /\ DOMAIN b = {1} /\ b[1] = y
  BY <1>3
<1>5. DOMAIN Steps(r) = {1, 2} /\ DOMAIN Steps(r)[1].undo = {} /\ DOMAIN Steps(r)[2].undo = {}
  BY DEF AddsTwo
<1>6. OnlyCall(r, 1, x) /\ OnlyCall(r, 2, y)
  BY <1>2, <1>3, <1>4, <1>5 DEF OnlyCall
<1>7. ~Repeats(r)
  BY DEF Repeats, AddsTwo
<1>8. (\A i, j \in ToldAs(r, x) : i = j) /\ (\A i, j \in ToldAs(r, y) : i = j)
  BY <1>6, <1>7 DEF OnceInv, OnceOf
<1>9. o = t \/ o = u
  <2>1. FromRun(k, r)
    BY <1>2 DEF EngineInv, Sourced, IsDecision
  <2>2. PICK i \in DOMAIN Steps(r) : DoneBy(k, r, i) \/ UndoneBy(k, r, i)
    BY <2>1 DEF FromRun
  <2>3. DoneBy(k, r, i)
    BY <1>5, <2>2 DEF UndoneBy
  <2>4. PICK j \in DOMAIN Calls(r, i) : log[k].on = Calls(r, i)[j].on
    BY <2>3 DEF DoneBy, IsFactOf
  <2> QED BY <1>2, <1>3, <1>4, <1>5, <2>4
<1> QED BY <1>2, <1>8, <1>9 DEF ToldAs

LEMMA OnlyPageAdds ==
  ASSUME Deployment, NEW r \in Runs
  PROVE  \/ AddsTwo(r, "t1", "t2") /\ r = 1 /\ job = Todos.runs
         \/ GoodFunction(job[r], {"todo.added"})
<1> DEFINE N == {"todo.added"}
<1>1. N \subseteq Reserved \cup Collected /\ "agent.research.completed" \notin N
  BY DEF Collected
<1>2. N \subseteq Collected
  BY DEF Collected
<1> SUFFICES \/ AddsTwo(r, "t1", "t2") /\ r = 1 /\ job = Todos.runs
             \/ GoodFunction(job[r], N)
  OBVIOUS
<1> HIDE DEF N
<1>3. GoodFunction(NotDeployed, N)
  BY UndeployedFunction
<1>4. CASE job = Todos.runs
  <2>1. /\ GoodFunction(UserOf("t1", <<ToggleTodo("t1", TRUE), ToggleTodo("t1", FALSE)>>), N)
        /\ GoodFunction(UserOf("t2", <<ToggleTodo("t2", TRUE), DeleteTodo("t2")>>), N)
        /\ GoodFunction(ProcessTodo("t1", "todo.added"), N)
    BY <1>1, TodoFunctions
  <2> QED BY <1>3, <1>4, <2>1, TodosDeployed, AddsAre
<1>5. CASE job = QuickOrdering.runs
  BY <1>1, <1>3, <1>5, OrdersDeployed, QuickFunctions
<1>6. CASE job = Research.runs
  BY <1>1, <1>3, <1>6, ResearchDeployed, AgentFunctions
<1>7. CASE job = Documents.runs
  BY <1>1, <1>3, <1>7, DocumentsDeployed, AgentFunctions
<1>8. CASE Plain(job[r])
  BY <1>2, <1>8, FewerSpared DEF Plain
<1> QED BY <1>4, <1>5, <1>6, <1>7, <1>8 DEF Deployment, Collecting

LEMMA TodoAddedOnce ==
  ASSUME EngineInv, OnceInv, Deployment, NEW k \in DOMAIN log, NEW l \in DOMAIN log,
         log[k].name = "todo.added", log[l].name = "todo.added", log[k].on = log[l].on
  PROVE  k = l
<1>1. "todo.added" \notin Outcomes
  BY DEF Outcomes
<1>2. log[k].by \in Runs /\ log[l].by \in Runs
  BY <1>1 DEF EngineInv, Sourced, IsDecision, FromRun
<1>3. ASSUME NEW r \in Runs, NEW i \in DOMAIN log, log[i].by = r, log[i].name = "todo.added"
      PROVE  AddsTwo(r, "t1", "t2") /\ r = 1
  <2>1. i \in FactsBy(r, "todo.added")
    BY <1>3 DEF FactsBy
  <2> QED BY <1>1, <2>1, OnlyPageAdds, UntoldBy
<1>4. AddsTwo(1, "t1", "t2") /\ log[k].by = 1 /\ log[l].by = 1 /\ 1 \in Runs
  BY <1>2, <1>3
<1>5. "t1" # "t2"
  OBVIOUS
<1> QED BY <1>4, <1>5, AddedByPage

(* What the whole list shows of it.                                         *)
LEMMA LatestIs ==
  ASSUME NEW n \in Nat, NEW T, T \subseteq 1 .. n, T # {}
  PROVE  Latest(T) \in T /\ \A j \in T : j <= Latest(T)
<1> DEFINE HasNewest(i) == UpTo(T, i) = {} \/ \E m \in UpTo(T, i) : \A l \in UpTo(T, i) : l <= m
           P == {i \in 0 .. n : HasNewest(i)}
<1>1. UpTo(T, 0) = {} /\ UpTo(T, n) = T
  BY UpToEnds
<1>2. 0 \in P
  BY <1>1
<1>3. ASSUME NEW i \in 1 .. n, i - 1 \in P PROVE i \in P
  <2>1. UpTo(T, i) = IF i \in T THEN UpTo(T, i - 1) \cup {i} ELSE UpTo(T, i - 1)
    BY UpToStep
  <2>2. \A l \in UpTo(T, i - 1) : l <= i
    BY DEF UpTo
  <2>3. i <= i
    OBVIOUS
  <2>4. CASE i \in T
    <3>1. i \in UpTo(T, i) /\ \A l \in UpTo(T, i) : l <= i
      BY <2>1, <2>2, <2>3, <2>4
    <3> QED BY <3>1
  <2>5. CASE i \notin T
    BY <1>3, <2>1, <2>5
  <2> QED BY <2>4, <2>5
<1>4. n \in P
  <2> HIDE DEF P
  <2> QED BY <1>2, <1>3, AllPlaces
<1>5. PICK m \in T : \A l \in T : l <= m
  BY <1>1, <1>4
<1> QED BY <1>5 DEF Latest

LEMMA DoneIsLatest ==
  ASSUME NEW n \in Nat, DOMAIN log = 1 .. n, NEW t, NEW a
  PROVE  DoneAt(t, a, n) <=> Toggles(t, a) # {} /\ log[Latest(Toggles(t, a))].name = Toggled(TRUE)
<1>1. PICK T : T = Toggles(t, a)
  OBVIOUS
<1>2. T \subseteq 1 .. n
  BY <1>1 DEF Toggles
<1>3. DoneAt(t, a, n) <=> \E j \in T : log[j].name = Toggled(TRUE) /\ \A l \in T : l <= j
  <2>1. \A j \in T : j <= n
    BY <1>2
  <2>2. DoneAt(t, a, n) <=> \E j \in T : j <= n /\ log[j].name = Toggled(TRUE) /\ \A l \in T : l <= n => l <= j
    BY <1>1 DEF DoneAt
  <2> QED BY <2>1, <2>2
<1>4. CASE T = {}
  BY <1>1, <1>3, <1>4
<1>5. CASE T # {}
  <2>1. PICK m : m = Latest(T) /\ m \in T /\ \A j \in T : j <= m
    BY <1>2, <1>5, LatestIs
  <2>2. ASSUME NEW j \in T, \A l \in T : l <= j PROVE j = m
    BY <1>2, <2>1, <2>2
  <2> QED BY <1>1, <1>3, <1>5, <2>1, <2>2
<1> QED BY <1>4, <1>5

ShowsOnce(s, t) == OneEach(s) /\ \E I : s \in Seq(Rows(I))
LEMMA ListFollows ==
  ASSUME LogIs, NEW n, n = Len(log), NEW t, NEW a, AddedAt(t, a), NEW twice
  PROVE  ShowsOnce(TodoList(twice), t) /\ Followed(TodoList(twice), t, a, n)
<1>1. n \in Nat /\ DOMAIN log = 1 .. n
  BY LogShape
<1>2. PICK D : log \in Seq(D)
  BY DEF LogIs
<1>3. PICK S, I : S = TodoLists(D) /\ I = {f.on : f \in D}
  OBVIOUS
<1>4. PICK G : /\ G \in [0 .. Len(log) -> S] /\ G[0] = <<>>
               /\ \A i \in 1 .. Len(log) : G[i] = Reduce(G[i - 1], log[i])
               /\ TodoList(twice) = G[Len(log)]
  BY <1>2, <1>3, TodosAre
<1>5. /\ \A i \in 0 .. n : G[i] \in S
      /\ G[0] = <<>> /\ TodoList(twice) = G[n] /\ \A i \in 1 .. n : G[i] = Reduce(G[i - 1], log[i])
  BY <1>4
<1>6. \A s \in S : s \in Seq(Rows(I)) /\ OneEach(s)
  BY <1>3 DEF TodoLists
<1>7. \A i \in 1 .. n : log[i].on \in I
  BY <1>1, <1>2, <1>3
<1>8. a \in 1 .. n
  BY <1>1 DEF AddedAt
<1> DEFINE P == {i \in 0 .. n : Followed(G[i], t, a, i)}
<1>9. 0 \in P
  <2>1. 0 < a /\ ~(a <= 0) /\ 0 \in 0 .. n
    BY <1>1, <1>8
  <2>2. ~Shows(<<>>, t, TRUE) /\ ~Shows(<<>>, t, FALSE)
    BY DEF Shows
  <2> QED BY <1>5, <2>1, <2>2 DEF Followed
<1>10. ASSUME NEW i \in 1 .. n, i - 1 \in P PROVE i \in P
  <2>1. i - 1 \in 0 .. n /\ i \in 0 .. n
    BY <1>1
  <2>2. G[i - 1] \in Seq(Rows(I)) /\ OneEach(G[i - 1]) /\ log[i].on \in I /\ Followed(G[i - 1], t, a, i - 1)
    BY <1>5, <1>6, <1>7, <1>10, <2>1
  <2>3. Followed(Reduce(G[i - 1], log[i]), t, a, i)
    BY <1>1, <2>2, FollowsOn
  <2> QED BY <1>5, <2>1, <2>3
<1>11. n \in P
  <2> HIDE DEF P
  <2>1. \A i \in 0 .. n : i \in P
    BY <1>1, <1>9, <1>10, AllPlaces
  <2> QED BY <1>1, <2>1
<1>12. n \in 0 .. n
  BY <1>1
<1> QED BY <1>5, <1>6, <1>11, <1>12 DEF ShowsOnce

RowsIn(s, t) == {i \in DOMAIN s : s[i].id = t}
RowsTell(s, t, R) ==
  /\ ~Shows(s, t, TRUE) /\ ~Shows(s, t, FALSE) => Cardinality(R) = 0
  /\ Shows(s, t, TRUE) \/ Shows(s, t, FALSE) => Cardinality(R) = 1
  /\ \A i \in R : s[i].completed = Shows(s, t, TRUE)
LEMMA RowsOf ==
  ASSUME NEW s, NEW t, ShowsOnce(s, t)
  PROVE  RowsTell(s, t, RowsIn(s, t))
<1> DEFINE R == RowsIn(s, t)
<1>1. PICK I : s \in Seq(Rows(I))
  BY DEF ShowsOnce
<1>2. \A i \in DOMAIN s : s[i].completed = TRUE \/ s[i].completed = FALSE
  <2>1. \A i \in DOMAIN s : s[i] \in Rows(I)
    BY <1>1
  <2> QED BY <2>1 DEF Rows
<1>3. (\A i, j \in R : i = j) /\ \A i : i \in R <=> i \in DOMAIN s /\ s[i].id = t
  BY DEF ShowsOnce, OneEach, RowsIn
<1> HIDE DEF R
<1>4. ASSUME ~Shows(s, t, TRUE), ~Shows(s, t, FALSE) PROVE Cardinality(R) = 0
  <2>1. R = {}
    BY <1>2, <1>3, <1>4 DEF Shows
  <2> QED BY <2>1, FS_EmptySet, Zenon
<1>5. ASSUME Shows(s, t, TRUE) \/ Shows(s, t, FALSE) PROVE Cardinality(R) = 1
  <2>1. PICK i : i \in R
    BY <1>3, <1>5 DEF Shows
  <2>2. R = {i}
    BY <1>3, <2>1
  <2> QED BY <2>2, FS_Singleton, Zenon
<1>6. ASSUME NEW i \in R PROVE s[i].completed = Shows(s, t, TRUE)
  <2>1. s[i].completed = TRUE => Shows(s, t, TRUE)
    BY <1>3, <1>6 DEF Shows
  <2>2. Shows(s, t, TRUE) => s[i].completed = TRUE
    BY <1>3, <1>6 DEF Shows
  <2>3. Shows(s, t, TRUE) \in BOOLEAN
    BY DEF Shows
  <2> QED BY <1>2, <1>3, <1>6, <2>1, <2>2, <2>3
<1> QED BY <1>4, <1>5, <1>6 DEF R, RowsTell

LEMMA TodosExact ==
  ASSUME EngineInv, OnceInv, Deployment
  PROVE  TodoListIsExact
<1>1. LogIs
  BY DEF EngineInv
<1>2. PICK n : n = Len(log)
  OBVIOUS
<1>3. n \in Nat /\ DOMAIN log = 1 .. n
  BY <1>1, <1>2, LogShape
<1>4. SUFFICES ASSUME NEW t \in {log[i].on : i \in {j \in DOMAIN log : log[j].name = "todo.added"}}, NEW k \in 0 .. Len(log)
               PROVE  LET added == Happened(t, {"todo.added"})
                          deleted == Happened(t, {"todo.deleted"})
                          toggles == {i \in Happened(t, {Toggled(TRUE), Toggled(FALSE)}) : \E x \in added : x < i}
                          list == TodoList({k})
                          rows == {i \in DOMAIN list : list[i].id = t}
                          done == toggles # {} /\ log[Latest(toggles)].name = Toggled(TRUE) IN
                        /\ Cardinality(rows) = IF \E d \in deleted : \A x \in added : x < d THEN 0 ELSE 1
                        /\ \A i \in rows : list[i].completed = done
  BY DEF TodoListIsExact
<1>20. PICK a \in DOMAIN log : log[a].name = "todo.added" /\ t = log[a].on
  OBVIOUS
<1>21. PICK list : list = TodoList({k})
  OBVIOUS
<1>5. AddedAt(t, a)
  BY <1>20, TodoAddedOnce DEF AddedAt
<1>6. ShowsOnce(list, t) /\ Followed(list, t, a, n)
  BY <1>1, <1>2, <1>21, <1>5, ListFollows
<1>7. PICK added : added = Happened(t, {"todo.added"})
  OBVIOUS
<1>8. PICK deleted : deleted = Happened(t, {"todo.deleted"})
  OBVIOUS
<1>9. PICK toggles : toggles = {i \in Happened(t, {Toggled(TRUE), Toggled(FALSE)}) : \E x \in added : x < i}
  OBVIOUS
<1>10. PICK rows : rows = {i \in DOMAIN list : list[i].id = t}
  OBVIOUS
<1>11. added = {a}
  BY <1>5, <1>7 DEF AddedAt, Happened
<1>12. toggles = Toggles(t, a)
  BY <1>9, <1>11 DEF Toggles, Happened
<1>13. GoneAt(t, a, n) <=> \E d \in deleted : \A x \in added : x < d
  BY <1>3, <1>8, <1>11 DEF GoneAt, Happened
<1>14. DoneAt(t, a, n) <=> toggles # {} /\ log[Latest(toggles)].name = Toggled(TRUE)
  BY <1>3, <1>12, DoneIsLatest
<1>15. a <= n
  BY <1>3
<1>16. /\ GoneAt(t, a, n) => ~Shows(list, t, TRUE) /\ ~Shows(list, t, FALSE)
       /\ ~GoneAt(t, a, n) => (Shows(list, t, TRUE) <=> DoneAt(t, a, n)) /\ (Shows(list, t, FALSE) <=> ~DoneAt(t, a, n))
  BY <1>6, <1>15 DEF Followed
<1>17. /\ ~Shows(list, t, TRUE) /\ ~Shows(list, t, FALSE) => Cardinality(rows) = 0
       /\ Shows(list, t, TRUE) \/ Shows(list, t, FALSE) => Cardinality(rows) = 1
       /\ \A i \in rows : list[i].completed = Shows(list, t, TRUE)
  <2>1. rows = RowsIn(list, t)
    BY <1>10 DEF RowsIn
  <2> QED BY <1>6, <2>1, RowsOf DEF RowsTell
<1>18. Cardinality(rows) = IF \E d \in deleted : \A x \in added : x < d THEN 0 ELSE 1
  BY <1>13, <1>16, <1>17
<1>19. ASSUME NEW i \in rows PROVE list[i].completed = (toggles # {} /\ log[Latest(toggles)].name = Toggled(TRUE))
  <2>1. Shows(list, t, TRUE) \/ Shows(list, t, FALSE)
    <3>1. list[i].id = t /\ i \in DOMAIN list
      BY <1>10, <1>19
    <3>2. PICK I : list \in Seq(Rows(I))
      BY <1>6 DEF ShowsOnce
    <3>3. list[i] \in Rows(I)
      BY <3>1, <3>2
    <3> QED BY <3>1, <3>3 DEF Shows, Rows
  <2>2. Shows(list, t, TRUE) <=> DoneAt(t, a, n)
    BY <1>16, <2>1
  <2>3. Shows(list, t, TRUE) \in BOOLEAN
    BY DEF Shows
  <2> QED BY <1>14, <1>17, <1>19, <2>2, <2>3
<1> QED BY <1>7, <1>8, <1>9, <1>10, <1>18, <1>19, <1>21

-----------------------------------------------------------------------------
(* ddd-order-management: an order that may be placed has its saga.          *)
HaveSagas(jobs) == \A i \in Runs : \A o, v : jobs[i] = PlaceOrder(o, v) => \E r \in Runs : jobs[r] = FulfillOrder(o)
NobodyPlaces(jobs) == \A i \in Runs : jobs[i].id # "place-order"

LEMMA OtherKinds ==
  ASSUME NEW jobs, \/ \A i \in Runs : EvaluationJob(jobs[i])
                   \/ \A i \in Runs : AuditJob(jobs[i])
                   \/ \A i \in Runs : UploadJob(jobs[i])
                   \/ \A i \in Runs : IngestJob(jobs[i])
                   \/ \A i \in Runs : OtherJob(jobs[i])
  PROVE  HaveSagas(jobs)
<1>1. \A id, t, s, e : Function(id, t, s).id = id /\ Script(id, t, s, e).id = id
  BY DEF Function, Script
<1>2. NotDeployed.id # "place-order" /\ \A t : EvaluateFraud(t).id # "place-order"
  BY <1>1 DEF NotDeployed, EvaluateFraud
<1>3. Setup.id # "place-order" /\ ProcessOrderCreated.id # "place-order" /\ ProcessOrderShipped.id # "place-order"
  BY <1>1 DEF Setup, ProcessOrderCreated, ProcessOrderShipped
<1>4. /\ \A s : Upload(s).id # "place-order" /\ Edit(s).id # "place-order" /\ IngestCorpus(s).id # "place-order"
      /\ \A s, x, e : ProcessUpload(s, x, e).id # "place-order"
  BY <1>1 DEF Upload, Edit, IngestCorpus, ProcessUpload
<1>5. NobodyPlaces(jobs)
  BY <1>2, <1>3, <1>4 DEF NobodyPlaces, EvaluationJob, AuditJob, UploadJob, IngestJob, OtherJob, Kept4
<1>6. \A o, v : PlaceOrder(o, v).id = "place-order"
  BY <1>1 DEF PlaceOrder
<1> QED BY <1>5, <1>6 DEF HaveSagas, NobodyPlaces

LEMMA OrdersHaveSagas ==
  /\ \A v : HaveSagas(DuplicateOrder(v).runs)
  /\ HaveSagas(TwoOrders.runs)
<1>1. 3 \in Runs /\ 2 \in Runs /\ 4 \in Runs
  BY ProgramsAssumption
<1>2. /\ \A o, p, v, w : PlaceOrder(o, v) = PlaceOrder(p, w) => o = p
      /\ \A o, p, v : FulfillOrder(p) # PlaceOrder(o, v) /\ NotDeployed # PlaceOrder(o, v)
  <2>1. \A id, t, s : Function(id, t, s).id = id /\ Function(id, t, s).steps = s
    BY DEF Function
  <2>2. \A n, d : Step(n, d).does = d
    BY DEF Step
  <2>3. ASSUME NEW o, NEW v PROVE PlaceOrder(o, v).steps[2].does[1].on = o /\ PlaceOrder(o, v).id = "place-order"
    <3>1. PlaceOrder(o, v).steps[2] = RecordOrderPlaced(o) /\ PlaceOrder(o, v).id = "place-order"
      BY <2>1 DEF PlaceOrder
    <3>2. RecordOrderPlaced(o).does = <<Record(o, "order.placed", Version(0))>>
      BY <2>2 DEF RecordOrderPlaced
    <3>3. <<Record(o, "order.placed", Version(0))>>[1].on = o
      BY Effectless
    <3> QED BY <3>1, <3>2, <3>3
  <2>4. \A p : FulfillOrder(p).id = "fulfill-order" /\ NotDeployed.id = "none"
    BY <2>1 DEF FulfillOrder, NotDeployed
  <2> QED BY <2>3, <2>4
<1>3. ASSUME NEW v PROVE HaveSagas(DuplicateOrder(v).runs)
  <2>1. PICK list : list = <<PlaceOrder("o1", TRUE), PlaceOrder("o1", v), FulfillOrder("o1")>>
    OBVIOUS
  <2>2. /\ DOMAIN list = {1, 2, 3} /\ list[1] = PlaceOrder("o1", TRUE) /\ list[2] = PlaceOrder("o1", v)
        /\ list[3] = FulfillOrder("o1")
    BY <2>1
  <2>3. PICK jobs : jobs = DuplicateOrder(v).runs
    OBVIOUS
  <2>4. ASSUME NEW i \in Runs PROVE jobs[i] = IF i \in DOMAIN list THEN list[i] ELSE NotDeployed
    BY <2>1, <2>3 DEF DuplicateOrder, Program
  <2>5. ASSUME NEW i \in Runs
        PROVE  \/ i = 3 /\ jobs[i] = FulfillOrder("o1")
               \/ jobs[i] = PlaceOrder("o1", TRUE) \/ jobs[i] = PlaceOrder("o1", v) \/ jobs[i] = NotDeployed
    BY <2>2, <2>4
  <2>6. jobs[3] = FulfillOrder("o1")
    BY <1>1, <2>2, <2>4
  <2>7. ASSUME NEW i \in Runs, NEW o, NEW w, jobs[i] = PlaceOrder(o, w) PROVE o = "o1"
    BY <1>2, <2>5, <2>7
  <2> QED BY <1>1, <2>3, <2>6, <2>7 DEF HaveSagas
<1>4. HaveSagas(TwoOrders.runs)
  <2>1. PICK list : list = <<PlaceOrder("o1", TRUE), FulfillOrder("o1"), PlaceOrder("o2", TRUE), FulfillOrder("o2")>>
    OBVIOUS
  <2>2. /\ DOMAIN list = {1, 2, 3, 4} /\ list[1] = PlaceOrder("o1", TRUE) /\ list[2] = FulfillOrder("o1")
        /\ list[3] = PlaceOrder("o2", TRUE) /\ list[4] = FulfillOrder("o2")
    BY <2>1
  <2>3. PICK jobs : jobs = TwoOrders.runs
    OBVIOUS
  <2>4. ASSUME NEW i \in Runs PROVE jobs[i] = IF i \in DOMAIN list THEN list[i] ELSE NotDeployed
    BY <2>1, <2>3 DEF TwoOrders, Program
  <2>5. ASSUME NEW i \in Runs
        PROVE  \/ jobs[i] = FulfillOrder("o1") \/ jobs[i] = FulfillOrder("o2")
               \/ jobs[i] = PlaceOrder("o1", TRUE) \/ jobs[i] = PlaceOrder("o2", TRUE) \/ jobs[i] = NotDeployed
    BY <2>2, <2>4
  <2>6. jobs[2] = FulfillOrder("o1") /\ jobs[4] = FulfillOrder("o2")
    BY <1>1, <2>2, <2>4
  <2>7. ASSUME NEW i \in Runs, NEW o, NEW w, jobs[i] = PlaceOrder(o, w) PROVE o \in {"o1", "o2"}
    BY <1>2, <2>5, <2>7
  <2> QED BY <1>1, <2>3, <2>6, <2>7 DEF HaveSagas
<1> QED BY <1>3, <1>4

LEMMA SagasDeployed == Spec => []HaveSagas(job)
<1>1. ASSUME NEW p \in Programs PROVE HaveSagas(p.runs)
  <2>1. CASE p \in {DuplicateOrder(TRUE), DuplicateOrder(FALSE), TwoOrders}
    BY <2>1, OrdersHaveSagas
  <2>2. CASE p \notin {DuplicateOrder(TRUE), DuplicateOrder(FALSE), TwoOrders}
    <3>1. \/ \A i \in Runs : EvaluationJob(p.runs[i])
          \/ \A i \in Runs : AuditJob(p.runs[i])
          \/ \A i \in Runs : UploadJob(p.runs[i])
          \/ \A i \in Runs : IngestJob(p.runs[i])
          \/ \A i \in Runs : OtherJob(p.runs[i])
      BY <2>2, NotOrdering
    <3> QED BY <3>1, OtherKinds
  <2> QED BY <2>1, <2>2
<1>2. Init => HaveSagas(job)
  BY <1>1 DEF Init
<1>3. ASSUME HaveSagas(job), [ExamplesNext]_exampleVars PROVE HaveSagas(job)'
  <2>1. job' = job
    BY <1>3, JobsStay DEF ExamplesNext, exampleVars, vars
  <2> QED BY <1>3, <2>1 DEF HaveSagas
<1>4. HaveSagas(job) /\ [ExamplesNext]_exampleVars => HaveSagas(job)'
  BY <1>3
<1> QED BY <1>2, <1>4, PTL DEF Spec

(* What no saga repeated: placed, confirmed, shipped.                       *)
StreamOrdered(o) ==
  /\ \A i \in Stream(o) : log[i].name \in {"order.placed", "order.confirmed", "order.shipped"}
  /\ OnlyOne(o, "order.placed") /\ OnlyOne(o, "order.confirmed") /\ OnlyOne(o, "order.shipped")
  /\ \A c \in Facts(o, "order.confirmed") : \E p \in Facts(o, "order.placed") : p < c
  /\ \A s \in Facts(o, "order.shipped") : \E c \in Facts(o, "order.confirmed") : c < s

LEMMA ShippedAfter ==
  ASSUME EngineInv, Drafts = {}, NEW r \in Runs, NEW o, job[r] = FulfillOrder(o), NEW k \in DOMAIN log,
         log[k].by = r, log[k].name = "order.shipped"
  PROVE  \E c \in Facts(o, "order.confirmed") : c < k
<1>1. FromRun(k, r)
  BY DEF EngineInv, Sourced, IsDecision
<1>2. PICK i \in DOMAIN Steps(r) : DoneBy(k, r, i) \/ UndoneBy(k, r, i)
  BY <1>1 DEF FromRun
<1>3. /\ DOMAIN Steps(r) = {1, 2, 3} /\ job[r].errors = "retry" /\ Steps(r)[1].needs = <<>>
      /\ Calls(r, 1) = <<Read(o), Refuse({0}), Record(o, "order.confirmed", AsRead)>>
      /\ Calls(r, 2) = <<Record(o, "order.shipped", After("confirm-payment"))>>
      /\ Calls(r, 3) = <<Publish("notifications.order.shipped", "topic")>>
      /\ Steps(r)[1].undo = <<Read(o), Refuse({0}), Record(o, "order.cancelled", AsRead)>>
      /\ Steps(r)[2].undo = <<>> /\ Steps(r)[3].undo = <<>>
  BY FulfillOrderIs DEF FulfillSteps, ReversePayment
<1>4. PICK a, b, c, d, x, y :
        /\ a = Read(o) /\ b = Refuse({0}) /\ c = Record(o, "order.confirmed", AsRead) /\ d = Record(o, "order.cancelled", AsRead)
        /\ x = Record(o, "order.shipped", After("confirm-payment")) /\ y = Publish("notifications.order.shipped", "topic")
  OBVIOUS
<1>5. /\ a.op \notin Telling /\ b.op \notin Telling /\ c.op = "append" /\ c.name = "order.confirmed" /\ c.on = o /\ c.key = NoKey
      /\ d.name = "order.cancelled" /\ x.name = "order.shipped" /\ y.name = "notifications.order.shipped" /\ "append" \in Telling
  BY <1>4, Effectless DEF Telling
<1>6. PICK one, two, three, undo :
        /\ one = Calls(r, 1) /\ two = Calls(r, 2) /\ three = Calls(r, 3) /\ undo = Steps(r)[1].undo
        /\ one = <<a, b, c>> /\ two = <<x>> /\ three = <<y>> /\ undo = <<a, b, d>>
  BY <1>3, <1>4
<1>7. /\ DOMAIN one = {1, 2, 3} /\ one[1] = a /\ one[2] = b /\ one[3] = c /\ Len(one) = 3
      /\ DOMAIN two = {1} /\ two[1] = x /\ DOMAIN three = {1} /\ three[1] = y
      /\ DOMAIN undo = {1, 2, 3} /\ undo[1] = a /\ undo[2] = b /\ undo[3] = d
  BY <1>6
<1>8. ~UndoneBy(k, r, i)
  <2>1. CASE i = 1
    <3>1. ASSUME NEW j \in DOMAIN undo, undo[j].op \in Telling PROVE undo[j].name # "order.shipped"
      BY <1>5, <1>7, <3>1
    <3> QED BY <1>6, <2>1, <3>1 DEF UndoneBy, IsFactOf
  <2>2. CASE i \in {2, 3}
    BY <1>3, <2>2 DEF UndoneBy
  <2> QED BY <1>3, <2>1, <2>2
<1>9. PICK j \in DOMAIN Calls(r, i) : Calls(r, i)[j].op \in Telling /\ Calls(r, i)[j].name = "order.shipped" /\ ToldBefore(k, r, i, j)
  BY <1>2, <1>8 DEF DoneBy, IsFactOf
<1>10. i = 2
  <2>1. i # 1
    BY <1>5, <1>6, <1>7, <1>9
  <2>2. i # 3
    BY <1>5, <1>6, <1>7, <1>9
  <2> QED BY <1>3, <2>1, <2>2
<1>11. PlainCall(r, 1, 3)
  <2>1. \A l \in 1 .. 3 : one[l].op # "wait"
    BY <1>4, <1>5, <1>7 DEF Read, Refuse
  <2>2. NoWait(one)
    BY <1>7, <2>1 DEF NoWait
  <2> QED BY <1>3, <1>5, <1>6, <1>7, <2>2 DEF PlainCall
<1>12. PICK k2 \in DOMAIN log : k2 < k /\ IsFactOf(k2, r, Calls(r, 1)[3])
  <2>1. 1 \in DOMAIN Steps(r) /\ 3 \in DOMAIN Calls(r, 1) /\ 1 < 2
    BY <1>3, <1>6, <1>7
  <2> QED BY <1>3, <1>9, <1>10, <1>11, <2>1 DEF ToldBefore
<1>13. log[k2].on = o /\ log[k2].name = "order.confirmed"
  BY <1>5, <1>6, <1>7, <1>12 DEF IsFactOf
<1> QED BY <1>12, <1>13 DEF Facts, Stream

LEMMA OrderedStream ==
  ASSUME EngineInv, SagaInv, OrderProgram(job), Drafts = {}, hit = {}, NEW r \in Runs, NEW o \in {"o1", "o2"},
         job[r] = FulfillOrder(o)
  PROVE  StreamOrdered(o)
<1>1. Clean(r, o)
  <2>1. Unhit(r)
    BY DEF Unhit
  <2> QED BY <2>1 DEF SagaInv, SagaOK
<1>2. LogIs /\ o # "topic"
  BY DEF EngineInv
<1>3. \A i \in Stream(o) : i \in DOMAIN log /\ log[i].on = o /\ log[i].by \in Runs /\ (Placing(i, o) \/ Fulfilling(i, o))
  BY <1>2, OrderFacts DEF Stream
<1>4. \A i \in Stream(o) : log[i].name \in {"order.placed", "order.confirmed", "order.shipped"}
  BY <1>1, <1>3 DEF Clean, Facts, Placing, Fulfilling, SagaNames
<1>5. OnlyOne(o, "order.placed")
  <2>1. \A i \in Facts(o, "order.placed") : VersionOf(i) = 1 /\ i \in Stream(o)
    BY <1>3 DEF Facts, Placing, Fulfilling, SagaNames
  <2>2. ASSUME NEW i \in Facts(o, "order.placed"), NEW j \in Facts(o, "order.placed") PROVE i = j
    BY <1>2, <1>3, <2>1, VersionsDiffer
  <2> QED BY <2>2 DEF OnlyOne
<1>6. \A c \in Facts(o, "order.confirmed") : \E p \in Facts(o, "order.placed") : p < c
  BY <1>3 DEF Facts, Placing, Fulfilling
<1>7. ASSUME NEW s \in Facts(o, "order.shipped") PROVE \E c \in Facts(o, "order.confirmed") : c < s
  <2>1. s \in Stream(o) /\ log[s].name = "order.shipped"
    BY DEF Facts
  <2>2. job[log[s].by] = FulfillOrder(o) /\ log[s].by \in Runs /\ s \in DOMAIN log
    BY <1>3, <2>1 DEF Placing, Fulfilling
  <2> QED BY <2>1, <2>2, ShippedAfter
<1> QED BY <1>1, <1>4, <1>5, <1>6, <1>7 DEF Clean, StreamOrdered

LEMMA StatusOf ==
  ASSUME LogIs, NEW o, StreamOrdered(o)
  PROVE  OrderSummary(o) = IF Facts(o, "order.shipped") # {} THEN "shipped"
                           ELSE IF Facts(o, "order.confirmed") # {} THEN "confirmed"
                           ELSE IF Facts(o, "order.placed") # {} THEN "placed" ELSE "unknown"
<1>1. PICK m : m = NewestOf(Stream(o))
  OBVIOUS
<1>2. PICK n \in Nat : DOMAIN log = 1 .. n
  BY LogShape
<1>3. Stream(o) \subseteq 1 .. n /\ Stream(o) \subseteq Nat
  BY <1>2 DEF Stream
<1>4. ASSUME NEW i \in Stream(o), \A j \in Stream(o) : j <= i PROVE OrderSummary(o) = StatusAfter(log[i].name)
  <2>1. NewestOf(Stream(o)) = i
    BY <1>3, <1>4, NewestIs
  <2> QED BY <2>1, SummaryIsNewest
<1>5. \A i : i \in Stream(o) <=> i \in Facts(o, "order.placed") \/ i \in Facts(o, "order.confirmed") \/ i \in Facts(o, "order.shipped")
  BY DEF StreamOrdered, Facts
<1>6. CASE Facts(o, "order.shipped") # {}
  <2>1. PICK s \in Facts(o, "order.shipped") : TRUE
    BY <1>6
  <2>2. PICK c \in Facts(o, "order.confirmed") : c < s
    BY DEF StreamOrdered
  <2>3. PICK p \in Facts(o, "order.placed") : p < c
    BY DEF StreamOrdered
  <2>4. s \in Nat /\ c \in Nat /\ p \in Nat
    BY <1>3, <1>5
  <2>5. \A j \in Stream(o) : j = s \/ j = c \/ j = p
    BY <1>5 DEF StreamOrdered, OnlyOne
  <2>6. \A j \in Stream(o) : j <= s
    BY <2>2, <2>3, <2>4, <2>5
  <2>7. s \in Stream(o) /\ log[s].name = "order.shipped"
    BY <1>5 DEF Facts
  <2>8. OrderSummary(o) = StatusAfter("order.shipped")
    BY <1>4, <2>6, <2>7
  <2> QED BY <1>6, <2>8 DEF StatusAfter
<1>7. CASE Facts(o, "order.shipped") = {} /\ Facts(o, "order.confirmed") # {}
  <2>1. PICK c \in Facts(o, "order.confirmed") : TRUE
    BY <1>7
  <2>2. PICK p \in Facts(o, "order.placed") : p < c
    BY DEF StreamOrdered
  <2>3. c \in Nat /\ p \in Nat
    BY <1>3, <1>5
  <2>4. \A j \in Stream(o) : j = c \/ j = p
    BY <1>5, <1>7 DEF StreamOrdered, OnlyOne
  <2>5. \A j \in Stream(o) : j <= c
    BY <2>2, <2>3, <2>4
  <2>6. c \in Stream(o) /\ log[c].name = "order.confirmed"
    BY <1>5 DEF Facts
  <2>7. OrderSummary(o) = StatusAfter("order.confirmed")
    BY <1>4, <2>5, <2>6
  <2> QED BY <1>7, <2>7 DEF StatusAfter
<1>8. CASE Facts(o, "order.shipped") = {} /\ Facts(o, "order.confirmed") = {} /\ Facts(o, "order.placed") # {}
  <2>1. PICK p \in Facts(o, "order.placed") : TRUE
    BY <1>8
  <2>2. \A j \in Stream(o) : j = p
    BY <1>5, <1>8 DEF StreamOrdered, OnlyOne
  <2>3. p \in Stream(o) /\ log[p].name = "order.placed" /\ p \in Nat
    BY <1>3, <1>5 DEF Facts
  <2>4. \A j \in Stream(o) : j <= p
    BY <2>2, <2>3
  <2>5. OrderSummary(o) = StatusAfter("order.placed")
    BY <1>4, <2>3, <2>4
  <2> QED BY <1>8, <2>5 DEF StatusAfter
<1>9. CASE Facts(o, "order.shipped") = {} /\ Facts(o, "order.confirmed") = {} /\ Facts(o, "order.placed") = {}
  <2>1. Stream(o) = {}
    BY <1>5, <1>9
  <2> QED BY <1>9, <2>1, SummaryIsNewest
<1> QED BY <1>6, <1>7, <1>8, <1>9

(* The counts of the dashboard.                                             *)
DashboardStates == [Statuses -> Int]
NoCounts == [s \in Statuses |-> 0]

Changes(m, n, placed, confirmed, shipped) ==
  /\ m["placed"] = n["placed"] + placed /\ m["confirmed"] = n["confirmed"] + confirmed
  /\ m["shipped"] = n["shipped"] + shipped /\ m["cancelled"] = n["cancelled"]

LEMMA MovedPlaced ==
  ASSUME NEW n \in DashboardStates, NEW f, f.name = "order.placed"
  PROVE  Moved(n, f) \in DashboardStates /\ Changes(Moved(n, f), n, 1, 0, 0)
<1>1. n \in [{"placed", "confirmed", "shipped", "cancelled"} -> Int]
  BY DEF DashboardStates, Statuses
<1>2. Moved(n, f) = [n EXCEPT !["placed"] = @ + 1]
  BY DEF Moved
<1> QED BY <1>1, <1>2 DEF DashboardStates, Statuses, Changes

LEMMA MovedConfirmed ==
  ASSUME NEW n \in DashboardStates, NEW f, f.name = "order.confirmed"
  PROVE  Moved(n, f) \in DashboardStates /\ Changes(Moved(n, f), n, -1, 1, 0)
<1>1. n \in [{"placed", "confirmed", "shipped", "cancelled"} -> Int]
  BY DEF DashboardStates, Statuses
<1>2. Moved(n, f) = [n EXCEPT !["placed"] = @ - 1, !["confirmed"] = @ + 1]
  BY DEF Moved
<1> QED BY <1>1, <1>2 DEF DashboardStates, Statuses, Changes

LEMMA MovedShipped ==
  ASSUME NEW n \in DashboardStates, NEW f, f.name = "order.shipped"
  PROVE  Moved(n, f) \in DashboardStates /\ Changes(Moved(n, f), n, 0, -1, 1)
<1>1. n \in [{"placed", "confirmed", "shipped", "cancelled"} -> Int]
  BY DEF DashboardStates, Statuses
<1>2. Moved(n, f) = [n EXCEPT !["confirmed"] = @ - 1, !["shipped"] = @ + 1]
  BY DEF Moved
<1> QED BY <1>1, <1>2 DEF DashboardStates, Statuses, Changes

LEMMA MovedIs ==
  ASSUME NEW n \in DashboardStates, NEW f
  PROVE  Moved(n, f) \in DashboardStates
<1>1. n \in [{"placed", "confirmed", "shipped", "cancelled"} -> Int]
  BY DEF DashboardStates, Statuses
<1>2. CASE f.name \in {"order.placed", "order.confirmed", "order.shipped"}
  BY <1>2, MovedPlaced, MovedConfirmed, MovedShipped
<1>3. CASE f.name = "order.cancelled"
  <2>1. Moved(n, f) = [n EXCEPT !["confirmed"] = IF @ > 0 THEN @ - 1 ELSE 0, !["cancelled"] = @ + 1]
    BY <1>3 DEF Moved
  <2> QED BY <1>1, <1>3, <2>1 DEF DashboardStates, Statuses
<1>4. CASE f.name \notin {"order.placed", "order.confirmed", "order.shipped", "order.cancelled"}
  BY <1>4 DEF Moved
<1> QED BY <1>2, <1>3, <1>4

LEMMA MovesAre ==
  ASSUME NEW D, log \in Seq(D)
  PROVE  \E G : /\ G \in [0 .. Len(log) -> DashboardStates] /\ G[0] = NoCounts
                /\ \A i \in 1 .. Len(log) : G[i] = Moved(G[i - 1], log[i])
                /\ OrderDashboard = G[Len(log)]
<1> DEFINE R == [s \in DashboardStates |-> [f \in D |-> Moved(s, f)]]
<1>1. NoCounts \in DashboardStates
  BY DEF NoCounts, DashboardStates
<1>2. \A s \in DashboardStates, f \in D : Moved(s, f) \in DashboardStates
  BY MovedIs
<1>3. R \in [DashboardStates -> [D -> DashboardStates]] /\ \A s \in DashboardStates, f \in D : R[s][f] = Moved(s, f)
  BY <1>2
<1> HIDE DEF R
<1>4. PICK G : Unfolds(G, DashboardStates, NoCounts, R, log)
  BY <1>1, <1>3, FoldExists
<1>5. PICK n : n = Len(log) /\ n \in Nat /\ log \in [1 .. n -> D]
  BY LenProperties
<1>6. /\ G \in [0 .. n -> DashboardStates] /\ G[0] = NoCounts
      /\ \A i \in 1 .. n : G[i] = Moved(G[i - 1], log[i])
  <2>1. /\ G \in [0 .. n -> DashboardStates] /\ G[0] = NoCounts
        /\ \A i \in 1 .. n : G[i] = R[G[i - 1]][log[i]]
    BY <1>4, <1>5 DEF Unfolds
  <2>2. \A i \in 1 .. n : G[i - 1] \in DashboardStates /\ log[i] \in D
    BY <1>5, <2>1
  <2> QED BY <1>3, <2>1, <2>2
<1> DEFINE F(h) == [i \in 0 .. n |-> IF i = 0 THEN NoCounts ELSE Moved(h[i - 1], log[i])]
<1>7. G = F(G)
  <2>1. \A i \in 0 .. n : G[i] = IF i = 0 THEN NoCounts ELSE Moved(G[i - 1], log[i])
    BY <1>6
  <2>2. DOMAIN G = 0 .. n /\ G = [i \in 0 .. n |-> G[i]]
    BY <1>6
  <2> QED BY <2>1, <2>2
<1>8. PICK h : h = F(h) /\ OrderDashboard = h[n]
  BY <1>5, <1>7 DEF Folded, OrderDashboard, NoCounts
<1>9. Alike(G, h, n)
  <2>1. PICK f : f = F(h) /\ f = h
    BY <1>8
  <2>2. \A i \in 0 .. n : f[i] = IF i = 0 THEN NoCounts ELSE Moved(h[i - 1], log[i])
    BY <2>1
  <2>3. h[0] = NoCounts /\ \A i \in 1 .. n : h[i] = Moved(h[i - 1], log[i])
    BY <1>5, <2>1, <2>2
  <2> QED BY <1>6, <2>3 DEF Alike
<1>10. OrderDashboard = G[n]
  <2>1. n \in 0 .. n /\ \A i \in 0 .. n : G[i] = h[i]
    BY <1>5, <1>9, SameValues
  <2> QED BY <1>8, <2>1
<1> QED BY <1>5, <1>6, <1>10

(* Where nothing was cancelled.                                             *)
NamedBy(n) == {k \in DOMAIN log : log[k].name = n}
LEMMA DashboardCounts ==
  ASSUME LogIs, NamedBy("order.cancelled") = {}
  PROVE  /\ OrderDashboard \in DashboardStates
         /\ OrderDashboard["placed"] + (OrderDashboard["confirmed"] + OrderDashboard["shipped"])
              = Cardinality(NamedBy("order.placed"))
         /\ OrderDashboard["confirmed"] + OrderDashboard["shipped"] = Cardinality(NamedBy("order.confirmed"))
         /\ OrderDashboard["shipped"] = Cardinality(NamedBy("order.shipped"))
         /\ OrderDashboard["cancelled"] = 0
<1>1. PICK D : log \in Seq(D)
  BY DEF LogIs
<1>2. PICK n : n = Len(log) /\ n \in Nat /\ DOMAIN log = 1 .. n
  BY <1>1, LenProperties
<1>3. PICK G : /\ G \in [0 .. n -> DashboardStates] /\ G[0] = NoCounts
               /\ \A i \in 1 .. n : G[i] = Moved(G[i - 1], log[i])
               /\ OrderDashboard = G[n]
  BY <1>1, <1>2, MovesAre
<1>4. \A i \in 0 .. n : G[i] \in DashboardStates
  BY <1>3
<1>5. \A s \in DashboardStates : s["placed"] \in Int /\ s["confirmed"] \in Int /\ s["shipped"] \in Int /\ s["cancelled"] \in Int
  BY DEF DashboardStates, Statuses
<1>6. NoCounts["placed"] = 0 /\ NoCounts["confirmed"] = 0 /\ NoCounts["shipped"] = 0 /\ NoCounts["cancelled"] = 0
  BY DEF NoCounts, Statuses
<1>7. /\ NamedBy("order.placed") \subseteq 1 .. n /\ NamedBy("order.confirmed") \subseteq 1 .. n
      /\ NamedBy("order.shipped") \subseteq 1 .. n /\ {} \subseteq 1 .. n
  BY <1>2 DEF NamedBy
<1>8. \A i \in 1 .. n : log[i].name # "order.cancelled" /\ \A m : i \in NamedBy(m) <=> log[i].name = m
  BY <1>2 DEF NamedBy
<1> DEFINE a == [i \in 0 .. n |-> G[i]["placed"] + (G[i]["confirmed"] + G[i]["shipped"])]
           b == [i \in 0 .. n |-> G[i]["confirmed"] + G[i]["shipped"]]
           c == [i \in 0 .. n |-> G[i]["shipped"]]
           d == [i \in 0 .. n |-> G[i]["cancelled"]]
<1>9. a[0] = 0 /\ b[0] = 0 /\ c[0] = 0 /\ d[0] = 0
  BY <1>2, <1>3, <1>6
<1>10. ASSUME NEW i \in 1 .. n
       PROVE  /\ a[i] = IF i \in NamedBy("order.placed") THEN a[i - 1] + 1 ELSE a[i - 1]
              /\ b[i] = IF i \in NamedBy("order.confirmed") THEN b[i - 1] + 1 ELSE b[i - 1]
              /\ c[i] = IF i \in NamedBy("order.shipped") THEN c[i - 1] + 1 ELSE c[i - 1]
              /\ d[i] = IF i \in {} THEN d[i - 1] + 1 ELSE d[i - 1]
  <2>1. i \in 0 .. n /\ i - 1 \in 0 .. n
    BY <1>2
  <2>2. PICK p, q, f : p = G[i - 1] /\ q = G[i] /\ f = log[i] /\ q = Moved(p, f) /\ p \in DashboardStates
    BY <1>3, <1>4, <2>1
  <2>3. /\ a[i] = q["placed"] + (q["confirmed"] + q["shipped"]) /\ a[i - 1] = p["placed"] + (p["confirmed"] + p["shipped"])
        /\ b[i] = q["confirmed"] + q["shipped"] /\ b[i - 1] = p["confirmed"] + p["shipped"]
        /\ c[i] = q["shipped"] /\ c[i - 1] = p["shipped"]
        /\ d[i] = q["cancelled"] /\ d[i - 1] = p["cancelled"]
    BY <2>1, <2>2
  <2>4. p["placed"] \in Int /\ p["confirmed"] \in Int /\ p["shipped"] \in Int /\ p["cancelled"] \in Int
    BY <1>5, <2>2
  <2>5. f.name # "order.cancelled" /\ \A m : i \in NamedBy(m) <=> f.name = m
    BY <1>8, <2>2
  <2> HIDE DEF a, b, c, d
  <2>6. CASE f.name = "order.placed"
    <3>1. Changes(q, p, 1, 0, 0)
      BY <2>2, <2>6, MovedPlaced
    <3> QED BY <2>3, <2>4, <2>5, <2>6, <3>1 DEF Changes
  <2>7. CASE f.name = "order.confirmed"
    <3>1. Changes(q, p, -1, 1, 0)
      BY <2>2, <2>7, MovedConfirmed
    <3> QED BY <2>3, <2>4, <2>5, <2>7, <3>1 DEF Changes
  <2>8. CASE f.name = "order.shipped"
    <3>1. Changes(q, p, 0, -1, 1)
      BY <2>2, <2>8, MovedShipped
    <3> QED BY <2>3, <2>4, <2>5, <2>8, <3>1 DEF Changes
  <2>9. CASE f.name \notin {"order.placed", "order.confirmed", "order.shipped", "order.cancelled"}
    <3>1. q = p
      BY <2>2, <2>9 DEF Moved
    <3> QED BY <2>3, <2>4, <2>5, <2>9, <3>1
  <2> QED BY <2>5, <2>6, <2>7, <2>8, <2>9
<1>11. /\ a[n] = OrderDashboard["placed"] + (OrderDashboard["confirmed"] + OrderDashboard["shipped"])
       /\ b[n] = OrderDashboard["confirmed"] + OrderDashboard["shipped"] /\ c[n] = OrderDashboard["shipped"]
       /\ d[n] = OrderDashboard["cancelled"]
  BY <1>2, <1>3
<1> HIDE DEF a, b, c, d
<1>12. a[n] = Cardinality(NamedBy("order.placed"))
  BY <1>2, <1>7, <1>9, <1>10, Counting
<1>13. b[n] = Cardinality(NamedBy("order.confirmed"))
  BY <1>2, <1>7, <1>9, <1>10, Counting
<1>14. c[n] = Cardinality(NamedBy("order.shipped"))
  BY <1>2, <1>7, <1>9, <1>10, Counting
<1>15. d[n] = 0
  <2>1. d[n] = Cardinality({})
    BY <1>2, <1>7, <1>9, <1>10, Counting
  <2> QED BY <2>1, FS_EmptySet, Zenon
<1> QED BY <1>2, <1>3, <1>4, <1>11, <1>12, <1>13, <1>14, <1>15

(* Every event of an order is on the stream of one that has a saga.         *)
OrderNames == {"order.placed", "order.confirmed", "order.shipped", "order.cancelled"}
LEMMA SagaOrders ==
  ASSUME OrderProgram(job), NEW r \in Runs, NEW o, job[r] = FulfillOrder(o)
  PROVE  o \in Orders /\ o \in {"o1", "o2"}
<1>1. job[r].id = "fulfill-order" /\ job[r].steps[1].does[1].on = o
  BY FulfillOrderIs DEF FulfillSteps
<1>2. o \in Orders
  BY <1>1 DEF Orders
<1>3. OrderJob(job[r])
  BY DEF OrderProgram
<1>4. \A p, v : PlaceOrder(p, v).id = "place-order" /\ NotDeployed.id = "none"
  BY DEF PlaceOrder, NotDeployed, Function
<1>5. PICK p \in {"o1", "o2"} : job[r] = FulfillOrder(p)
  BY <1>1, <1>3, <1>4 DEF OrderJob
<1>6. job[r].steps[1].does[1].on = p
  BY <1>5, FulfillOrderIs DEF FulfillSteps
<1> QED BY <1>1, <1>2, <1>6

LEMMA EventsOfOrders ==
  ASSUME EngineInv, OrderProgram(job), Drafts = {}, HaveSagas(job), NEW k \in DOMAIN log, log[k].name \in OrderNames
  PROVE  log[k].on \in Orders
<1>1. log[k].by \in Runs /\ (Placing(k, log[k].on) \/ Fulfilling(k, log[k].on))
  BY OrderFacts DEF OrderNames
<1>2. \E r \in Runs : job[r] = FulfillOrder(log[k].on)
  <2>1. CASE Placing(k, log[k].on)
    BY <1>1, <2>1 DEF Placing, HaveSagas
  <2>2. CASE Fulfilling(k, log[k].on)
    BY <1>1, <2>2 DEF Fulfilling
  <2> QED BY <1>1, <2>1, <2>2
<1> QED BY <1>2, SagaOrders

LEMMA OrdersAreOrdered ==
  ASSUME EngineInv, SagaInv, OrderProgram(job), Drafts = {}, hit = {}, NEW o \in Orders
  PROVE  StreamOrdered(o)
<1>1. PICK r \in Runs : job[r].id = "fulfill-order" /\ o = job[r].steps[1].does[1].on
  BY DEF Orders
<1>2. OrderJob(job[r])
  BY DEF OrderProgram
<1>3. \A p, v : PlaceOrder(p, v).id = "place-order" /\ NotDeployed.id = "none"
  BY DEF PlaceOrder, NotDeployed, Function
<1>4. PICK p \in {"o1", "o2"} : job[r] = FulfillOrder(p)
  BY <1>1, <1>2, <1>3 DEF OrderJob
<1>5. o = p
  BY <1>1, <1>4, FulfillOrderIs DEF FulfillSteps
<1> QED BY <1>4, <1>5, OrderedStream

WithFact(n) == {o \in Orders : Facts(o, n) # {}}
LEMMA OrdersWith ==
  ASSUME LogIs, NEW n, \A k \in NamedBy(n) : log[k].on \in Orders, \A o \in Orders : OnlyOne(o, n)
  PROVE  IsFiniteSet(WithFact(n)) /\ Cardinality(WithFact(n)) = Cardinality(NamedBy(n))
<1> DEFINE f == [k \in NamedBy(n) |-> log[k].on]
<1>1. IsFiniteSet(NamedBy(n))
  BY FactsAreFinite DEF NamedBy
<1>2. \A k \in NamedBy(n) : k \in Facts(log[k].on, n) /\ log[k].on \in WithFact(n)
  BY DEF NamedBy, Facts, Stream, WithFact
<1>3. \A o \in WithFact(n) : \E k \in NamedBy(n) : log[k].on = o
  BY DEF NamedBy, Facts, Stream, WithFact
<1>4. \A k, l \in NamedBy(n) : log[k].on = log[l].on => k = l
  BY <1>2 DEF OnlyOne
<1>5. f \in Bijection(NamedBy(n), WithFact(n))
  <2>1. f \in [NamedBy(n) -> WithFact(n)] /\ \A k \in NamedBy(n) : f[k] = log[k].on
    BY <1>2
  <2> HIDE DEF f
  <2>2. IsInjective(f)
    BY <1>4, <2>1 DEF IsInjective
  <2> QED BY <1>3, <2>1, <2>2 DEF Bijection, Injection, Surjection
<1> HIDE DEF f
<1> QED BY <1>1, <1>5, FS_Bijection DEF ExistsBijection

LEMMA DashboardRecount ==
  ASSUME EngineInv, DeployedKinds, SagaInv, HaveSagas(job)
  PROVE  DashboardIsRecount
<1> DEFINE placed == WithFact("order.placed")
           confirmed == WithFact("order.confirmed")
           shipped == WithFact("order.shipped")
<1>1. SUFFICES ASSUME hit = {}, Orders # {}, NEW s \in Statuses
               PROVE  OrderDashboard[s] = Cardinality({o \in Orders : OrderSummary(o) = s})
  BY DEF DashboardIsRecount
<1>2. OrderProgram(job) /\ Drafts = {} /\ LogIs
  BY <1>1, OrdersAre DEF EngineInv
<1>3. \A o \in Orders : StreamOrdered(o)
  BY <1>1, <1>2, OrdersAreOrdered
<1>4. ASSUME NEW n \in OrderNames, NEW k \in NamedBy(n) PROVE log[k].on \in Orders
  BY <1>2, <1>4, EventsOfOrders DEF NamedBy
<1>5. NamedBy("order.cancelled") = {}
  <2>1. ASSUME NEW k \in NamedBy("order.cancelled") PROVE FALSE
    <3>1. log[k].on \in Orders /\ k \in Stream(log[k].on) /\ log[k].name = "order.cancelled"
      BY <1>4, <2>1 DEF NamedBy, OrderNames, Stream
    <3> QED BY <1>3, <3>1 DEF StreamOrdered
  <2> QED BY <2>1
<1>6. ASSUME NEW n \in {"order.placed", "order.confirmed", "order.shipped"}
      PROVE  IsFiniteSet(WithFact(n)) /\ Cardinality(WithFact(n)) = Cardinality(NamedBy(n))
  <2>1. \A k \in NamedBy(n) : log[k].on \in Orders
    BY <1>4 DEF OrderNames
  <2>2. \A o \in Orders : OnlyOne(o, n)
    BY <1>3 DEF StreamOrdered
  <2> QED BY <1>2, <2>1, <2>2, OrdersWith
<1>7. shipped \subseteq confirmed /\ confirmed \subseteq placed
  BY <1>3 DEF WithFact, StreamOrdered
<1>8. ASSUME NEW o \in Orders
      PROVE  /\ OrderSummary(o) = "shipped" <=> o \in shipped
             /\ OrderSummary(o) = "confirmed" <=> o \in confirmed \ shipped
             /\ OrderSummary(o) = "placed" <=> o \in placed \ confirmed
             /\ OrderSummary(o) # "cancelled"
  <2>1. OrderSummary(o) = IF Facts(o, "order.shipped") # {} THEN "shipped"
                          ELSE IF Facts(o, "order.confirmed") # {} THEN "confirmed"
                          ELSE IF Facts(o, "order.placed") # {} THEN "placed" ELSE "unknown"
    BY <1>2, <1>3, StatusOf
  <2>2. o \in shipped => o \in confirmed
    BY <1>7
  <2> QED BY <2>1, <2>2 DEF WithFact
<1>9. /\ {o \in Orders : OrderSummary(o) = "shipped"} = shipped
      /\ {o \in Orders : OrderSummary(o) = "confirmed"} = confirmed \ shipped
      /\ {o \in Orders : OrderSummary(o) = "placed"} = placed \ confirmed
      /\ {o \in Orders : OrderSummary(o) = "cancelled"} = {}
  BY <1>8 DEF WithFact
<1>10. PICK p, c, d \in Int : p = Cardinality(placed) /\ c = Cardinality(confirmed) /\ d = Cardinality(shipped)
  BY <1>6, FS_CardinalityType
<1>11. Cardinality(confirmed \ shipped) = c - d /\ Cardinality(placed \ confirmed) = p - c
  <2>1. confirmed \cap shipped = shipped /\ placed \cap confirmed = confirmed
    BY <1>7
  <2>2. IsFiniteSet(confirmed) /\ IsFiniteSet(placed)
    BY <1>6
  <2> HIDE DEF placed, confirmed, shipped
  <2>3. Cardinality(confirmed \ shipped) = Cardinality(confirmed) - Cardinality(confirmed \cap shipped)
    BY <2>2, FS_Difference
  <2>4. Cardinality(placed \ confirmed) = Cardinality(placed) - Cardinality(placed \cap confirmed)
    BY <2>2, FS_Difference
  <2> QED BY <1>10, <2>1, <2>3, <2>4
<1>12. PICK x, y, z \in Int : x = OrderDashboard["placed"] /\ y = OrderDashboard["confirmed"] /\ z = OrderDashboard["shipped"]
  BY <1>2, <1>5, DashboardCounts DEF DashboardStates, Statuses
<1>13. x + (y + z) = p /\ y + z = c /\ z = d /\ OrderDashboard["cancelled"] = 0
  BY <1>2, <1>5, <1>6, <1>10, <1>12, DashboardCounts
<1>14. x = p - c /\ y = c - d /\ z = d
  BY <1>10, <1>12, <1>13
<1>15. Cardinality({}) = 0
  BY FS_EmptySet
<1> HIDE DEF placed, confirmed, shipped
<1>16. CASE s = "placed"
  BY <1>9, <1>11, <1>12, <1>14, <1>16
<1>17. CASE s = "confirmed"
  BY <1>9, <1>11, <1>12, <1>14, <1>17
<1>18. CASE s = "shipped"
  BY <1>9, <1>10, <1>12, <1>14, <1>18
<1>19. CASE s = "cancelled"
  BY <1>9, <1>13, <1>15, <1>19
<1> QED BY <1>1, <1>16, <1>17, <1>18, <1>19 DEF Statuses

-----------------------------------------------------------------------------
(* The projections of the examples, from here.                              *)

(* The list is what the users did, whichever events reach the projection    *)
(* twice: the todos added and not deleted since, each as the last toggle    *)
(* after it left it (todo-web, the todos projection).                       *)
THEOREM TodoListStaysExact == Spec => []TodoListIsExact
<1>1. EngineInv /\ OnceInv /\ Deployment => TodoListIsExact
  BY TodosExact
<1> QED BY <1>1, OnceInvariance, Deployments, PTL

(* The memory of documents holds those some event processed, whichever      *)
(* event reaches the projection twice, and every one that a completed run   *)
(* processed or verify.ts saw; the memory of research has an entry for      *)
(* every completed run, and one at most when no run was executed again      *)
(* (doc-processor-agent, ai-agent).                                         *)
THEOREM MemoryStaysAgreed == Spec => []MemoryAgreesWithRuns
<1>1. EngineInv /\ OnceInv /\ PollInv /\ Deployment => MemoryAgreesWithRuns
  BY MemoriesAgree
<1> QED BY <1>1, OnceInvariance, VerifyInvariance, Deployments, PTL

(* Nobody is mailed about an order that order-stats has not counted, a      *)
(* completed run has mailed, and one that mailed twice was executed again   *)
(* (quickstart, process-order and order-stats).                             *)
THEOREM EmailsStayBehindOrders == Spec => []EmailsFollowOrders
<1>1. EngineInv /\ OnceInv /\ Deployment => EmailsFollowOrders
  BY EmailsFollow
<1> QED BY <1>1, OnceInvariance, Deployments, PTL

(* The dashboard counts the orders in each status, although it moves counts *)
(* without knowing the order, as long as nothing was executed again         *)
(* (ddd-order-management, order-dashboard).                                 *)
THEOREM DashboardStaysARecount == Spec => []DashboardIsRecount
<1>1. EngineInv /\ DeployedKinds /\ SagaInv /\ HaveSagas(job) => DashboardIsRecount
  BY DashboardRecount
<1> QED BY <1>1, SagaInvariance, SagasDeployed, PTL

(* What a projection says is what happened, each in the measure its reducer *)
(* allows; the rules of the reconciliation agent, too, are the same         *)
(* whichever event reaches their projection twice (curatedRules).           *)
THEOREM ProjectionsStayTrue == Spec => []ProjectionsFollowTheLog
<1>1. EngineInv => RulesAreCurated
  BY TwiceIsOnce DEF EngineInv
<1>2. /\ EngineInv
      /\ TodoListIsExact /\ MemoryAgreesWithRuns /\ DashboardIsRecount /\ EmailsFollowOrders
      => ProjectionsFollowTheLog
  BY <1>1 DEF ProjectionsFollowTheLog
<1> QED BY <1>2, EngineInvariance, TodoListStaysExact, MemoryStaysAgreed, DashboardStaysARecount, EmailsStayBehindOrders, PTL
=============================================================================
