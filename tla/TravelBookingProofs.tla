------------------------ MODULE TravelBookingProofs ------------------------
(* Proofs about TravelBooking, for any trips, capacities, attempts and     *)
(* bounds.                                                                 *)
EXTENDS TravelBooking, FiniteSetTheorems, SequenceTheorems, TLAPS

-----------------------------------------------------------------------------
(* The streams: what folds to a count.                                     *)

(* A stream that is still to be seeded is empty.                           *)
SeedOK == worker \in Resources => inv[worker].version = 0

(* A reset was begun and counted.                                          *)
ResetOK == resetting # "no" => resets > 0

(* What is held is at most what is out, and, without a reset, just that.   *)
Counted ==
  \A x \in Resources :
    /\ IsFiniteSet(Holds(x))
    /\ inv[x].held <= Capacity[x] /\ inv[x].held <= HeldBy(x)
    /\ resets = 0 => inv[x].held = HeldBy(x)

(* A trip that appends at a version nobody has moved saw a free seat.      *)
ReadOK(b) ==
  /\ step[b] \in Resources /\ at[b] \in {"fold", "append"} => version[b] <= inv[step[b]].version
  /\ step[b] \in Resources /\ at[b] = "append" /\ Unmoved(b, step[b]) => HasCapacity(step[b])

-----------------------------------------------------------------------------
(* A trip: where it is says what it has registered and what is noted.      *)
Noted(b, e) == Places(b, {e}) # {}

Registered == [idle |-> <<>>, start |-> <<>>, flight |-> <<>>, hotel |-> <<"flight">>,
               charge |-> <<"hotel", "flight">>,
               confirm |-> <<"charge", "hotel", "flight">>,
               confirmed |-> <<"charge", "hotel", "flight">>]
Unwound == {<<>>, <<"flight">>, <<"hotel", "flight">>, <<"charge", "hotel", "flight">>}
ToUndo(b, s) == \E i \in DOMAIN undo[b] : undo[b][i] = s

UndoOK(b) ==
  /\ undo[b] \in Unwound
  /\ step[b] \in DOMAIN Registered => undo[b] = Registered[step[b]]
  /\ At(b, "undo", "append") => undo[b] # <<>> /\ Head(undo[b]) \in Resources

Unwinding(b) == step[b] \in {"undo", "failed"}

(* What is on the booking stream.                                          *)
NotesOK(b) ==
  /\ ToUndo(b, "charge") \/ At(b, "charge", "record") => Noted(b, "paid")
  /\ \A s \in DOMAIN Undoes : Noted(b, Undoes[s]) => Unwinding(b)
  /\ \A x \in Resources : \A i \in Places(b, {Undoes[x]}), j \in Places(b, {Does[x]}) : j < i

(* The last outcome on it.                                                 *)
OutcomeOK(b) ==
  /\ Outcomes(b) # {} => /\ Max(Outcomes(b)) \in Outcomes(b)
                         /\ \A i \in Outcomes(b) : i <= Max(Outcomes(b))
  /\ step[b] \notin {"confirm", "confirmed", "undo", "failed"} => Outcomes(b) = {}
  /\ step[b] \in {"confirm", "confirmed"} => ~Noted(b, "failed")
  /\ At(b, "confirm", "record") \/ step[b] = "confirmed" => Noted(b, "confirmed")
  /\ Unwinding(b) => Shown(b) = "failed"

(* How many holds a trip has out: one more than what crashes have doubled  *)
(* while it holds, no more than that when it gave its own back.            *)
Before == [flight |-> {"idle", "start"}, hotel |-> {"idle", "start", "flight"}]
ToHold(b, x) == step[b] \in Before[x] \/ (step[b] = x /\ at[b] \in {"info", "fold", "append"})
Holding(b, x) ==
  \/ step[b] = x /\ at[b] \in {"note", "record"}
  \/ ToUndo(b, x)
  \/ Noted(b, Does[x]) /\ ~Noted(b, Undoes[x])

HoldsOK(b) ==
  \A x \in Resources :
    /\ own[b][x] <= crashes + 1
    /\ ToHold(b, x) \/ Noted(b, Undoes[x]) => own[b][x] <= crashes
    /\ resets = 0 /\ Holding(b, x) => own[b][x] >= 1

TripOK(b) == ReadOK(b) /\ UndoOK(b) /\ NotesOK(b) /\ OutcomeOK(b) /\ HoldsOK(b)

IInv == TypeOK /\ SeedOK /\ ResetOK /\ Counted /\ \A b \in Bookings : TripOK(b)

-----------------------------------------------------------------------------
(* Streams, counts and lists.                                              *)

LEMMA ResourceFacts ==
  /\ Resources = {"flight", "hotel"}
  /\ \A x \in Resources : Capacity[x] \in Nat \ {0}
BY CapacityAssumption DEF Resources, Capacity

LEMMA MaxIs ==
  ASSUME NEW S, S \subseteq Int, NEW n \in S, \A i \in S : i <= n
  PROVE  Max(S) = n
<1>1. n \in S /\ \A i \in S : n >= i
  OBVIOUS
<1>2. \A m \in S : (\A i \in S : m >= i) => m = n
  OBVIOUS
<1> QED BY <1>1, <1>2 DEF Max

LEMMA ClampFacts ==
  ASSUME NEW n \in Int, NEW max \in Nat
  PROVE  /\ Clamp(n, max) \in Nat /\ Clamp(n, max) <= max
         /\ n <= max => Clamp(n, max) = (IF n >= 0 THEN n ELSE 0)
         /\ n >= 0 => Clamp(n, max) <= n
<1> DEFINE m == IF n <= max THEN n ELSE max
<1>1. Min({n, max}) = m
  <2>1. m \in {n, max} /\ \A i \in {n, max} : m =< i
    OBVIOUS
  <2>2. \A k \in {n, max} : (\A i \in {n, max} : k =< i) => k = m
    OBVIOUS
  <2> QED BY <2>1, <2>2 DEF Min
<1>2. Max({0, m}) = IF m >= 0 THEN m ELSE 0
  BY MaxIs
<1> QED BY <1>1, <1>2 DEF Clamp

(* A hold that is appended when a seat is free is counted; one that is     *)
(* given back no longer is.                                                *)
LEMMA BumpFacts ==
  ASSUME TypeOK, NEW x \in Resources
  PROVE  /\ \A d \in {1, -1} : /\ Bump(x, d) \in [version : Nat, held : Nat]
                               /\ Bump(x, d).version = inv[x].version + 1
                               /\ Bump(x, d).held <= Capacity[x]
         /\ Bump(x, 1).held <= inv[x].held + 1
         /\ HasCapacity(x) => Bump(x, 1).held = inv[x].held + 1
         /\ inv[x].held <= Capacity[x] =>
              Bump(x, -1).held = IF inv[x].held = 0 THEN 0 ELSE inv[x].held - 1
<1>1. inv[x].held \in Nat /\ inv[x].version \in Nat /\ Capacity[x] \in Nat
  BY ResourceFacts DEF TypeOK
<1> DEFINE held == inv[x].held
           cap == Capacity[x]
<1> HIDE DEF held, cap
<1>a. \A n \in Int : /\ Clamp(n, cap) \in Nat /\ Clamp(n, cap) <= cap
                     /\ n <= cap => Clamp(n, cap) = (IF n >= 0 THEN n ELSE 0)
                     /\ n >= 0 => Clamp(n, cap) <= n
  BY <1>1, ClampFacts DEF cap
<1>b. held \in Nat /\ cap \in Nat /\ held + 1 \in Int /\ held + (-1) \in Int
  BY <1>1 DEF held, cap
<1>2. \A d \in {1, -1} : Clamp(inv[x].held + d, Capacity[x]) \in Nat
                         /\ Clamp(inv[x].held + d, Capacity[x]) <= Capacity[x]
  BY <1>a, <1>b DEF held, cap
<1>3. /\ Clamp(inv[x].held + 1, Capacity[x]) <= inv[x].held + 1
      /\ HasCapacity(x) => Clamp(inv[x].held + 1, Capacity[x]) = inv[x].held + 1
  <2>1. Clamp(held + 1, cap) <= held + 1 /\ (cap - held > 0 => Clamp(held + 1, cap) = held + 1)
    BY <1>a, <1>b
  <2> QED BY <2>1 DEF HasCapacity, held, cap
<1>4. inv[x].held <= Capacity[x] =>
        Clamp(inv[x].held + (-1), Capacity[x]) = IF inv[x].held = 0 THEN 0 ELSE inv[x].held - 1
  <2>1. held <= cap => Clamp(held + (-1), cap) = IF held = 0 THEN 0 ELSE held - 1
    BY <1>a, <1>b
  <2> QED BY <2>1 DEF held, cap
<1> QED BY <1>1, <1>2, <1>3, <1>4 DEF Bump

(* The holds that are out, one by one.                                     *)
LEMMA HoldOut ==
  ASSUME NEW x, NEW h
  PROVE  h \in Holds(x) <=> \E b \in Bookings : h \in {b} \X (1 .. own[b][x])
BY DEF Holds

LEMMA HoldAdded ==
  ASSUME TypeOK, NEW b \in Bookings, NEW x \in Resources,
         own' = [own EXCEPT ![b][x] = @ + 1], IsFiniteSet(Holds(x))
  PROVE  /\ IsFiniteSet(Holds(x)') /\ HeldBy(x)' = HeldBy(x) + 1
         /\ \A y \in Resources : y # x => Holds(y)' = Holds(y)
<1> DEFINE new == <<b, own[b][x] + 1>>
<1>1. /\ own[b][x] \in Nat /\ own'[b][x] = own[b][x] + 1
      /\ \A c \in Bookings, y \in Resources : c # b \/ y # x => own'[c][y] = own[c][y]
  BY DEF TypeOK
<1>2. \A y \in Resources : y # x => Holds(y)' = Holds(y)
  BY <1>1 DEF Holds
<1>3. 1 .. own'[b][x] = (1 .. own[b][x]) \cup {own[b][x] + 1}
  BY <1>1
<1>4. Holds(x)' = Holds(x) \cup {new}
  <2>1. ASSUME NEW h \in Holds(x)' PROVE h \in Holds(x) \cup {new}
    <3>1. PICK c \in Bookings : h \in {c} \X (1 .. own'[c][x])
      BY <2>1 DEF Holds
    <3> QED BY <1>1, <1>3, <3>1, HoldOut
  <2>2. ASSUME NEW h \in Holds(x) PROVE h \in Holds(x)'
    <3>1. PICK c \in Bookings : h \in {c} \X (1 .. own[c][x])
      BY <2>2, HoldOut
    <3>2. h \in {c} \X (1 .. own'[c][x])
      BY <1>1, <1>3, <3>1
    <3> QED BY <3>2 DEF Holds
  <2>3. new \in Holds(x)'
    <3>1. new \in {b} \X (1 .. own'[b][x])
      BY <1>1
    <3> QED BY <3>1 DEF Holds
  <2> QED BY <2>1, <2>2, <2>3
<1>5. new \notin Holds(x)
  <2> SUFFICES ASSUME NEW c \in Bookings, new \in {c} \X (1 .. own[c][x]) PROVE FALSE
    BY HoldOut
  <2> QED BY <1>1
<1> HIDE DEF new
<1>6. IsFiniteSet(Holds(x) \cup {new}) /\ Cardinality(Holds(x) \cup {new}) = Cardinality(Holds(x)) + 1
  BY <1>5, FS_AddElement
<1>7. HeldBy(x)' = Cardinality(Holds(x)')
  BY DEF HeldBy
<1> QED BY <1>2, <1>4, <1>6, <1>7 DEF HeldBy

LEMMA HoldReleased ==
  ASSUME TypeOK, NEW b \in Bookings, NEW x \in Resources,
         own' = [own EXCEPT ![b][x] = Clamp(@ - 1, @)], IsFiniteSet(Holds(x))
  PROVE  /\ IsFiniteSet(Holds(x)')
         /\ HeldBy(x)' = IF own[b][x] = 0 THEN HeldBy(x) ELSE HeldBy(x) - 1
         /\ own[b][x] > 0 => HeldBy(x) > 0
         /\ \A y \in Resources : y # x => Holds(y)' = Holds(y)
<1> DEFINE old == <<b, own[b][x]>>
<1>1. own[b][x] \in Nat
  BY DEF TypeOK
<1>2. Clamp(own[b][x] - 1, own[b][x]) = IF own[b][x] = 0 THEN 0 ELSE own[b][x] - 1
  BY <1>1, ClampFacts
<1>3. /\ own'[b][x] = IF own[b][x] = 0 THEN 0 ELSE own[b][x] - 1
      /\ \A c \in Bookings, y \in Resources : c # b \/ y # x => own'[c][y] = own[c][y]
  BY <1>2 DEF TypeOK
<1>4. \A y \in Resources : y # x => Holds(y)' = Holds(y)
  BY <1>3 DEF Holds
<1>5. 1 .. own'[b][x] = (1 .. own[b][x]) \ {own[b][x]}
  BY <1>1, <1>3
<1>6. Holds(x)' = Holds(x) \ {old}
  <2>1. ASSUME NEW h \in Holds(x)' PROVE h \in Holds(x) \ {old}
    <3>1. PICK c \in Bookings : h \in {c} \X (1 .. own'[c][x])
      BY <2>1 DEF Holds
    <3>2. h \in {c} \X (1 .. own[c][x]) /\ h # old
      BY <1>1, <1>3, <1>5, <3>1
    <3> QED BY <3>2, HoldOut
  <2>2. ASSUME NEW h \in Holds(x), h # old PROVE h \in Holds(x)'
    <3>1. PICK c \in Bookings : h \in {c} \X (1 .. own[c][x])
      BY <2>2, HoldOut
    <3>2. h \in {c} \X (1 .. own'[c][x])
      BY <1>1, <1>3, <1>5, <2>2, <3>1
    <3> QED BY <3>2 DEF Holds
  <2> QED BY <2>1, <2>2
<1>7. old \in Holds(x) <=> own[b][x] > 0
  <2>1. ASSUME NEW c \in Bookings, old \in {c} \X (1 .. own[c][x]) PROVE own[b][x] > 0
    BY <1>1, <2>1
  <2>2. own[b][x] > 0 => old \in {b} \X (1 .. own[b][x])
    BY <1>1
  <2> QED BY <2>1, <2>2, HoldOut
<1> HIDE DEF old
<1>8. /\ IsFiniteSet(Holds(x) \ {old})
      /\ Cardinality(Holds(x) \ {old}) = IF old \in Holds(x) THEN Cardinality(Holds(x)) - 1
                                         ELSE Cardinality(Holds(x))
  BY FS_RemoveElement
<1>9. Cardinality(Holds(x)) \in Nat /\ (old \in Holds(x) => Cardinality(Holds(x)) # 0)
  BY FS_CardinalityType, FS_EmptySet
<1>10. HeldBy(x)' = Cardinality(Holds(x)')
  BY DEF HeldBy
<1> QED BY <1>1, <1>4, <1>6, <1>7, <1>8, <1>9, <1>10 DEF HeldBy

(* The lists of compensations.                                             *)
LEMMA UnwoundFacts ==
  ASSUME NEW u \in Unwound, u # <<>>
  PROVE  /\ Head(u) \in {"charge", "hotel", "flight"} /\ Tail(u) \in Unwound
         /\ \E i \in DOMAIN u : u[i] = Head(u)
         /\ \A i \in DOMAIN Tail(u) : Tail(u)[i] # Head(u) /\ \E j \in DOMAIN u : u[j] = Tail(u)[i]
<1>1. CASE u = <<"flight">>
  <2>1. Head(u) = "flight" /\ Tail(u) = <<>>
    BY <1>1
  <2> QED BY <1>1, <2>1 DEF Unwound
<1>2. CASE u = <<"hotel", "flight">>
  <2>1. Head(u) = "hotel" /\ Tail(u) = <<"flight">>
    BY <1>2
  <2> QED BY <1>2, <2>1 DEF Unwound
<1>3. CASE u = <<"charge", "hotel", "flight">>
  <2>1. Head(u) = "charge" /\ Tail(u) = <<"hotel", "flight">>
    BY <1>3
  <2> QED BY <1>3, <2>1 DEF Unwound
<1> QED BY <1>1, <1>2, <1>3 DEF Unwound

LEMMA Prepended ==
  /\ <<"hotel">> \o <<"flight">> = <<"hotel", "flight">>
  /\ <<"charge">> \o <<"hotel", "flight">> = <<"charge", "hotel", "flight">>
<1>1. ASSUME NEW S, NEW a \in S, NEW t \in Seq(S), NEW r \in Seq(S),
             Len(r) = Len(t) + 1, r[1] = a, \A i \in 1 .. Len(t) : r[i + 1] = t[i]
      PROVE  <<a>> \o t = r
  <2>1. <<a>> \in Seq(S) /\ Len(<<a>>) = 1 /\ <<a>>[1] = a
    OBVIOUS
  <2>2. /\ <<a>> \o t \in Seq(S) /\ Len(<<a>> \o t) = 1 + Len(t)
        /\ \A i \in 1 .. 1 + Len(t) : (<<a>> \o t)[i] = IF i <= 1 THEN <<a>>[i] ELSE t[i - 1]
    BY <2>1, ConcatProperties
  <2>3. Len(t) \in Nat
    BY LenProperties
  <2>4. \A i \in 1 .. 1 + Len(t) : (<<a>> \o t)[i] = r[i]
    <3> SUFFICES ASSUME NEW i \in 1 .. 1 + Len(t) PROVE (<<a>> \o t)[i] = r[i]
      OBVIOUS
    <3>1. CASE i = 1
      BY <1>1, <2>1, <2>2, <2>3, <3>1
    <3>2. CASE i # 1
      <4>1. i - 1 \in 1 .. Len(t) /\ (i - 1) + 1 = i
        BY <2>3, <3>2
      <4>2. r[i] = t[i - 1]
        BY <1>1, <4>1
      <4> QED BY <2>2, <2>3, <3>2, <4>2
    <3> QED BY <3>1, <3>2
  <2> DEFINE q == <<a>> \o t
  <2>5. q \in Seq(S) /\ Len(q) = Len(r) /\ \A i \in 1 .. Len(q) : q[i] = r[i]
    BY <1>1, <2>2, <2>3, <2>4
  <2> HIDE DEF q
  <2>6. q = r
    BY <2>5, SeqEqual
  <2> QED BY <2>6 DEF q
<1> DEFINE Names == {"charge", "hotel", "flight"}
           one == <<"flight">>
           two == <<"hotel", "flight">>
           three == <<"charge", "hotel", "flight">>
<1>2. one \in Seq(Names) /\ two \in Seq(Names) /\ three \in Seq(Names)
  OBVIOUS
<1>3. /\ Len(one) = 1 /\ Len(two) = Len(one) + 1 /\ two[1] = "hotel"
      /\ \A i \in 1 .. Len(one) : two[i + 1] = one[i]
  OBVIOUS
<1>4. /\ Len(two) = 2 /\ Len(three) = Len(two) + 1 /\ three[1] = "charge"
      /\ \A i \in 1 .. Len(two) : three[i + 1] = two[i]
  OBVIOUS
<1>5. "hotel" \in Names /\ "charge" \in Names
  OBVIOUS
<1> HIDE DEF Names, one, two, three
<1>6. <<"hotel">> \o one = two
  BY <1>1, <1>2, <1>3, <1>5
<1>7. <<"charge">> \o two = three
  BY <1>1, <1>2, <1>4, <1>5
<1> QED BY <1>6, <1>7 DEF one, two, three

LEMMA RegisterFacts ==
  ASSUME NEW s \in Forward
  PROVE  LET u == IF s \in Compensated THEN <<s>> \o Registered[s] ELSE Registered[s] IN
           /\ Following[s] \in DOMAIN Registered /\ u = Registered[Following[s]] /\ u \in Unwound
           /\ \A i \in DOMAIN u : \/ u[i] = s /\ s \in Compensated
                                  \/ \E j \in DOMAIN Registered[s] : Registered[s][j] = u[i]
<1> USE ResourceFacts DEF Registered, Following, Compensated, Unwound
<1>1. CASE s = "start"
  BY <1>1
<1>2. CASE s = "flight"
  <2>1. <<s>> \o Registered[s] = <<"flight">>
    BY <1>2
  <2> QED BY <1>2, <2>1
<1>3. CASE s = "hotel"
  <2>1. <<s>> \o Registered[s] = <<"hotel", "flight">>
    BY <1>3, Prepended
  <2> QED BY <1>3, <2>1
<1>4. CASE s = "charge"
  <2>1. <<s>> \o Registered[s] = <<"charge", "hotel", "flight">>
    BY <1>4, Prepended
  <2> QED BY <1>4, <2>1
<1>5. CASE s = "confirm"
  BY <1>5
<1> QED BY <1>1, <1>2, <1>3, <1>4, <1>5 DEF Forward

-----------------------------------------------------------------------------
(* Notes on a booking stream.                                              *)

LEMMA NoteStep ==
  ASSUME TypeOK, NEW b \in Bookings, NEW e \in Notes, Note(b, e)
  PROVE  LET n == Len(events[b]) + 1 IN
         /\ events' \in [Bookings -> Seq(Notes)]
         /\ n \in Nat /\ \A names : Places(b, names) \subseteq 1 .. n - 1
         /\ \A names : Places(b, names)' = Places(b, names) \cup (IF e \in names THEN {n} ELSE {})
         /\ events'[b][n] = e /\ \A i \in 1 .. n - 1 : events'[b][i] = events[b][i]
         /\ \A c \in Bookings : c # b => events'[c] = events[c]
<1> DEFINE s == events[b]
           n == Len(s) + 1
           t == Append(s, e)
<1>1. events \in [Bookings -> Seq(Notes)] /\ s \in Seq(Notes)
  BY DEF TypeOK
<1>2. Len(s) \in Nat /\ DOMAIN s = 1 .. Len(s) /\ n - 1 = Len(s)
  BY <1>1, LenProperties
<1>3. t \in Seq(Notes) /\ Len(t) = n /\ t[n] = e /\ \A i \in 1 .. Len(s) : t[i] = s[i]
  <2> HIDE DEF s
  <2>1. t \in Seq(Notes) /\ Len(t) = Len(s) + 1
    BY <1>1, AppendProperties
  <2>2. \A i \in 1 .. Len(s) : t[i] = s[i]
    BY <1>1, AppendProperties
  <2>3. t[Len(s) + 1] = e
    BY <1>1, AppendProperties
  <2> QED BY <2>1, <2>2, <2>3
<1>4. DOMAIN t = 1 .. n
  BY <1>3, LenProperties
<1>5. events'[b] = t /\ events' \in [Bookings -> Seq(Notes)]
      /\ \A c \in Bookings : c # b => events'[c] = events[c]
  BY <1>1, <1>3 DEF Note
<1> HIDE DEF s, t
<1>6. events[b] = s
  BY DEF s
<1>7. \A names : Places(b, names) = {i \in 1 .. n - 1 : s[i] \in names}
  BY <1>2, <1>6 DEF Places
<1>8. \A names : Places(b, names)' = {i \in 1 .. n : t[i] \in names}
  BY <1>4, <1>5 DEF Places
<1>9. \A i : i \in 1 .. n <=> i \in 1 .. n - 1 \/ i = n
  BY <1>2
<1>10. n \in Nat /\ n - 1 = Len(s)
  BY <1>2
<1> HIDE DEF n
<1>11. \A names : Places(b, names)' = Places(b, names) \cup (IF e \in names THEN {n} ELSE {})
  <2> SUFFICES ASSUME NEW names PROVE {i \in 1 .. n : t[i] \in names}
                 = {i \in 1 .. n - 1 : s[i] \in names} \cup (IF e \in names THEN {n} ELSE {})
    BY <1>7, <1>8
  <2>1. t[n] = e /\ \A i \in 1 .. n - 1 : t[i] = s[i]
    BY <1>3, <1>10
  <2>2. \A i \in 1 .. n - 1 : i \in 1 .. n
    BY <1>9
  <2>3. n \in 1 .. n
    BY <1>10
  <2>4. CASE e \in names
    BY <1>9, <2>1, <2>2, <2>3, <2>4
  <2>5. CASE e \notin names
    BY <1>9, <2>1, <2>2, <2>5
  <2> QED BY <2>4, <2>5
<1> QED BY <1>3, <1>5, <1>6, <1>7, <1>10, <1>11 DEF n, s

(* The last outcome is the one just noted, or the one it was.              *)
LEMMA OutcomeStep ==
  ASSUME TypeOK, NEW b \in Bookings, NEW e \in Notes, Note(b, e), OutcomeOK(b)
  PROVE  /\ e \in {"confirmed", "failed"} =>
              /\ Outcomes(b)' # {} /\ Shown(b)' = e
              /\ Max(Outcomes(b)') \in Outcomes(b)' /\ \A i \in Outcomes(b)' : i <= Max(Outcomes(b)')
         /\ e \notin {"confirmed", "failed"} => Outcomes(b)' = Outcomes(b) /\ Shown(b)' = Shown(b)
<1> DEFINE n == Len(events[b]) + 1
<1>1. /\ n \in Nat /\ Outcomes(b) \subseteq 1 .. n - 1
      /\ Outcomes(b)' = Outcomes(b) \cup (IF e \in {"confirmed", "failed"} THEN {n} ELSE {})
      /\ events'[b][n] = e /\ \A i \in 1 .. n - 1 : events'[b][i] = events[b][i]
  BY NoteStep DEF Outcomes
<1> HIDE DEF n
<1>2. CASE e \in {"confirmed", "failed"}
  <2> DEFINE S == Outcomes(b) \cup {n}
  <2>1. S \subseteq Int /\ n \in S /\ \A i \in S : i <= n
    BY <1>1
  <2> HIDE DEF S
  <2>2. Max(S) = n
    BY <2>1, MaxIs
  <2>3. Outcomes(b)' = S
    BY <1>1, <1>2 DEF S
  <2>4. S # {}
    BY <2>1
  <2>5. Shown(b)' = e
    BY <1>1, <2>2, <2>3, <2>4 DEF Shown
  <2> QED BY <1>2, <2>1, <2>2, <2>3, <2>4, <2>5
<1>3. CASE e \notin {"confirmed", "failed"}
  <2>1. Outcomes(b)' = Outcomes(b)
    BY <1>1, <1>3
  <2>2. Outcomes(b) # {} => Max(Outcomes(b)) \in 1 .. n - 1
    BY <1>1 DEF OutcomeOK
  <2>3. Shown(b)' = Shown(b)
    BY <1>1, <2>1, <2>2 DEF Shown
  <2> QED BY <1>3, <2>1, <2>3
<1> QED BY <1>2, <1>3

-----------------------------------------------------------------------------
(* Types.                                                                  *)

LEMMA UnwoundTypes ==
  /\ Unwound \subseteq Seq(Resources \cup {"charge"})
  /\ \A b \in Bookings : UndoOK(b) /\ undo[b] # <<>> => Tail(undo[b]) \in Unwound
<1>1. <<>> \in Seq({"flight", "hotel", "charge"}) /\ <<"flight">> \in Seq({"flight", "hotel", "charge"})
  OBVIOUS
<1>2. <<"hotel", "flight">> \in Seq({"flight", "hotel", "charge"})
  OBVIOUS
<1>3. <<"charge", "hotel", "flight">> \in Seq({"flight", "hotel", "charge"})
  OBVIOUS
<1>4. Resources \cup {"charge"} = {"flight", "hotel", "charge"}
  BY ResourceFacts
<1> QED BY <1>1, <1>2, <1>3, <1>4, UnwoundFacts DEF Unwound, UndoOK

LEMMA CounterTypes ==
  ASSUME TypeOK
  PROVE  /\ crashes \in Nat /\ giveUps \in Nat /\ resets \in Nat /\ abandoned \in Nat
         /\ crashes + 1 \in Nat /\ giveUps + 1 \in Nat /\ resets + 1 \in Nat /\ abandoned + 1 \in Nat
<1>1. crashes \in Nat /\ giveUps \in Nat /\ resets \in Nat /\ abandoned \in Nat
  BY DEF TypeOK
<1> QED BY <1>1

LEMMA FailTypes ==
  ASSUME TypeOK, NEW b \in Bookings, NEW why \in Reasons, Fail(b, why), giveUps' \in Nat
  PROVE  TypeOK'
<1>1. events' \in [Bookings -> Seq(Notes)]
  <2>1. "failed" \in Notes
    BY DEF Notes
  <2> QED BY <2>1, NoteStep DEF Fail
<1> QED BY <1>1 DEF TypeOK, Fail, Goto, Steps

LEMMA AdvanceTypes ==
  ASSUME TypeOK, NEW b \in Bookings, UndoOK(b), Advance(b)
  PROVE  TypeOK'
<1>n. \A e \in Notes : Note(b, e) => events' \in [Bookings -> Seq(Notes)]
  BY NoteStep
<1>a. CASE AppendOnly(b)
  <2>1. PICK e \in Notes : Note(b, e)
    BY <1>a DEF AppendOnly, Notes
  <2> QED BY <1>a, <1>n, <2>1 DEF AppendOnly, TypeOK, Goto, counters
<1>b. CASE Declined(b) \/ SoldOut(b)
  BY <1>b, FailTypes DEF Declined, SoldOut, Reasons, TypeOK
<1>c. CASE ReadVersion(b)
  BY <1>c DEF ReadVersion, TypeOK, Goto, counters
<1>d. CASE FoldStream(b)
  BY <1>d DEF FoldStream, TypeOK, Goto, counters
<1>e. CASE AppendHold(b)
  <2>1. inv' \in [Resources -> [version : Nat, held : Nat]]
    BY <1>e, BumpFacts DEF AppendHold, TypeOK
  <2>2. own' \in [Bookings -> [Resources -> Nat]]
    BY <1>e, SMTT(30) DEF AppendHold, TypeOK
  <2> QED BY <1>e, <2>1, <2>2 DEF AppendHold, TypeOK, Goto, counters
<1>f. CASE HoldConflict(b)
  <2>1. CASE AttemptsLeft(b) /\ attempt' = [attempt EXCEPT ![b] = @ + 1] /\ Goto(b, "info")
             /\ UNCHANGED <<worker, inv, own, events, step, version, undo, reason, mode, counters>>
    <3>1. attempt[b] \in 0 .. HoldAttempts - 1 /\ HoldAttempts \in Nat
      BY CapacityAssumption DEF TypeOK
    <3>2. attempt[b] + 1 \in 0 .. HoldAttempts - 1
      BY <2>1, <3>1 DEF AttemptsLeft
    <3> QED BY <2>1, <3>2 DEF TypeOK, Goto, counters
  <2>2. CASE Fail(b, "conflicts") /\ UNCHANGED giveUps
    BY <2>2, FailTypes DEF Reasons, TypeOK
  <2> QED BY <1>f, <2>1, <2>2 DEF HoldConflict
<1>g. CASE NoteReserved(b)
  <2>1. step[b] \in Notes
    BY <1>g, ResourceFacts DEF NoteReserved, Notes
  <2> QED BY <1>g, <1>n, <2>1 DEF NoteReserved, TypeOK, Goto, counters
<1>h. CASE RecordStep(b)
  <2>1. /\ step[b] \in Forward /\ undo[b] = Registered[step[b]]
        /\ undo'[b] = IF step[b] \in Compensated THEN <<step[b]>> \o undo[b] ELSE undo[b]
        /\ \A c \in Bookings \ {b} : undo'[c] = undo[c]
        /\ undo' = [c \in Bookings |-> undo'[c]]
    BY <1>h DEF RecordStep, UndoOK, Registered, Forward, Following, TypeOK
  <2>2. undo'[b] \in Unwound
    BY <2>1, RegisterFacts
  <2>3. undo' \in [Bookings -> Seq(Resources \cup {"charge"})]
    BY <2>1, <2>2, UnwoundTypes DEF TypeOK
  <2>4. step' \in [Bookings -> Steps]
    BY <1>h, SMTT(30) DEF RecordStep, TypeOK, Steps, Forward, Following
  <2>5. 0 \in 0 .. HoldAttempts - 1
    BY CapacityAssumption
  <2> QED BY <1>h, <2>3, <2>4, <2>5 DEF RecordStep, TypeOK, Goto, counters
<1>u. undo[b] # <<>> /\ Undone(b) => /\ undo' \in [Bookings -> Seq(Resources \cup {"charge"})]
                                     /\ at' \in [Bookings -> {"info", "fold", "append", "note", "record"}]
  BY UnwoundTypes DEF Undone, Goto, TypeOK
<1>i. CASE ReadForRelease(b)
  BY <1>i DEF ReadForRelease, TypeOK, Goto, counters
<1>v. At(b, "undo", "append") => undo[b] # <<>> /\ Head(undo[b]) \in Resources
  BY DEF UndoOK
<1>j. CASE Release(b)
  <2> DEFINE x == Head(undo[b])
  <2>1. x \in Resources /\ undo[b] # <<>>
    BY <1>j, <1>v DEF Release
  <2>2. inv' \in [Resources -> [version : Nat, held : Nat]]
    BY <1>j, <2>1, BumpFacts DEF Release, TypeOK
  <2>3. own[b][x] \in Nat /\ own[b][x] - 1 \in Int
    BY <2>1 DEF TypeOK
  <2>4. Clamp(own[b][x] - 1, own[b][x]) \in Nat
    <3> DEFINE n == own[b][x]
    <3> HIDE DEF n
    <3>1. n \in Nat /\ n - 1 \in Int
      BY <2>3 DEF n
    <3>2. Clamp(n - 1, n) \in Nat
      BY <3>1, ClampFacts
    <3> QED BY <3>2 DEF n
  <2>5. own' \in [Bookings -> [Resources -> Nat]]
    BY <1>j, <2>4 DEF Release, TypeOK
  <2>6. Undoes[x] \in Notes
    <3>1. Undoes["flight"] \in Notes /\ Undoes["hotel"] \in Notes
      BY DEF Undoes, Notes
    <3> QED BY <2>1, <3>1, ResourceFacts
  <2>7. events' \in [Bookings -> Seq(Notes)]
    BY <1>j, <1>n, <2>6 DEF Release
  <2> QED BY <1>j, <1>u, <2>1, <2>2, <2>5, <2>7 DEF Release, TypeOK, counters
<1>k. CASE ReleaseConflict(b)
  <2>1. CASE Goto(b, "info") /\ UNCHANGED <<worker, undo, abandoned>>
    BY <1>k, <2>1 DEF ReleaseConflict, TypeOK, Goto
  <2>2. CASE Undone(b) /\ abandoned' = abandoned + 1
    <3>1. worker' = worker
      BY <1>k DEF ReleaseConflict
    <3> QED BY <1>k, <1>u, <1>v, <2>2, <3>1, CounterTypes DEF ReleaseConflict, TypeOK
  <2> QED BY <1>k, <2>1, <2>2 DEF ReleaseConflict
<1>l. CASE Refund(b)
  <2>1. Undoes["charge"] \in Notes
    BY DEF Undoes, Notes
  <2> QED BY <1>l, <1>n, <1>u, <2>1 DEF Refund, TypeOK, counters
<1>m. CASE UndoDone(b)
  BY <1>m DEF UndoDone, TypeOK, Steps, counters
<1> QED BY <1>a, <1>b, <1>c, <1>d, <1>e, <1>f, <1>g, <1>h, <1>i, <1>j, <1>k, <1>l, <1>m DEF Advance

LEMMA TypesKept ==
  ASSUME TypeOK, \A b \in Bookings : UndoOK(b), [Next]_vars
  PROVE  TypeOK'
<1> USE ResourceFacts
<1>0. 0 \in 0 .. HoldAttempts - 1
  BY CapacityAssumption
<1>1. CASE SeedInventory
  <2>1. \A S : FirstUnseeded(S) \in Resources \cup {"seeded", "started"}
    BY DEF FirstUnseeded
  <2>2. inv' \in [Resources -> [version : Nat, held : Nat]]
    BY <1>1, ZenonT(60) DEF SeedInventory, TypeOK
  <2> QED BY <1>1, <2>1, <2>2 DEF SeedInventory, TypeOK, runVars, counters
<1>2. CASE StartWorker
  BY <1>2 DEF StartWorker, TypeOK, runVars, counters
<1>3. ASSUME NEW b \in Bookings, Request(b) PROVE TypeOK'
  BY <1>3 DEF Request, TypeOK, Steps, counters
<1>4. ASSUME NEW b \in Bookings, Advance(b) PROVE TypeOK'
  BY <1>4, AdvanceTypes
<1>5. ASSUME NEW b \in Bookings, GivesUp(b) PROVE TypeOK'
  BY <1>5, CounterTypes, FailTypes DEF GivesUp, Reasons
<1>6. ASSUME NEW b \in Bookings, StepErrs(b) PROVE TypeOK'
  BY <1>0, <1>6, CounterTypes DEF StepErrs, TypeOK, Goto
<1>7. ASSUME NEW m \in {"normal", "fail"}, PaymentMode(m) PROVE TypeOK'
  BY <1>7 DEF PaymentMode, TypeOK, runVars, counters
<1>8. CASE BeginReset \/ ReadForReset \/ SkipReset \/ ResetConflict
  BY <1>8 DEF BeginReset, ReadForReset, SkipReset, ResetConflict, ResetGoesOn, TypeOK, runVars
<1>9. CASE AppendReset
  <2>1. inv' \in [Resources -> [version : Nat, held : Nat]]
    BY <1>9, SMTT(30) DEF AppendReset, AfterReset, TypeOK
  <2>2. own' \in [Bookings -> [Resources -> Nat]]
    BY <1>9 DEF AppendReset, TypeOK
  <2> QED BY <1>9, <2>1, <2>2 DEF AppendReset, ResetGoesOn, TypeOK, runVars
<1>10. CASE Crash
  <2>1. FirstUnseeded(Seeded) \in Resources \cup {"seeded", "started"}
    BY DEF FirstUnseeded
  <2> QED BY <1>0, <1>10, <2>1, SMTT(30) DEF Crash, TypeOK
<1>11. CASE UNCHANGED vars
  BY <1>11 DEF vars, TypeOK, runVars, counters
<1> QED BY <1>1, <1>2, <1>3, <1>4, <1>5, <1>6, <1>7, <1>8, <1>9, <1>10, <1>11 DEF Next

-----------------------------------------------------------------------------
(* A trip that does not move keeps what it has.                            *)

LEMMA SameNotes ==
  ASSUME NEW b \in Bookings, events'[b] = events[b]
  PROVE  /\ \A names : Places(b, names)' = Places(b, names)
         /\ \A e : Noted(b, e)' = Noted(b, e)
         /\ Outcomes(b)' = Outcomes(b) /\ Shown(b)' = Shown(b)
<1>1. \A names : Places(b, names)' = Places(b, names)
  BY DEF Places
<1>2. Outcomes(b)' = Outcomes(b)
  BY <1>1 DEF Outcomes
<1> QED BY <1>1, <1>2 DEF Noted, Shown

(* The streams only grow.                                                  *)
Grown == \A x \in Resources : inv'[x] = inv[x] \/ inv'[x].version > inv[x].version

LEMMA ReadKept ==
  ASSUME TypeOK, TypeOK', NEW b \in Bookings, ReadOK(b), Grown,
         step'[b] = step[b], at'[b] = at[b], version'[b] = version[b]
  PROVE  ReadOK(b)'
<1> SUFFICES ASSUME NEW x \in Resources, step[b] = x, at[b] \in {"fold", "append"}
             PROVE /\ version[b] <= inv'[x].version
                   /\ at[b] = "append" /\ inv'[x].version = version[b] => Capacity[x] - inv'[x].held > 0
  BY DEF ReadOK, Unmoved, HasCapacity
<1>1. inv[x].version \in Int /\ inv'[x].version \in Int /\ version[b] \in Int
  <2>1. inv[x] \in [version : Nat, held : Nat] /\ inv'[x] \in [version : Nat, held : Nat]
    BY DEF TypeOK
  <2>2. version[b] \in Nat
    BY DEF TypeOK
  <2> QED BY <2>1, <2>2
<1>2. version[b] <= inv[x].version
  BY DEF ReadOK
<1>3. at[b] = "append" /\ inv[x].version = version[b] => Capacity[x] - inv[x].held > 0
  BY DEF ReadOK, Unmoved, HasCapacity
<1>4. CASE inv'[x] = inv[x]
  BY <1>2, <1>3, <1>4
<1>5. CASE inv'[x].version > inv[x].version
  BY <1>1, <1>2, <1>5
<1> QED BY <1>4, <1>5 DEF Grown

LEMMA PlaceKept ==
  ASSUME NEW b \in Bookings, UndoOK(b), NotesOK(b), OutcomeOK(b),
         step'[b] = step[b], at'[b] = at[b], undo'[b] = undo[b], events'[b] = events[b]
  PROVE  UndoOK(b)' /\ NotesOK(b)' /\ OutcomeOK(b)'
<1>1. UndoOK(b)'
  BY DEF UndoOK, At
<1>2. NotesOK(b)'
  BY SameNotes DEF NotesOK, ToUndo, At, Unwinding
<1>3. OutcomeOK(b)'
  BY SameNotes DEF OutcomeOK, At, Unwinding
<1> QED BY <1>1, <1>2, <1>3

(* Holds are taken away only by a reset, and crashes are counted.          *)
Spared(b) ==
  /\ \A x \in Resources : own'[b][x] = own[b][x] \/ (own'[b][x] = 0 /\ resets' > 0)
  /\ crashes <= crashes' /\ (resets' = 0 => resets = 0)

LEMMA HoldsKept ==
  ASSUME TypeOK, TypeOK', NEW b \in Bookings, HoldsOK(b), Spared(b),
         step'[b] = step[b], at'[b] = at[b], undo'[b] = undo[b], events'[b] = events[b]
  PROVE  HoldsOK(b)'
<1> SUFFICES ASSUME NEW x \in Resources
             PROVE  /\ own'[b][x] <= crashes' + 1
                    /\ ToHold(b, x)' \/ Noted(b, Undoes[x])' => own'[b][x] <= crashes'
                    /\ resets' = 0 /\ Holding(b, x)' => own'[b][x] >= 1
  BY DEF HoldsOK
<1>1. ToHold(b, x)' = ToHold(b, x) /\ Noted(b, Undoes[x])' = Noted(b, Undoes[x])
  BY SameNotes DEF ToHold
<1>2. Holding(b, x)' = Holding(b, x)
  BY SameNotes DEF Holding, ToUndo
<1>3. own[b][x] \in Nat /\ own'[b][x] \in Nat /\ crashes \in Nat /\ crashes' \in Nat
      /\ resets' \in Nat
  BY DEF TypeOK
<1> QED BY <1>1, <1>2, <1>3 DEF HoldsOK, Spared

LEMMA TripKept ==
  ASSUME TypeOK, TypeOK', NEW b \in Bookings, TripOK(b), Grown, Spared(b),
         step'[b] = step[b], at'[b] = at[b], version'[b] = version[b],
         undo'[b] = undo[b], events'[b] = events[b]
  PROVE  TripOK(b)'
BY ReadKept, PlaceKept, HoldsKept DEF TripOK

-----------------------------------------------------------------------------
(* Steps of a trip that note nothing.                                      *)

LEMMA NoOutcome ==
  ASSUME NEW b \in Bookings, Outcomes(b) = {}
  PROVE  ~Noted(b, "failed") /\ ~Noted(b, "confirmed")
BY DEF Outcomes, Noted, Places

(* What such a step must leave as it is.                                   *)
Quiet(b) ==
  /\ events'[b] = events[b] /\ own'[b] = own[b] /\ crashes <= crashes' /\ resets' = resets
  /\ (Unwinding(b)' <=> Unwinding(b))
  /\ \A s \in Resources \cup {"charge"} : ToUndo(b, s)' => ToUndo(b, s) \/ At(b, s, "record")

LEMMA QuietNotes ==
  ASSUME NEW b \in Bookings, NotesOK(b), Quiet(b), ~At(b, "charge", "record")'
  PROVE  NotesOK(b)'
BY SameNotes DEF NotesOK, Quiet

LEMMA QuietHolds ==
  ASSUME TypeOK, TypeOK', NEW b \in Bookings, HoldsOK(b), Quiet(b), at'[b] \notin {"note", "record"},
         \A x \in Resources : ToHold(b, x)' => ToHold(b, x) \/ (step[b] = x /\ crashes' = crashes + 1)
  PROVE  HoldsOK(b)'
<1> SUFFICES ASSUME NEW x \in Resources
             PROVE  /\ own'[b][x] <= crashes' + 1
                    /\ ToHold(b, x)' \/ Noted(b, Undoes[x])' => own'[b][x] <= crashes'
                    /\ resets' = 0 /\ Holding(b, x)' => own'[b][x] >= 1
  BY DEF HoldsOK
<1>1. Noted(b, Undoes[x])' = Noted(b, Undoes[x]) /\ Noted(b, Does[x])' = Noted(b, Does[x])
      /\ own'[b] = own[b]
  BY SameNotes DEF Quiet
<1>2. own[b][x] \in Nat /\ crashes \in Nat /\ crashes' \in Nat
  BY DEF TypeOK
<1>3. Holding(b, x)' => Holding(b, x)
  BY <1>1 DEF Holding, Quiet, At
<1>4. own[b][x] <= crashes + 1 /\ crashes <= crashes' /\ resets' = resets
  BY DEF HoldsOK, Quiet
<1>5. ToHold(b, x)' \/ Noted(b, Undoes[x])' => own[b][x] <= crashes'
  BY <1>1, <1>2, <1>4 DEF HoldsOK
<1>6. resets' = 0 /\ Holding(b, x)' => own[b][x] >= 1
  BY <1>3, <1>4 DEF HoldsOK
<1> QED BY <1>1, <1>2, <1>4, <1>5, <1>6

LEMMA QuietRequest ==
  ASSUME TypeOK, TypeOK', NEW b \in Bookings, TripOK(b), Request(b)
  PROVE  TripOK(b)'
<1>1. /\ step[b] = "idle" /\ step'[b] = "start" /\ undo' = undo /\ at' = at /\ events' = events
      /\ own' = own /\ crashes' = crashes /\ resets' = resets
  BY DEF Request, TypeOK, counters
<1>a. crashes \in Int
  BY DEF TypeOK
<1>2. Quiet(b)
  BY <1>1, <1>a DEF Quiet, Unwinding, ToUndo
<1>3. ReadOK(b)' /\ UndoOK(b)'
  BY <1>1, ResourceFacts DEF ReadOK, UndoOK, TripOK, At, Registered
<1>4. NotesOK(b)'
  BY <1>1, <1>2, QuietNotes DEF At, TripOK
<1>5. OutcomeOK(b)'
  BY <1>1, SameNotes DEF OutcomeOK, TripOK, At, Unwinding
<1>6. HoldsOK(b)'
  <2> SUFFICES ASSUME NEW x \in Resources
               PROVE  /\ own'[b][x] <= crashes' + 1
                      /\ ToHold(b, x)' \/ Noted(b, Undoes[x])' => own'[b][x] <= crashes'
                      /\ resets' = 0 /\ Holding(b, x)' => own'[b][x] >= 1
    BY DEF HoldsOK
  <2>1. ToHold(b, x) /\ (Holding(b, x)' => Holding(b, x))
    BY <1>1, SameNotes, ResourceFacts DEF ToHold, Before, Holding, ToUndo
  <2> QED BY <1>1, <2>1 DEF HoldsOK, TripOK
<1> QED BY <1>3, <1>4, <1>5, <1>6 DEF TripOK

(* A step of the hold, and a step that starts over.                        *)
LEMMA QuietHold ==
  ASSUME TypeOK, TypeOK', NEW b \in Bookings, TripOK(b), step[b] \in Forward, ReadOK(b)',
         step'[b] = step[b], undo'[b] = undo[b], events'[b] = events[b], own'[b] = own[b],
         resets' = resets, at'[b] \in {"info", "fold", "append"},
         \/ crashes' = crashes + 1
         \/ at[b] \in {"info", "fold", "append"} /\ crashes' = crashes
  PROVE  TripOK(b)'
<1>a. crashes \in Int /\ crashes' \in Int
  BY DEF TypeOK
<1>1. Quiet(b)
  BY <1>a DEF Quiet, Unwinding, ToUndo
<1>2. UndoOK(b)'
  BY DEF UndoOK, TripOK, At, Forward, Following
<1>3. NotesOK(b)'
  BY <1>1, QuietNotes DEF At, TripOK
<1>4. OutcomeOK(b)'
  BY SameNotes DEF OutcomeOK, TripOK, At, Unwinding
<1>5. HoldsOK(b)'
  <2>1. \A x \in Resources : ToHold(b, x)' => ToHold(b, x) \/ (step[b] = x /\ crashes' = crashes + 1)
    BY DEF ToHold
  <2> QED BY <1>1, <2>1, QuietHolds DEF TripOK
<1> QED BY <1>2, <1>3, <1>4, <1>5 DEF TripOK

LEMMA QuietStep ==
  ASSUME TypeOK, TypeOK', NEW b \in Bookings, TripOK(b),
         ReadVersion(b) \/ FoldStream(b) \/ StepErrs(b) \/ (HoldConflict(b) /\ step' = step)
         \/ RecordStep(b) \/ ReadForRelease(b) \/ ReleaseConflict(b) \/ UndoDone(b)
  PROVE  TripOK(b)'
<1> USE ResourceFacts
<1>t. /\ \A c \in Bookings : version[c] \in Int /\ (step[c] \in Resources => inv[step[c]].version \in Int)
      /\ crashes \in Int
  <2>1. \A x \in Resources : inv[x] \in [version : Nat, held : Nat]
    BY DEF TypeOK
  <2>2. version \in [Bookings -> Nat] /\ crashes \in Nat
    BY DEF TypeOK
  <2> QED BY <2>1, <2>2
<1>f. Resources \subseteq Forward
  BY DEF Forward, Following
<1>1. CASE ReadVersion(b)
  <2>1. /\ step[b] \in Forward /\ step'[b] = step[b] /\ at[b] = "info" /\ at'[b] = "fold"
        /\ version'[b] = inv[step[b]].version /\ inv' = inv /\ undo' = undo /\ events' = events
        /\ own' = own /\ crashes' = crashes /\ resets' = resets /\ step[b] \in Resources
    BY <1>1, <1>f DEF ReadVersion, Goto, counters, TypeOK
  <2>2. ReadOK(b)'
    BY <1>t, <2>1 DEF ReadOK
  <2> QED BY <2>1, <2>2, QuietHold
<1>2. CASE FoldStream(b)
  <2>1. /\ step[b] \in Forward /\ step'[b] = step[b] /\ at[b] = "fold" /\ at'[b] = "append"
        /\ version' = version /\ inv' = inv /\ undo' = undo /\ events' = events
        /\ own' = own /\ crashes' = crashes /\ resets' = resets /\ HasCapacity(step[b])
        /\ step[b] \in Resources
    BY <1>2, <1>f DEF FoldStream, Goto, counters, TypeOK
  <2>2. ReadOK(b)'
    BY <1>t, <2>1 DEF ReadOK, TripOK, HasCapacity
  <2> QED BY <2>1, <2>2, QuietHold
<1>3. CASE StepErrs(b)
  <2>1. /\ step[b] \in Forward /\ step'[b] = step[b] /\ at'[b] = "info" /\ undo' = undo
        /\ events' = events /\ own' = own /\ crashes' = crashes + 1 /\ resets' = resets
    BY <1>3 DEF StepErrs, Goto, TypeOK
  <2>2. ReadOK(b)'
    BY <2>1 DEF ReadOK
  <2> QED BY <2>1, <2>2, QuietHold
<1>4. CASE HoldConflict(b) /\ step' = step
  <2>0. step[b] \in Resources /\ at[b] = "append"
    BY <1>4 DEF HoldConflict
  <2>1. step[b] # "undo" /\ step[b] \in Forward
    BY <1>f, <2>0
  <2>2. ~Fail(b, "conflicts")
    BY <1>4, <2>1 DEF Fail, TypeOK
  <2>3. /\ step'[b] = step[b] /\ at'[b] = "info" /\ undo' = undo /\ events' = events /\ own' = own
        /\ crashes' = crashes /\ resets' = resets
    BY <1>4, <2>2 DEF HoldConflict, Goto, counters, TypeOK
  <2>4. ReadOK(b)'
    BY <2>3 DEF ReadOK
  <2> QED BY <2>0, <2>1, <2>3, <2>4, QuietHold
<1>5. CASE RecordStep(b)
  <2> DEFINE s == step[b]
  <2>1. /\ s \in Forward /\ at[b] = "record" /\ step'[b] = Following[s] /\ at'[b] = "info"
        /\ undo'[b] = IF s \in Compensated THEN <<s>> \o undo[b] ELSE undo[b]
        /\ events' = events /\ own' = own /\ crashes' = crashes /\ resets' = resets
    BY <1>5 DEF RecordStep, Goto, counters, TypeOK
  <2>2. undo[b] = Registered[s]
    BY <2>1 DEF TripOK, UndoOK, Registered, Forward, Following
  <2>3. /\ Following[s] \in DOMAIN Registered /\ undo'[b] = Registered[Following[s]] /\ undo'[b] \in Unwound
        /\ \A i \in DOMAIN undo'[b] : undo'[b][i] = s \/ \E j \in DOMAIN undo[b] : undo[b][j] = undo'[b][i]
    BY <2>1, <2>2, RegisterFacts
  <2>4. ~Unwinding(b) /\ ~Unwinding(b)'
    BY <2>1, <2>3 DEF Unwinding, Forward, Following, Registered
  <2>5. \A r : ToUndo(b, r)' => ToUndo(b, r) \/ At(b, r, "record")
    BY <2>1, <2>3 DEF ToUndo, At
  <2>6. Quiet(b)
    BY <1>t, <2>1, <2>4, <2>5 DEF Quiet
  <2>7. UndoOK(b)'
    BY <2>1, <2>3 DEF UndoOK, At
  <2>8. ReadOK(b)' /\ NotesOK(b)'
    BY <2>1, <2>6, QuietNotes DEF ReadOK, At, TripOK
  <2>9. OutcomeOK(b)'
    <3>1. Following[s] \in {"confirm", "confirmed"} => s \in {"charge", "confirm"}
      BY <2>1 DEF Forward, Following
    <3>2. Following[s] \notin {"confirm", "confirmed", "undo", "failed"} =>
            s \notin {"confirm", "confirmed", "undo", "failed"}
      BY <2>1 DEF Forward, Following
    <3>3. Following[s] = "confirmed" => s = "confirm"
      BY <2>1 DEF Forward, Following
    <3> QED BY <2>1, <2>4, <3>1, <3>2, <3>3, SameNotes, NoOutcome DEF OutcomeOK, TripOK, At
  <2>10. \A x \in Resources : ToHold(b, x)' => ToHold(b, x)
    BY <2>1 DEF ToHold, Before, Forward, Following
  <2>11. HoldsOK(b)'
    BY <2>1, <2>6, <2>10, QuietHolds DEF TripOK
  <2> QED BY <2>7, <2>8, <2>9, <2>11 DEF TripOK
<1>6. CASE ReadForRelease(b) \/ ReleaseConflict(b) \/ UndoDone(b)
  <2>1. /\ step[b] = "undo" /\ step'[b] \in {"undo", "failed"} /\ at'[b] \in {"info", at[b], "append"}
        /\ events' = events /\ own' = own /\ crashes' = crashes /\ resets' = resets
    BY <1>6 DEF ReadForRelease, ReleaseConflict, UndoDone, At, Undone, Goto, counters, TypeOK
  <2>2. UndoOK(b)
    BY DEF TripOK
  <2>3. UndoOK(b)' /\ \A r : ToUndo(b, r)' => ToUndo(b, r)
    <3>1. CASE undo' = undo
      <4>1. At(b, "undo", "append")' => undo[b] # <<>> /\ Head(undo[b]) \in Resources
        BY <1>6, <2>1, <2>2, <3>1 DEF ReadForRelease, ReleaseConflict, UndoDone, At, Undone, Goto, TypeOK, UndoOK
      <4> QED BY <2>1, <2>2, <3>1, <4>1 DEF UndoOK, ToUndo, Registered
    <3>2. CASE undo' # undo
      <4>1. ReleaseConflict(b) /\ Undone(b)
        BY <1>6, <3>2 DEF ReadForRelease, ReleaseConflict, UndoDone
      <4>2. undo[b] # <<>> /\ undo'[b] = Tail(undo[b]) /\ at'[b] = "info" /\ step' = step
        BY <2>2, <4>1 DEF ReleaseConflict, Undone, Goto, UndoOK, TypeOK
      <4> QED BY <2>1, <2>2, <4>2, UnwoundFacts DEF UndoOK, ToUndo, At, Registered
    <3> QED BY <3>1, <3>2
  <2>4. Quiet(b)
    BY <1>t, <2>1, <2>3 DEF Quiet, Unwinding
  <2>5. ReadOK(b)' /\ NotesOK(b)'
    BY <2>1, <2>4, QuietNotes DEF ReadOK, At, TripOK
  <2>6. OutcomeOK(b)'
    BY <2>1, SameNotes DEF OutcomeOK, TripOK, At, Unwinding
  <2>7. HoldsOK(b)'
    <3>1. \A x \in Resources : ~ToHold(b, x)'
      BY <2>1 DEF ToHold, Before
    <3>2. \A x \in Resources : /\ Noted(b, Undoes[x])' = Noted(b, Undoes[x])
                               /\ Noted(b, Does[x])' = Noted(b, Does[x])
      BY <2>1, SameNotes
    <3>3. \A x \in Resources : step'[b] # x
      BY <2>1
    <3> QED BY <2>1, <2>3, <3>1, <3>2, <3>3 DEF HoldsOK, Holding, TripOK
  <2> QED BY <2>3, <2>5, <2>6, <2>7 DEF TripOK
<1> QED BY <1>1, <1>2, <1>3, <1>4, <1>5, <1>6

-----------------------------------------------------------------------------
(* Steps of a trip that note something.                                    *)

LEMMA NoteNames ==
  /\ DOMAIN Undoes = Resources \cup {"charge"}
  /\ Undoes["flight"] = "flight released" /\ Undoes["hotel"] = "hotel released"
  /\ Undoes["charge"] = "refunded"
  /\ Does["flight"] = "flight" /\ Does["hotel"] = "hotel"
BY ResourceFacts DEF Undoes, Does

LEMMA NotedStep ==
  ASSUME TypeOK, NEW b \in Bookings, NEW e \in Notes, Note(b, e)
  PROVE  /\ \A d : Noted(b, d)' <=> Noted(b, d) \/ d = e
         /\ \A d : d # e => Places(b, {d})' = Places(b, {d})
         /\ \A d : d # e =>
              \A i \in Places(b, {e})' \ Places(b, {e}), j \in Places(b, {d})' : j < i
<1> DEFINE n == Len(events[b]) + 1
<1>1. /\ n \in Nat /\ \A names : Places(b, names) \subseteq 1 .. n - 1
      /\ \A names : Places(b, names)' = Places(b, names) \cup (IF e \in names THEN {n} ELSE {})
  BY NoteStep
<1> HIDE DEF n
<1>2. \A d : Places(b, {d})' = Places(b, {d}) \cup (IF e = d THEN {n} ELSE {})
  BY <1>1
<1>3. \A d : Noted(b, d)' <=> Noted(b, d) \/ d = e
  BY <1>2 DEF Noted
<1>4. \A d : \A j \in Places(b, {d}) : j < n
  BY <1>1
<1> QED BY <1>2, <1>3, <1>4, ZenonT(60)

LEMMA OrderKept ==
  ASSUME TypeOK, NEW b \in Bookings, NotesOK(b), NEW e \in Notes, Note(b, e),
         ~Unwinding(b) \/ e \notin Resources
  PROVE  \A x \in Resources : \A i \in Places(b, {Undoes[x]})', j \in Places(b, {Does[x]})' : j < i
<1> SUFFICES ASSUME NEW x \in Resources,
                    NEW i \in Places(b, {Undoes[x]})', NEW j \in Places(b, {Does[x]})'
             PROVE  j < i
  OBVIOUS
<1>1. Undoes[x] # Does[x] /\ Does[x] = x /\ x \in DOMAIN Undoes
  BY NoteNames, ResourceFacts
<1>2. CASE e = Does[x]
  <2>1. ~Noted(b, Undoes[x])
    BY <1>1, <1>2 DEF NotesOK
  <2>2. Places(b, {Undoes[x]})' = {}
    BY <1>1, <1>2, <2>1, NotedStep DEF Noted
  <2> QED BY <2>2
<1>3. CASE e = Undoes[x]
  <2>1. Places(b, {Does[x]})' = Places(b, {Does[x]})
    BY <1>1, <1>3, NotedStep
  <2>2. CASE i \in Places(b, {Undoes[x]})
    BY <2>1, <2>2 DEF NotesOK
  <2>3. CASE i \notin Places(b, {Undoes[x]})
    BY <1>1, <1>3, <2>3, NotedStep
  <2> QED BY <2>2, <2>3
<1>4. CASE e # Does[x] /\ e # Undoes[x]
  <2>1. /\ Places(b, {Undoes[x]})' = Places(b, {Undoes[x]})
        /\ Places(b, {Does[x]})' = Places(b, {Does[x]})
    BY <1>4, NotedStep
  <2> QED BY <2>1 DEF NotesOK
<1> QED BY <1>2, <1>3, <1>4

LEMMA FailStep ==
  ASSUME TypeOK, TypeOK', NEW b \in Bookings, TripOK(b), NEW why \in Reasons, Fail(b, why),
         step[b] \in Forward
  PROVE  TripOK(b)'
<1>1. /\ Note(b, "failed") /\ "failed" \in Notes /\ step'[b] = "undo" /\ at'[b] = "info"
      /\ undo' = undo /\ own' = own /\ crashes' = crashes /\ resets' = resets
  BY DEF Fail, Goto, TypeOK, Notes
<1>2. ~Unwinding(b) /\ Unwinding(b)'
  BY <1>1 DEF Unwinding, Forward, Following
<1>3. \A d : Noted(b, d)' <=> Noted(b, d) \/ d = "failed"
  BY <1>1, NotedStep
<1>n. \A x \in Resources : Undoes[x] # "failed" /\ Does[x] # "failed" /\ x \in DOMAIN Undoes
                           /\ x # "undo"
  BY NoteNames, ResourceFacts
<1>4. ReadOK(b)' /\ UndoOK(b)'
  BY <1>1, ResourceFacts DEF ReadOK, UndoOK, TripOK, At, Registered
<1>5. NotesOK(b)'
  <2>1. \A x \in Resources : \A i \in Places(b, {Undoes[x]})', j \in Places(b, {Does[x]})' : j < i
    BY <1>1, <1>2, OrderKept DEF TripOK
  <2>2. ToUndo(b, "charge")' \/ At(b, "charge", "record")' => Noted(b, "paid")'
    BY <1>1, <1>3 DEF NotesOK, TripOK, ToUndo, At
  <2> QED BY <1>2, <2>1, <2>2 DEF NotesOK
<1>6. OutcomeOK(b)'
  <2>1. /\ Outcomes(b)' # {} /\ Shown(b)' = "failed"
        /\ Max(Outcomes(b)') \in Outcomes(b)' /\ \A i \in Outcomes(b)' : i <= Max(Outcomes(b)')
    BY <1>1, OutcomeStep DEF TripOK
  <2>2. Max(Outcomes(b))' = Max(Outcomes(b)')
    OBVIOUS
  <2> QED BY <1>1, <2>1, <2>2 DEF OutcomeOK, At
<1>7. HoldsOK(b)'
  <2> SUFFICES ASSUME NEW x \in Resources
               PROVE  /\ own'[b][x] <= crashes' + 1
                      /\ ToHold(b, x)' \/ Noted(b, Undoes[x])' => own'[b][x] <= crashes'
                      /\ resets' = 0 /\ Holding(b, x)' => own'[b][x] >= 1
    BY DEF HoldsOK
  <2>1. ~ToHold(b, x)'
    BY <1>1, <1>n, ResourceFacts DEF ToHold, Before
  <2>2. ~Noted(b, Undoes[x])'
    BY <1>2, <1>3, <1>n DEF NotesOK, TripOK
  <2>3. Holding(b, x)' => Holding(b, x)
    BY <1>1, <1>3, <1>n DEF Holding, ToUndo
  <2> QED BY <1>1, <2>1, <2>2, <2>3 DEF HoldsOK, TripOK
<1> QED BY <1>4, <1>5, <1>6, <1>7 DEF TripOK

LEMMA AppendOnlyStep ==
  ASSUME TypeOK, TypeOK', NEW b \in Bookings, TripOK(b), AppendOnly(b)
  PROVE  TripOK(b)'
<1>1. /\ step'[b] = step[b] /\ step[b] \in {"start", "charge", "confirm"} /\ at[b] = "info"
      /\ at'[b] = "record" /\ undo' = undo /\ own' = own /\ crashes' = crashes /\ resets' = resets
  BY DEF AppendOnly, Goto, TypeOK, counters
<1>2. PICK e \in {"started", "paid", "confirmed"} :
        /\ Note(b, e)
        /\ step[b] = "charge" => e = "paid"
        /\ e = "confirmed" <=> step[b] = "confirm"
  BY DEF AppendOnly
<1>3. e \in Notes
  BY <1>2 DEF Notes
<1>4. \A d : Noted(b, d)' <=> Noted(b, d) \/ d = e
  BY <1>2, <1>3, NotedStep
<1>5. \A x \in Resources : Undoes[x] # e /\ Does[x] # e /\ x # step[b] /\ x # e
  BY <1>1, <1>2, NoteNames, ResourceFacts
<1>6. ReadOK(b)' /\ UndoOK(b)'
  BY <1>1 DEF ReadOK, UndoOK, TripOK, At, Registered
<1>7. NotesOK(b)'
  <2>1. \A x \in Resources : \A i \in Places(b, {Undoes[x]})', j \in Places(b, {Does[x]})' : j < i
    BY <1>2, <1>3, <1>5, OrderKept DEF TripOK
  <2>2. ToUndo(b, "charge")' \/ At(b, "charge", "record")' => Noted(b, "paid")'
    BY <1>1, <1>2, <1>4 DEF NotesOK, TripOK, ToUndo, At
  <2>3. \A s \in DOMAIN Undoes : Noted(b, Undoes[s])' => Noted(b, Undoes[s])
    BY <1>2, <1>4, <1>5, NoteNames
  <2>4. Unwinding(b)' <=> Unwinding(b)
    BY <1>1 DEF Unwinding
  <2> QED BY <2>1, <2>2, <2>3, <2>4 DEF NotesOK, TripOK
<1>8. OutcomeOK(b)'
  <2>1. OutcomeOK(b) /\ ~Unwinding(b)'
    BY <1>1 DEF TripOK, Unwinding
  <2>2. CASE step[b] = "confirm"
    <3>1. /\ Outcomes(b)' # {} /\ e = "confirmed"
          /\ Max(Outcomes(b)') \in Outcomes(b)' /\ \A i \in Outcomes(b)' : i <= Max(Outcomes(b)')
      BY <1>2, <1>3, <2>1, <2>2, OutcomeStep
    <3>2. Max(Outcomes(b))' = Max(Outcomes(b)')
      OBVIOUS
    <3> QED BY <1>1, <1>4, <2>1, <2>2, <3>1, <3>2 DEF OutcomeOK, At
  <2>3. CASE step[b] # "confirm"
    <3>1. Outcomes(b)' = Outcomes(b)
      BY <1>2, <1>3, <2>1, <2>3, OutcomeStep
    <3> QED BY <1>1, <1>4, <2>1, <2>3, <3>1 DEF OutcomeOK, At
  <2> QED BY <2>2, <2>3
<1>9. HoldsOK(b)'
  <2> SUFFICES ASSUME NEW x \in Resources
               PROVE  /\ own'[b][x] <= crashes' + 1
                      /\ ToHold(b, x)' \/ Noted(b, Undoes[x])' => own'[b][x] <= crashes'
                      /\ resets' = 0 /\ Holding(b, x)' => own'[b][x] >= 1
    BY DEF HoldsOK
  <2>1. ToHold(b, x)' => ToHold(b, x)
    BY <1>1, <1>5 DEF ToHold
  <2>2. (Noted(b, Undoes[x])' <=> Noted(b, Undoes[x])) /\ (Holding(b, x)' => Holding(b, x))
    BY <1>1, <1>4, <1>5 DEF Holding, ToUndo
  <2> QED BY <1>1, <2>1, <2>2 DEF HoldsOK, TripOK
<1> QED BY <1>6, <1>7, <1>8, <1>9 DEF TripOK

LEMMA HoldStep ==
  ASSUME TypeOK, TypeOK', NEW b \in Bookings, TripOK(b), AppendHold(b)
  PROVE  TripOK(b)'
<1> DEFINE x == step[b]
<1>1. /\ x \in Resources /\ step'[b] = x /\ at[b] = "append" /\ at'[b] = "note" /\ undo' = undo
      /\ events' = events /\ crashes' = crashes /\ resets' = resets
      /\ own'[b][x] = own[b][x] + 1 /\ \A y \in Resources : y # x => own'[b][y] = own[b][y]
  BY DEF AppendHold, Goto, TypeOK, counters
<1>2. ReadOK(b)' /\ UndoOK(b)'
  BY <1>1, ResourceFacts DEF ReadOK, UndoOK, TripOK, At
<1>3. NotesOK(b)' /\ OutcomeOK(b)'
  BY <1>1, SameNotes, ResourceFacts DEF NotesOK, OutcomeOK, TripOK, At, ToUndo, Unwinding
<1>4. HoldsOK(b)'
  <2> SUFFICES ASSUME NEW y \in Resources
               PROVE  /\ own'[b][y] <= crashes' + 1
                      /\ ToHold(b, y)' \/ Noted(b, Undoes[y])' => own'[b][y] <= crashes'
                      /\ resets' = 0 /\ Holding(b, y)' => own'[b][y] >= 1
    BY DEF HoldsOK
  <2>1. own[b][y] \in Nat /\ crashes \in Nat
    BY DEF TypeOK
  <2>2. Noted(b, Undoes[y])' = Noted(b, Undoes[y]) /\ Noted(b, Does[y])' = Noted(b, Does[y])
    BY <1>1, SameNotes
  <2>3. CASE y = x
    <3>1. ToHold(b, y) /\ ~ToHold(b, y)'
      BY <1>1, <2>3, ResourceFacts DEF ToHold, Before
    <3>2. ~Noted(b, Undoes[y])
      BY <1>1, ResourceFacts, NoteNames DEF TripOK, NotesOK, Unwinding
    <3>3. own[b][y] <= crashes
      BY <3>1 DEF HoldsOK, TripOK
    <3> QED BY <1>1, <2>1, <2>2, <2>3, <3>1, <3>2, <3>3
  <2>4. CASE y # x
    <3>1. (ToHold(b, y)' => ToHold(b, y)) /\ (Holding(b, y)' => Holding(b, y))
      BY <1>1, <2>2, <2>4 DEF ToHold, Holding, ToUndo
    <3> QED BY <1>1, <2>2, <2>4, <3>1 DEF HoldsOK, TripOK
  <2> QED BY <2>3, <2>4
<1> QED BY <1>2, <1>3, <1>4 DEF TripOK

LEMMA ReservedStep ==
  ASSUME TypeOK, TypeOK', NEW b \in Bookings, TripOK(b), NoteReserved(b)
  PROVE  TripOK(b)'
<1> DEFINE x == step[b]
<1>1. /\ x \in Resources /\ step'[b] = x /\ at[b] = "note" /\ at'[b] = "record" /\ undo' = undo
      /\ own' = own /\ crashes' = crashes /\ resets' = resets /\ Note(b, x)
  BY DEF NoteReserved, Goto, TypeOK, counters
<1>2. x \in Notes /\ x \notin {"confirmed", "failed", "paid", "undo", "charge", "confirm"}
  BY <1>1, ResourceFacts DEF Notes
<1>3. ~Unwinding(b) /\ ~Unwinding(b)'
  BY <1>1, ResourceFacts DEF Unwinding
<1>4. \A d : Noted(b, d)' <=> Noted(b, d) \/ d = x
  BY <1>1, <1>2, NotedStep
<1>5. ReadOK(b)' /\ UndoOK(b)'
  BY <1>1, ResourceFacts DEF ReadOK, UndoOK, TripOK, At
<1>u. \A s \in DOMAIN Undoes : Undoes[s] # x
  BY <1>1, NoteNames, ResourceFacts
<1>6. NotesOK(b)'
  <2>1. \A y \in Resources : \A i \in Places(b, {Undoes[y]})', j \in Places(b, {Does[y]})' : j < i
    BY <1>1, <1>2, <1>3, OrderKept DEF TripOK
  <2> QED BY <1>1, <1>2, <1>3, <1>4, <1>u, <2>1 DEF NotesOK, TripOK, ToUndo, At
<1>7. OutcomeOK(b)'
  <2>1. Outcomes(b)' = Outcomes(b)
    BY <1>1, <1>2, OutcomeStep DEF TripOK
  <2> QED BY <1>1, <1>2, <1>3, <1>4, <2>1 DEF OutcomeOK, TripOK, At
<1>8. HoldsOK(b)'
  <2> SUFFICES ASSUME NEW y \in Resources
               PROVE  /\ own'[b][y] <= crashes' + 1
                      /\ ToHold(b, y)' \/ Noted(b, Undoes[y])' => own'[b][y] <= crashes'
                      /\ resets' = 0 /\ Holding(b, y)' => own'[b][y] >= 1
    BY DEF HoldsOK
  <2>1. (ToHold(b, y)' => ToHold(b, y)) /\ (Noted(b, Undoes[y])' <=> Noted(b, Undoes[y]))
    BY <1>1, <1>4, <1>u, NoteNames DEF ToHold
  <2>2. Does[y] = y
    BY NoteNames, ResourceFacts
  <2>3. Holding(b, y)' => Holding(b, y)
    BY <1>1, <1>4, <2>1, <2>2 DEF Holding, ToUndo
  <2> QED BY <1>1, <2>1, <2>3 DEF HoldsOK, TripOK
<1> QED BY <1>5, <1>6, <1>7, <1>8 DEF TripOK

LEMMA RefundStep ==
  ASSUME TypeOK, TypeOK', NEW b \in Bookings, TripOK(b), Refund(b)
  PROVE  TripOK(b)'
<1>1. /\ step[b] = "undo" /\ step'[b] = "undo" /\ at'[b] = "info" /\ undo'[b] = Tail(undo[b])
      /\ own' = own /\ crashes' = crashes /\ resets' = resets /\ Note(b, "refunded")
      /\ undo[b] # <<>> /\ Head(undo[b]) = "charge" /\ undo[b] \in Unwound
  BY NoteNames DEF Refund, Undone, Goto, At, TypeOK, counters, TripOK, UndoOK
<1>2. "refunded" \in Notes /\ \A x \in Resources : Undoes[x] # "refunded" /\ Does[x] # "refunded"
  BY NoteNames, ResourceFacts DEF Notes
<1>3. Unwinding(b) /\ Unwinding(b)'
  BY <1>1 DEF Unwinding
<1>4. \A d : Noted(b, d)' <=> Noted(b, d) \/ d = "refunded"
  BY <1>1, <1>2, NotedStep
<1>5. Tail(undo[b]) \in Unwound /\ \A s : ToUndo(b, s)' => ToUndo(b, s)
  BY <1>1, UnwoundFacts DEF ToUndo
<1>6. ReadOK(b)' /\ UndoOK(b)'
  BY <1>1, <1>5, ResourceFacts DEF ReadOK, UndoOK, At, Registered
<1>7. NotesOK(b)'
  <2>1. \A x \in Resources : \A i \in Places(b, {Undoes[x]})', j \in Places(b, {Does[x]})' : j < i
    BY <1>1, <1>2, OrderKept, ResourceFacts DEF TripOK
  <2> QED BY <1>1, <1>3, <1>4, <1>5, <2>1 DEF NotesOK, TripOK, At
<1>8. OutcomeOK(b)'
  <2>1. Outcomes(b)' = Outcomes(b) /\ Shown(b)' = Shown(b)
    BY <1>1, <1>2, OutcomeStep DEF TripOK
  <2> QED BY <1>1, <1>3, <2>1 DEF OutcomeOK, TripOK, At
<1>9. HoldsOK(b)'
  <2> SUFFICES ASSUME NEW x \in Resources
               PROVE  /\ own'[b][x] <= crashes' + 1
                      /\ ToHold(b, x)' \/ Noted(b, Undoes[x])' => own'[b][x] <= crashes'
                      /\ resets' = 0 /\ Holding(b, x)' => own'[b][x] >= 1
    BY DEF HoldsOK
  <2>1. ~ToHold(b, x)' /\ (Noted(b, Undoes[x])' <=> Noted(b, Undoes[x]))
    BY <1>1, <1>2, <1>4, ResourceFacts DEF ToHold, Before
  <2>2. Holding(b, x)' => Holding(b, x)
    BY <1>1, <1>2, <1>4, <1>5 DEF Holding
  <2> QED BY <1>1, <2>1, <2>2 DEF HoldsOK, TripOK
<1> QED BY <1>6, <1>7, <1>8, <1>9 DEF TripOK

LEMMA ReleaseStep ==
  ASSUME TypeOK, TypeOK', NEW b \in Bookings, TripOK(b), Release(b)
  PROVE  TripOK(b)'
<1>0. PICK x \in Resources : undo[b] # <<>> /\ x = Head(undo[b]) /\ undo[b] \in Unwound
  BY DEF Release, TripOK, UndoOK
<1>n. own[b][x] \in Nat /\ crashes \in Nat
  BY <1>0 DEF TypeOK
<1>1. /\ step[b] = "undo" /\ step'[b] = "undo" /\ at'[b] = "info" /\ undo'[b] = Tail(undo[b])
      /\ crashes' = crashes /\ resets' = resets /\ Note(b, Undoes[x])
      /\ own'[b][x] = Clamp(own[b][x] - 1, own[b][x])
      /\ \A y \in Resources : y # x => own'[b][y] = own[b][y]
  BY <1>0 DEF Release, Undone, Goto, At, TypeOK, counters
<1>2. own'[b][x] <= own[b][x] /\ (own[b][x] >= 1 => own'[b][x] = own[b][x] - 1)
  <2> DEFINE n == own[b][x]
  <2> HIDE DEF n
  <2>1. n \in Nat /\ n - 1 \in Int
    BY <1>n DEF n
  <2>2. Clamp(n - 1, n) <= n /\ (n - 1 >= 0 => Clamp(n - 1, n) = n - 1)
    <3>1. /\ Clamp(n - 1, n) <= n
          /\ n - 1 <= n => Clamp(n - 1, n) = (IF n - 1 >= 0 THEN n - 1 ELSE 0)
      BY <2>1, ClampFacts
    <3> QED BY <2>1, <3>1
  <2>3. own'[b][x] = Clamp(n - 1, n)
    BY <1>1 DEF n
  <2>4. n - 1 >= 0 <=> n >= 1
    BY <2>1
  <2> QED BY <2>2, <2>3, <2>4 DEF n
<1>3. /\ Undoes[x] \in Notes
      /\ \A y \in Resources : (y # x => Undoes[y] # Undoes[x]) /\ Does[y] # Undoes[x]
      /\ Undoes[x] \notin {"confirmed", "failed", "paid"} \cup Resources
  <2>1. CASE x = "flight"
    BY <2>1, NoteNames, ResourceFacts DEF Notes
  <2>2. CASE x = "hotel"
    BY <2>2, NoteNames, ResourceFacts DEF Notes
  <2> QED BY <1>0, <2>1, <2>2, ResourceFacts
<1>4. Unwinding(b) /\ Unwinding(b)'
  BY <1>1 DEF Unwinding
<1>5. \A d : Noted(b, d)' <=> Noted(b, d) \/ d = Undoes[x]
  BY <1>1, <1>3, NotedStep
<1>6. Tail(undo[b]) \in Unwound /\ (\A s : ToUndo(b, s)' => ToUndo(b, s)) /\ ToUndo(b, x) /\ ~ToUndo(b, x)'
  BY <1>0, <1>1, UnwoundFacts DEF ToUndo
<1>7. ReadOK(b)' /\ UndoOK(b)'
  BY <1>1, <1>6, ResourceFacts DEF ReadOK, UndoOK, At, Registered
<1>8. NotesOK(b)'
  <2>1. \A y \in Resources : \A i \in Places(b, {Undoes[y]})', j \in Places(b, {Does[y]})' : j < i
    BY <1>1, <1>3, OrderKept DEF TripOK
  <2> QED BY <1>1, <1>4, <1>5, <1>6, <2>1 DEF NotesOK, TripOK, At
<1>9. OutcomeOK(b)'
  <2>1. Outcomes(b)' = Outcomes(b) /\ Shown(b)' = Shown(b)
    BY <1>1, <1>3, OutcomeStep DEF TripOK
  <2> QED BY <1>1, <1>4, <2>1 DEF OutcomeOK, TripOK, At
<1>10. HoldsOK(b)'
  <2> SUFFICES ASSUME NEW y \in Resources
               PROVE  /\ own'[b][y] <= crashes' + 1
                      /\ ToHold(b, y)' \/ Noted(b, Undoes[y])' => own'[b][y] <= crashes'
                      /\ resets' = 0 /\ Holding(b, y)' => own'[b][y] >= 1
    BY DEF HoldsOK
  <2>1. ~ToHold(b, y)' /\ step'[b] # y /\ step[b] # y
    BY <1>1, ResourceFacts DEF ToHold, Before
  <2>2. CASE y = x
    <3>1. ~Holding(b, y)'
      BY <1>5, <1>6, <2>1, <2>2 DEF Holding
    <3>2. own[b][x] <= crashes + 1
      BY <1>0 DEF HoldsOK, TripOK
    <3>3. own'[b][x] \in Nat
      BY <1>0, ZenonT(60) DEF TypeOK
    <3>4. own'[b][x] <= crashes
      BY <1>n, <1>2, <3>2, <3>3
    <3> QED BY <1>n, <1>1, <2>2, <3>1, <3>3, <3>4
  <2>3. CASE y # x
    <3>1. (Noted(b, Undoes[y])' <=> Noted(b, Undoes[y])) /\ (Holding(b, y)' => Holding(b, y))
      BY <1>3, <1>5, <1>6, <2>1, <2>3 DEF Holding
    <3> QED BY <1>1, <2>1, <2>3, <3>1 DEF HoldsOK, TripOK
  <2> QED BY <2>2, <2>3
<1> QED BY <1>7, <1>8, <1>9, <1>10 DEF TripOK

-----------------------------------------------------------------------------
(* The count of each stream.                                               *)

LEMMA CountKept ==
  ASSUME Counted, own' = own, \A x \in Resources : inv'[x].held = inv[x].held,
         resets' = 0 => resets = 0
  PROVE  Counted'
<1>1. \A x \in Resources : Holds(x)' = Holds(x) /\ HeldBy(x)' = HeldBy(x)
  BY DEF Holds, HeldBy
<1> QED BY <1>1 DEF Counted

LEMMA CountHeld ==
  ASSUME TypeOK, Counted, NEW b \in Bookings, TripOK(b), AppendHold(b)
  PROVE  Counted'
<1> DEFINE x == step[b]
<1>1. /\ x \in Resources /\ resets' = resets /\ inv' = [inv EXCEPT ![x] = Bump(x, 1)]
      /\ own' = [own EXCEPT ![b][x] = @ + 1]
  BY DEF AppendHold, counters
<1>2. HasCapacity(x)
  BY <1>1 DEF AppendHold, TripOK, ReadOK
<1>3. /\ inv'[x] = Bump(x, 1) /\ Bump(x, 1).held = inv[x].held + 1 /\ Bump(x, 1).held <= Capacity[x]
      /\ \A y \in Resources : y # x => inv'[y] = inv[y]
  BY <1>1, <1>2, BumpFacts DEF TypeOK
<1>4. /\ IsFiniteSet(Holds(x)) /\ inv[x].held <= HeldBy(x)
      /\ resets = 0 => inv[x].held = HeldBy(x)
  BY <1>1 DEF Counted
<1> SUFFICES ASSUME NEW y \in Resources
             PROVE  /\ IsFiniteSet(Holds(y)')
                    /\ inv'[y].held <= Capacity[y] /\ inv'[y].held <= HeldBy(y)'
                    /\ resets' = 0 => inv'[y].held = HeldBy(y)'
  BY DEF Counted
<1>a. PICK r \in Resources : r = x
  BY <1>1
<1>5. CASE y = r
  <2>1. IsFiniteSet(Holds(r)') /\ HeldBy(r)' = HeldBy(r) + 1
    BY <1>1, <1>4, <1>a, HoldAdded
  <2>2. HeldBy(r) \in Nat /\ inv[r].held \in Nat
    <3>1. inv[r] \in [version : Nat, held : Nat]
      BY DEF TypeOK
    <3> QED BY <1>4, <1>a, <3>1, FS_CardinalityType DEF HeldBy
  <2> QED BY <1>1, <1>3, <1>4, <1>5, <1>a, <2>1, <2>2
<1>6. CASE y # r
  <2>1. Holds(y)' = Holds(y) /\ HeldBy(y)' = HeldBy(y)
    BY <1>1, <1>4, <1>6, <1>a, HoldAdded DEF HeldBy
  <2> QED BY <1>1, <1>3, <1>6, <1>a, <2>1 DEF Counted
<1> QED BY <1>5, <1>6

LEMMA CountReleased ==
  ASSUME TypeOK, Counted, NEW b \in Bookings, TripOK(b), Release(b)
  PROVE  Counted'
<1>0. PICK x \in Resources : undo[b] # <<>> /\ x = Head(undo[b]) /\ undo[b] \in Unwound
  BY DEF Release, TripOK, UndoOK
<1>1. /\ resets' = resets /\ inv' = [inv EXCEPT ![x] = Bump(x, -1)]
      /\ own' = [own EXCEPT ![b][x] = Clamp(@ - 1, @)]
  BY <1>0 DEF Release, counters
<1>2. resets = 0 => own[b][x] >= 1
  <2>1. ToUndo(b, x)
    BY <1>0, UnwoundFacts DEF ToUndo
  <2> QED BY <2>1 DEF TripOK, HoldsOK, Holding
<1>3. /\ IsFiniteSet(Holds(x)) /\ inv[x].held <= HeldBy(x) /\ inv[x].held <= Capacity[x]
      /\ resets = 0 => inv[x].held = HeldBy(x)
  BY DEF Counted
<1>4. /\ inv'[x] = Bump(x, -1) /\ Bump(x, -1).held = (IF inv[x].held = 0 THEN 0 ELSE inv[x].held - 1)
      /\ Bump(x, -1).held <= Capacity[x]
      /\ \A y \in Resources : y # x => inv'[y] = inv[y]
  BY <1>1, <1>3, BumpFacts DEF TypeOK
<1>5. /\ IsFiniteSet(Holds(x)')
      /\ HeldBy(x)' = IF own[b][x] = 0 THEN HeldBy(x) ELSE HeldBy(x) - 1
      /\ own[b][x] > 0 => HeldBy(x) > 0
      /\ \A y \in Resources : y # x => Holds(y)' = Holds(y)
  BY <1>1, <1>3, HoldReleased
<1>6. HeldBy(x) \in Nat /\ inv[x].held \in Nat /\ own[b][x] \in Nat
  <2>1. inv[x] \in [version : Nat, held : Nat] /\ own[b][x] \in Nat
    BY DEF TypeOK
  <2> QED BY <1>3, <2>1, FS_CardinalityType DEF HeldBy
<1> SUFFICES ASSUME NEW y \in Resources
             PROVE  /\ IsFiniteSet(Holds(y)')
                    /\ inv'[y].held <= Capacity[y] /\ inv'[y].held <= HeldBy(y)'
                    /\ resets' = 0 => inv'[y].held = HeldBy(y)'
  BY DEF Counted
<1>7. CASE y = x
  BY <1>1, <1>2, <1>3, <1>4, <1>5, <1>6, <1>7
<1>8. CASE y # x
  <2>1. Holds(y)' = Holds(y) /\ HeldBy(y)' = HeldBy(y)
    BY <1>5, <1>8 DEF HeldBy
  <2> QED BY <1>1, <1>4, <1>8, <2>1 DEF Counted
<1> QED BY <1>7, <1>8

(* A reset forgets who holds the stream and what was held.                 *)
LEMMA CountReset ==
  ASSUME TypeOK, TypeOK', Counted, ResetOK, AppendReset
  PROVE  Counted'
<1>1. PICK r \in Resources : r = resetting
  BY DEF AppendReset
<1>2. /\ resets' = resets /\ inv' = [inv EXCEPT ![r] = AfterReset(r)]
      /\ own' = [b \in Bookings |-> [own[b] EXCEPT ![r] = 0]] /\ resets' # 0
  <2>1. resets > 0 /\ resets \in Nat
    BY <1>1, ResourceFacts DEF ResetOK, TypeOK
  <2> QED BY <1>1, <2>1 DEF AppendReset
<1> SUFFICES ASSUME NEW y \in Resources
             PROVE  /\ IsFiniteSet(Holds(y)')
                    /\ inv'[y].held <= Capacity[y] /\ inv'[y].held <= HeldBy(y)'
  BY <1>2 DEF Counted
<1>3. CASE y = r
  <2>1. \A b \in Bookings : own'[b][r] = 0
    BY <1>2 DEF TypeOK
  <2>2. Holds(r)' = {}
    BY <2>1 DEF Holds
  <2>3. IsFiniteSet(Holds(r)') /\ HeldBy(r)' = 0
    BY <2>2, FS_EmptySet DEF HeldBy
  <2>4. inv'[r].held = 0
    BY <1>2 DEF AfterReset, TypeOK
  <2> QED BY <1>3, <2>3, <2>4, ResourceFacts
<1>4. CASE y # r
  <2>1. \A b \in Bookings : own'[b][y] = own[b][y]
    BY <1>2, <1>4 DEF TypeOK
  <2>2. Holds(y)' = Holds(y) /\ HeldBy(y)' = HeldBy(y)
    BY <2>1 DEF Holds, HeldBy
  <2> QED BY <1>2, <1>4, <2>2 DEF Counted, TypeOK
<1> QED BY <1>3, <1>4

-----------------------------------------------------------------------------
(* The steps, one by one.                                                  *)

(* A step of trip b touches nothing of another trip.                       *)
Alone(b) ==
  /\ \A c \in Bookings \ {b} :
       /\ step'[c] = step[c] /\ at'[c] = at[c] /\ version'[c] = version[c] /\ undo'[c] = undo[c]
       /\ events'[c] = events[c] /\ own'[c] = own[c]
  /\ crashes <= crashes' /\ resets' = resets /\ resetting' = resetting /\ worker' = worker
  /\ Grown

LEMMA StepIsAlone ==
  ASSUME TypeOK, NEW b \in Bookings, UndoOK(b),
         Request(b) \/ Advance(b) \/ GivesUp(b) \/ StepErrs(b)
  PROVE  Alone(b)
<1> USE ResourceFacts DEF Alone
<1>0. crashes \in Int /\ crashes + 1 > crashes
  BY CounterTypes
<1>g. inv' = inv => Grown
  BY DEF Grown
<1>b. \A x \in Resources, d \in {1, -1} : inv' = [inv EXCEPT ![x] = Bump(x, d)] => Grown
  <2> SUFFICES ASSUME NEW x \in Resources, NEW d \in {1, -1}, inv' = [inv EXCEPT ![x] = Bump(x, d)],
                      NEW y \in Resources
               PROVE  inv'[y] = inv[y] \/ inv'[y].version > inv[y].version
    BY DEF Grown
  <2>1. inv[x].version \in Nat
    <3>1. inv[x] \in [version : Nat, held : Nat]
      BY DEF TypeOK
    <3> QED BY <3>1
  <2>2. Bump(x, d).version = inv[x].version + 1
    BY BumpFacts
  <2>3. inv'[x] = Bump(x, d) /\ (y # x => inv'[y] = inv[y])
    BY DEF TypeOK
  <2>4. y = x => inv'[y].version > inv[y].version
    BY <2>1, <2>2, <2>3
  <2> QED BY <2>3, <2>4
<1>n. \A e : Note(b, e) => \A c \in Bookings \ {b} : events'[c] = events[c]
  BY DEF Note, TypeOK
<1>f. ASSUME NEW why, Fail(b, why) PROVE Alone(b)
  BY <1>0, <1>f, <1>g, <1>n DEF Fail, Goto, TypeOK
<1>1. CASE Request(b)
  BY <1>0, <1>1, <1>g DEF Request, TypeOK, counters
<1>2. CASE AppendOnly(b)
  BY <1>0, <1>2, <1>g, <1>n, SMTT(30) DEF AppendOnly, Goto, TypeOK, counters
<1>3. CASE Declined(b) \/ SoldOut(b) \/ GivesUp(b)
  BY <1>3, <1>f DEF Declined, SoldOut, GivesUp
<1>4. CASE ReadVersion(b) \/ FoldStream(b) \/ ReadForRelease(b) \/ UndoDone(b)
  BY <1>0, <1>4, <1>g, SMTT(30) DEF ReadVersion, FoldStream, ReadForRelease, UndoDone, Goto, TypeOK, counters
<1>5. CASE AppendHold(b)
  <2>1. Grown
    BY <1>5, <1>b DEF AppendHold
  <2> QED BY <1>0, <1>5, <2>1 DEF AppendHold, Goto, TypeOK, counters
<1>6. CASE HoldConflict(b)
  <2>1. CASE Fail(b, "conflicts")
    BY <1>f, <2>1
  <2>2. CASE ~Fail(b, "conflicts")
    BY <1>0, <1>6, <1>g, <2>2, SMTT(30) DEF HoldConflict, Goto, TypeOK, counters
  <2> QED BY <2>1, <2>2
<1>7. CASE NoteReserved(b)
  BY <1>0, <1>7, <1>g, <1>n DEF NoteReserved, Goto, TypeOK, counters
<1>8. CASE RecordStep(b)
  BY <1>0, <1>8, <1>g DEF RecordStep, Goto, TypeOK, counters
<1>9. CASE Release(b)
  <2>1. Head(undo[b]) \in Resources
    BY <1>9 DEF Release, UndoOK
  <2>2. Grown
    BY <1>9, <1>b, <2>1 DEF Release
  <2> QED BY <1>0, <1>9, <1>n, <2>2 DEF Release, Undone, Goto, TypeOK, counters
<1>10. CASE ReleaseConflict(b)
  BY <1>0, <1>10, <1>g, SMTT(30) DEF ReleaseConflict, Undone, Goto, TypeOK
<1>11. CASE Refund(b)
  BY <1>0, <1>11, <1>g, <1>n DEF Refund, Undone, Goto, TypeOK, counters
<1>12. CASE StepErrs(b)
  BY <1>0, <1>12, <1>g DEF StepErrs, Goto, TypeOK
<1> QED BY <1>1, <1>2, <1>3, <1>4, <1>5, <1>6, <1>7, <1>8, <1>9, <1>10, <1>11, <1>12 DEF Advance

(* A step of trip b keeps what the invariant says of b, and the counts.    *)
LEMMA StepKeepsTrip ==
  ASSUME TypeOK, TypeOK', NEW b \in Bookings, TripOK(b), Counted,
         Request(b) \/ Advance(b) \/ GivesUp(b) \/ StepErrs(b)
  PROVE  TripOK(b)' /\ Counted'
<1>r. Resources \subseteq Forward
  BY ResourceFacts DEF Forward, Following
<1>c. inv' = inv /\ own' = own /\ resets' = resets => Counted'
  BY CountKept
<1>f. ASSUME NEW why \in Reasons, Fail(b, why), step[b] \in Forward PROVE TripOK(b)' /\ Counted'
  <2>1. inv' = inv /\ own' = own /\ resets' = resets
    BY <1>f DEF Fail
  <2> QED BY <1>c, <1>f, <2>1, FailStep
<1>1. CASE Request(b)
  BY <1>1, <1>c, QuietRequest DEF Request, counters
<1>2. CASE AppendOnly(b)
  BY <1>2, <1>c, AppendOnlyStep DEF AppendOnly, counters
<1>3. CASE Declined(b) \/ SoldOut(b) \/ GivesUp(b)
  <2>1. step[b] \in Forward
    BY <1>3, <1>r DEF Declined, SoldOut, GivesUp, At, Forward, Following
  <2> QED BY <1>3, <1>f, <2>1 DEF Declined, SoldOut, GivesUp, Reasons
<1>4. CASE ReadVersion(b) \/ FoldStream(b) \/ RecordStep(b)
  BY <1>4, <1>c, QuietStep DEF ReadVersion, FoldStream, RecordStep, counters
<1>5. CASE ReadForRelease(b) \/ ReleaseConflict(b) \/ UndoDone(b) \/ StepErrs(b)
  BY <1>5, <1>c, QuietStep DEF ReadForRelease, ReleaseConflict, UndoDone, StepErrs, counters
<1>6. CASE HoldConflict(b)
  <2>1. CASE Fail(b, "conflicts")
    BY <1>6, <1>f, <1>r, <2>1 DEF HoldConflict, Reasons
  <2>2. CASE ~Fail(b, "conflicts")
    BY <1>6, <1>c, <2>2, QuietStep DEF HoldConflict, counters
  <2> QED BY <2>1, <2>2
<1>7. CASE AppendHold(b)
  BY <1>7, HoldStep, CountHeld
<1>8. CASE NoteReserved(b)
  BY <1>8, <1>c, ReservedStep DEF NoteReserved, counters
<1>9. CASE Release(b)
  BY <1>9, ReleaseStep, CountReleased
<1>10. CASE Refund(b)
  BY <1>10, <1>c, RefundStep DEF Refund, counters
<1> QED BY <1>1, <1>2, <1>3, <1>4, <1>5, <1>6, <1>7, <1>8, <1>9, <1>10 DEF Advance

(* The worker, the chaos server and a crash move no trip forward.          *)
Unmoving ==
  /\ step' = step /\ version' = version /\ undo' = undo /\ events' = events
  /\ Grown /\ \A b \in Bookings : Spared(b)

LEMMA UnmovingKeeps ==
  ASSUME TypeOK, TypeOK', \A b \in Bookings : TripOK(b), Unmoving,
         at' = at \/ (at' = [b \in Bookings |-> "info"] /\ crashes' = crashes + 1 /\ own' = own
                      /\ resets' = resets)
  PROVE  \A b \in Bookings : TripOK(b)'
<1> SUFFICES ASSUME NEW b \in Bookings PROVE TripOK(b)'
  OBVIOUS
<1>1. CASE at' = at
  BY <1>1, TripKept DEF Unmoving
<1>2. CASE at' = [c \in Bookings |-> "info"] /\ crashes' = crashes + 1 /\ own' = own /\ resets' = resets
  <2>1. ReadOK(b)'
    BY <1>2 DEF ReadOK
  <2>2. CASE step[b] \in Forward
    BY <1>2, <2>1, <2>2, QuietHold DEF Unmoving
  <2>3. CASE step[b] \notin Forward
    <3>1. UndoOK(b)' /\ ~At(b, "charge", "record")' /\ ~At(b, "confirm", "record")'
      BY <1>2 DEF Unmoving, TripOK, UndoOK, At
    <3>2. Quiet(b)
      BY <1>2 DEF Unmoving, Quiet, Unwinding, ToUndo, Spared
    <3>3. NotesOK(b)'
      BY <3>1, <3>2, QuietNotes DEF TripOK
    <3>4. OutcomeOK(b)'
      BY <3>1, SameNotes DEF Unmoving, OutcomeOK, TripOK, Unwinding
    <3>5. \A x \in Resources : ToHold(b, x)' => ToHold(b, x)
      BY <2>3, ResourceFacts DEF Unmoving, ToHold, Forward, Following
    <3>6. HoldsOK(b)'
      BY <1>2, <3>2, <3>5, QuietHolds DEF TripOK
    <3> QED BY <2>1, <3>1, <3>3, <3>4, <3>6 DEF TripOK
  <2> QED BY <2>2, <2>3
<1> QED BY <1>1, <1>2

LEMMA Initially == Init => IInv
<1> SUFFICES ASSUME Init PROVE IInv
  OBVIOUS
<1> USE ResourceFacts DEF Init
<1>1. TypeOK
  <2>1. 0 \in 0 .. HoldAttempts - 1
    BY CapacityAssumption
  <2>2. own \in [Bookings -> [Resources -> Nat]] /\ inv \in [Resources -> [version : Nat, held : Nat]]
    OBVIOUS
  <2>3. events \in [Bookings -> Seq(Notes)] /\ undo \in [Bookings -> Seq(Resources \cup {"charge"})]
    OBVIOUS
  <2> QED BY <2>1, <2>2, <2>3 DEF TypeOK, Steps, Reasons
<1>2. SeedOK /\ ResetOK
  BY DEF SeedOK, ResetOK
<1>3. Counted
  <2>1. \A x \in Resources : Holds(x) = {}
    BY DEF Holds
  <2>2. \A x \in Resources : IsFiniteSet(Holds(x)) /\ HeldBy(x) = 0
    BY <2>1, FS_EmptySet DEF HeldBy
  <2>3. \A x \in Resources : inv[x].held = 0
    OBVIOUS
  <2>4. \A x \in Resources : inv[x].held <= Capacity[x]
    <3> SUFFICES ASSUME NEW x \in Resources PROVE 0 <= Capacity[x]
      BY <2>3
    <3>1. Capacity[x] \in Nat
      OBVIOUS
    <3> QED BY <3>1
  <2> QED BY <2>2, <2>3, <2>4 DEF Counted
<1>4. ASSUME NEW b \in Bookings PROVE TripOK(b)
  <2>1. /\ step[b] = "idle" /\ at[b] = "info" /\ undo[b] = <<>> /\ events[b] = <<>>
        /\ \A x \in Resources : own[b][x] = 0
    OBVIOUS
  <2>2. \A names : Places(b, names) = {}
    BY <2>1 DEF Places
  <2>3. /\ \A e : ~Noted(b, e)
        /\ Outcomes(b) = {}
    BY <2>2 DEF Noted, Outcomes
  <2>4. \A s : ~ToUndo(b, s)
    BY <2>1 DEF ToUndo
  <2>5. ReadOK(b) /\ UndoOK(b)
    BY <2>1 DEF ReadOK, UndoOK, At, Registered, Unwound
  <2>6. NotesOK(b) /\ OutcomeOK(b)
    BY <2>1, <2>2, <2>3, <2>4 DEF NotesOK, OutcomeOK, At, Unwinding
  <2>7. HoldsOK(b)
    BY <2>1, <2>3, <2>4 DEF HoldsOK, Holding
  <2> QED BY <2>5, <2>6, <2>7 DEF TripOK
<1> QED BY <1>1, <1>2, <1>3, <1>4 DEF IInv

LEMMA TripStep ==
  ASSUME IInv, TypeOK', NEW b \in Bookings, worker \notin Resources \/ Request(b),
         Request(b) \/ Advance(b) \/ GivesUp(b) \/ StepErrs(b)
  PROVE  IInv'
<1>1. Alone(b)
  BY StepIsAlone DEF IInv, TripOK
<1>2. TripOK(b)' /\ Counted'
  BY StepKeepsTrip DEF IInv
<1>3. ASSUME NEW c \in Bookings, c # b PROVE TripOK(c)'
  <2>1. Grown /\ Spared(c)
    BY <1>1, <1>3 DEF Alone, Spared
  <2> QED BY <1>1, <1>3, <2>1, TripKept DEF Alone, IInv
<1>4. SeedOK'
  BY <1>1 DEF Alone, SeedOK, IInv, Request
<1>5. ResetOK'
  BY <1>1 DEF Alone, ResetOK, IInv
<1> QED BY <1>2, <1>3, <1>4, <1>5 DEF IInv

LEMMA Seeding ==
  ASSUME NEW S, FirstUnseeded(S) \in Resources
  PROVE  FirstUnseeded(S) \notin S
BY ResourceFacts DEF FirstUnseeded

LEMMA InvariantKept == IInv /\ [Next]_vars => IInv'
<1> SUFFICES ASSUME IInv, [Next]_vars PROVE IInv'
  OBVIOUS
<1>t. TypeOK /\ SeedOK /\ ResetOK /\ Counted /\ \A b \in Bookings : TripOK(b)
  BY DEF IInv
<1>p. TypeOK'
  BY <1>t, TypesKept DEF TripOK
<1>c. crashes \in Nat /\ crashes + 1 > crashes /\ resets \in Nat /\ resets + 1 > 0
  <2>1. crashes \in Nat /\ resets \in Nat
    BY <1>t, CounterTypes
  <2> QED BY <2>1
<1>v. \A x \in Resources : inv[x].version \in Nat
  <2>1. inv \in [Resources -> [version : Nat, held : Nat]]
    BY <1>t DEF TypeOK
  <2> QED BY <2>1
<1>u. ASSUME Unmoving, SeedOK', ResetOK', Counted',
             at' = at \/ (at' = [b \in Bookings |-> "info"] /\ crashes' = crashes + 1 /\ own' = own
                          /\ resets' = resets)
      PROVE  IInv'
  BY <1>p, <1>t, <1>u, UnmovingKeeps DEF IInv
<1>1. CASE SeedInventory
  <2>1. /\ worker \in Resources /\ inv' = [inv EXCEPT ![worker].version = 1]
        /\ worker' = FirstUnseeded(Seeded \cup {worker}) /\ own' = own /\ runVars' = runVars
        /\ events' = events /\ crashes' = crashes /\ resets' = resets /\ resetting' = resetting
    BY <1>1 DEF SeedInventory, counters
  <2>2. inv[worker].version = 0
    BY <1>t, <2>1 DEF SeedOK
  <2>3. /\ \A x \in Resources : x # worker => inv'[x] = inv[x]
        /\ inv'[worker].version = 1 /\ inv'[worker].held = inv[worker].held
    BY <1>t, <2>1 DEF TypeOK
  <2>4. Grown
    BY <2>2, <2>3 DEF Grown
  <2>5. Unmoving
    BY <1>c, <2>1, <2>4 DEF Unmoving, Spared, runVars
  <2>6. SeedOK'
    <3> SUFFICES ASSUME worker' \in Resources PROVE inv'[worker'].version = 0
      BY DEF SeedOK
    <3>1. worker' \notin Seeded \cup {worker}
      BY <2>1, Seeding
    <3>2. inv[worker'].version = 0
      BY <1>v, <3>1 DEF Seeded
    <3> QED BY <2>3, <3>1, <3>2
  <2>7. ResetOK' /\ Counted'
    BY <1>t, <2>1, <2>3, CountKept DEF ResetOK
  <2> QED BY <1>u, <2>1, <2>5, <2>6, <2>7 DEF runVars
<1>2. CASE StartWorker
  <2>1. inv' = inv /\ own' = own /\ events' = events /\ runVars' = runVars /\ counters' = counters
        /\ worker' = "started"
    BY <1>2 DEF StartWorker
  <2>2. Unmoving /\ SeedOK' /\ ResetOK' /\ Counted'
    BY <1>c, <1>t, <2>1, CountKept, ResourceFacts
       DEF Unmoving, Spared, Grown, runVars, counters, SeedOK, ResetOK
  <2> QED BY <1>u, <2>1, <2>2 DEF runVars
<1>3. ASSUME NEW b \in Bookings, Request(b) PROVE IInv'
  BY <1>3, <1>p, TripStep
<1>4. ASSUME NEW b \in Bookings, worker = "started", Advance(b) \/ GivesUp(b) \/ StepErrs(b) PROVE IInv'
  <2>1. worker \notin Resources
    BY <1>4, ResourceFacts
  <2> QED BY <1>4, <1>p, <2>1, TripStep
<1>5. ASSUME NEW m, PaymentMode(m) PROVE IInv'
  <2>1. Unmoving /\ SeedOK' /\ ResetOK' /\ Counted'
    BY <1>5, <1>c, <1>t, CountKept DEF PaymentMode, Unmoving, Spared, Grown, runVars, counters, SeedOK, ResetOK
  <2> QED BY <1>5, <1>u, <2>1 DEF PaymentMode, runVars
<1>6. CASE BeginReset
  <2>1. inv' = inv /\ own' = own /\ events' = events /\ runVars' = runVars /\ resets' = resets + 1
        /\ worker' = worker /\ crashes' = crashes
    BY <1>6 DEF BeginReset
  <2>2. Unmoving /\ SeedOK' /\ ResetOK' /\ Counted'
    BY <1>c, <1>t, <2>1, CountKept DEF Unmoving, Spared, Grown, runVars, SeedOK, ResetOK
  <2> QED BY <1>u, <2>1, <2>2 DEF runVars
<1>7. CASE ReadForReset \/ SkipReset \/ ResetConflict
  <2>1. inv' = inv /\ own' = own /\ events' = events /\ runVars' = runVars /\ resets' = resets
        /\ worker' = worker /\ crashes' = crashes /\ resetting \in Resources
    BY <1>7 DEF ReadForReset, SkipReset, ResetConflict
  <2>2. Unmoving /\ SeedOK' /\ ResetOK' /\ Counted'
    BY <1>c, <1>t, <2>1, CountKept, ResourceFacts DEF Unmoving, Spared, Grown, runVars, SeedOK, ResetOK
  <2> QED BY <1>u, <2>1, <2>2 DEF runVars
<1>8. CASE AppendReset
  <2>1. PICK x \in Resources :
          /\ x = resetting /\ inv' = [inv EXCEPT ![x] = AfterReset(x)] /\ inv[x].version > 0
          /\ own' = [b \in Bookings |-> [own[b] EXCEPT ![x] = 0]]
    BY <1>8 DEF AppendReset
  <2>2. /\ resets' = resets /\ resets > 0 /\ events' = events /\ runVars' = runVars
        /\ worker' = worker /\ crashes' = crashes
    BY <1>8, <1>t, <2>1, ResourceFacts DEF AppendReset, ResetOK
  <2>3. \A y \in Resources : IF y = x THEN inv'[y].version = inv[y].version + 1 ELSE inv'[y] = inv[y]
    BY <1>t, <2>1 DEF AfterReset, TypeOK
  <2>4. Grown
    BY <1>v, <2>3 DEF Grown
  <2>5. \A b \in Bookings : Spared(b)
    BY <1>c, <1>t, <2>1, <2>2 DEF Spared, TypeOK
  <2>6. SeedOK'
    BY <1>t, <2>1, <2>2, <2>3 DEF SeedOK
  <2>7. ResetOK' /\ Counted'
    BY <1>8, <1>p, <1>t, <2>2, CountReset DEF ResetOK
  <2> QED BY <1>u, <2>2, <2>4, <2>5, <2>6, <2>7 DEF Unmoving, runVars
<1>9. CASE Crash
  <2>1. /\ crashes' = crashes + 1 /\ worker' = FirstUnseeded(Seeded) /\ resetting' = "no"
        /\ at' = [b \in Bookings |-> "info"] /\ inv' = inv /\ own' = own /\ events' = events
        /\ step' = step /\ version' = version /\ undo' = undo /\ resets' = resets
    BY <1>9 DEF Crash
  <2>2. SeedOK'
    <3> SUFFICES ASSUME worker' \in Resources PROVE inv'[worker'].version = 0
      BY DEF SeedOK
    <3>1. worker' \notin Seeded
      BY <2>1, Seeding
    <3> QED BY <1>v, <2>1, <3>1 DEF Seeded
  <2>3. Unmoving /\ ResetOK' /\ Counted'
    BY <1>c, <1>t, <2>1, CountKept DEF Unmoving, Spared, Grown, ResetOK
  <2> QED BY <1>u, <2>1, <2>2, <2>3
<1>10. CASE UNCHANGED vars
  <2>1. Unmoving /\ SeedOK' /\ ResetOK' /\ Counted' /\ at' = at
    BY <1>10, <1>c, <1>t, CountKept DEF vars, Unmoving, Spared, Grown, runVars, counters, SeedOK, ResetOK
  <2> QED BY <1>u, <2>1
<1> QED BY <1>1, <1>2, <1>3, <1>4, <1>5, <1>6, <1>7, <1>8, <1>9, <1>10 DEF Next

-----------------------------------------------------------------------------
(* Theorems                                                                *)

(* The invariant every reachable state satisfies: seeding, counts, and     *)
(* what each trip has read, registered, noted and taken.                   *)
THEOREM Invariance == Spec => []IInv
BY Initially, InvariantKept, PTL DEF Spec

(* Every variable keeps its type.                                          *)
THEOREM TypeCorrect == Spec => []TypeOK
<1>1. IInv => TypeOK
  BY DEF IInv
<1> QED BY <1>1, Invariance, PTL

(* Two trips racing for the last seat cannot both have it, for any number  *)
(* of trips, seats and rooms and however often the worker dies: until a    *)
(* reset, the holds that are out are exactly those the fold counts, and no *)
(* more than there are seats.                                              *)
THEOREM SeatsAreSoldOnce == Spec => []NoDoubleSell
<1>1. IInv => NoDoubleSell
  BY DEF IInv, Counted, NoDoubleSell
<1> QED BY <1>1, Invariance, PTL

(* The fold never counts a seat nobody holds, whatever a reset interrupts. *)
THEOREM ResetsStrandNothing == Spec => []NothingStranded
<1>1. IInv => NothingStranded
  BY DEF IInv, Counted, NothingStranded
<1> QED BY <1>1, Invariance, PTL

(* A trip is shown the way it went: what was paid, what is still taken and *)
(* what was given back.                                                    *)
THEOREM TravellersSeeTheTruth == Spec => []ShownIsTrue
<1>1. IInv => ShownIsTrue
  <2> SUFFICES ASSUME IInv, NEW b \in Bookings
               PROVE
    /\ Shown(b) = "confirmed" =>
         /\ Journey(b, "charge") = "done"
         /\ resets = 0 => \A x \in Resources : own[b][x] >= 1
    /\ step[b] \in {"confirmed", "failed"} => Shown(b) = step[b]
    /\ step[b] = "failed" =>
         \A x \in Resources :
           /\ Journey(b, x) = "undone" => own[b][x] <= crashes
           /\ Journey(b, x) = "done" /\ resets = 0 => own[b][x] >= 1
    BY DEF ShownIsTrue
  <2> USE ResourceFacts
  <2>1. UndoOK(b) /\ NotesOK(b) /\ OutcomeOK(b) /\ HoldsOK(b)
    BY DEF IInv, TripOK
  <2>n. /\ \A x \in Resources : Does[x] = x
        /\ DOMAIN Undoes = Resources \cup {"charge"} /\ Undoes["charge"] = "refunded" /\ Does["charge"] = "paid"
    BY NoteNames DEF Does
  <2>2. \A s \in Resources \cup {"charge"} :
          /\ Journey(b, s) = "done" => Noted(b, Does[s])
          /\ Journey(b, s) = "undone" => Noted(b, Undoes[s])
          /\ Noted(b, Does[s]) /\ ~Noted(b, Undoes[s]) => Journey(b, s) = "done"
    BY DEF Journey, Noted
  <2>3. \A x \in Resources : Journey(b, x) = "done" => ~Noted(b, Undoes[x])
    BY <2>1, <2>n DEF Journey, Noted, NotesOK
  <2>4. ASSUME Shown(b) = "confirmed"
        PROVE  Journey(b, "charge") = "done" /\ (resets = 0 => \A x \in Resources : own[b][x] >= 1)
    <3>1. Outcomes(b) # {} /\ ~Unwinding(b)
      BY <2>1, <2>4 DEF Shown, OutcomeOK
    <3>2. step[b] \in {"confirm", "confirmed"}
      BY <2>1, <3>1 DEF OutcomeOK, Unwinding
    <3>3. undo[b] = <<"charge", "hotel", "flight">>
      BY <2>1, <3>2 DEF UndoOK, Registered
    <3>4. ToUndo(b, "charge") /\ ToUndo(b, "hotel") /\ ToUndo(b, "flight")
      <4>1. undo[b][1] = "charge" /\ undo[b][2] = "hotel" /\ undo[b][3] = "flight" /\ DOMAIN undo[b] = 1 .. 3
        BY <3>3
      <4> QED BY <4>1 DEF ToUndo
    <3>5. Noted(b, "paid") /\ ~Noted(b, "refunded")
      BY <2>1, <2>n, <3>1, <3>4 DEF NotesOK
    <3> QED BY <2>1, <2>2, <2>n, <3>4, <3>5 DEF HoldsOK, Holding
  <2>5. step[b] \in {"confirmed", "failed"} => Shown(b) = step[b]
    <3>1. CASE step[b] = "failed"
      BY <2>1, <3>1 DEF OutcomeOK, Unwinding
    <3>2. CASE step[b] = "confirmed"
      <4>1. Noted(b, "confirmed") /\ ~Noted(b, "failed")
        BY <2>1, <3>2 DEF OutcomeOK
      <4>2. Outcomes(b) # {}
        BY <4>1, NoOutcome
      <4>3. Max(Outcomes(b)) \in Outcomes(b)
        BY <2>1, <4>2 DEF OutcomeOK
      <4>4. events[b][Max(Outcomes(b))] = "confirmed"
        BY <4>1, <4>3 DEF Outcomes, Noted, Places
      <4> QED BY <3>2, <4>2, <4>4 DEF Shown
    <3> QED BY <3>1, <3>2
  <2>6. ASSUME step[b] = "failed", NEW x \in Resources
        PROVE  /\ Journey(b, x) = "undone" => own[b][x] <= crashes
               /\ Journey(b, x) = "done" /\ resets = 0 => own[b][x] >= 1
    BY <2>1, <2>2, <2>3 DEF HoldsOK, Holding
  <2> QED BY <2>4, <2>5, <2>6
<1> QED BY <1>1, Invariance, PTL
=============================================================================
