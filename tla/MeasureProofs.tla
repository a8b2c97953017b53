--------------------------- MODULE MeasureProofs ----------------------------
(***************************************************************************)
(* Lemmas about timestamps, saturating counters and sums that the theorems *)
(* about the pump, the flow table and the session share.                   *)
(***************************************************************************)
EXTENDS PacketTime, Counters, FiniteSetTheorems, TLAPS

-----------------------------------------------------------------------------
(* Timestamps                                                              *)

(* The derived order of timestamps is a total order, whatever the          *)
(* microsecond parts are.                                                  *)
LEMMA TimeOrder ==
  /\ \A t, u \in PacketTimestamp : TimeLeq(t, u) \/ TimeLeq(u, t)
  /\ \A t, u, v \in PacketTimestamp : TimeLeq(t, u) /\ TimeLeq(u, v) => TimeLeq(t, v)
  /\ \A t, u \in PacketTimestamp : TimeLeq(t, u) /\ TimeLeq(u, t) => t = u
<1>1. \A t \in PacketTimestamp : t.seconds \in Int /\ t.microseconds \in Int
  BY DEF PacketTimestamp
<1>2. \A t, u \in PacketTimestamp :
        t.seconds = u.seconds /\ t.microseconds = u.microseconds => t = u
  BY DEF PacketTimestamp
<1>. QED
  BY <1>1, <1>2 DEF TimeLeq

(* On real points in time the derived order is the order of microseconds:  *)
(* the subtraction in duration() cannot go negative.                       *)
LEMMA OrderAgreesWithMicros ==
  ASSUME NEW t \in PacketTimestamp, NEW u \in PacketTimestamp,
         IsPointInTime(t), IsPointInTime(u), TimeLeq(t, u)
  PROVE  Micros(u) - Micros(t) >= 0
<1>1. /\ t.seconds \in Int /\ t.microseconds \in Int
      /\ u.seconds \in Int /\ u.microseconds \in Int
  BY DEF PacketTimestamp
<1>2. CASE t.seconds = u.seconds
  BY <1>1, <1>2, MicrosAssumption DEF TimeLeq, Micros
<1>3. CASE t.seconds < u.seconds
  <2>1. t.seconds * MicrosPerSecond + MicrosPerSecond <= u.seconds * MicrosPerSecond
    BY <1>1, <1>3, MicrosAssumption, Z3
  <2>. QED
    BY <2>1, <1>1, MicrosAssumption DEF Micros, IsPointInTime
<1>. QED
  BY <1>2, <1>3 DEF TimeLeq

(* A range in order has a duration unless one of its ends is no point in   *)
(* time or the two are too far apart for a u64.                            *)
LEMMA BetweenInOrder ==
  ASSUME NEW t \in PacketTimestamp, NEW u \in PacketTimestamp, TimeLeq(t, u)
  PROVE  Between(t, u) = {} <=>
           ~ IsPointInTime(t) \/ ~ IsPointInTime(u) \/ TooFarApart(t, u)
<1>1. CASE IsPointInTime(t) /\ IsPointInTime(u)
  <2>1. Micros(u) - Micros(t) >= 0
    BY <1>1, OrderAgreesWithMicros
  <2>2. micros_since_epoch(u) = {Micros(u)} /\ micros_since_epoch(t) = {Micros(t)}
    BY <1>1 DEF micros_since_epoch
  <2>3. Between(t, u) =
          {d \in {Micros(u) - Micros(t)} : 0 <= d /\ d <= DurationMax}
    BY <2>2 DEF Between
  <2>4. Between(t, u) = {} <=> Micros(u) - Micros(t) > DurationMax
    <3>1. Micros(u) - Micros(t) \in Int /\ DurationMax \in Int
      BY MicrosAssumption DEF Micros, PacketTimestamp
    <3>. QED
      BY <2>1, <2>3, <3>1
  <2>. QED
    BY <1>1, <2>4 DEF TooFarApart
<1>2. CASE ~ IsPointInTime(t) \/ ~ IsPointInTime(u)
  BY <1>2 DEF Between, micros_since_epoch
<1>. QED
  BY <1>1, <1>2

-----------------------------------------------------------------------------
(* Counters                                                                *)

LEMMA SaturatingAdd ==
  ASSUME NEW n \in Counter, NEW m \in Nat
  PROVE  saturating_add(n, m) \in Counter
BY CounterMaxAssumption DEF saturating_add, Saturate, Counter

(* Counting one more with saturation keeps the counter the saturated       *)
(* number of things counted.                                               *)
LEMMA SaturateStep ==
  ASSUME NEW n \in Nat
  PROVE  /\ Saturate(n) \in Counter
         /\ saturating_add(Saturate(n), 1) = Saturate(n + 1)
BY CounterMaxAssumption DEF saturating_add, Saturate, Counter

LEMMA SaturateAdd ==
  ASSUME NEW n \in Nat, NEW m \in Nat
  PROVE  /\ Saturate(n) \in Counter
         /\ saturating_add(Saturate(n), m) = Saturate(m + n)
BY CounterMaxAssumption DEF saturating_add, Saturate, Counter

LEMMA AddPacketType ==
  ASSUME NEW totals \in Totals, NEW caplen \in Nat, NEW wirelen \in Nat
  PROVE  AddPacket(totals, caplen, wirelen) \in Totals
BY SaturatingAdd DEF AddPacket, Totals

-----------------------------------------------------------------------------
(* Induction and sums over finite sets.  Properties are sets here: the     *)
(* library's induction theorems take an operator, which no prover can      *)
(* instantiate.                                                            *)

(* What holds of a set as soon as it holds of all its proper subsets holds *)
(* of every finite set.                                                    *)
LEMMA SubsetInduction ==
  ASSUME NEW S, IsFiniteSet(S), NEW Good,
         \A T \in SUBSET S : (\A U \in SUBSET T : U # T => U \in Good) => T \in Good
  PROVE  S \in Good
<1>. DEFINE Bad == (SUBSET S) \ Good
            R == StrictSubsetOrdering(S)
<1>. SUFFICES ASSUME Bad # {} PROVE FALSE
  OBVIOUS
<1>1. IsWellFoundedOn(R, FiniteSubsetsOf(S))
  BY FS_StrictSubsetOrderingWellFounded
<1>2. Bad \subseteq FiniteSubsetsOf(S)
  BY FS_Subset DEF FiniteSubsetsOf
<1>3. PICK T \in Bad : \A U \in Bad : <<U, T>> \notin R
  <2>. HIDE DEF Bad, R
  <2>. QED
    BY <1>1, <1>2, WFMin
<1>4. ASSUME NEW U \in SUBSET T, U # T
      PROVE  U \in Good
  <2>1. <<U, T>> \in R
    BY <1>4 DEF StrictSubsetOrdering
  <2>. QED
    BY <1>3, <2>1
<1>. QED
  BY <1>3, <1>4

(* Whatever holds of the empty set and still holds when an element joins,  *)
(* holds of a finite set.                                                  *)
LEMMA FiniteInduction ==
  ASSUME NEW S, IsFiniteSet(S), NEW Good, {} \in Good,
         \A T \in SUBSET S, x \in S : T \in Good /\ x \notin T => T \cup {x} \in Good
  PROVE  S \in Good
<1>1. ASSUME NEW T \in SUBSET S, \A U \in SUBSET T : U # T => U \in Good
      PROVE  T \in Good
  <2>1. CASE T = {}
    BY <2>1
  <2>2. CASE T # {}
    <3>1. PICK x \in T : TRUE
      BY <2>2
    <3>2. T \ {x} \in Good /\ (T \ {x}) \cup {x} = T
      BY <1>1, <3>1
    <3>. QED
      BY <3>1, <3>2
  <2>. QED
    BY <2>1, <2>2
<1>. QED
  BY <1>1, SubsetInduction

(* The sums of the subsets of S, as SumFunctionOnSet defines them.          *)
SumTable(h, f, S) ==
  h = [s \in SUBSET S |-> IF s = {} THEN 0
                          ELSE f[CHOOSE x \in s : TRUE] + h[s \ {CHOOSE x \in s : TRUE}]]

(* The recursion in SumFunctionOnSet has a solution on a finite set.       *)
LEMMA SumsExist ==
  ASSUME NEW f, NEW S, IsFiniteSet(S)
  PROVE  \E h : SumTable(h, f, S)
<1>. DEFINE Any(s) == CHOOSE x \in s : TRUE
            Level(T) == {s \in SUBSET S : Cardinality(s) <= Cardinality(T)}
            Solves(h, L) == h = [s \in L |-> IF s = {} THEN 0
                                             ELSE f[Any(s)] + h[s \ {Any(s)}]]
            Good == {T \in SUBSET S : \E h : Solves(h, Level(T))}
<1>1. {} \in Good
  <2>1. Level({}) = {{}}
    BY FS_EmptySet, FS_Subset, FS_CardinalityType
  <2>2. Solves([s \in {{}} |-> 0], {{}})
    OBVIOUS
  <2>. QED
    BY <2>1, <2>2
<1>2. ASSUME NEW T \in SUBSET S, NEW x \in S, T \in Good, x \notin T
      PROVE  T \cup {x} \in Good
  <2>1. PICK h : Solves(h, Level(T))
    BY <1>2
  <2>. DEFINE g == [s \in Level(T \cup {x}) |-> IF s = {} THEN 0
                                                ELSE f[Any(s)] + h[s \ {Any(s)}]]
  <2>2. Cardinality(T \cup {x}) = Cardinality(T) + 1 /\ Cardinality(T) \in Nat
    BY <1>2, FS_AddElement, FS_Subset, FS_CardinalityType
  <2>3. ASSUME NEW s \in Level(T \cup {x}), s # {}
        PROVE  s \ {Any(s)} \in Level(T)
    <3>1. Any(s) \in s
      BY <2>3
    <3>2. IsFiniteSet(s) /\ Cardinality(s) \in Nat
      BY FS_Subset, FS_CardinalityType
    <3>3. Cardinality(s \ {Any(s)}) = Cardinality(s) - 1
      BY <3>1, <3>2, FS_RemoveElement
    <3>. QED
      BY <2>2, <3>2, <3>3
  <2>4. \A s \in Level(T) : s \in Level(T \cup {x}) /\ g[s] = h[s]
    <3>1. \A s \in Level(T) : s \in Level(T \cup {x})
      BY <2>2, FS_Subset, FS_CardinalityType
    <3>2. \A s \in Level(T) : h[s] = IF s = {} THEN 0 ELSE f[Any(s)] + h[s \ {Any(s)}]
      <4>. HIDE DEF Any, Level
      <4>. QED
        BY <2>1
    <3>. QED
      BY <3>1, <3>2
  <2>5. Solves(g, Level(T \cup {x}))
    <3>1. \A s \in Level(T \cup {x}) : s # {} => g[s \ {Any(s)}] = h[s \ {Any(s)}]
      BY <2>3, <2>4
    <3>. HIDE DEF Any, Level
    <3>. QED
      BY <3>1
  <2>. QED
    BY <2>5
<1>3. S \in Good
  <2>. HIDE DEF Good
  <2>. QED
    BY <1>1, <1>2, FiniteInduction
<1>4. Level(S) = SUBSET S
  BY FS_Subset
<1>. QED
  BY <1>3, <1>4 DEF SumTable

(* The sum over a set is that of one member and of the others ...          *)
LEMMA SumUnfolds ==
  ASSUME NEW f, NEW S, IsFiniteSet(S)
  PROVE  SumFunctionOnSet(f, S) =
           IF S = {} THEN 0
           ELSE f[CHOOSE x \in S : TRUE] + SumFunctionOnSet(f, S \ {CHOOSE x \in S : TRUE})
<1>. DEFINE Any(s) == CHOOSE x \in s : TRUE
            Iter(T) == CHOOSE h : SumTable(h, f, T)
<1>1. \A T : SumFunctionOnSet(f, T) = Iter(T)[T]
  BY DEF SumFunctionOnSet, FoldFunctionOnSet, MapThenFoldSet, SumTable
<1>2. ASSUME NEW T, IsFiniteSet(T)
      PROVE  SumTable(Iter(T), f, T)
  BY <1>2, SumsExist
<1>3. ASSUME NEW T, IsFiniteSet(T), NEW s \in SUBSET T
      PROVE  Iter(T)[s] = IF s = {} THEN 0 ELSE f[Any(s)] + Iter(T)[s \ {Any(s)}]
  <2>1. SumTable(Iter(T), f, T)
    BY <1>2, <1>3
  <2>. HIDE DEF Iter
  <2>. QED
    BY <2>1 DEF SumTable
<1>4. ASSUME NEW T \in SUBSET S
      PROVE  Iter(S)[T] = Iter(T)[T]
  <2>. DEFINE Same == {s \in SUBSET T : Iter(S)[s] = Iter(T)[s]}
  <2>1. IsFiniteSet(T)
    BY FS_Subset
  <2>2. ASSUME NEW s \in SUBSET T, \A u \in SUBSET s : u # s => u \in Same
        PROVE  s \in Same
    <3>1. CASE s = {}
      <4>. HIDE DEF Any, Iter
      <4>. QED
        BY <1>3, <2>1, <3>1
    <3>2. CASE s # {}
      <4>1. Any(s) \in s
        BY <3>2
      <4>2. s \ {Any(s)} \in Same
        <5>. HIDE DEF Any, Same
        <5>. QED
          BY <2>2, <4>1
      <4>3. Iter(S)[s] = f[Any(s)] + Iter(S)[s \ {Any(s)}]
        <5>. HIDE DEF Any, Iter
        <5>. QED
          BY <1>3, <3>2
      <4>4. Iter(T)[s] = f[Any(s)] + Iter(T)[s \ {Any(s)}]
        <5>. HIDE DEF Any, Iter
        <5>. QED
          BY <1>3, <2>1, <3>2
      <4>. HIDE DEF Any, Iter
      <4>. QED
        BY <4>2, <4>3, <4>4
    <3>. QED
      BY <3>1, <3>2
  <2>3. T \in Same
    <3>. HIDE DEF Same
    <3>. QED
      BY <2>1, <2>2, SubsetInduction
  <2>. QED
    BY <2>3
<1>5. S # {} => Any(S) \in S
  OBVIOUS
<1>. HIDE DEF Any, Iter
<1>6. SumFunctionOnSet(f, S) = IF S = {} THEN 0
        ELSE f[Any(S)] + SumFunctionOnSet(f, S \ {Any(S)})
  BY <1>1, <1>3, <1>4
<1>. QED
  BY <1>6 DEF Any

LEMMA SumEmpty == \A f : SumFunctionOnSet(f, {}) = 0
BY FS_EmptySet, SumUnfolds

(* ... whichever member it is; and a sum of numbers is a number.           *)
LEMMA SumRemove ==
  ASSUME NEW S, IsFiniteSet(S), NEW f, \A x \in S : f[x] \in Nat
  PROVE  /\ SumFunctionOnSet(f, S) \in Nat
         /\ \A x \in S : SumFunctionOnSet(f, S) = f[x] + SumFunctionOnSet(f, S \ {x})
<1>. DEFINE Sum(T) == SumFunctionOnSet(f, T)
            Good == {T \in SUBSET S : /\ Sum(T) \in Nat
                                      /\ \A x \in T : Sum(T) = f[x] + Sum(T \ {x})}
<1>1. ASSUME NEW T \in SUBSET S, \A U \in SUBSET T : U # T => U \in Good
      PROVE  T \in Good
  <2>1. IsFiniteSet(T)
    BY FS_Subset
  <2>2. CASE T = {}
    BY <2>2, SumEmpty
  <2>3. CASE T # {}
    <3>. DEFINE c == CHOOSE x \in T : TRUE
    <3>1. c \in T /\ Sum(T) = f[c] + Sum(T \ {c})
      BY <2>1, <2>3, SumUnfolds
    <3>. HIDE DEF c
    <3>2. T \ {c} \in Good
      <4>. HIDE DEF Good
      <4>. QED
        BY <1>1, <3>1
    <3>3. Sum(T) \in Nat
      BY <3>1, <3>2
    <3>4. ASSUME NEW x \in T, x # c
          PROVE  Sum(T) = f[x] + Sum(T \ {x})
      <4>1. T \ {x} \in Good /\ (T \ {x}) \ {c} \in Good
        <5>. HIDE DEF Good
        <5>. QED
          BY <1>1, <3>1, <3>4
      <4>2. Sum(T \ {c}) = f[x] + Sum((T \ {c}) \ {x})
        BY <3>2, <3>4
      <4>3. Sum(T \ {x}) = f[c] + Sum((T \ {x}) \ {c})
        BY <3>1, <3>4, <4>1
      <4>4. (T \ {c}) \ {x} = (T \ {x}) \ {c}
        OBVIOUS
      <4>5. Sum((T \ {x}) \ {c}) \in Nat
        BY <4>1
      <4>6. f[x] \in Nat /\ f[c] \in Nat
        BY <3>1
      <4>. HIDE DEF Sum
      <4>. QED
        BY <3>1, <4>2, <4>3, <4>4, <4>5, <4>6
    <3>. QED
      BY <3>1, <3>3, <3>4
  <2>. QED
    BY <2>2, <2>3
<1>2. S \in Good
  <2>. HIDE DEF Good
  <2>. QED
    BY <1>1, SubsetInduction
<1>. QED
  BY <1>2

LEMMA SumAdd ==
  ASSUME NEW S, IsFiniteSet(S), NEW x, x \notin S, NEW f,
         \A y \in S \cup {x} : f[y] \in Nat
  PROVE  SumFunctionOnSet(f, S \cup {x}) = f[x] + SumFunctionOnSet(f, S)
<1>1. IsFiniteSet(S \cup {x}) /\ (S \cup {x}) \ {x} = S
  BY FS_AddElement
<1>. QED
  BY <1>1, SumRemove

(* Only what is added counts.                                              *)
LEMMA SumSame ==
  ASSUME NEW S, IsFiniteSet(S), NEW f, NEW g,
         \A x \in S : f[x] \in Nat /\ g[x] = f[x]
  PROVE  SumFunctionOnSet(g, S) = SumFunctionOnSet(f, S)
<1>. DEFINE Good == {T \in SUBSET S : SumFunctionOnSet(g, T) = SumFunctionOnSet(f, T)}
<1>1. {} \in Good
  BY SumEmpty
<1>2. ASSUME NEW T \in SUBSET S, NEW x \in S, T \in Good, x \notin T
      PROVE  T \cup {x} \in Good
  <2>1. IsFiniteSet(T)
    BY FS_Subset
  <2>2. SumFunctionOnSet(f, T \cup {x}) = f[x] + SumFunctionOnSet(f, T)
    BY <1>2, <2>1, SumAdd
  <2>3. SumFunctionOnSet(g, T \cup {x}) = g[x] + SumFunctionOnSet(g, T)
    BY <1>2, <2>1, SumAdd
  <2>. QED
    BY <1>2, <2>2, <2>3
<1>3. S \in Good
  <2>. HIDE DEF Good
  <2>. QED
    BY <1>1, <1>2, FiniteInduction
<1>. QED
  BY <1>3

(* The sum of a function grows by the value that joins it.                 *)
LEMMA SumGrows ==
  ASSUME NEW f, NEW g, NEW x, IsFiniteSet(DOMAIN f), x \notin DOMAIN f,
         DOMAIN g = DOMAIN f \cup {x}, g[x] \in Nat,
         \A y \in DOMAIN f : f[y] \in Nat /\ g[y] = f[y]
  PROVE  /\ SumFunction(f) \in Nat
         /\ SumFunction(g) = g[x] + SumFunction(f)
<1>1. SumFunctionOnSet(f, DOMAIN f) \in Nat
  BY SumRemove
<1>2. SumFunctionOnSet(g, DOMAIN f \cup {x}) = g[x] + SumFunctionOnSet(g, DOMAIN f)
  BY SumAdd
<1>3. SumFunctionOnSet(g, DOMAIN f) = SumFunctionOnSet(f, DOMAIN f)
  BY SumSame
<1>. QED
  BY <1>1, <1>2, <1>3 DEF SumFunction

(* No term is more than the sum, and with one term the sum grows.          *)
LEMMA SumOneMore ==
  ASSUME NEW f, NEW g, NEW x \in DOMAIN f, IsFiniteSet(DOMAIN f), DOMAIN g = DOMAIN f,
         g[x] = f[x] + 1,
         \A y \in DOMAIN f : f[y] \in Nat /\ (y # x => g[y] = f[y])
  PROVE  SumFunction(f) \in Nat /\ SumFunction(g) = SumFunction(f) + 1
<1>. DEFINE S == DOMAIN f
<1>1. /\ SumFunctionOnSet(f, S) \in Nat
      /\ SumFunctionOnSet(f, S) = f[x] + SumFunctionOnSet(f, S \ {x})
  BY SumRemove
<1>2. SumFunctionOnSet(g, S) = g[x] + SumFunctionOnSet(g, S \ {x})
  <2>1. \A y \in S : g[y] \in Nat
    <3>1. \A y \in S : y # x => g[y] \in Nat
      OBVIOUS
    <3>. QED
      BY <3>1
  <2>. QED
    BY <2>1, SumRemove
<1>3. IsFiniteSet(S \ {x})
  BY FS_Subset
<1>4. /\ SumFunctionOnSet(g, S \ {x}) = SumFunctionOnSet(f, S \ {x})
      /\ SumFunctionOnSet(f, S \ {x}) \in Nat
  <2>1. \A y \in S \ {x} : f[y] \in Nat /\ g[y] = f[y]
    OBVIOUS
  <2>. HIDE DEF S
  <2>. QED
    BY <1>3, <2>1, SumSame, SumRemove
<1>5. f[x] \in Nat
  OBVIOUS
<1>. QED
  BY <1>1, <1>2, <1>4, <1>5 DEF SumFunction

LEMMA TermAtMostSum ==
  ASSUME NEW f, IsFiniteSet(DOMAIN f), NEW x \in DOMAIN f, \A y \in DOMAIN f : f[y] \in Nat
  PROVE  SumFunction(f) \in Nat /\ f[x] <= SumFunction(f)
<1>1. /\ SumFunctionOnSet(f, DOMAIN f) \in Nat
      /\ SumFunctionOnSet(f, DOMAIN f) = f[x] + SumFunctionOnSet(f, DOMAIN f \ {x})
  BY SumRemove
<1>2. IsFiniteSet(DOMAIN f \ {x})
  BY FS_Subset
<1>3. SumFunctionOnSet(f, DOMAIN f \ {x}) \in Nat
  BY <1>2, SumRemove
<1>. QED
  BY <1>1, <1>3 DEF SumFunction

LEMMA SumOfNothing ==
  ASSUME NEW f, DOMAIN f = {}
  PROVE  SumFunction(f) = 0
BY SumEmpty DEF SumFunction

(* Nothing is lost with the terms that are zero.                           *)
LEMMA SumWithoutZeros ==
  ASSUME NEW S, IsFiniteSet(S), NEW f, \A x \in S : f[x] \in Nat
  PROVE  SumFunctionOnSet(f, {x \in S : f[x] > 0}) = SumFunctionOnSet(f, S)
<1>. DEFINE Some(T) == {x \in T : f[x] > 0}
            Good == {T \in SUBSET S : SumFunctionOnSet(f, Some(T)) = SumFunctionOnSet(f, T)}
<1>1. {} \in Good
  <2>1. Some({}) = {}
    OBVIOUS
  <2>. QED
    BY <2>1
<1>2. ASSUME NEW T \in SUBSET S, NEW x \in S, T \in Good, x \notin T
      PROVE  T \cup {x} \in Good
  <2>1. IsFiniteSet(T) /\ IsFiniteSet(Some(T))
    BY FS_Subset
  <2>2. SumFunctionOnSet(f, T \cup {x}) = f[x] + SumFunctionOnSet(f, T)
    BY <1>2, <2>1, SumAdd
  <2>3. SumFunctionOnSet(f, T) \in Nat /\ f[x] \in Nat
    BY <2>1, SumRemove
  <2>4. CASE f[x] > 0
    <3>1. Some(T \cup {x}) = Some(T) \cup {x} /\ x \notin Some(T)
      BY <1>2, <2>4
    <3>2. SumFunctionOnSet(f, Some(T) \cup {x}) = f[x] + SumFunctionOnSet(f, Some(T))
      BY <2>1, <3>1, SumAdd
    <3>. QED
      BY <1>2, <2>2, <3>1, <3>2
  <2>5. CASE f[x] = 0
    <3>1. Some(T \cup {x}) = Some(T)
      BY <2>5
    <3>2. SumFunctionOnSet(f, T \cup {x}) = SumFunctionOnSet(f, T)
      <4>. HIDE DEF Some, Good
      <4>. QED
        BY <2>2, <2>3, <2>5
    <3>. QED
      BY <1>2, <3>1, <3>2
  <2>. QED
    BY <2>3, <2>4, <2>5
<1>3. S \in Good
  <2>. HIDE DEF Good
  <2>. QED
    BY <1>1, <1>2, FiniteInduction
<1>. QED
  BY <1>3

(* Smaller terms make a smaller sum, and the same sum only when they are   *)
(* the same.                                                               *)
LEMMA SumAtMost ==
  ASSUME NEW S, IsFiniteSet(S), NEW f, NEW g,
         \A x \in S : f[x] \in Nat /\ g[x] \in Nat /\ f[x] <= g[x]
  PROVE  /\ SumFunctionOnSet(f, S) <= SumFunctionOnSet(g, S)
         /\ SumFunctionOnSet(f, S) = SumFunctionOnSet(g, S) => \A x \in S : f[x] = g[x]
<1>. DEFINE Below(T) ==
              /\ SumFunctionOnSet(f, T) <= SumFunctionOnSet(g, T)
              /\ SumFunctionOnSet(f, T) = SumFunctionOnSet(g, T) => \A x \in T : f[x] = g[x]
            Good == {T \in SUBSET S : Below(T)}
<1>1. {} \in Good
  BY SumEmpty
<1>2. ASSUME NEW T \in SUBSET S, NEW x \in S, T \in Good, x \notin T
      PROVE  T \cup {x} \in Good
  <2>1. IsFiniteSet(T)
    BY FS_Subset
  <2>2. /\ SumFunctionOnSet(f, T \cup {x}) = f[x] + SumFunctionOnSet(f, T)
        /\ SumFunctionOnSet(g, T \cup {x}) = g[x] + SumFunctionOnSet(g, T)
    BY <1>2, <2>1, SumAdd
  <2>3. SumFunctionOnSet(f, T) \in Nat /\ SumFunctionOnSet(g, T) \in Nat
    BY <2>1, SumRemove
  <2>4. Below(T) /\ f[x] \in Nat /\ g[x] \in Nat /\ f[x] <= g[x]
    BY <1>2
  <2>5. Below(T \cup {x})
    BY <2>2, <2>3, <2>4
  <2>. QED
    BY <2>5
<1>3. S \in Good
  <2>. HIDE DEF Good
  <2>. QED
    BY <1>1, <1>2, FiniteInduction
<1>. QED
  BY <1>3

LEMMA DisjointUnion ==
  ASSUME NEW A, IsFiniteSet(A), NEW B, IsFiniteSet(B), A \cap B = {}
  PROVE  /\ IsFiniteSet(A \cup B)
         /\ Cardinality(A \cup B) = Cardinality(A) + Cardinality(B)
         /\ Cardinality(A) \in Nat /\ Cardinality(B) \in Nat
<1>1. /\ IsFiniteSet(A \cup B)
      /\ Cardinality(A \cup B) = Cardinality(A) + Cardinality(B) - Cardinality(A \cap B)
  BY FS_Union
<1>2. /\ Cardinality(A) \in Nat /\ Cardinality(B) \in Nat /\ Cardinality(A \cap B) = 0
  BY FS_CardinalityType, FS_EmptySet
<1>. QED
  BY <1>1, <1>2

(* Parts that do not overlap add up to the whole.                          *)
LEMMA SumOfParts ==
  ASSUME NEW S, IsFiniteSet(S), NEW P, \A x \in S : IsFiniteSet(P[x]),
         \A x, y \in S : x # y => P[x] \cap P[y] = {},
         NEW f, DOMAIN f = S, \A x \in S : f[x] = Cardinality(P[x]),
         NEW U, U = UNION {P[x] : x \in S}
  PROVE  IsFiniteSet(U) /\ SumFunction(f) = Cardinality(U)
<1>. DEFINE
            Whole(T) == UNION {P[x] : x \in T}
            Good == {T \in SUBSET S :
                       /\ IsFiniteSet(Whole(T))
                       /\ SumFunctionOnSet(f, T) = Cardinality(Whole(T))}
<1>1. {} \in Good
  <2>1. Whole({}) = {}
    OBVIOUS
  <2>. QED
    BY <2>1, SumEmpty, FS_EmptySet
<1>2. ASSUME NEW T \in SUBSET S, NEW x \in S, T \in Good, x \notin T
      PROVE  T \cup {x} \in Good
  <2>1. Whole(T \cup {x}) = Whole(T) \cup P[x] /\ Whole(T) \cap P[x] = {}
    BY <1>2
  <2>2. IsFiniteSet(T) /\ IsFiniteSet(Whole(T)) /\ IsFiniteSet(P[x])
    BY <1>2, FS_Subset
  <2>. DEFINE A == Whole(T)
              B == P[x]
  <2>3. /\ IsFiniteSet(A \cup B) /\ Cardinality(A \cup B) = Cardinality(A) + Cardinality(B)
        /\ Cardinality(A) \in Nat /\ Cardinality(B) \in Nat
    <3>. HIDE DEF A, B
    <3>. QED
      BY <2>1, <2>2, DisjointUnion DEF A, B
  <2>4. SumFunctionOnSet(f, T \cup {x}) = f[x] + SumFunctionOnSet(f, T)
    <3>1. \A y \in T \cup {x} : f[y] \in Nat
      BY FS_CardinalityType
    <3>. QED
      BY <1>2, <2>2, <3>1, SumAdd
  <2>5. SumFunctionOnSet(f, T) = Cardinality(A) /\ f[x] = Cardinality(B)
    BY <1>2
  <2>6. Whole(T \cup {x}) = A \cup B
    BY <2>1
  <2>. HIDE DEF A, B, Whole
  <2>7. SumFunctionOnSet(f, T \cup {x}) = Cardinality(A \cup B)
    BY <2>3, <2>4, <2>5
  <2>. QED
    BY <2>3, <2>6, <2>7
<1>3. S \in Good
  <2>. HIDE DEF Good
  <2>. QED
    BY <1>1, <1>2, FiniteInduction
<1>. QED
  BY <1>3 DEF SumFunction

-----------------------------------------------------------------------------
(* Orders on finite sets                                                   *)

(* A finite set has a greatest element in any order that is total and      *)
(* transitive on it ...                                                    *)
LEMMA Greatest ==
  ASSUME NEW S, IsFiniteSet(S), S # {}, NEW R,
         \A x, y \in S : <<x, y>> \in R \/ <<y, x>> \in R,
         \A x, y, z \in S : <<x, y>> \in R /\ <<y, z>> \in R => <<x, z>> \in R
  PROVE  \E m \in S : \A x \in S : <<x, m>> \in R
<1>. DEFINE Good == {T \in SUBSET S : T # {} => \E m \in T : \A x \in T : <<x, m>> \in R}
<1>1. {} \in Good
  OBVIOUS
<1>2. ASSUME NEW T \in SUBSET S, NEW x \in S, T \in Good, x \notin T
      PROVE  T \cup {x} \in Good
  <2>1. CASE T = {}
    BY <2>1
  <2>2. CASE T # {}
    <3>1. PICK m \in T : \A y \in T : <<y, m>> \in R
      BY <1>2, <2>2
    <3>2. CASE <<x, m>> \in R
      BY <3>1, <3>2
    <3>3. CASE <<m, x>> \in R
      <4>1. \A y \in T : <<y, x>> \in R
        BY <3>1, <3>3
      <4>. QED
        BY <4>1
    <3>. QED
      BY <3>1, <3>2, <3>3
  <2>. QED
    BY <2>1, <2>2
<1>3. S \in Good
  <2>. HIDE DEF Good
  <2>. QED
    BY <1>1, <1>2, FiniteInduction
<1>. QED
  BY <1>3

LEMMA LeastNumber ==
  ASSUME NEW S \in SUBSET Nat, IsFiniteSet(S), S # {}
  PROVE  \E m \in S : \A x \in S : m <= x
<1>. DEFINE R == {e \in Nat \X Nat : e[2] <= e[1]}
<1>1. \A x, y \in S : <<x, y>> \in R <=> y <= x
  OBVIOUS
<1>. HIDE DEF R
<1>2. /\ \A x, y \in S : <<x, y>> \in R \/ <<y, x>> \in R
      /\ \A x, y, z \in S : <<x, y>> \in R /\ <<y, z>> \in R => <<x, z>> \in R
  BY <1>1
<1>3. \E m \in S : \A x \in S : <<x, m>> \in R
  BY <1>2, Greatest
<1>. QED
  BY <1>1, <1>3

LEMMA NumberInduction ==
  ASSUME NEW Good, 0 \in Good, \A n \in Nat : n \in Good => n + 1 \in Good
  PROVE  \A n \in Nat : n \in Good
<1>. SUFFICES ASSUME NEW n \in Nat, n \notin Good
              PROVE  FALSE
  OBVIOUS
<1>. DEFINE S == {m \in 0 .. n : m \notin Good}
<1>1. S \in SUBSET Nat /\ S # {} /\ IsFiniteSet(S)
  <2>1. IsFiniteSet(0 .. n)
    BY FS_Interval
  <2>2. S \subseteq 0 .. n /\ n \in S
    OBVIOUS
  <2>. QED
    BY <2>1, <2>2, FS_Subset
<1>2. PICK m \in S : \A x \in S : m <= x
  BY <1>1, LeastNumber
<1>3. m # 0 /\ m - 1 \in 0 .. n /\ m \in Nat
  OBVIOUS
<1>4. m - 1 \in Good
  <2>1. m - 1 \notin S
    <3>. HIDE DEF S
    <3>. QED
      BY <1>2, <1>3
  <2>. QED
    BY <1>3, <2>1
<1>. QED
  BY <1>3, <1>4

(* ... and, when the order is antisymmetric too, just one arrangement      *)
(* without repetitions or inversions.                                      *)
Arrangements(S, R) ==
  LET n == Cardinality(S)
  IN  {s \in [1 .. n -> S] :
         \A i, j \in 1 .. n : i < j => s[i] # s[j] /\ <<s[i], s[j]>> \in R}

LEMMA ArrangementExists ==
  ASSUME NEW S, IsFiniteSet(S), NEW R,
         \A x, y \in S : <<x, y>> \in R \/ <<y, x>> \in R,
         \A x, y, z \in S : <<x, y>> \in R /\ <<y, z>> \in R => <<x, z>> \in R
  PROVE  Arrangements(S, R) # {}
<1>. DEFINE Good == {T \in SUBSET S : Arrangements(T, R) # {}}
<1>1. ASSUME NEW T \in SUBSET S, \A U \in SUBSET T : U # T => U \in Good
      PROVE  T \in Good
  <2>. DEFINE n == Cardinality(T)
  <2>1. IsFiniteSet(T) /\ n \in Nat
    BY FS_Subset, FS_CardinalityType
  <2>2. CASE T = {}
    <3>1. n = 0
      BY <2>2, FS_EmptySet
    <3>. HIDE DEF n
    <3>2. [i \in 1 .. 0 |-> 0] \in Arrangements(T, R)
      BY <3>1, <2>2 DEF Arrangements, n
    <3>. QED
      BY <3>2
  <2>3. CASE T # {}
    <3>1. PICK m \in T : \A x \in T : <<x, m>> \in R
      BY <2>1, <2>3, Greatest
    <3>2. T \ {m} \in Good
      <4>. HIDE DEF Good
      <4>. QED
        BY <1>1, <3>1
    <3>3. PICK s : s \in Arrangements(T \ {m}, R)
      BY <3>2
    <3>4. Cardinality(T \ {m}) = n - 1
      BY <2>1, <3>1, FS_RemoveElement
    <3>5. /\ s \in [1 .. n - 1 -> T \ {m}]
          /\ \A i, j \in 1 .. n - 1 : i < j => s[i] # s[j] /\ <<s[i], s[j]>> \in R
      BY <3>3, <3>4 DEF Arrangements
    <3>6. n > 0
      BY <2>1, <2>3, FS_EmptySet
    <3>. HIDE DEF n, Good
    <3>. DEFINE t == [i \in 1 .. n |-> IF i = n THEN m ELSE s[i]]
    <3>7. t \in [1 .. n -> T]
      BY <2>1, <3>1, <3>5, <3>6
    <3>8. ASSUME NEW i \in 1 .. n, NEW j \in 1 .. n, i < j
          PROVE  t[i] # t[j] /\ <<t[i], t[j]>> \in R
      <4>1. i \in 1 .. n - 1 /\ s[i] \in T \ {m} /\ t[i] = s[i]
        BY <2>1, <3>5, <3>8
      <4>2. CASE j = n
        BY <3>1, <4>1, <4>2
      <4>3. CASE j # n
        <5>1. j \in 1 .. n - 1 /\ t[j] = s[j]
          BY <2>1, <3>8, <4>3
        <5>. HIDE DEF t
        <5>. QED
          BY <3>5, <3>8, <4>1, <5>1
      <4>. QED
        BY <4>2, <4>3
    <3>9. t \in Arrangements(T, R)
      <4>. HIDE DEF t
      <4>. QED
        BY <3>7, <3>8 DEF Arrangements, n
    <3>. QED
      BY <3>9 DEF Good
  <2>. QED
    BY <2>2, <2>3
<1>2. S \in Good
  <2>. HIDE DEF Good
  <2>. QED
    BY <1>1, SubsetInduction
<1>. QED
  BY <1>2

LEMMA ArrangementUnique ==
  ASSUME NEW S, IsFiniteSet(S), NEW R,
         \A x, y \in S : <<x, y>> \in R /\ <<y, x>> \in R => x = y,
         NEW s \in Arrangements(S, R), NEW t \in Arrangements(S, R)
  PROVE  s = t
<1>. DEFINE n == Cardinality(S)
            Differ == {i \in 1 .. n : s[i] # t[i]}
<1>1. n \in Nat /\ IsFiniteSet(1 .. n) /\ Cardinality(1 .. n) = n
  BY FS_CardinalityType, FS_Interval
<1>2. ASSUME NEW u \in Arrangements(S, R)
      PROVE  /\ u \in [1 .. n -> S]
             /\ \A i, j \in 1 .. n : i < j => u[i] # u[j] /\ <<u[i], u[j]>> \in R
             /\ \A i, j \in 1 .. n : u[i] = u[j] => i = j
             /\ \A x \in S : \E i \in 1 .. n : u[i] = x
  <2>1. /\ u \in [1 .. n -> S]
        /\ \A i, j \in 1 .. n : i < j => u[i] # u[j] /\ <<u[i], u[j]>> \in R
    BY DEF Arrangements
  <2>. HIDE DEF n
  <2>2. \A i, j \in 1 .. n : u[i] = u[j] => i = j
    <3>1. \A i, j \in 1 .. n : i < j \/ j < i \/ i = j
      BY <1>1
    <3>. QED
      BY <2>1, <3>1
  <2>3. u \in Injection(1 .. n, S)
    BY <2>1, <2>2 DEF Injection, IsInjective
  <2>4. u \in Surjection(1 .. n, S)
    BY <1>1, <2>3, FS_Injection DEF n
  <2>. QED
    BY <2>1, <2>2, <2>4 DEF Surjection
<1>. HIDE DEF n
<1>3. /\ s \in [1 .. n -> S] /\ t \in [1 .. n -> S]
      /\ \A i, j \in 1 .. n : i < j => <<s[i], s[j]>> \in R /\ <<t[i], t[j]>> \in R
      /\ \A i, j \in 1 .. n : (s[i] = s[j] => i = j) /\ (t[i] = t[j] => i = j)
  BY <1>2
<1>4. \A x \in S : (\E i \in 1 .. n : s[i] = x) /\ (\E i \in 1 .. n : t[i] = x)
  BY <1>2
<1>5. ASSUME Differ # {} PROVE FALSE
  <2>1. Differ \in SUBSET Nat /\ IsFiniteSet(Differ)
    BY <1>1, FS_Subset
  <2>2. PICK i \in Differ : \A j \in Differ : i <= j
    <3>. HIDE DEF Differ
    <3>. QED
      BY <1>5, <2>1, LeastNumber
  <2>3. i \in 1 .. n /\ s[i] \in S /\ t[i] \in S /\ s[i] # t[i]
    BY <1>3
  <2>4. \A j \in 1 .. n : j < i => s[j] = t[j]
    BY <1>1, <2>2, <2>3
  <2>5. PICK a \in 1 .. n : s[a] = t[i]
    BY <1>4, <2>3
  <2>6. PICK b \in 1 .. n : t[b] = s[i]
    BY <1>4, <2>3
  <2>. HIDE DEF Differ
  <2>7. a # i /\ b # i /\ ~ (a < i) /\ ~ (b < i)
    BY <1>3, <2>3, <2>4, <2>5, <2>6
  <2>8. i < a /\ i < b
    BY <1>1, <2>3, <2>7
  <2>9. <<s[i], t[i]>> \in R /\ <<t[i], s[i]>> \in R
    BY <1>3, <2>3, <2>5, <2>6, <2>8
  <2>. QED
    BY <2>3, <2>9
<1>6. \A i \in 1 .. n : s[i] = t[i]
  BY <1>5
<1>. HIDE DEF Differ
<1>7. DOMAIN s = 1 .. n /\ DOMAIN t = 1 .. n /\ s = [i \in 1 .. n |-> s[i]]
        /\ t = [i \in 1 .. n |-> t[i]]
  BY <1>3
<1>. QED
  BY <1>6, <1>7
=============================================================================
