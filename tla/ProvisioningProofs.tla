------------------------- MODULE ProvisioningProofs -------------------------
(***************************************************************************)
(* Theorems about Readiness and about Provisioning, which waits with it,   *)
(* for any time limits, dev.yml files, selections and tools on the host.   *)
(***************************************************************************)
EXTENDS Provisioning, TLAPS, FiniteSetTheorems, SequenceTheorems


-----------------------------------------------------------------------------
(* The wait alone.                                                         *)

\* The limits one by one.
LEMMA LimitsAreNaturals ==
  /\ Timeout \in Nat /\ NetworkTimeout \in Nat
  /\ IPv4Grace \in Nat /\ Interval \in Nat
  BY OptionsAssumption

\* What the ranges of the timers hold: a full timer and one that has run out.
LEMMA LimitsAreTicks ==
  /\ Timeout \in Ticks(Timeout) /\ 0 \in Ticks(Timeout)
  /\ NetworkTimeout \in Ticks(NetworkTimeout) /\ 0 \in Ticks(NetworkTimeout)
  /\ IPv4Grace \in Ticks(IPv4Grace) /\ 0 \in Ticks(IPv4Grace)
  /\ Interval \in Ticks(Interval) /\ 0 \in Ticks(Interval)
  BY LimitsAreNaturals DEF Ticks

\* A timer stays in its range as time passes.
LEMMA DownStays ==
  ASSUME NEW most \in Nat, NEW ticks \in Ticks(most)
  PROVE  Down(ticks) \in Ticks(most)
  BY DEF Down, Ticks

\* Every step of waitReady, of time and of the instance keeps the types.
LEMMA TypeStep == ReadyTypeOK /\ [ReadyNext]_readyVars => ReadyTypeOK'
<1> SUFFICES ASSUME ReadyTypeOK, [ReadyNext]_readyVars PROVE ReadyTypeOK'
  OBVIOUS
<1> USE LimitsAreTicks
    DEF ReadyTypeOK, Readies, ReadyPcs, Verdicts, Addresses, Concludes, ReadyGoes
<1>1. CASE BeginWait
  BY <1>1 DEF BeginWait
<1>2. CASE Probe
  BY <1>2 DEF Probe
<1>3. CASE PauseOver \/ PauseEnds
  BY <1>3 DEF PauseOver, PauseEnds
<1>4. CASE ReadInstance
  BY <1>4 DEF ReadInstance
<1>5. CASE Classify
  BY <1>5 DEF Classify
<1>6. CASE CheckLimit
  BY <1>6 DEF CheckLimit
<1>7. CASE RestOver \/ RestEnds
  BY <1>7 DEF RestOver, RestEnds
<1>8. CASE Tick
  <2>1. /\ Down(ready.deadline) \in Ticks(Timeout)
        /\ Down(ready.limit) \in Ticks(NetworkTimeout)
        /\ Down(ready.grace) \in Ticks(IPv4Grace)
        /\ Down(ready.wake) \in Ticks(Interval)
    BY DownStays, LimitsAreNaturals
  <2>2. /\ ready' = [ready EXCEPT !.deadline = Down(ready.deadline),
                                 !.limit = Down(ready.limit),
                                 !.grace = Down(ready.grace),
                                 !.wake = Down(ready.wake)]
        /\ UNCHANGED <<net, interrupted>>
    BY <1>8 DEF Tick
  <2> QED
    BY <2>1, <2>2
<1>9. CASE AddressChanges \/ Interrupt
  BY <1>9 DEF AddressChanges, Interrupt
<1>10. CASE ReadyDone \/ UNCHANGED readyVars
  BY <1>10 DEF ReadyDone, readyVars
<1> QED
  BY <1>1, <1>2, <1>3, <1>4, <1>5, <1>6, <1>7, <1>8, <1>9, <1>10
     DEF ReadyNext, Polls

LEMMA ReadyTypeInit == ReadyInit => ReadyTypeOK
<1> SUFFICES ASSUME ReadyInit PROVE ReadyTypeOK
  OBVIOUS
<1>1. ready \in Readies
  BY LimitsAreTicks DEF ReadyInit, Readies, ReadyPcs, Verdicts, Addresses
<1>2. net \in Addresses /\ interrupted \in BOOLEAN
  BY DEF ReadyInit, Addresses
<1> QED
  BY <1>1, <1>2 DEF ReadyTypeOK

\* The state of waitReady is well formed whatever the limits are.
THEOREM ReadyTypeCorrect == ReadySpec => []ReadyTypeOK
  BY ReadyTypeInit, TypeStep, PTL DEF ReadySpec

\* GraceGiven is not inductive: a wait that goes on to its second look at the
\* clock after seeing IPv6 has started the grace period, and a verdict is final.
GraceInv ==
  /\ GraceGiven
  /\ ready.verdict # "none" => ready.pc = "done"
  /\ ready.pc = "limit" /\ ready.seen = "v6" => ready.graced

LEMMA GraceStep ==
  ReadyTypeOK /\ GraceInv /\ [ReadyNext]_readyVars => GraceInv'
<1> SUFFICES ASSUME ReadyTypeOK, GraceInv, [ReadyNext]_readyVars PROVE GraceInv'
  OBVIOUS
<1> USE DEF GraceInv, GraceGiven, Concludes, ReadyGoes, ReadyTypeOK, Readies
<1>1. CASE BeginWait
  BY <1>1 DEF BeginWait
<1>2. CASE Probe
  BY <1>2 DEF Probe
<1>3. CASE PauseOver \/ PauseEnds
  BY <1>3 DEF PauseOver, PauseEnds
<1>4. CASE ReadInstance
  BY <1>4 DEF ReadInstance
<1>5. CASE Classify
  BY <1>5 DEF Classify
<1>6. CASE CheckLimit
  BY <1>6 DEF CheckLimit
<1>7. CASE RestOver \/ RestEnds
  BY <1>7 DEF RestOver, RestEnds
\* Time stands still once there is a verdict.
<1>8. CASE Tick
  BY <1>8 DEF Tick, Waiting
<1>9. CASE AddressChanges \/ Interrupt
  BY <1>9 DEF AddressChanges, Interrupt
<1>10. CASE ReadyDone \/ UNCHANGED readyVars
  BY <1>10 DEF ReadyDone, readyVars
<1> QED
  BY <1>1, <1>2, <1>3, <1>4, <1>5, <1>6, <1>7, <1>8, <1>9, <1>10
     DEF ReadyNext, Polls

\* waitNetwork never settles for IPv6 alone before the grace period, or the
\* whole wait, has run out.
THEOREM GraceIsGiven == ReadySpec => []GraceGiven
<1>1. ReadyInit => GraceInv
  BY DEF ReadyInit, GraceInv, GraceGiven
<1>2. GraceInv => GraceGiven
  BY DEF GraceInv
<1> QED
  BY <1>1, <1>2, GraceStep, ReadyTypeCorrect, PTL DEF ReadySpec

-----------------------------------------------------------------------------
(* Numbers and positions.                                                  *)

\* Every non-empty set of naturals has a least element.
LEMMA LeastExists ==
  ASSUME NEW T \in SUBSET Nat, T # {}
  PROVE  \E x \in T : \A y \in T : x <= y
<1>1. PICK x \in T : \A y \in T : ~ (<<y, x>> \in OpToRel(<, Nat))
  BY NatLessThanWellFounded, WFMin
<1>2. \A y \in T : ~(y < x)
  <2> TAKE y \in T
  <2>1. SUFFICES ASSUME y < x PROVE <<y, x>> \in OpToRel(<, Nat)
    BY <1>1
  <2> QED
    BY <2>1 DEF OpToRel
<1> QED
  BY <1>2

\* A function on 1 .. n is a sequence.
LEMMA SequenceIs ==
  ASSUME NEW S, NEW n \in Nat, NEW f \in [1 .. n -> S]
  PROVE  f \in Seq(S) /\ Len(f) = n
  OBVIOUS

\* A bounded set of naturals that is not empty has a greatest element.
LEMMA GreatestExists ==
  ASSUME NEW most \in Nat, NEW T \in SUBSET (1 .. most), T # {}
  PROVE  \E x \in T : \A y \in T : y <= x
<1> DEFINE Bounds == {b \in Nat : \A y \in T : y <= b}
<1>1. most \in Bounds
  OBVIOUS
<1>2. PICK b \in Bounds : \A c \in Bounds : b <= c
  BY <1>1, LeastExists
<1>3. b \in T
  <2> SUFFICES ASSUME b \notin T PROVE FALSE
    OBVIOUS
  <2>0. PICK y \in T : TRUE
    OBVIOUS
  <2>1. y >= 1 /\ y <= b
    BY <2>0
  <2>2. b - 1 \in Bounds
    BY <2>1
  <2> QED
    BY <2>2, <1>2
<1> QED
  BY <1>3, <1>2

\* Positions can be counted.
LEMMA PositionsAreFinite ==
  ASSUME NEW most \in Nat, NEW S \in SUBSET (1 .. most)
  PROVE  IsFiniteSet(S) /\ Cardinality(S) \in Nat
<1>1. IsFiniteSet(1 .. most)
  <2>1. 1 \in Int /\ most \in Int
    OBVIOUS
  <2> QED
    BY <2>1, FS_Interval
<1>2. IsFiniteSet(S)
  BY <1>1, FS_Subset
<1> QED
  BY <1>2, FS_CardinalityType

Increasing(order) == \A m, n \in DOMAIN order : m < n => order[m] < order[n]

\* Positions can be put in order: take the greatest away and add it at the end.
LEMMA AscendingExists ==
  ASSUME NEW most \in Nat, NEW S \in SUBSET (1 .. most)
  PROVE  \E order \in [1 .. Cardinality(S) -> S] : Range(order) = S /\ Increasing(order)
<1> DEFINE Ordered(T) == \E order \in [1 .. Cardinality(T) -> T] :
                           Range(order) = T /\ Increasing(order)
           Sizes == {n \in Nat : \E T \in SUBSET (1 .. most) :
                                   Cardinality(T) = n /\ ~Ordered(T)}
<1>1. \A T \in SUBSET (1 .. most) : IsFiniteSet(T) /\ Cardinality(T) \in Nat
  BY PositionsAreFinite
<1>2. SUFFICES ASSUME ~Ordered(S) PROVE FALSE
  OBVIOUS
<1>3. Cardinality(S) \in Sizes
  BY <1>1, <1>2
<1>4. PICK n \in Sizes : \A k \in Sizes : n <= k
  <2> HIDE DEF Sizes
  <2>1. Sizes \in SUBSET Nat
    BY DEF Sizes
  <2> QED
    BY <1>3, <2>1, LeastExists
<1>5. PICK T \in SUBSET (1 .. most) : Cardinality(T) = n /\ ~Ordered(T)
  BY <1>4
<1>6. T # {}
  <2> SUFFICES ASSUME T = {} PROVE FALSE
    OBVIOUS
  <2>1. Cardinality(T) = 0
    BY FS_EmptySet
  <2>2. <<>> \in [1 .. 0 -> T]
    OBVIOUS
  <2>3. Range(<<>>) = T /\ Increasing(<<>>)
    BY DEF Range, Increasing
  <2> QED
    BY <2>1, <2>2, <2>3, <1>5
<1>7. PICK x \in T : \A y \in T : y <= x
  BY <1>6, GreatestExists
<1> DEFINE U == T \ {x}
<1>8. n \in Nat /\ Cardinality(U) = n - 1 /\ n - 1 \in Nat /\ U \in SUBSET (1 .. most)
  <2>1. IsFiniteSet(T) /\ U \in SUBSET (1 .. most)
    BY <1>1, <1>5
  <2>2. Cardinality(U) = Cardinality(T) - 1
    BY <2>1, FS_RemoveElement
  <2>3. Cardinality(U) \in Nat
    BY <2>1, PositionsAreFinite
  <2>4. n \in Nat
    BY <1>1, <1>5
  <2> QED
    BY <2>1, <2>2, <2>3, <2>4, <1>5
<1>9. Ordered(U)
  <2>1. n - 1 \notin Sizes
    BY <1>8, <1>4
  <2> QED
    BY <2>1, <1>8
<1>10. PICK g \in [1 .. n - 1 -> U] : Range(g) = U /\ Increasing(g)
  BY <1>8, <1>9
<1> DEFINE h == [i \in 1 .. n |-> IF i = n THEN x ELSE g[i]]
<1> HIDE DEF Sizes, Ordered
<1> HIDE DEF U
<1>11. h \in [1 .. n -> T] /\ h[n] = x /\ (\A i \in 1 .. n - 1 : h[i] = g[i])
  <2>1. U \subseteq T
    BY DEF U
  <2>2. n \in 1 .. n
    BY <1>8
  <2>3. \A i \in 1 .. n : i # n => i \in 1 .. n - 1
    BY <1>8
  <2>4. \A i \in 1 .. n - 1 : i \in 1 .. n /\ i # n
    BY <1>8
  <2>5. \A i \in 1 .. n - 1 : g[i] \in T
    BY <1>10, <2>1
  <2> QED
    BY <1>7, <2>2, <2>3, <2>4, <2>5
<1> HIDE DEF h
<1>12. Range(h) = T
  <2>1. \A y \in U : \E i \in 1 .. n - 1 : g[i] = y
    BY <1>10 DEF Range
  <2>2. \A y \in T : \E i \in DOMAIN h : h[i] = y
    <3> TAKE y \in T
    <3>1. CASE y = x
      BY <3>1, <1>8, <1>11
    <3>2. CASE y # x
      <4>1. PICK i \in 1 .. n - 1 : g[i] = y
        BY <3>2, <2>1 DEF U
      <4> QED
        BY <4>1, <1>8, <1>11
    <3> QED
      BY <3>1, <3>2
  <2> QED
    BY <2>2, <1>11 DEF Range
<1>13. Increasing(h)
  <2> SUFFICES ASSUME NEW i \in 1 .. n, NEW j \in 1 .. n, i < j PROVE h[i] < h[j]
    BY <1>11 DEF Increasing
  <2>1. CASE j = n
    <3>1. i \in 1 .. n - 1 /\ h[j] = x
      BY <2>1, <1>8, <1>11
    <3>2. h[i] \in U
      BY <3>1, <1>10, <1>11
    <3>3. h[i] \in T /\ h[i] # x /\ h[i] \in Nat /\ x \in Nat
      <4>1. \A y \in T : y \in Nat
        BY <1>5
      <4> QED
        BY <3>2, <4>1, <1>7 DEF U
    <3> QED
      BY <3>1, <3>3, <1>7
  <2>2. CASE j # n
    <3>1. i \in 1 .. n - 1 /\ j \in 1 .. n - 1
      BY <2>2, <1>8
    <3>2. g[i] < g[j]
      BY <3>1, <1>10 DEF Increasing
    <3> QED
      BY <3>1, <3>2, <1>11
  <2> QED
    BY <2>1, <2>2
<1> QED
  BY <1>5, <1>11, <1>12, <1>13 DEF Ordered

\* What Ascending returns.
LEMMA AscendingIs ==
  ASSUME NEW most \in Nat, NEW S \in SUBSET (1 .. most)
  PROVE  /\ Ascending(S) \in Seq(S)
         /\ Len(Ascending(S)) = Cardinality(S)
         /\ Range(Ascending(S)) = S
         /\ Increasing(Ascending(S))
<1>1. /\ Ascending(S) \in [1 .. Cardinality(S) -> S]
      /\ Range(Ascending(S)) = S
      /\ Increasing(Ascending(S))
  BY AscendingExists DEF Ascending, Increasing
<1>2. Cardinality(S) \in Nat
  BY PositionsAreFinite
<1> QED
  BY <1>1, <1>2, SequenceIs

-----------------------------------------------------------------------------
(* What is to be run.                                                      *)

\* A reference stands for positions.
LEMMA MatchIs ==
  ASSUME NEW steps, NEW ref
  PROVE  Match(steps, ref) \subseteq Positions(steps)
  BY DEF Match

\* What is chosen are positions.
LEMMA ChosenIs ==
  ASSUME NEW steps, NEW sel
  PROVE  Chosen(steps, sel) \subseteq Positions(steps)
  BY MatchIs DEF Chosen

\* Select runs each chosen position once, in order.
LEMMA SelectIs ==
  ASSUME NEW steps, IsSteps(steps), NEW sel
  PROVE  /\ Select(steps, sel) \in Seq(Positions(steps))
         /\ Range(Select(steps, sel)) = Chosen(steps, sel)
         /\ Increasing(Select(steps, sel))
<1>1. Len(steps) \in Nat /\ Positions(steps) = 1 .. Len(steps)
  BY DEF IsSteps, Positions
<1>2. Chosen(steps, sel) \in SUBSET (1 .. Len(steps))
  BY <1>1, ChosenIs
<1>3. Select(steps, sel) \in Seq(Chosen(steps, sel))
  BY <1>1, <1>2, AscendingIs DEF Select
<1>4. Select(steps, sel) \in Seq(Positions(steps))
  BY <1>1, <1>2, <1>3, SeqMonotonic
<1> QED
  BY <1>1, <1>2, <1>4, AscendingIs DEF Select

\* The parts of a declaration, by the assumption on dev.yml files.
LEMMA DeclarationIs ==
  ASSUME NEW decl \in Declarations
  PROVE  IsSteps(decl.provision) /\ BootstrapLen(decl) \in Nat
  BY StepsAssumption DEF BootstrapLen, IsSteps

\* The plan, item by item.
LEMMA PlanIs ==
  ASSUME NEW decl \in Declarations, NEW sel
  PROVE  /\ Plan(decl, sel) \in Seq(Items)
         /\ Len(Select(decl.provision, sel)) \in Nat
         /\ Len(Plan(decl, sel)) = BootstrapLen(decl) + Len(Select(decl.provision, sel))
         /\ \A i \in 1 .. BootstrapLen(decl) : Plan(decl, sel)[i] = <<"bootstrap", i>>
         /\ \A i \in 1 .. Len(Select(decl.provision, sel)) :
              Plan(decl, sel)[BootstrapLen(decl) + i]
                = <<"provision", Select(decl.provision, sel)[i]>>
<1> DEFINE most == BootstrapLen(decl)
           chosen == Select(decl.provision, sel)
           first == [i \in 1 .. most |-> <<"bootstrap", i>>]
           second == [i \in DOMAIN chosen |-> <<"provision", chosen[i]>>]
<1>1. most \in Nat
  BY DeclarationIs
<1>2. chosen \in Seq(Nat)
  <2>1. chosen \in Seq(Positions(decl.provision))
    BY DeclarationIs, SelectIs
  <2>2. Positions(decl.provision) \subseteq Nat
    BY DeclarationIs DEF IsSteps, Positions
  <2> QED
    BY <2>1, <2>2, SeqMonotonic
<1>3. Len(chosen) \in Nat /\ DOMAIN chosen = 1 .. Len(chosen)
      /\ \A i \in 1 .. Len(chosen) : chosen[i] \in Nat
  BY <1>2, LenProperties
<1>4. Plan(decl, sel) = first \o second
  BY DEF Plan
<1> HIDE DEF most, chosen
<1>5. first \in Seq(Items) /\ Len(first) = most
  <2>1. first \in [1 .. most -> Items]
    BY <1>1 DEF Items
  <2> QED
    BY <1>1, <2>1, SequenceIs
<1>6. second \in Seq(Items) /\ Len(second) = Len(chosen)
  <2>1. second \in [1 .. Len(chosen) -> Items]
    BY <1>3 DEF Items
  <2> QED
    BY <1>3, <2>1, SequenceIs
<1>7. /\ \A i \in 1 .. most : first[i] = <<"bootstrap", i>>
      /\ \A i \in 1 .. Len(chosen) : second[i] = <<"provision", chosen[i]>>
  BY <1>3
<1> HIDE DEF first, second
<1>8. /\ first \o second \in Seq(Items)
      /\ Len(first \o second) = most + Len(chosen)
      /\ \A i \in 1 .. most + Len(chosen) :
           (first \o second)[i] = IF i <= most THEN first[i] ELSE second[i - most]
  <2>1. /\ first \o second \in Seq(Items)
        /\ Len(first \o second) = Len(first) + Len(second)
        /\ \A i \in 1 .. Len(first) + Len(second) :
             (first \o second)[i] = IF i <= Len(first) THEN first[i]
                                    ELSE second[i - Len(first)]
    BY <1>5, <1>6, ConcatProperties
  <2> QED
    BY <1>5, <1>6, <2>1
<1>9. \A i \in 1 .. most : (first \o second)[i] = <<"bootstrap", i>>
  BY <1>1, <1>3, <1>7, <1>8
<1>10. ASSUME NEW i \in 1 .. Len(chosen)
       PROVE  (first \o second)[most + i] = <<"provision", chosen[i]>>
  <2>1. /\ most + i \in 1 .. most + Len(chosen)
        /\ ~(most + i <= most) /\ (most + i) - most = i
    BY <1>1, <1>3
  <2>2. (first \o second)[most + i] = second[(most + i) - most]
    BY <2>1, <1>8
  <2> QED
    BY <2>1, <2>2, <1>7
<1> QED
  BY <1>3, <1>4, <1>8, <1>9, <1>10 DEF most, chosen

\* Every item of the plan is a bootstrap step, by position, or a chosen one.
LEMMA PlanPoint ==
  ASSUME NEW decl \in Declarations, NEW sel, NEW n \in DOMAIN Plan(decl, sel)
  PROVE  LET most == BootstrapLen(decl)
             chosen == Select(decl.provision, sel)
         IN  \/ n \in 1 .. most /\ Plan(decl, sel)[n] = <<"bootstrap", n>>
             \/ /\ n - most \in DOMAIN chosen
                /\ Plan(decl, sel)[n] = <<"provision", chosen[n - most]>>
<1> DEFINE most == BootstrapLen(decl)
           chosen == Select(decl.provision, sel)
<1>1. most \in Nat
  BY DeclarationIs
<1>2. Len(chosen) \in Nat /\ DOMAIN chosen = 1 .. Len(chosen)
  BY DeclarationIs, SelectIs, LenProperties
<1>3. n \in 1 .. most + Len(chosen)
  BY PlanIs, LenProperties
<1>4. CASE n <= most
  <2>1. n \in 1 .. most
    BY <1>1, <1>2, <1>3, <1>4
  <2> QED
    BY <2>1, PlanIs
<1>5. CASE n > most
  <2>1. n - most \in 1 .. Len(chosen) /\ most + (n - most) = n
    BY <1>1, <1>2, <1>3, <1>5
  <2>2. Plan(decl, sel)[most + (n - most)] = <<"provision", chosen[n - most]>>
    BY <2>1, PlanIs
  <2> QED
    BY <1>2, <2>1, <2>2
<1> QED
  BY <1>1, <1>2, <1>3, <1>4, <1>5

\* Bootstrap comes first, and each phase runs in declaration order.
LEMMA PlanIsInOrder ==
  ASSUME NEW decl \in Declarations, NEW sel,
         NEW m \in DOMAIN Plan(decl, sel), NEW n \in DOMAIN Plan(decl, sel), m < n
  PROVE  LET plan == Plan(decl, sel)
         IN  \/ plan[m][1] = plan[n][1] /\ plan[m][2] < plan[n][2]
             \/ plan[m][1] = "bootstrap" /\ plan[n][1] = "provision"
<1> DEFINE most == BootstrapLen(decl)
           chosen == Select(decl.provision, sel)
           plan == Plan(decl, sel)
<1>1. most \in Nat /\ m \in Nat /\ n \in Nat
  BY DeclarationIs, PlanIs, LenProperties
<1>2. Increasing(chosen)
  BY DeclarationIs, SelectIs
<1>3. \/ m \in 1 .. most /\ plan[m] = <<"bootstrap", m>>
      \/ m - most \in DOMAIN chosen /\ plan[m] = <<"provision", chosen[m - most]>>
  BY PlanPoint
<1>4. \/ n \in 1 .. most /\ plan[n] = <<"bootstrap", n>>
      \/ n - most \in DOMAIN chosen /\ plan[n] = <<"provision", chosen[n - most]>>
  BY PlanPoint
<1>5. DOMAIN chosen \subseteq Nat /\ 0 \notin DOMAIN chosen
  BY DeclarationIs, SelectIs, LenProperties
<1> HIDE DEF most, chosen, plan
<1>6. CASE n \in 1 .. most /\ plan[n] = <<"bootstrap", n>>
  <2>1. plan[m] = <<"bootstrap", m>>
    BY <1>1, <1>3, <1>5, <1>6
  <2> QED
    BY <1>6, <2>1 DEF plan
<1>7. CASE n - most \in DOMAIN chosen /\ plan[n] = <<"provision", chosen[n - most]>>
  <2>1. CASE plan[m] = <<"bootstrap", m>>
    BY <1>7, <2>1 DEF plan
  <2>2. CASE m - most \in DOMAIN chosen /\ plan[m] = <<"provision", chosen[m - most]>>
    <3>1. m - most < n - most
      BY <1>1
    <3>2. chosen[m - most] < chosen[n - most]
      BY <3>1, <1>2, <1>7, <2>2 DEF Increasing
    <3> QED
      BY <1>7, <2>2, <3>2 DEF plan
  <2> QED
    BY <1>3, <2>1, <2>2
<1> QED
  BY <1>4, <1>6, <1>7

\* A provision step is in the plan if and only if it is chosen.
LEMMA PlanHoldsTheChosen ==
  ASSUME NEW decl \in Declarations, NEW sel, NEW i
  PROVE  <<"provision", i>> \in Range(Plan(decl, sel))
           <=> i \in Chosen(decl.provision, sel)
<1> DEFINE most == BootstrapLen(decl)
           chosen == Select(decl.provision, sel)
           plan == Plan(decl, sel)
<1>1. i \in Chosen(decl.provision, sel) <=> \E n \in DOMAIN chosen : chosen[n] = i
  BY DeclarationIs, SelectIs DEF Range
<1>2. \A n \in DOMAIN chosen : most + n \in DOMAIN plan
                              /\ plan[most + n] = <<"provision", chosen[n]>>
  <2> TAKE n \in DOMAIN chosen
  <2>1. /\ most \in Nat /\ Len(chosen) \in Nat /\ n \in 1 .. Len(chosen)
        /\ DOMAIN plan = 1 .. most + Len(chosen)
    BY DeclarationIs, SelectIs, PlanIs, LenProperties
  <2>2. most + n \in 1 .. most + Len(chosen)
    BY <2>1
  <2> QED
    BY <2>1, <2>2, PlanIs
<1>3. \A n \in DOMAIN plan :
        plan[n] = <<"provision", i>> => \E k \in DOMAIN chosen : chosen[k] = i
  <2> SUFFICES ASSUME NEW n \in DOMAIN plan, plan[n] = <<"provision", i>>
               PROVE  \E k \in DOMAIN chosen : chosen[k] = i
    OBVIOUS
  <2>1. \/ plan[n] = <<"bootstrap", n>>
        \/ n - most \in DOMAIN chosen /\ plan[n] = <<"provision", chosen[n - most]>>
    BY PlanPoint
  <2> QED
    BY <2>1
<1> HIDE DEF most, chosen, plan
<1>4. <<"provision", i>> \in Range(plan)
        <=> \E n \in DOMAIN plan : plan[n] = <<"provision", i>>
  BY DEF Range
<1> QED
  BY <1>1, <1>2, <1>3, <1>4 DEF plan

\* The kinds the prerequisites are looked up for.
LEMMA KindsAre ==
  ASSUME NEW decl \in Declarations, NEW sel
  PROVE  /\ Kinds(decl, sel) \in Seq(KnownKinds)
         /\ DOMAIN Kinds(decl, sel) = DOMAIN Select(decl.provision, sel)
         /\ \A n \in DOMAIN Kinds(decl, sel) :
              Kinds(decl, sel)[n]
                = decl.provision[Select(decl.provision, sel)[n]].kind
<1> DEFINE chosen == Select(decl.provision, sel)
           kinds == Kinds(decl, sel)
<1>1. /\ Len(chosen) \in Nat /\ DOMAIN chosen = 1 .. Len(chosen)
      /\ \A n \in 1 .. Len(chosen) : chosen[n] \in DOMAIN decl.provision
  BY DeclarationIs, SelectIs, LenProperties DEF Positions
<1>2. kinds = [n \in DOMAIN chosen |-> decl.provision[chosen[n]].kind]
  BY DEF Kinds
<1>3. \A i \in DOMAIN decl.provision : decl.provision[i].kind \in KnownKinds
  BY DeclarationIs DEF IsSteps
<1> HIDE DEF chosen, kinds
<1>4. kinds \in [1 .. Len(chosen) -> KnownKinds]
  BY <1>1, <1>2, <1>3
<1>5. kinds \in Seq(KnownKinds)
  BY <1>1, <1>4, SequenceIs
<1> QED
  BY <1>2, <1>5 DEF chosen, kinds

\* Which tools a plan needs: the plugin unless a galaxy step comes first.
LEMMA PrerequisitesAre ==
  ASSUME NEW kinds
  PROVE  /\ Prerequisites(kinds) \in Seq(Tools)
         /\ "galaxy" \in Range(Prerequisites(kinds)) <=> "galaxy" \in Range(kinds)
         /\ "playbook" \in Range(Prerequisites(kinds)) <=> "ansible" \in Range(kinds)
         /\ "plugin" \in Range(Prerequisites(kinds)) <=>
              "ansible" \in Range(kinds) /\ ~Precedes(kinds, "galaxy", "ansible")
<1> DEFINE a == IF "galaxy" \in Range(kinds) THEN <<"galaxy">> ELSE <<>>
           b == IF "ansible" \in Range(kinds) THEN <<"playbook">> ELSE <<>>
           c == IF "ansible" \in Range(kinds) /\ ~Precedes(kinds, "galaxy", "ansible")
                  THEN <<"plugin">> ELSE <<>>
<1>1. Prerequisites(kinds) = (a \o b) \o c
  BY DEF Prerequisites
<1>2. \A tool \in Tools : <<tool>> \in Seq(Tools) /\ Range(<<tool>>) = {tool}
  BY DEF Range
<1>3. <<>> \in Seq(Tools) /\ Range(<<>>) = {}
  BY DEF Range
<1>4. {"galaxy", "playbook", "plugin"} = Tools
  BY DEF Tools
<1>5. a \in Seq(Tools) /\ b \in Seq(Tools) /\ c \in Seq(Tools)
  BY <1>2, <1>3, <1>4
<1>6. /\ Range(a) = IF "galaxy" \in Range(kinds) THEN {"galaxy"} ELSE {}
      /\ Range(b) = IF "ansible" \in Range(kinds) THEN {"playbook"} ELSE {}
      /\ Range(c) = IF "ansible" \in Range(kinds) /\ ~Precedes(kinds, "galaxy", "ansible")
                      THEN {"plugin"} ELSE {}
  BY <1>2, <1>3, <1>4
<1> HIDE DEF a, b, c
<1>7. (a \o b) \in Seq(Tools) /\ Range(a \o b) = Range(a) \cup Range(b)
  BY <1>5, ConcatProperties, RangeConcatenation
<1> DEFINE d == a \o b
<1>8. (d \o c) \in Seq(Tools) /\ Range(d \o c) = Range(d) \cup Range(c)
  <2>1. d \in Seq(Tools)
    BY <1>7
  <2> HIDE DEF d
  <2>2. (d \o c) \in Seq(Tools)
    BY <1>5, <2>1, ConcatProperties
  <2> QED
    BY <1>5, <2>1, <2>2, RangeConcatenation
<1> QED
  BY <1>1, <1>6, <1>7, <1>8

-----------------------------------------------------------------------------
(* What each step does to the run.                                         *)

\* The fields a step leaves in run.
RunIs(pc, need, todo, ran, touched, verdict, blamed) ==
  /\ run'.cmd = run.cmd /\ run'.decl = run.decl /\ run'.sel = run.sel
  /\ run'.pc = pc /\ run'.need = need /\ run'.todo = todo /\ run'.ran = ran
  /\ run'.touched = touched /\ run'.verdict = verdict /\ run'.blamed = blamed

Moves(pc) ==
  RunIs(pc, run.need, run.todo, run.ran, run.touched, run.verdict, run.blamed)

Ends(verdict) ==
  RunIs("done", run.need, run.todo, run.ran, run.touched, verdict, run.blamed)

\* The state of a command that is under way.
Underway ==
  /\ run.pc = "start" => ~run.touched /\ run.ran = <<>>
  /\ \/ run.pc \in {"exec", "prepare", "launch", "running"}
     \/ run.pc = "check" /\ run.touched
     => run.todo # <<>>
  /\ run.pc \notin {"start", "check", "instance", "done"} => run.touched
  /\ run.verdict # "none" => run.pc = "done"
  /\ child.state # "none" => run.pc = "running"
  /\ child.asked => interrupted

ProvBase == ProvTypeOK /\ Underway

\* What a command carries with it is what it was given.
LEMMA FieldsAre ==
  ASSUME ProvTypeOK
  PROVE  /\ run.decl \in Declarations /\ run.sel \in Selections \cup {Everything}
         /\ run.pc \in RunPcs /\ run.verdict \in Outcomes
         /\ run.need \in Seq(Tools) /\ run.todo \in Seq(Items) /\ run.ran \in Seq(Items)
  BY DEF ProvTypeOK, Runs

LEMMA GoesIs ==
  ASSUME ProvTypeOK, NEW pc \in RunPcs, Goes(pc)
  PROVE  Moves(pc) /\ run' \in Runs
  BY DEF ProvTypeOK, Runs, Goes, Moves, RunIs

LEMMA EndsIs ==
  ASSUME ProvTypeOK, NEW verdict \in Outcomes, EndsWith(verdict)
  PROVE  Ends(verdict) /\ run' \in Runs
  BY DEF ProvTypeOK, Runs, EndsWith, Ends, RunIs, RunPcs

\* The program counters and the verdicts the steps below use.
LEMMA Names ==
  /\ {"start", "check", "instance", "wait", "steps", "exec", "prepare", "launch",
      "running", "done"} \subseteq RunPcs
  /\ {"ok", "refused", "missing", "failed", "interrupted"} \subseteq Outcomes
  BY DEF RunPcs, Outcomes

LEMMA StepIsThere ==
  ASSUME ProvBase, run.pc \in {"exec", "launch", "running"}
  PROVE  ProvTypeOK /\ run.todo # <<>>
  BY DEF ProvBase, Underway

LEMMA BeginIs ==
  ASSUME ProvTypeOK, Begin
  PROVE  /\ run' \in Runs /\ run.pc = "start"
         /\ UNCHANGED <<checked, host, child, readyVars>>
         /\ \/ Ends("refused")
            \/ /\ Resolves(run.decl.provision, run.sel)
               /\ RunIs("check", Prerequisites(Kinds(run.decl, run.sel)),
                        Plan(run.decl, run.sel), run.ran, run.touched, run.verdict,
                        run.blamed)
<1> DEFINE plan == Plan(run.decl, run.sel)
           need == Prerequisites(Kinds(run.decl, run.sel))
<1>1. CASE EndsWith("refused")
  BY <1>1, EndsIs, Names DEF Begin
<1>2. CASE /\ Resolves(run.decl.provision, run.sel)
           /\ run' = [run EXCEPT !.pc = "check", !.todo = plan, !.need = need]
  <2>1. plan \in Seq(Items) /\ need \in Seq(Tools)
    BY FieldsAre, PlanIs, PrerequisitesAre
  <2> HIDE DEF plan, need
  <2>2. run' \in Runs
    BY <1>2, <2>1, Names DEF ProvTypeOK, Runs
  <2>3. RunIs("check", need, plan, run.ran, run.touched, run.verdict, run.blamed)
    BY <1>2 DEF ProvTypeOK, Runs, RunIs
  <2> QED
    BY <1>2, <2>2, <2>3 DEF Begin, plan, need
<1> QED
  BY <1>1, <1>2 DEF Begin

LEMMA CheckToolIs ==
  ASSUME ProvTypeOK, CheckTool
  PROVE  /\ run' \in Runs /\ run.pc = "check"
         /\ run.need # <<>> /\ Head(run.need) \in Tools
         /\ UNCHANGED <<host, child, readyVars>>
         /\ \/ /\ checked[Head(run.need)] = "found" \/ Head(run.need) \in host.tools
               /\ checked' = [checked EXCEPT ![Head(run.need)] = "found"]
               /\ RunIs("check", Tail(run.need), run.todo, run.ran, run.touched,
                        run.verdict, run.blamed)
            \/ /\ \/ checked[Head(run.need)] = "missing"
                  \/ Head(run.need) \notin host.tools \/ interrupted
               /\ checked' = [checked EXCEPT ![Head(run.need)] = "missing"]
               /\ RunIs("done", run.need, run.todo, run.ran, run.touched,
                        IF interrupted THEN "interrupted" ELSE "missing", Head(run.need))
<1> DEFINE tool == Head(run.need)
           found == IF checked[tool] # "unknown" THEN checked[tool]
                    ELSE IF tool \in host.tools /\ ~interrupted THEN "found"
                    ELSE "missing"
           verdict == IF interrupted THEN "interrupted" ELSE "missing"
<1>1. /\ run.pc = "check" /\ run.need # <<>> /\ UNCHANGED <<host, child, readyVars>>
      /\ checked' = [checked EXCEPT ![tool] = found]
      /\ run' = IF found = "found" THEN [run EXCEPT !.need = Tail(run.need)]
                ELSE [run EXCEPT !.pc = "done", !.blamed = tool, !.verdict = verdict]
  BY DEF CheckTool
<1>2. tool \in Tools /\ Tail(run.need) \in Seq(Tools)
  BY <1>1, FieldsAre, HeadTailProperties
<1>3. found \in {"found", "missing"} /\ verdict \in Outcomes
  BY <1>2 DEF ProvTypeOK, Outcomes
<1>4. /\ found = "found" => checked[tool] = "found" \/ tool \in host.tools
      /\ found = "missing" =>
           checked[tool] = "missing" \/ tool \notin host.tools \/ interrupted
  OBVIOUS
<1> HIDE DEF tool, found, verdict
<1>5. CASE found = "found"
  <2>1. run' = [run EXCEPT !.need = Tail(run.need)]
    BY <1>1, <1>5
  <2>2. run' \in Runs
    BY <1>2, <2>1 DEF ProvTypeOK, Runs
  <2>3. RunIs("check", Tail(run.need), run.todo, run.ran, run.touched, run.verdict,
              run.blamed)
    BY <1>1, <2>1 DEF ProvTypeOK, Runs, RunIs
  <2> QED
    BY <1>1, <1>2, <1>4, <1>5, <2>2, <2>3 DEF tool
<1>6. CASE found = "missing"
  <2>1. run' = [run EXCEPT !.pc = "done", !.blamed = tool, !.verdict = verdict]
    BY <1>1, <1>6
  <2>2. run' \in Runs
    BY <1>2, <1>3, <2>1, Names DEF ProvTypeOK, Runs
  <2>3. RunIs("done", run.need, run.todo, run.ran, run.touched, verdict, tool)
    BY <2>1 DEF ProvTypeOK, Runs, RunIs
  <2> QED
    BY <1>1, <1>2, <1>4, <1>6, <2>2, <2>3 DEF tool, verdict
<1> QED
  BY <1>3, <1>5, <1>6

LEMMA CheckedIs ==
  ASSUME ProvTypeOK, Checked
  PROVE  /\ run' \in Runs /\ run.pc = "check" /\ run.need = <<>>
         /\ UNCHANGED <<checked, host, child, readyVars>>
         /\ \/ ~run.touched /\ Moves("instance")
            \/ run.touched /\ Moves("prepare")
            \/ run.touched /\ Moves("launch")
<1> DEFINE ansible == KindAt(run.decl, Head(run.todo)) = "ansible"
<1>1. /\ run.pc = "check" /\ run.need = <<>>
      /\ UNCHANGED <<checked, host, child, readyVars>>
      /\ Goes(IF ~run.touched THEN "instance"
              ELSE IF ansible THEN "prepare" ELSE "launch")
  BY DEF Checked
<1> HIDE DEF ansible
<1>2. CASE ~run.touched
  BY <1>1, <1>2, GoesIs, Names
<1>3. CASE run.touched /\ ansible
  BY <1>1, <1>3, GoesIs, Names
<1>4. CASE run.touched /\ ~ansible
  BY <1>1, <1>4, GoesIs, Names
<1>5. run.touched \in BOOLEAN
  BY DEF ProvTypeOK, Runs
<1> QED
  BY <1>2, <1>3, <1>4, <1>5

LEMMA InstanceReadyIs ==
  ASSUME ProvTypeOK, InstanceReady
  PROVE  /\ run' \in Runs /\ run.pc = "instance"
         /\ UNCHANGED <<checked, host, child, readyVars>>
         /\ \/ RunIs("wait", run.need, run.todo, run.ran, TRUE, run.verdict, run.blamed)
            \/ Ends("failed")
            \/ Ends("interrupted")
<1>1. CASE run' = [run EXCEPT !.pc = "wait", !.touched = TRUE]
  BY <1>1, Names DEF InstanceReady, ProvTypeOK, Runs, RunIs
<1>2. CASE EndsWith("failed")
  BY <1>2, EndsIs, Names DEF InstanceReady
<1>3. CASE EndsWith("interrupted")
  BY <1>3, EndsIs, Names DEF InstanceReady
<1> QED
  BY <1>1, <1>2, <1>3 DEF InstanceReady

LEMMA WaitedIs ==
  ASSUME ProvTypeOK, Waited
  PROVE  /\ run' \in Runs /\ run.pc = "wait"
         /\ UNCHANGED <<checked, host, child, readyVars>>
         /\ Moves("steps") \/ Ends("interrupted") \/ Ends("failed")
<1>1. /\ run.pc = "wait" /\ UNCHANGED <<checked, host, child, readyVars>>
      /\ Goes("steps") \/ EndsWith("interrupted") \/ EndsWith("failed")
  BY DEF Waited
<1>2. CASE Goes("steps")
  BY <1>1, <1>2, GoesIs, Names
<1>3. CASE EndsWith("interrupted")
  BY <1>1, <1>3, EndsIs, Names
<1>4. CASE EndsWith("failed")
  BY <1>1, <1>4, EndsIs, Names
<1> QED
  BY <1>1, <1>2, <1>3, <1>4

\* A step that is under way is the head of what is left.
LEMMA LaunchedIs ==
  ASSUME ProvTypeOK, run.todo # <<>>, NEW pc \in RunPcs,
         run' = [Launched EXCEPT !.pc = pc]
  PROVE  /\ run' \in Runs
         /\ RunIs(pc, run.need, run.todo, Append(run.ran, Head(run.todo)), run.touched,
                  run.verdict, run.blamed)
<1>1. Head(run.todo) \in Items
  BY FieldsAre, HeadTailProperties
<1>2. Append(run.ran, Head(run.todo)) \in Seq(Items)
  BY <1>1, FieldsAre, AppendProperties
<1> DEFINE ran == Append(run.ran, Head(run.todo))
<1>3. run' = [[run EXCEPT !.ran = ran] EXCEPT !.pc = pc]
  BY DEF Launched
<1> HIDE DEF ran
<1>4. run' \in Runs
  BY <1>2, <1>3 DEF ProvTypeOK, Runs, ran
<1>5. RunIs(pc, run.need, run.todo, ran, run.touched, run.verdict, run.blamed)
  BY <1>3 DEF ProvTypeOK, Runs, RunIs
<1> QED
  BY <1>4, <1>5 DEF ran

LEMMA NextStepIs ==
  ASSUME ProvTypeOK, NextStep
  PROVE  /\ run' \in Runs /\ run.pc = "steps" /\ run.todo # <<>>
         /\ UNCHANGED <<checked, host, child, readyVars>>
         /\ \/ RunIs("exec", run.need, run.todo, Append(run.ran, Head(run.todo)),
                     run.touched, run.verdict, run.blamed)
            \/ RunIs("check", <<"galaxy">>, run.todo, run.ran, run.touched,
                     run.verdict, run.blamed)
            \/ /\ KindAt(run.decl, Head(run.todo)) \notin {"run", "galaxy"}
               /\ RunIs("check", <<"playbook", "plugin">>, run.todo, run.ran, run.touched,
                        run.verdict, run.blamed)
<1> DEFINE kind == KindAt(run.decl, Head(run.todo))
<1>1. /\ run.pc = "steps" /\ run.todo # <<>>
      /\ UNCHANGED <<checked, host, child, readyVars>>
      /\ \/ kind = "run" /\ run' = [Launched EXCEPT !.pc = "exec"]
         \/ kind = "galaxy" /\ run' = [run EXCEPT !.pc = "check", !.need = <<"galaxy">>]
         \/ /\ kind \notin {"run", "galaxy"}
            /\ run' = [run EXCEPT !.pc = "check", !.need = <<"playbook", "plugin">>]
  BY DEF NextStep
<1> HIDE DEF kind
<1>2. CASE kind = "run" /\ run' = [Launched EXCEPT !.pc = "exec"]
  BY <1>1, <1>2, LaunchedIs, Names
<1>3. CASE run' = [run EXCEPT !.pc = "check", !.need = <<"galaxy">>]
  <2> DEFINE need == <<"galaxy">>
  <2>1. need \in Seq(Tools)
    BY DEF Tools
  <2> HIDE DEF need
  <2>2. run' \in Runs
    BY <1>3, <2>1, Names DEF ProvTypeOK, Runs, need
  <2> QED
    BY <1>1, <1>3, <2>2 DEF ProvTypeOK, Runs, RunIs
<1>4. CASE /\ kind \notin {"run", "galaxy"}
           /\ run' = [run EXCEPT !.pc = "check", !.need = <<"playbook", "plugin">>]
  <2> DEFINE need == <<"playbook", "plugin">>
  <2>1. need \in Seq(Tools)
    BY DEF Tools
  <2> HIDE DEF need
  <2>2. run' \in Runs
    BY <1>4, <2>1, Names DEF ProvTypeOK, Runs, need
  <2> QED
    BY <1>1, <1>4, <2>2 DEF ProvTypeOK, Runs, RunIs, kind
<1> QED
  BY <1>1, <1>2, <1>3, <1>4

LEMMA AllRunIs ==
  ASSUME ProvTypeOK, AllRun
  PROVE  /\ run' \in Runs /\ run.pc = "steps" /\ run.todo = <<>> /\ Ends("ok")
         /\ UNCHANGED <<checked, host, child, readyVars>>
  BY EndsIs, Names DEF AllRun

LEMMA ConcludedIs ==
  ASSUME ProvTypeOK, run.todo # <<>>, NEW verdict \in Outcomes, Concluded(verdict)
  PROVE  /\ run' \in Runs
         /\ \/ /\ verdict = "ok"
               /\ RunIs("steps", run.need, Tail(run.todo), run.ran, run.touched,
                        run.verdict, run.blamed)
            \/ verdict # "ok" /\ Ends(verdict)
<1>1. CASE verdict = "ok"
  <2>1. Tail(run.todo) \in Seq(Items)
    BY FieldsAre, HeadTailProperties
  <2>2. run' = [run EXCEPT !.pc = "steps", !.todo = Tail(run.todo)]
    BY <1>1 DEF Concluded
  <2>3. run' \in Runs
    BY <2>1, <2>2, Names DEF ProvTypeOK, Runs
  <2> QED
    BY <1>1, <2>2, <2>3 DEF ProvTypeOK, Runs, RunIs
<1>2. CASE verdict # "ok"
  BY <1>2, EndsIs DEF Concluded
<1> QED
  BY <1>1, <1>2

LEMMA ExecEndsIs ==
  ASSUME ProvBase, ExecEnds
  PROVE  /\ run' \in Runs /\ run.pc = "exec"
         /\ UNCHANGED <<checked, host, child, readyVars>>
         /\ \/ RunIs("steps", run.need, Tail(run.todo), run.ran, run.touched,
                     run.verdict, run.blamed)
            \/ Ends("failed")
            \/ Ends("interrupted")
<1>1. /\ run.pc = "exec" /\ run.todo # <<>> /\ ProvTypeOK
      /\ UNCHANGED <<checked, host, child, readyVars>>
      /\ Concluded("ok") \/ Concluded("failed") \/ Concluded("interrupted")
  BY StepIsThere DEF ExecEnds
<1>2. CASE Concluded("ok")
  BY <1>1, <1>2, ConcludedIs, Names
<1>3. CASE Concluded("failed")
  BY <1>1, <1>3, ConcludedIs, Names
<1>4. CASE Concluded("interrupted")
  BY <1>1, <1>4, ConcludedIs, Names
<1> QED
  BY <1>1, <1>2, <1>3, <1>4

LEMMA PrepareIs ==
  ASSUME ProvTypeOK, Prepare
  PROVE  /\ run' \in Runs /\ run.pc = "prepare"
         /\ host' \in [tools : SUBSET Tools, temp : BOOLEAN] /\ host'.tools = host.tools
         /\ UNCHANGED <<checked, child, readyVars>>
         /\ Moves("launch") \/ Ends("failed")
<1>1. CASE Goes("launch") /\ host' = [host EXCEPT !.temp = TRUE]
  <2>1. Moves("launch") /\ run' \in Runs
    BY <1>1, GoesIs, Names
  <2> QED
    BY <1>1, <2>1 DEF Prepare, ProvTypeOK
<1>2. CASE EndsWith("failed") /\ UNCHANGED host
  <2>1. Ends("failed") /\ run' \in Runs
    BY <1>2, EndsIs, Names
  <2> QED
    BY <1>2, <2>1 DEF Prepare, ProvTypeOK
<1> QED
  BY <1>1, <1>2 DEF Prepare

LEMMA LaunchIs ==
  ASSUME ProvBase, Launch
  PROVE  /\ run' \in Runs /\ run.pc = "launch"
         /\ host' \in [tools : SUBSET Tools, temp : BOOLEAN] /\ host'.tools = host.tools
         /\ UNCHANGED <<checked, readyVars>>
         /\ \/ /\ RunIs("running", run.need, run.todo, Append(run.ran, Head(run.todo)),
                        run.touched, run.verdict, run.blamed)
               /\ child' \in Children /\ ~child'.asked
            \/ Ends("interrupted") /\ UNCHANGED child
<1>1. /\ run.pc = "launch" /\ run.todo # <<>> /\ ProvTypeOK
      /\ UNCHANGED <<checked, readyVars>>
  BY StepIsThere DEF Launch
<1>2. CASE /\ run' = [Launched EXCEPT !.pc = "running"]
           /\ \E held \in BOOLEAN :
                child' = [NoChild EXCEPT !.state = "running", !.held = held]
           /\ UNCHANGED host
  <2>1. /\ run' \in Runs
        /\ RunIs("running", run.need, run.todo, Append(run.ran, Head(run.todo)),
                 run.touched, run.verdict, run.blamed)
    BY <1>1, <1>2, LaunchedIs, Names
  <2>2. child' \in Children /\ ~child'.asked
    BY <1>2 DEF Children, NoChild
  <2> QED
    BY <1>1, <1>2, <2>1, <2>2 DEF ProvTypeOK
<1>3. CASE /\ EndsWith("interrupted") /\ host' = [host EXCEPT !.temp = FALSE]
           /\ UNCHANGED child
  <2>1. Ends("interrupted") /\ run' \in Runs
    BY <1>1, <1>3, EndsIs, Names
  <2> QED
    BY <1>1, <1>3, <2>1 DEF ProvTypeOK
<1> QED
  BY <1>2, <1>3 DEF Launch

\* The host command and runner.Exec, until the call returns.
ChildSteps == ChildExits \/ OutputCloses \/ AskToStop \/ KillChild \/ CutOutput

LEMMA ChildStepsAre ==
  ASSUME ProvTypeOK, ChildSteps
  PROVE  /\ child' \in Children /\ child.state # "none"
         /\ host' \in [tools : SUBSET Tools, temp : BOOLEAN]
         /\ host.tools \subseteq host'.tools
         /\ child'.asked => child.asked \/ interrupted
         /\ UNCHANGED <<run, checked, readyVars>>
<1> USE DEF ProvTypeOK, Children
<1>1. CASE ChildExits
  <2>1. /\ child.state = "running" /\ UNCHANGED <<run, checked, readyVars>>
        /\ host' = host \/ host' = [host EXCEPT !.tools = host.tools \cup {"plugin"}]
    BY <1>1 DEF ChildExits
  <2>2. PICK exit \in {"zero", "other"} :
          child' = [child EXCEPT !.state = "exited", !.exit = exit]
    BY <1>1 DEF ChildExits, ChildEnds
  <2>3. child' \in Children /\ child'.asked = child.asked
    BY <2>2
  <2>4. /\ host' \in [tools : SUBSET Tools, temp : BOOLEAN]
        /\ host.tools \subseteq host'.tools
    BY <2>1 DEF Tools
  <2> QED
    BY <2>1, <2>3, <2>4
<1>2. CASE OutputCloses
  BY <1>2 DEF OutputCloses
<1>3. CASE AskToStop
  BY <1>3 DEF AskToStop
<1>4. CASE KillChild
  BY <1>4 DEF KillChild, ChildEnds
<1>5. CASE CutOutput
  BY <1>5 DEF CutOutput
<1> QED
  BY <1>1, <1>2, <1>3, <1>4, <1>5 DEF ChildSteps

LEMMA VerdictIs ==
  Verdict \in {"ok", "interrupted", "failed"}
  BY DEF Verdict

LEMMA RunReturnsIs ==
  ASSUME ProvBase, RunReturns
  PROVE  /\ run' \in Runs /\ run.pc = "running"
         /\ child' = NoChild /\ child' \in Children
         /\ host' \in [tools : SUBSET Tools, temp : BOOLEAN] /\ host'.tools = host.tools
         /\ UNCHANGED <<checked, readyVars>>
         /\ \/ /\ Verdict = "ok"
               /\ RunIs("steps", run.need, Tail(run.todo), run.ran, run.touched,
                        run.verdict, run.blamed)
            \/ Verdict # "ok" /\ Ends(Verdict)
<1>1. /\ run.pc = "running" /\ run.todo # <<>> /\ ProvTypeOK /\ Concluded(Verdict)
      /\ child' = NoChild /\ host' = [host EXCEPT !.temp = FALSE]
      /\ UNCHANGED <<checked, readyVars>>
  BY StepIsThere DEF RunReturns
<1>2. Verdict \in Outcomes
  BY VerdictIs, Names
<1>3. /\ run' \in Runs
      /\ \/ /\ Verdict = "ok"
            /\ RunIs("steps", run.need, Tail(run.todo), run.ran, run.touched,
                     run.verdict, run.blamed)
         \/ Verdict # "ok" /\ Ends(Verdict)
  BY <1>1, <1>2, ConcludedIs
<1>4. NoChild \in Children
  BY DEF NoChild, Children
<1>5. host' \in [tools : SUBSET Tools, temp : BOOLEAN] /\ host'.tools = host.tools
  BY <1>1 DEF ProvTypeOK
<1> QED
  BY <1>1, <1>3, <1>4, <1>5

-----------------------------------------------------------------------------
\* The wait for the instance is Readiness, whatever else the command does.
LEMMA WaitIsReadinessStep == [ProvNext]_vars => [ReadyNext]_readyVars
<1> SUFFICES ASSUME [ProvNext]_vars PROVE [ReadyNext]_readyVars
  OBVIOUS
<1>1. CASE Command
  BY <1>1 DEF Command, Begin, CheckTool, Checked, InstanceReady, Waited, NextStep,
              AllRun, Prepare, Launch
<1>2. CASE ExecEnds \/ Runner \/ ChildExits \/ OutputCloses
  BY <1>2 DEF ExecEnds, Runner, AskToStop, KillChild, CutOutput, RunReturns, ChildExits,
              OutputCloses
<1>3. CASE WaitReady
  BY <1>3 DEF WaitReady, ReadyNext
<1>4. CASE Tick \/ AddressChanges \/ Interrupt
  BY <1>4 DEF ReadyNext
<1>5. CASE ProvDone \/ UNCHANGED vars
  BY <1>5 DEF ProvDone, vars
<1> QED
  BY <1>1, <1>2, <1>3, <1>4, <1>5 DEF ProvNext

\* Steps of waitReady, of time, of the instance and of the user.
Outside == [ReadyNext]_readyVars /\ UNCHANGED provVars

\* Every step of the command, in the order the proofs take them.
LEMMA StepsAre ==
  ASSUME [ProvNext]_vars
  PROVE  \/ Begin \/ CheckTool \/ Checked \/ InstanceReady \/ Waited
         \/ NextStep \/ AllRun \/ ExecEnds \/ Prepare \/ Launch
         \/ ChildSteps \/ RunReturns \/ Outside
<1>1. [ReadyNext]_readyVars
  BY WaitIsReadinessStep
<1>2. CASE UNCHANGED provVars
  BY <1>1, <1>2 DEF Outside
<1>3. CASE ~UNCHANGED provVars
  BY <1>3 DEF ProvNext, Command, Runner, WaitReady, ProvDone, vars, ChildSteps
<1> QED
  BY <1>2, <1>3

-----------------------------------------------------------------------------
LEMMA BaseStep == ProvBase /\ [ProvNext]_vars => ProvBase'
<1> SUFFICES ASSUME ProvBase, [ProvNext]_vars PROVE ProvBase'
  OBVIOUS
<1>0. ProvTypeOK /\ Underway
  BY DEF ProvBase
<1>1. /\ ReadyTypeOK' /\ (interrupted => interrupted')
  <2>1. [ReadyNext]_readyVars /\ ReadyTypeOK
    BY <1>0, WaitIsReadinessStep DEF ProvTypeOK
  <2>2. interrupted => interrupted'
    BY <2>1 DEF ReadyNext, readyVars, BeginWait, Probe, Polls, PauseOver, PauseEnds,
                ReadInstance, Classify, CheckLimit, RestOver, RestEnds, Tick,
                AddressChanges, Interrupt, ReadyDone
  <2> QED
    BY <2>1, <2>2, TypeStep
<1> DEFINE RestTyped == /\ run' \in Runs
                        /\ checked' \in [Tools -> {"unknown", "found", "missing"}]
                        /\ host' \in [tools : SUBSET Tools, temp : BOOLEAN]
                        /\ child' \in Children
<1>2. SUFFICES RestTyped /\ Underway'
  BY <1>1 DEF ProvBase, ProvTypeOK
<1>3. /\ run \in Runs /\ checked \in [Tools -> {"unknown", "found", "missing"}]
      /\ host \in [tools : SUBSET Tools, temp : BOOLEAN] /\ child \in Children
      /\ run.touched \in BOOLEAN
  BY <1>0 DEF ProvTypeOK, Runs
<1> HIDE DEF RestTyped
<1>4. CASE Begin
  BY <1>0, <1>1, <1>3, <1>4, BeginIs DEF RestTyped, Underway, RunIs, Ends, Moves
<1>5. CASE CheckTool
  <2>1. checked' \in [Tools -> {"unknown", "found", "missing"}]
    BY <1>0, <1>3, <1>5, CheckToolIs
  <2> QED
    BY <1>0, <1>1, <1>3, <1>5, <2>1, CheckToolIs DEF RestTyped, Underway, RunIs
<1>6. CASE Checked
  BY <1>0, <1>1, <1>3, <1>6, CheckedIs DEF RestTyped, Underway, RunIs, Moves
<1>7. CASE InstanceReady
  BY <1>0, <1>1, <1>3, <1>7, InstanceReadyIs DEF RestTyped, Underway, RunIs, Ends
<1>8. CASE Waited
  BY <1>0, <1>1, <1>3, <1>8, WaitedIs DEF RestTyped, Underway, RunIs, Moves, Ends
<1>9. CASE NextStep
  BY <1>0, <1>1, <1>3, <1>9, NextStepIs DEF RestTyped, Underway, RunIs
<1>10. CASE AllRun
  BY <1>0, <1>1, <1>3, <1>10, AllRunIs DEF RestTyped, Underway, RunIs, Ends
<1>11. CASE ExecEnds
  BY <1>0, <1>1, <1>3, <1>11, ExecEndsIs DEF RestTyped, Underway, RunIs, Ends
<1>12. CASE Prepare
  BY <1>0, <1>1, <1>3, <1>12, PrepareIs DEF RestTyped, Underway, RunIs, Moves, Ends
<1>13. CASE Launch
  BY <1>0, <1>1, <1>3, <1>13, LaunchIs DEF RestTyped, Underway, RunIs, Ends
<1>14. CASE ChildSteps
  BY <1>0, <1>1, <1>3, <1>14, ChildStepsAre DEF RestTyped, Underway
<1>15. CASE RunReturns
  BY <1>0, <1>1, <1>3, <1>15, RunReturnsIs DEF RestTyped, Underway, RunIs, Ends, NoChild
<1>16. CASE Outside
  BY <1>0, <1>1, <1>3, <1>16 DEF RestTyped, Underway, Outside, provVars
<1> QED
  BY <1>4, <1>5, <1>6, <1>7, <1>8, <1>9, <1>10, <1>11, <1>12, <1>13, <1>14, <1>15, <1>16,
     StepsAre

\* What a command begins with.
LEMMA InitIs ==
  ASSUME ProvInit
  PROVE  /\ ReadyInit /\ run \in Runs
         /\ run.pc = "start" /\ run.need = <<>> /\ run.todo = <<>> /\ run.ran = <<>>
         /\ run.touched = FALSE /\ run.verdict = "none" /\ run.blamed = "none"
         /\ checked = [tool \in Tools |-> "unknown"]
         /\ host \in [tools : SUBSET Tools, temp : BOOLEAN]
         /\ child = NoChild /\ child \in Children
<1>1. PICK cmd \in {"up", "provision"}, decl \in Declarations,
           sel \in Selections \cup {Everything} :
        run = [cmd |-> cmd, decl |-> decl, sel |-> sel, pc |-> "start",
               need |-> <<>>, todo |-> <<>>, ran |-> <<>>, touched |-> FALSE,
               verdict |-> "none", blamed |-> "none"]
  BY DEF ProvInit
<1>2. <<>> \in Seq(Tools) /\ <<>> \in Seq(Items)
  OBVIOUS
<1>3. run \in Runs
  BY <1>1, <1>2 DEF Runs, RunPcs, Outcomes
<1>4. PICK tools \in SUBSET Tools : host = [tools |-> tools, temp |-> FALSE]
  BY DEF ProvInit
<1>5. NoChild \in Children
  BY DEF NoChild, Children
<1> QED
  BY <1>1, <1>3, <1>4, <1>5 DEF ProvInit

LEMMA BaseInit == ProvInit => ProvBase
<1> SUFFICES ASSUME ProvInit PROVE ProvBase
  OBVIOUS
<1>1. ReadyTypeOK
  BY InitIs, ReadyTypeInit
<1>2. checked \in [Tools -> {"unknown", "found", "missing"}]
  BY InitIs
<1>3. ProvTypeOK
  BY <1>1, <1>2, InitIs DEF ProvTypeOK
<1>4. Underway
  <2>1. child.state = "none" /\ ~child.asked
    BY InitIs DEF NoChild
  <2>2. run.pc = "start" /\ ~run.touched /\ run.ran = <<>> /\ run.verdict = "none"
    BY InitIs
  <2> QED
    BY <2>1, <2>2 DEF Underway
<1> QED
  BY <1>3, <1>4 DEF ProvBase

\* ProvTypeOK is not inductive: Head and Tail need a step to be there.  A step
\* under way is the head of what is left, and a host command runs only while
\* idev waits for it, asked to stop only by an interruption.
THEOREM ProvBaseCorrect == ProvSpec => []ProvBase
  BY BaseInit, BaseStep, PTL DEF ProvSpec

\* The state of a command alone, which is what the run checks.
THEOREM ProvTypeCorrect == ProvSpec => []ProvTypeOK
<1>1. ProvBase => ProvTypeOK
  BY DEF ProvBase
<1> QED
  BY <1>1, ProvBaseCorrect, PTL

\* The wait inside a command is the wait of Readiness.
THEOREM WaitIsReadiness == ProvSpec => ReadyInit /\ [][ReadyNext]_readyVars
<1>1. ProvInit => ReadyInit
  BY DEF ProvInit
<1> QED
  BY <1>1, WaitIsReadinessStep, PTL DEF ProvSpec

\* up and provision do not settle for IPv6 alone either.
THEOREM GraceIsGivenInProvision == ProvSpec => []GraceGiven
<1>1. ReadyInit => ReadyTypeOK /\ GraceInv
  BY ReadyTypeInit DEF ReadyInit, GraceInv, GraceGiven
<1>2. GraceInv => GraceGiven
  BY DEF GraceInv
<1>3. ReadyInit /\ [][ReadyNext]_readyVars => []GraceGiven
  BY <1>1, <1>2, TypeStep, GraceStep, PTL
<1> QED
  BY <1>3, WaitIsReadiness, PTL

\* What the end of a host command says of the run.
LEMMA OutcomeStep ==
  ASSUME ProvBase, [ProvNext]_vars, run.pc = "running", run'.pc # "running"
  PROVE  /\ child.asked => run'.verdict = "interrupted"
         /\ child.exit = "zero" /\ ~interrupted => run'.pc = "steps"
         /\ run'.pc = "steps" => child.exit = "zero"
<1>1. ProvTypeOK /\ (child.asked => interrupted)
  BY DEF ProvBase, Underway
<1>2. RunReturns
  BY StepsAre DEF Begin, CheckTool, Checked, InstanceReady, Waited, NextStep, AllRun,
     ExecEnds, Prepare, Launch, ChildSteps, ChildExits, OutputCloses, AskToStop,
     KillChild, CutOutput, Outside, provVars
<1>3. \/ Verdict = "ok" /\ run'.pc = "steps"
      \/ Verdict # "ok" /\ run'.pc = "done" /\ run'.verdict = Verdict
  BY <1>2, RunReturnsIs DEF RunIs, Ends
<1>4. child \in Children
  BY <1>1 DEF ProvTypeOK
<1> QED
  BY <1>1, <1>3, <1>4 DEF Verdict, Children

\* A command asked to stop is an interruption, one that ended well and was left
\* alone is a success, and nothing follows a command that failed.
THEOREM OutcomesAreTrue == ProvSpec => OutcomeIsTrue
<1>1. ProvBase /\ [ProvNext]_vars =>
        [run.pc = "running" /\ run'.pc # "running" =>
           /\ child.asked => run'.verdict = "interrupted"
           /\ child.exit = "zero" /\ ~interrupted => run'.pc = "steps"
           /\ run'.pc = "steps" => child.exit = "zero"]_vars
  BY OutcomeStep
<1> QED
  BY <1>1, ProvBaseCorrect, PTL DEF ProvSpec, OutcomeIsTrue

-----------------------------------------------------------------------------
(* Every run keeps to its plan.                                            *)

\* What has run is the start of the plan and what is left is the rest of it; the
\* step under way is in both.
Starts(ran, plan) ==
  Len(ran) <= Len(plan) /\ \A i \in 1 .. Len(ran) : ran[i] = plan[i]

Finishes(todo, plan) ==
  /\ Len(todo) <= Len(plan)
  /\ \A i \in 1 .. Len(todo) : todo[i] = plan[Len(plan) - Len(todo) + i]

StepTaken == run.pc \in {"exec", "running"}

PlanFollowed ==
  LET plan == Plan(run.decl, run.sel)
  IN  /\ Starts(run.ran, plan)
      /\ run.pc \notin {"start", "done"} =>
           /\ Resolves(run.decl.provision, run.sel)
           /\ Finishes(run.todo, plan)
           /\ ~StepTaken => Len(run.ran) + Len(run.todo) = Len(plan)
           /\ StepTaken => Len(run.ran) + Len(run.todo) = Len(plan) + 1
      /\ run.ran # <<>> => Resolves(run.decl.provision, run.sel)
      /\ run.verdict = "ok" => Len(run.ran) = Len(plan)

\* Starting the step at the head of the rest.
LEMMA AppendHead ==
  ASSUME NEW plan \in Seq(Items), NEW ran \in Seq(Items), NEW todo \in Seq(Items),
         todo # <<>>, Starts(ran, plan), Finishes(todo, plan),
         Len(ran) + Len(todo) = Len(plan)
  PROVE  /\ Starts(Append(ran, Head(todo)), plan)
         /\ Len(Append(ran, Head(todo))) + Len(todo) = Len(plan) + 1
<1> DEFINE longer == Append(ran, Head(todo))
<1>1. Len(todo) \in Nat /\ Len(todo) # 0 /\ Len(ran) \in Nat /\ Len(plan) \in Nat
  BY EmptySeq, LenProperties
<1>2. Head(todo) \in Items /\ Head(todo) = todo[1]
  BY HeadTailProperties
<1>3. /\ Len(longer) = Len(ran) + 1
      /\ \A i \in 1 .. Len(ran) : longer[i] = ran[i]
      /\ longer[Len(ran) + 1] = Head(todo)
  BY <1>2, AppendProperties
<1>4. todo[1] = plan[Len(ran) + 1]
  <2>1. 1 \in 1 .. Len(todo) /\ Len(plan) - Len(todo) + 1 = Len(ran) + 1
    BY <1>1
  <2> QED
    BY <2>1 DEF Finishes
<1> HIDE DEF longer
<1>5. \A i \in 1 .. Len(longer) : i = Len(ran) + 1 \/ i \in 1 .. Len(ran)
  BY <1>1, <1>3
<1>6. \A i \in 1 .. Len(longer) : longer[i] = plan[i]
  BY <1>2, <1>3, <1>4, <1>5 DEF Starts
<1> QED
  <2>1. Len(longer) <= Len(plan) /\ Len(longer) + Len(todo) = Len(plan) + 1
    <3> DEFINE a == Len(ran)
               b == Len(todo)
               c == Len(plan)
               d == Len(longer)
    <3>1. a \in Nat /\ b \in Nat /\ c \in Nat /\ b # 0
      BY <1>1
    <3>2. a + b = c /\ d = a + 1
      BY <1>3
    <3> HIDE DEF a, b, c, d
    <3>3. d <= c /\ d + b = c + 1
      BY <3>1, <3>2
    <3> QED
      BY <3>3 DEF b, c, d
  <2> QED
    BY <1>6, <2>1 DEF longer, Starts

\* Going on to the next step.
LEMMA TailOfRest ==
  ASSUME NEW plan \in Seq(Items), NEW todo \in Seq(Items), todo # <<>>,
         Finishes(todo, plan)
  PROVE  Finishes(Tail(todo), plan) /\ Len(Tail(todo)) = Len(todo) - 1
<1> DEFINE rest == Tail(todo)
<1>1. Len(todo) \in Nat /\ Len(todo) # 0 /\ Len(plan) \in Nat
  BY EmptySeq, LenProperties
<1>2. Len(rest) = Len(todo) - 1 /\ \A i \in 1 .. Len(rest) : rest[i] = todo[i + 1]
  BY HeadTailProperties
<1> HIDE DEF rest
<1>3. ASSUME NEW i \in 1 .. Len(rest)
      PROVE  rest[i] = plan[Len(plan) - Len(rest) + i]
  <2>1. i + 1 \in 1 .. Len(todo)
        /\ Len(plan) - Len(todo) + (i + 1) = Len(plan) - Len(rest) + i
    BY <1>1, <1>2
  <2>2. todo[i + 1] = plan[Len(plan) - Len(todo) + (i + 1)]
    BY <2>1 DEF Finishes
  <2> QED
    BY <1>2, <2>1, <2>2
<1> QED
  BY <1>1, <1>2, <1>3 DEF Finishes, rest

LEMMA PlanFollowedStep ==
  ASSUME ProvBase, PlanFollowed, [ProvNext]_vars
  PROVE  PlanFollowed'
<1> DEFINE plan == Plan(run.decl, run.sel)
<1>1. ProvTypeOK /\ Underway
  BY DEF ProvBase
<1>2. /\ run.decl \in Declarations /\ plan \in Seq(Items)
      /\ run.todo \in Seq(Items) /\ run.ran \in Seq(Items)
      /\ Len(plan) \in Nat /\ Len(run.todo) \in Nat /\ Len(run.ran) \in Nat
  BY <1>1, FieldsAre, PlanIs, LenProperties
<1>3. /\ Starts(run.ran, plan)
      /\ run.pc \notin {"start", "done"} =>
           /\ Resolves(run.decl.provision, run.sel)
           /\ Finishes(run.todo, plan)
           /\ ~StepTaken => Len(run.ran) + Len(run.todo) = Len(plan)
           /\ StepTaken => Len(run.ran) + Len(run.todo) = Len(plan) + 1
      /\ run.ran # <<>> => Resolves(run.decl.provision, run.sel)
      /\ run.verdict = "ok" => Len(run.ran) = Len(plan)
  BY DEF PlanFollowed
<1>4. SUFFICES
        /\ run'.decl = run.decl /\ run'.sel = run.sel
        /\ Starts(run'.ran, plan)
        /\ run'.pc \notin {"start", "done"} =>
             /\ Resolves(run.decl.provision, run.sel)
             /\ Finishes(run'.todo, plan)
             /\ ~StepTaken' => Len(run'.ran) + Len(run'.todo) = Len(plan)
             /\ StepTaken' => Len(run'.ran) + Len(run'.todo) = Len(plan) + 1
        /\ run'.ran # <<>> => Resolves(run.decl.provision, run.sel)
        /\ run'.verdict = "ok" => Len(run'.ran) = Len(plan)
  BY DEF PlanFollowed
<1> HIDE DEF plan
<1>5. CASE UNCHANGED run
  BY <1>3, <1>5 DEF StepTaken
<1>6. CASE Begin
  <2>1. CASE Ends("refused")
    BY <1>3, <1>1, <2>1 DEF Ends, RunIs
  <2>2. CASE /\ Resolves(run.decl.provision, run.sel)
             /\ RunIs("check", Prerequisites(Kinds(run.decl, run.sel)), plan, run.ran,
                      run.touched, run.verdict, run.blamed)
    <3>1. run.pc = "start" /\ run.ran = <<>> /\ Len(run.ran) = 0 /\ run.verdict = "none"
      BY <1>1, <1>6, BeginIs, EmptySeq DEF Underway
    <3>2. Finishes(plan, plan)
      BY <1>2 DEF Finishes
    <3> QED
      BY <1>2, <1>3, <2>2, <3>1, <3>2 DEF RunIs, StepTaken
  <2> QED
    BY <1>1, <1>6, <2>1, <2>2, BeginIs DEF plan
\* Steps that leave what has run and what is left alone.
<1>7. CASE CheckTool
  <2>1. run.pc = "check" /\ run.verdict = "none"
    BY <1>1, <1>7, CheckToolIs DEF Underway
  <2> QED
    BY <1>1, <1>3, <1>7, <2>1, CheckToolIs DEF RunIs, StepTaken
<1>8. CASE Checked \/ InstanceReady \/ Waited \/ Prepare
  <2>1. /\ run.pc \in {"check", "instance", "wait", "prepare"} /\ run.verdict = "none"
        /\ run'.decl = run.decl /\ run'.sel = run.sel
        /\ run'.ran = run.ran /\ run'.todo = run.todo
        /\ run'.pc \notin {"exec", "running"}
        /\ run'.verdict # "ok"
    BY <1>1, <1>8, CheckedIs, InstanceReadyIs, WaitedIs, PrepareIs
       DEF Underway, Moves, Ends, RunIs
  <2> QED
    BY <1>3, <2>1 DEF StepTaken
<1>9. CASE NextStep
  <2>1. run.pc = "steps" /\ run.todo # <<>> /\ run.verdict = "none"
    BY <1>1, <1>9, NextStepIs DEF Underway
  <2>2. /\ Starts(Append(run.ran, Head(run.todo)), plan)
        /\ Len(Append(run.ran, Head(run.todo))) + Len(run.todo) = Len(plan) + 1
    BY <1>2, <1>3, <2>1, AppendHead DEF StepTaken
  <2> QED
    BY <1>1, <1>3, <1>9, <2>1, <2>2, NextStepIs DEF RunIs, StepTaken
<1>10. CASE AllRun
  <2>1. run.pc = "steps" /\ run.todo = <<>> /\ Len(run.todo) = 0 /\ Ends("ok")
    BY <1>1, <1>10, AllRunIs, EmptySeq
  <2> QED
    BY <1>2, <1>3, <2>1 DEF Ends, RunIs, StepTaken
<1>11. CASE Launch
  <2>1. run.pc = "launch" /\ run.todo # <<>> /\ run.verdict = "none"
    BY <1>1, <1>11, LaunchIs, StepIsThere DEF Underway
  <2>2. /\ Starts(Append(run.ran, Head(run.todo)), plan)
        /\ Len(Append(run.ran, Head(run.todo))) + Len(run.todo) = Len(plan) + 1
    BY <1>2, <1>3, <2>1, AppendHead DEF StepTaken
  <2> QED
    BY <1>1, <1>3, <1>11, <2>1, <2>2, LaunchIs DEF RunIs, Ends, StepTaken
<1>12. CASE ExecEnds \/ RunReturns
  <2>1. /\ run.pc \in {"exec", "running"} /\ run.todo # <<>> /\ run.verdict = "none"
        /\ \/ RunIs("steps", run.need, Tail(run.todo), run.ran, run.touched, run.verdict,
                    run.blamed)
           \/ \E verdict \in {"failed", "interrupted"} : Ends(verdict)
    BY <1>1, <1>12, ExecEndsIs, RunReturnsIs, StepIsThere, VerdictIs DEF Underway
  <2>2. Finishes(Tail(run.todo), plan) /\ Len(Tail(run.todo)) = Len(run.todo) - 1
    BY <1>2, <1>3, <2>1, TailOfRest
  <2> QED
    <3>1. CASE RunIs("steps", run.need, Tail(run.todo), run.ran, run.touched,
                     run.verdict, run.blamed)
      <4>1. Len(run.ran) + Len(Tail(run.todo)) = Len(plan)
        <5>1. Len(run.ran) + Len(run.todo) = Len(plan) + 1
          BY <1>3, <2>1 DEF StepTaken
        <5> QED
          <6> DEFINE a == Len(run.ran)
                     b == Len(run.todo)
                     c == Len(plan)
                     d == Len(Tail(run.todo))
          <6>1. a \in Nat /\ b \in Nat /\ c \in Nat
            BY <1>2
          <6>2. a + b = c + 1
            BY <5>1
          <6>3. d = b - 1
            BY <2>2
          <6> HIDE DEF a, b, c, d
          <6>4. a + d = c
            BY <6>1, <6>2, <6>3
          <6> QED
            BY <6>4 DEF a, b, c, d
      <4> QED
        BY <1>3, <2>1, <2>2, <3>1, <4>1 DEF RunIs, StepTaken
    <3>2. CASE \E verdict \in {"failed", "interrupted"} : Ends(verdict)
      BY <1>3, <3>2 DEF Ends, RunIs
    <3> QED
      BY <2>1, <3>1, <3>2
<1>13. CASE ChildSteps \/ Outside
  <2>1. UNCHANGED run
    BY <1>1, <1>13, ChildStepsAre DEF Outside, provVars
  <2> QED
    BY <1>5, <2>1
<1> QED
  BY <1>6, <1>7, <1>8, <1>9, <1>10, <1>11, <1>12, <1>13, StepsAre

\* The first of some positions.
LEMMA MinIs ==
  ASSUME NEW S \in SUBSET Nat, S # {}
  PROVE  Min(S) \in S /\ \A y \in S : Min(S) <= y
  BY LeastExists DEF Min

\* Which steps a --step reference stands for.
LEMMA OnlyIs ==
  ASSUME NEW steps, NEW sel, sel.only # {}, sel.from = NoName,
         NEW i \in DOMAIN steps
  PROVE  /\ i \in Chosen(steps, sel) =>
              \/ steps[i].name \in sel.only
              \/ \E ref \in sel.only :
                   /\ {k \in DOMAIN steps : steps[k].name = ref} = {}
                   /\ Number[ref] = i \/ Shown[i] = ref
         /\ steps[i].name \in sel.only => i \in Chosen(steps, sel)
<1>1. Chosen(steps, sel) = UNION {Match(steps, ref) : ref \in sel.only}
  BY DEF Chosen
<1>2. ASSUME NEW ref \in sel.only, i \in Match(steps, ref)
      PROVE  \/ steps[i].name = ref
             \/ /\ {k \in DOMAIN steps : steps[k].name = ref} = {}
                /\ Number[ref] = i \/ Shown[i] = ref
  BY <1>2 DEF Match, Positions
<1>3. ASSUME NEW ref \in sel.only, steps[i].name = ref
      PROVE  i \in Match(steps, ref)
  BY <1>3 DEF Match, Positions
<1> QED
  BY <1>1, <1>2, <1>3

\* With --from, what is chosen goes on to the end.
LEMMA FromIs ==
  ASSUME NEW steps, IsSteps(steps), NEW sel, sel.from # NoName,
         NEW i \in DOMAIN steps, NEW j \in DOMAIN steps, i <= j,
         \/ i \in Chosen(steps, sel) /\ Match(steps, sel.from) # {}
         \/ steps[i].name = sel.from
  PROVE  j \in Chosen(steps, sel)
<1> DEFINE first == Min(Match(steps, sel.from))
<1>1. Chosen(steps, sel) = {k \in DOMAIN steps : k >= first}
  BY DEF Chosen, Positions
<1>2. DOMAIN steps \subseteq Nat
  BY DEF IsSteps
<1>3. steps[i].name = sel.from => i \in Match(steps, sel.from)
  BY DEF Match, Positions
<1>4. Match(steps, sel.from) \in SUBSET Nat /\ Match(steps, sel.from) # {}
  BY <1>2, <1>3, MatchIs DEF Positions
<1>5. first \in Nat /\ \A k \in Match(steps, sel.from) : first <= k
  BY <1>4, MinIs
<1> HIDE DEF first
<1>6. i >= first
  BY <1>1, <1>2, <1>3, <1>5
<1> QED
  BY <1>1, <1>2, <1>5, <1>6

\* What follows from keeping to the plan.
LEMMA AskedIsRun ==
  ASSUME ProvBase, PlanFollowed
  PROVE  RunsWhatWasAsked
<1> DEFINE plan == Plan(run.decl, run.sel)
           steps == run.decl.provision
           ran(i) == <<"provision", i>> \in Range(run.ran)
           chosen == Chosen(steps, run.sel)
<1>1. /\ run.decl \in Declarations /\ run.sel \in Selections \cup {Everything}
      /\ IsSteps(steps) /\ plan \in Seq(Items) /\ run.ran \in Seq(Items)
      /\ Len(plan) \in Nat /\ DOMAIN plan = 1 .. Len(plan)
      /\ Len(run.ran) \in Nat /\ DOMAIN run.ran = 1 .. Len(run.ran)
  BY FieldsAre, DeclarationIs, PlanIs, LenProperties DEF ProvBase
<1>2. \A i \in DOMAIN run.ran : i \in DOMAIN plan /\ run.ran[i] = plan[i]
  BY <1>1 DEF PlanFollowed, Starts
<1>3. \A i : <<"provision", i>> \in Range(plan) <=> i \in chosen
  BY <1>1, PlanHoldsTheChosen
<1>4. ASSUME NEW i, ran(i)
      PROVE  i \in chosen /\ Resolves(steps, run.sel)
  <2>1. PICK n \in DOMAIN run.ran : run.ran[n] = <<"provision", i>>
    BY <1>4 DEF Range
  <2>2. <<"provision", i>> \in Range(plan)
    BY <1>2, <2>1 DEF Range
  <2>3. run.ran # <<>>
    BY <2>1
  <2> QED
    BY <1>3, <2>2, <2>3 DEF PlanFollowed
<1>5. ASSUME run.verdict = "ok", NEW i \in chosen
      PROVE  ran(i)
  <2>1. PICK n \in DOMAIN plan : plan[n] = <<"provision", i>>
    BY <1>3 DEF Range
  <2>2. n \in DOMAIN run.ran
    BY <1>1, <1>5, <2>1 DEF PlanFollowed
  <2> QED
    BY <1>2, <2>1, <2>2 DEF Range
<1>6. ASSUME NEW m \in DOMAIN run.ran, NEW n \in DOMAIN run.ran, m < n
      PROVE  \/ run.ran[m][1] = run.ran[n][1] /\ run.ran[m][2] < run.ran[n][2]
             \/ run.ran[m][1] = "bootstrap" /\ run.ran[n][1] = "provision"
  BY <1>1, <1>2, <1>6, PlanIsInOrder
<1>7. run.sel.only = {} \/ run.sel.from = NoName
  BY <1>1, SelectionsAssumption DEF Everything
<1>8. run.sel.only # {} =>
        \A i \in DOMAIN steps :
          ran(i) => \/ steps[i].name \in run.sel.only
                    \/ \E ref \in run.sel.only :
                         /\ {k \in DOMAIN steps : steps[k].name = ref} = {}
                         /\ Number[ref] = i \/ Shown[i] = ref
  BY <1>4, <1>7, OnlyIs
<1>9. ASSUME run.verdict = "ok"
      PROVE  \A ref \in run.sel.only : \A i \in DOMAIN steps :
               steps[i].name = ref => ran(i)
  BY <1>5, <1>7, <1>9, OnlyIs
<1>10. ASSUME run.verdict = "ok", run.sel = Everything
       PROVE  \A i \in DOMAIN steps : ran(i)
  <2>1. chosen = DOMAIN steps
    BY <1>10 DEF Chosen, Everything, Positions
  <2> QED
    BY <1>5, <1>10, <2>1
<1>11. ASSUME run.verdict = "ok", run.sel.from # NoName,
              NEW i \in DOMAIN steps, NEW j \in DOMAIN steps, i <= j,
              ran(i) \/ steps[i].name = run.sel.from
       PROVE  ran(j)
  <2>1. ran(i) => i \in chosen /\ Match(steps, run.sel.from) # {}
    BY <1>4, <1>11 DEF Resolves
  <2>2. j \in chosen
    BY <1>1, <1>11, <2>1, FromIs
  <2> QED
    BY <1>5, <1>11, <2>2
<1> HIDE DEF ran, steps
<1> QED
  BY <1>6, <1>8, <1>9, <1>10, <1>11 DEF RunsWhatWasAsked, ran, steps

\* Every run keeps to its plan.
THEOREM PlanIsFollowed == ProvSpec => []PlanFollowed
<1>1. ProvInit => PlanFollowed
  <2> SUFFICES ASSUME ProvInit PROVE PlanFollowed
    OBVIOUS
  <2>1. /\ run.pc = "start" /\ run.ran = <<>> /\ run.verdict = "none"
        /\ run \in Runs
    BY InitIs
  <2>2. run.decl \in Declarations /\ Plan(run.decl, run.sel) \in Seq(Items)
    BY <2>1, PlanIs DEF Runs
  <2>3. Starts(<<>>, Plan(run.decl, run.sel))
    BY <2>2, EmptySeq, LenProperties DEF Starts
  <2> QED
    BY <2>1, <2>3 DEF PlanFollowed
<1> QED
  BY <1>1, ProvBaseCorrect, PlanFollowedStep, PTL DEF ProvSpec

\* The steps run are those asked for, in the order declared, each once, and all
\* of them when the run ends well, whatever is declared and asked for.
THEOREM AskedStepsAreRun == ProvSpec => []RunsWhatWasAsked
  BY ProvBaseCorrect, PlanIsFollowed, AskedIsRun, PTL

-----------------------------------------------------------------------------
(* The tools looked for, and those that are there.                         *)

\* A run that stopped for want of the plugin was right to.
PluginIsWanting ==
  /\ "plugin" \notin host.tools
  /\ \A n \in DOMAIN run.todo :
       KindAt(run.decl, run.todo[n]) = "galaxy" =>
         \E m \in 1 .. n : KindAt(run.decl, run.todo[m]) = "ansible"

\* A tool that was found is there for good, one that was not ends the run, and
\* what is still to be looked for before the instance is what is not found yet.
ToolsChecked ==
  LET wanted == Range(Prerequisites(Kinds(run.decl, run.sel)))
  IN  /\ \A tool \in Tools :
           /\ checked[tool] = "found" => tool \in host.tools
           /\ checked[tool] = "missing" => run.pc = "done"
      /\ run.pc = "check" /\ ~run.touched =>
           /\ run.todo = Plan(run.decl, run.sel)
           /\ Range(run.need) \subseteq wanted
           /\ wanted \subseteq Range(run.need) \cup host.tools
      /\ run.pc = "instance" \/ run.touched => wanted \subseteq host.tools
      /\ run.pc = "check" /\ run.touched /\ "plugin" \in Range(run.need) =>
           KindAt(run.decl, Head(run.todo)) = "ansible"
      /\ run.verdict = "missing" /\ run.blamed = "plugin" => PluginIsWanting

\* The kind of a chosen step of the plan.
LEMMA KindInPlan ==
  ASSUME NEW decl \in Declarations, NEW sel, NEW n \in DOMAIN Plan(decl, sel)
  PROVE  LET most == BootstrapLen(decl)
             kinds == Kinds(decl, sel)
             kind == KindAt(decl, Plan(decl, sel)[n])
         IN  \/ n \in 1 .. most /\ kind = "run"
             \/ n - most \in DOMAIN kinds /\ kind = kinds[n - most] /\ kind \in KnownKinds
<1> DEFINE most == BootstrapLen(decl)
           chosen == Select(decl.provision, sel)
           kinds == Kinds(decl, sel)
           kind == KindAt(decl, Plan(decl, sel)[n])
<1>1. CASE n \in 1 .. most /\ Plan(decl, sel)[n] = <<"bootstrap", n>>
  BY <1>1 DEF KindAt
<1>2. CASE n - most \in DOMAIN chosen
           /\ Plan(decl, sel)[n] = <<"provision", chosen[n - most]>>
  <2>1. /\ n - most \in DOMAIN kinds
        /\ kinds[n - most] = decl.provision[chosen[n - most]].kind
    BY <1>2, KindsAre
  <2>2. kinds[n - most] \in KnownKinds
    BY <2>1, KindsAre, LenProperties
  <2>3. kind = decl.provision[chosen[n - most]].kind
    BY <1>2 DEF KindAt
  <2> QED
    BY <2>1, <2>2, <2>3
<1> QED
  BY <1>1, <1>2, PlanPoint

\* The plugin is wanted beforehand only if no galaxy step comes before the
\* ansible steps.
LEMMA NoGalaxyBefore ==
  ASSUME NEW decl \in Declarations, NEW sel,
         "plugin" \in Range(Prerequisites(Kinds(decl, sel))),
         NEW n \in DOMAIN Plan(decl, sel),
         KindAt(decl, Plan(decl, sel)[n]) = "galaxy"
  PROVE  \E m \in 1 .. n : KindAt(decl, Plan(decl, sel)[m]) = "ansible"
<1> DEFINE most == BootstrapLen(decl)
           kinds == Kinds(decl, sel)
           plan == Plan(decl, sel)
<1>1. /\ most \in Nat /\ n \in 1 .. Len(plan)
      /\ Len(plan) \in Nat /\ DOMAIN plan = 1 .. Len(plan)
  BY DeclarationIs, PlanIs, LenProperties
<1>2. n - most \in DOMAIN kinds /\ kinds[n - most] = "galaxy"
  BY KindInPlan
<1>3. ~Precedes(kinds, "galaxy", "ansible")
  BY PrerequisitesAre
<1>4. PICK j \in 1 .. n - most : kinds[j] = "ansible"
  BY <1>2, <1>3 DEF Precedes
<1>5. /\ most + j \in 1 .. n /\ most + j \in DOMAIN plan
      /\ (most + j) - most = j /\ most + j \notin 1 .. most
  BY <1>1
<1>6. KindAt(decl, plan[most + j]) = kinds[(most + j) - most]
  <2> HIDE DEF most, kinds, plan
  <2> QED
    BY <1>5, KindInPlan DEF most, kinds, plan
<1> QED
  BY <1>4, <1>5, <1>6

\* What the prerequisites promise for the steps chosen.
LEMMA PrerequisitesSuffice ==
  ASSUME NEW kinds \in Seq(KnownKinds), NEW tools,
         Range(Prerequisites(kinds)) \subseteq tools, NEW i \in DOMAIN kinds
  PROVE  /\ kinds[i] = "galaxy" => "galaxy" \in tools
         /\ kinds[i] = "ansible" =>
              /\ "playbook" \in tools
              /\ "plugin" \in tools \/ \E j \in 1 .. i : kinds[j] = "galaxy"
<1>1. Len(kinds) \in Nat /\ DOMAIN kinds = 1 .. Len(kinds)
  BY LenProperties
<1>2. kinds[i] \in Range(kinds)
  BY DEF Range
<1>3. ASSUME kinds[i] = "ansible", Precedes(kinds, "galaxy", "ansible")
      PROVE  \E j \in 1 .. i : kinds[j] = "galaxy"
  <2>1. PICK j \in DOMAIN kinds : kinds[j] = "galaxy"
                                 /\ \A k \in 1 .. j : kinds[k] # "ansible"
    BY <1>3 DEF Precedes
  <2>2. j < i
    BY <1>1, <1>3, <2>1
  <2> QED
    BY <1>1, <2>1, <2>2
<1> QED
  BY <1>2, <1>3, PrerequisitesAre

LEMMA RangeOfTail ==
  ASSUME NEW S, NEW seq \in Seq(S), seq # <<>>
  PROVE  /\ Head(seq) \in Range(seq)
         /\ Range(Tail(seq)) \subseteq Range(seq)
         /\ Range(seq) \subseteq Range(Tail(seq)) \cup {Head(seq)}
<1> DEFINE rest == Tail(seq)
<1>1. /\ Len(seq) \in Nat /\ Len(seq) # 0 /\ DOMAIN seq = 1 .. Len(seq)
      /\ Head(seq) = seq[1]
  BY EmptySeq, LenProperties, HeadTailProperties
<1>2. /\ rest \in Seq(S) /\ Len(rest) = Len(seq) - 1
      /\ \A i \in 1 .. Len(rest) : rest[i] = seq[i + 1]
  BY HeadTailProperties
<1> HIDE DEF rest
<1>3. DOMAIN rest = 1 .. Len(seq) - 1
  BY <1>2, LenProperties
<1>4. Head(seq) \in Range(seq)
  BY <1>1 DEF Range
<1>5. ASSUME NEW i \in DOMAIN rest PROVE rest[i] \in Range(seq)
  <2>1. i + 1 \in DOMAIN seq /\ rest[i] = seq[i + 1]
    BY <1>1, <1>2, <1>3
  <2> QED
    BY <2>1 DEF Range
<1>6. ASSUME NEW i \in DOMAIN seq, i # 1 PROVE seq[i] \in Range(rest)
  <2>1. i - 1 \in DOMAIN rest /\ (i - 1) + 1 = i /\ i - 1 \in 1 .. Len(rest)
    BY <1>1, <1>2, <1>3, <1>6
  <2>2. rest[i - 1] = seq[i]
    BY <1>2, <2>1
  <2> QED
    BY <2>1, <2>2 DEF Range
<1> QED
  BY <1>1, <1>4, <1>5, <1>6 DEF Range, rest

\* The step at the head of the rest is of a known kind.
LEMMA HeadIsKnown ==
  ASSUME ProvBase, PlanFollowed, run.pc = "steps", run.todo # <<>>
  PROVE  KindAt(run.decl, Head(run.todo)) \in KnownKinds
<1> DEFINE plan == Plan(run.decl, run.sel)
           n == Len(plan) - Len(run.todo) + 1
<1>1. /\ run.decl \in Declarations /\ plan \in Seq(Items) /\ run.todo \in Seq(Items)
  BY FieldsAre, PlanIs DEF ProvBase
<1>2. /\ Len(plan) \in Nat /\ DOMAIN plan = 1 .. Len(plan)
      /\ Len(run.todo) \in Nat /\ Len(run.todo) # 0 /\ Head(run.todo) = run.todo[1]
  BY <1>1, EmptySeq, LenProperties, HeadTailProperties
<1>3. Finishes(run.todo, plan)
  BY DEF PlanFollowed
<1>4. n \in DOMAIN plan /\ run.todo[1] = plan[n]
  <2>1. 1 \in 1 .. Len(run.todo) /\ Len(run.todo) <= Len(plan)
    BY <1>2, <1>3 DEF Finishes
  <2> QED
    <3>1. n = Len(plan) - Len(run.todo) + 1 /\ n \in 1 .. Len(plan)
      <4> DEFINE all == Len(plan)
                 left == Len(run.todo)
      <4>1. all \in Nat /\ left \in Nat /\ left # 0 /\ left <= all
        BY <1>2, <2>1
      <4> HIDE DEF all, left
      <4>2. all - left + 1 \in 1 .. all
        BY <4>1
      <4> QED
        BY <4>2 DEF all, left
    <3>2. run.todo[1] = plan[n]
      BY <1>3, <2>1 DEF Finishes
    <3> QED
      BY <1>2, <3>1, <3>2
<1> HIDE DEF n
<1>5. KindAt(run.decl, plan[n]) \in KnownKinds
  BY <1>1, <1>4, KindInPlan DEF KnownKinds
<1> QED
  BY <1>2, <1>4, <1>5

LEMMA ToolsStep ==
  ASSUME ProvBase, PlanFollowed, ToolsChecked, [ProvNext]_vars
  PROVE  ToolsChecked'
<1> DEFINE plan == Plan(run.decl, run.sel)
           wanted == Range(Prerequisites(Kinds(run.decl, run.sel)))
<1>1. ProvTypeOK /\ Underway
  BY DEF ProvBase
<1>2. /\ run.decl \in Declarations /\ plan \in Seq(Items)
      /\ run.need \in Seq(Tools) /\ run.todo \in Seq(Items)
      /\ checked \in [Tools -> {"unknown", "found", "missing"}]
  BY <1>1, FieldsAre, PlanIs DEF ProvTypeOK
<1>3. /\ \A tool \in Tools :
           /\ checked[tool] = "found" => tool \in host.tools
           /\ checked[tool] = "missing" => run.pc = "done"
      /\ run.pc = "check" /\ ~run.touched =>
           run.todo = plan /\ Range(run.need) \subseteq wanted
             /\ wanted \subseteq Range(run.need) \cup host.tools
      /\ run.pc = "instance" \/ run.touched => wanted \subseteq host.tools
      /\ run.pc = "check" /\ run.touched /\ "plugin" \in Range(run.need) =>
           KindAt(run.decl, Head(run.todo)) = "ansible"
      /\ run.verdict = "missing" /\ run.blamed = "plugin" => PluginIsWanting
  BY DEF ToolsChecked
<1>4. SUFFICES
        /\ run'.decl = run.decl /\ run'.sel = run.sel
        /\ \A tool \in Tools :
             /\ checked'[tool] = "found" => tool \in host'.tools
             /\ checked'[tool] = "missing" => run'.pc = "done"
        /\ run'.pc = "check" /\ ~run'.touched =>
             run'.todo = plan /\ Range(run'.need) \subseteq wanted
               /\ wanted \subseteq Range(run'.need) \cup host'.tools
        /\ run'.pc = "instance" \/ run'.touched => wanted \subseteq host'.tools
        /\ run'.pc = "check" /\ run'.touched /\ "plugin" \in Range(run'.need) =>
             KindAt(run.decl, Head(run'.todo)) = "ansible"
        /\ run'.verdict = "missing" /\ run'.blamed = "plugin" => PluginIsWanting'
  BY DEF ToolsChecked
<1> HIDE DEF plan, wanted
<1>5. run.verdict = "none" \/ run.pc = "done"
  BY <1>1 DEF Underway
\* Before the instance: everything the plan wants is still to be looked for.
<1>6. CASE Begin
  <2>1. /\ run.pc = "start" /\ run.verdict = "none" /\ ~run.touched
        /\ UNCHANGED <<checked, host>>
    BY <1>1, <1>6, BeginIs DEF Underway
  <2>2. CASE Ends("refused")
    BY <1>3, <2>1, <2>2 DEF Ends, RunIs
  <2>3. CASE RunIs("check", Prerequisites(Kinds(run.decl, run.sel)), plan, run.ran,
                   run.touched, run.verdict, run.blamed)
    BY <1>3, <2>1, <2>3 DEF RunIs, wanted
  <2> QED
    BY <1>1, <1>6, <2>2, <2>3, BeginIs DEF plan
<1>7. CASE CheckTool
  <2> DEFINE tool == Head(run.need)
             rest == Tail(run.need)
  <2>1. /\ run.pc = "check" /\ run.need # <<>> /\ tool \in Tools /\ UNCHANGED host
        /\ run.verdict = "none"
    BY <1>1, <1>7, CheckToolIs DEF Underway
  <2>2. /\ tool \in Range(run.need) /\ Range(rest) \subseteq Range(run.need)
        /\ Range(run.need) \subseteq Range(rest) \cup {tool}
    BY <1>2, <2>1, RangeOfTail
  <2> HIDE DEF tool, rest
  <2>3. CASE /\ checked[tool] = "found" \/ tool \in host.tools
             /\ checked' = [checked EXCEPT ![tool] = "found"]
             /\ RunIs("check", rest, run.todo, run.ran, run.touched, run.verdict,
                      run.blamed)
    <3>1. tool \in host.tools
      BY <1>3, <2>1, <2>3
    <3>2. \A t \in Tools : checked'[t] = "found" \/ checked'[t] = checked[t]
      BY <1>2, <2>3
    <3>3. \A t \in Tools : checked'[t] = "found" => t \in host'.tools
      BY <1>2, <1>3, <2>1, <2>3, <3>1
    <3>4. \A t \in Tools : checked'[t] # "missing"
      BY <1>3, <2>1, <3>2
    <3> QED
      BY <1>3, <2>1, <2>2, <2>3, <3>1, <3>3, <3>4 DEF RunIs
  <2>4. CASE /\ checked[tool] = "missing" \/ tool \notin host.tools \/ interrupted
             /\ checked' = [checked EXCEPT ![tool] = "missing"]
             /\ RunIs("done", run.need, run.todo, run.ran, run.touched,
                      IF interrupted THEN "interrupted" ELSE "missing", tool)
    <3>1. \A t \in Tools : checked'[t] = "found" => t \in host'.tools
      BY <1>2, <1>3, <2>1, <2>4
    <3>2. ASSUME run'.verdict = "missing", run'.blamed = "plugin"
          PROVE  PluginIsWanting'
      <4>1. tool = "plugin" /\ ~interrupted
        BY <2>4, <3>2 DEF RunIs
      <4>2. "plugin" \notin host.tools
        BY <1>3, <2>1, <2>4, <4>1
      <4>3. \A n \in DOMAIN run.todo :
              KindAt(run.decl, run.todo[n]) = "galaxy" =>
                \E m \in 1 .. n : KindAt(run.decl, run.todo[m]) = "ansible"
        <5>1. CASE ~run.touched
          <6>1. run.todo = plan /\ "plugin" \in wanted
            BY <1>3, <2>1, <2>2, <4>1, <5>1
          <6> QED
            BY <1>2, <6>1, NoGalaxyBefore DEF plan, wanted
        <5>2. CASE run.touched
          <6>1. KindAt(run.decl, Head(run.todo)) = "ansible" /\ run.todo # <<>>
            BY <1>1, <1>3, <2>1, <2>2, <4>1, <5>2 DEF Underway
          <6>2. Head(run.todo) = run.todo[1]
            BY <1>2, <6>1, HeadTailProperties
          <6>3. \A n \in DOMAIN run.todo : 1 \in 1 .. n
            BY <1>2, LenProperties
          <6> QED
            BY <6>1, <6>2, <6>3
        <5> QED
          BY <5>1, <5>2
      <4> QED
        BY <2>1, <2>4, <4>2, <4>3 DEF PluginIsWanting, RunIs
    <3> QED
      BY <1>3, <2>1, <2>4, <3>1, <3>2 DEF RunIs
  <2> QED
    BY <1>1, <1>7, <2>3, <2>4, CheckToolIs DEF tool, rest
<1>8. CASE Checked
  <2>1. /\ run.pc = "check" /\ run.need = <<>> /\ run.verdict = "none"
        /\ UNCHANGED <<checked, host>>
        /\ \/ ~run.touched /\ Moves("instance")
           \/ run.touched /\ Moves("prepare")
           \/ run.touched /\ Moves("launch")
    BY <1>1, <1>8, CheckedIs DEF Underway
  <2>2. Range(run.need) = {}
    BY <2>1 DEF Range
  <2> QED
    BY <1>3, <2>1, <2>2 DEF Moves, RunIs
\* From here on the tools the plan wants are on the host.
<1>9. CASE InstanceReady
  <2>1. /\ run.pc = "instance" /\ run.verdict = "none" /\ UNCHANGED <<checked, host>>
        /\ \/ RunIs("wait", run.need, run.todo, run.ran, TRUE, run.verdict, run.blamed)
           \/ Ends("failed")
           \/ Ends("interrupted")
    BY <1>1, <1>9, InstanceReadyIs DEF Underway
  <2> QED
    BY <1>3, <2>1 DEF Ends, RunIs
<1>10. CASE NextStep
  <2>1. /\ run.pc = "steps" /\ run.todo # <<>> /\ run.verdict = "none"
        /\ UNCHANGED <<checked, host>>
        /\ \/ RunIs("exec", run.need, run.todo, Append(run.ran, Head(run.todo)),
                    run.touched, run.verdict, run.blamed)
           \/ RunIs("check", <<"galaxy">>, run.todo, run.ran, run.touched,
                    run.verdict, run.blamed)
           \/ /\ KindAt(run.decl, Head(run.todo)) \notin {"run", "galaxy"}
              /\ RunIs("check", <<"playbook", "plugin">>, run.todo, run.ran, run.touched,
                       run.verdict, run.blamed)
    BY <1>1, <1>10, NextStepIs DEF Underway
  <2>2. KindAt(run.decl, Head(run.todo)) \in KnownKinds
    BY <2>1, HeadIsKnown
  <2>3. "plugin" \notin Range(<<"galaxy">>)
    BY DEF Range
  <2>4. run.touched
    BY <1>1, <2>1 DEF Underway
  <2> QED
    BY <1>3, <2>1, <2>2, <2>3, <2>4 DEF RunIs, KnownKinds
<1>11. CASE Waited \/ AllRun \/ ExecEnds \/ Prepare \/ Launch \/ RunReturns
  <2>1. /\ run.verdict = "none" /\ UNCHANGED checked /\ host'.tools = host.tools
        /\ run'.decl = run.decl /\ run'.sel = run.sel
        /\ run'.touched = run.touched /\ run'.pc \notin {"check", "instance"}
        /\ run'.verdict # "missing" /\ run.pc # "done"
    BY <1>1, <1>11, WaitedIs, AllRunIs, ExecEndsIs, PrepareIs, LaunchIs, RunReturnsIs,
       VerdictIs DEF Underway, Moves, Ends, RunIs
  <2> QED
    BY <1>3, <2>1
<1>12. CASE ChildSteps
  <2>1. /\ run.pc = "running" /\ UNCHANGED <<run, checked>>
        /\ host.tools \subseteq host'.tools
    BY <1>1, <1>12, ChildStepsAre DEF Underway
  <2> QED
    BY <1>3, <1>5, <2>1
<1>13. CASE Outside
  <2>1. UNCHANGED <<run, checked, host>>
    BY <1>13 DEF Outside, provVars
  <2> QED
    BY <1>3, <2>1 DEF PluginIsWanting
<1> QED
  BY <1>6, <1>7, <1>8, <1>9, <1>10, <1>11, <1>12, <1>13, StepsAre

LEMMA ToolsAreDecided ==
  ASSUME ProvBase, ToolsChecked
  PROVE  ToolsDecide
<1>1. run.decl \in Declarations
  BY FieldsAre DEF ProvBase
<1>2. Kinds(run.decl, run.sel) \in Seq(KnownKinds)
  BY <1>1, KindsAre
<1>3. ASSUME run.touched, NEW i \in DOMAIN StepKinds
      PROVE  /\ StepKinds[i] = "galaxy" => "galaxy" \in host.tools
             /\ StepKinds[i] = "ansible" =>
                  /\ "playbook" \in host.tools
                  /\ "plugin" \in host.tools \/ \E j \in 1 .. i : StepKinds[j] = "galaxy"
  <2>1. Range(Prerequisites(StepKinds)) \subseteq host.tools
    BY <1>3 DEF ToolsChecked, StepKinds
  <2>2. StepKinds \in Seq(KnownKinds)
    BY <1>2 DEF StepKinds
  <2> QED
    BY <1>3, <2>1, <2>2, PrerequisitesSuffice
<1>4. run.verdict = "missing" /\ run.blamed = "plugin" => PluginIsWanting
  BY DEF ToolsChecked
<1> QED
  BY <1>3, <1>4 DEF ToolsDecide, PluginIsWanting

\* No instance is touched for a run whose tools are not there, and the plugin is
\* missed only where it is missing and no step before would have installed it:
\* the answer each Once keeps is true, for any steps and any tools.
THEOREM ToolsAreTrue == ProvSpec => []ToolsDecide
<1>1. ProvInit => ToolsChecked
  <2> SUFFICES ASSUME ProvInit PROVE ToolsChecked
    OBVIOUS
  <2>1. /\ run.pc = "start" /\ ~run.touched /\ run.verdict = "none"
        /\ \A tool \in Tools : checked[tool] = "unknown"
    BY InitIs
  <2> QED
    BY <2>1 DEF ToolsChecked
<1>2. PlanFollowed /\ ToolsChecked /\ ProvBase /\ [ProvNext]_vars => ToolsChecked'
  BY ToolsStep
<1>3. ProvBase /\ ToolsChecked => ToolsDecide
  BY ToolsAreDecided
<1> QED
  BY <1>1, <1>2, <1>3, ProvBaseCorrect, PlanIsFollowed, PTL DEF ProvSpec
=============================================================================
