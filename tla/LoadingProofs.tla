---------------------------- MODULE LoadingProofs ----------------------------
(***************************************************************************)
(* What Loading guarantees for any dev.yml files and any trees of          *)
(* directories: a command acts on the nearest dev.yml; and of a dev.yml    *)
(* that is accepted no two devices collide, nothing is dropped without a   *)
(* word, the names that go into records are read back, and an instance is  *)
(* shared only by those the scope says share it.                           *)
(***************************************************************************)
EXTENDS Loading, SequenceTheorems, FiniteSetTheorems, WellFoundedInduction, TLAPS

-----------------------------------------------------------------------------
(* Folds over sets, and greatest numbers.                                  *)

\* Every non-empty set of naturals has a least element.
LEMMA LeastExists ==
  ASSUME NEW T \in SUBSET Nat, T # {}
  PROVE  \E x \in T : \A y \in T : x <= y
<1>1. PICK x \in T : \A y \in T : ~ (<<y, x>> \in OpToRel(<, Nat))
  BY NatLessThanWellFounded, WFMin
<1>2. \A y \in T : ~(y < x)
  <2> TAKE y \in T
  <2>1. SUFFICES ASSUME y < x PROVE <<y, x>> \in OpToRel(<, Nat)
    BY <1>1
  <2> QED
    BY <2>1 DEF OpToRel
<1> QED
  BY <1>2

\* Induction up to n, of the numbers at which a fact holds.
LEMMA UpTo ==
  ASSUME NEW n \in Nat, NEW Good, 0 \in Good,
         \A i \in 1 .. n : i - 1 \in Good => i \in Good
  PROVE  \A i \in 0 .. n : i \in Good
<1> SUFFICES ASSUME NEW m \in 0 .. n, m \notin Good
    PROVE  FALSE
  OBVIOUS
<1> DEFINE Bad == {i \in 0 .. n : i \notin Good}
<1>1. Bad \in SUBSET Nat /\ Bad # {}
  OBVIOUS
<1>2. PICK i \in Bad : \A j \in Bad : i <= j
  BY <1>1, LeastExists
<1>3. i # 0 /\ i \in 1 .. n
  BY <1>2
<1>4. i - 1 \in 0 .. n /\ i - 1 \notin Bad
  BY <1>2, <1>3
<1>5. QED
  BY <1>2, <1>3, <1>4

\* h solves the recursion that folds are defined by, of F from base, on the
\* subsets of 1 .. n: what comes last is the greatest element.
SolvesFold(h, n, base, F) ==
  \A s \in SUBSET (1 .. n) :
    h[s] = IF s = {} THEN base ELSE F[Max(s)][h[s \ {Max(s)}]]

\* It has a solution.
LEMMA RecursionExists ==
  ASSUME NEW n \in Nat, NEW T, NEW base \in T, NEW F \in [1 .. n -> [T -> T]]
  PROVE  \E h \in [SUBSET (1 .. n) -> T] : SolvesFold(h, n, base, F)
<1> DEFINE Solves(h, k) == SolvesFold(h, k, base, F)
           Good == {k \in 0 .. n : \E h \in [SUBSET (1 .. k) -> T] : Solves(h, k)}
<1>1. 0 \in Good
  <2> DEFINE h == [s \in SUBSET (1 .. 0) |-> base]
  <2>1. h \in [SUBSET (1 .. 0) -> T]
    OBVIOUS
  <2>2. \A s \in SUBSET (1 .. 0) : s = {} /\ h[s] = base
    OBVIOUS
  <2>3. Solves(h, 0)
    BY <2>2 DEF SolvesFold
  <2> HIDE DEF h, Solves
  <2>4. \E f \in [SUBSET (1 .. 0) -> T] : Solves(f, 0)
    BY <2>1, <2>3
  <2>5. 0 \in 0 .. n
    OBVIOUS
  <2>6. QED
    BY <2>4, <2>5, Zenon
<1>2. ASSUME NEW k \in 1 .. n, k - 1 \in Good
      PROVE  k \in Good
  <2>1. PICK h \in [SUBSET (1 .. (k - 1)) -> T] : Solves(h, k - 1)
    BY <1>2
  <2>a. \A s \in SUBSET (1 .. (k - 1)) :
          h[s] = IF s = {} THEN base ELSE F[Max(s)][h[s \ {Max(s)}]]
    BY <2>1 DEF SolvesFold
  <2> DEFINE g == [s \in SUBSET (1 .. k) |-> IF k \in s THEN F[k][h[s \ {k}]] ELSE h[s]]
  <2>2. ASSUME NEW s \in SUBSET (1 .. k), k \in s
        PROVE  s \ {k} \in SUBSET (1 .. (k - 1)) /\ Max(s) = k /\ s # {}
    <3>1. \A i \in s : i <= k
      OBVIOUS
    <3>2. Max(s) \in s /\ \A i \in s : Max(s) >= i
      BY <3>1, <2>2 DEF Max
    <3>3. Max(s) <= k /\ Max(s) >= k /\ Max(s) \in Int
      <4> DEFINE top == Max(s)
      <4>1. top \in s /\ top >= k
        BY <3>2, <2>2
      <4> HIDE DEF top
      <4>2. top \in 1 .. k /\ k \in Int
        BY <4>1
      <4>3. QED
        BY <4>1, <4>2, <3>1 DEF top
    <3>4. Max(s) = k
      BY <3>3
    <3>5. ASSUME NEW i \in s \ {k} PROVE i \in 1 .. (k - 1)
      BY <3>1
    <3>6. QED
      BY <3>4, <3>5, <2>2
  <2>3. ASSUME NEW s \in SUBSET (1 .. k), k \notin s
        PROVE  s \in SUBSET (1 .. (k - 1)) /\ s \ {Max(s)} \in SUBSET (1 .. (k - 1))
    <3>1. ASSUME NEW i \in s PROVE i \in 1 .. (k - 1)
      BY <2>3
    <3>2. QED
      BY <3>1
  <2>4. g \in [SUBSET (1 .. k) -> T]
    <3> SUFFICES ASSUME NEW s \in SUBSET (1 .. k)
        PROVE  (IF k \in s THEN F[k][h[s \ {k}]] ELSE h[s]) \in T
      OBVIOUS
    <3>1. CASE k \in s
      BY <3>1, <2>2
    <3>2. CASE k \notin s
      BY <3>2, <2>3
    <3>3. QED
      BY <3>1, <3>2
  <2>5. Solves(g, k)
    <3> SUFFICES ASSUME NEW s \in SUBSET (1 .. k)
        PROVE  g[s] = IF s = {} THEN base ELSE F[Max(s)][g[s \ {Max(s)}]]
      BY DEF SolvesFold
    <3>1. CASE k \in s
      <4>1. g[s] = F[k][h[s \ {k}]] /\ Max(s) = k /\ s # {} /\ s \ {k} \in SUBSET (1 .. k)
        BY <3>1, <2>2
      <4>2. g[s \ {k}] = h[s \ {k}]
        BY <4>1
      <4>3. QED
        BY <4>1, <4>2
    <3>2. CASE k \notin s
      <4>1. g[s] = h[s] /\ s \in SUBSET (1 .. (k - 1)) /\ s \ {Max(s)} \in SUBSET (1 .. k)
        BY <3>2, <2>3
      <4>2. k \notin s \ {Max(s)}
        BY <3>2
      <4>3. g[s \ {Max(s)}] = h[s \ {Max(s)}]
        BY <4>1, <4>2
      <4>4. h[s] = IF s = {} THEN base ELSE F[Max(s)][h[s \ {Max(s)}]]
        BY <4>1, <2>a
      <4>5. QED
        BY <4>1, <4>3, <4>4
    <3>3. QED
      BY <3>1, <3>2
  <2> HIDE DEF g, Solves
  <2>6. \E f \in [SUBSET (1 .. k) -> T] : Solves(f, k)
    BY <2>4, <2>5
  <2>7. QED
    BY <2>6
<1>3. n \in Good
  <2> HIDE DEF Good, Solves
  <2>1. \A i \in 1 .. n : i - 1 \in Good => i \in Good
    BY <1>2
  <2>2. \A i \in 0 .. n : i \in Good
    BY <1>1, <2>1, UpTo, Zenon
  <2>3. n \in 0 .. n
    OBVIOUS
  <2> QED
    BY <2>2, <2>3
<1>4. QED
  BY <1>3, Zenon

\* Max of numbers up to n, of which there are some, is one of them and the greatest.
LEMMA GreatestIsIn ==
  ASSUME NEW n \in Nat, NEW s \in SUBSET (0 .. n), s # {}
  PROVE  Max(s) \in s /\ \A i \in s : Max(s) >= i
<1>1. PICK most \in s : \A i \in s : i <= most
  <2> DEFINE Bounds == {b \in Nat : \A i \in s : i <= b}
  <2>1. n \in Bounds
    OBVIOUS
  <2>2. PICK b \in Bounds : \A c \in Bounds : b <= c
    BY <2>1, LeastExists
  <2>3. b \in s
    <3> SUFFICES ASSUME b \notin s PROVE FALSE
      OBVIOUS
    <3>0. PICK i \in s : TRUE
      OBVIOUS
    <3>1. i \in 0 .. n /\ i <= b /\ i # b
      BY <3>0, <2>2
    <3>2. b - 1 \in Bounds
      <4>1. b - 1 \in Nat
        BY <3>1, <2>2
      <4>2. ASSUME NEW j \in s PROVE j <= b - 1
        BY <2>2
      <4>3. QED
        BY <4>1, <4>2
    <3>3. QED
      BY <3>2, <2>2
  <2>4. QED
    BY <2>2, <2>3
<1>2. \A i \in s : most >= i
  BY <1>1
<1>3. QED
  BY <1>1, <1>2 DEF Max

\* The same of the numbers of an interval from 1.
LEMMA MaxIsIn ==
  ASSUME NEW n \in Nat, NEW s \in SUBSET (1 .. n), s # {}
  PROVE  Max(s) \in s /\ \A i \in s : Max(s) >= i
<1>1. s \in SUBSET (0 .. n)
  OBVIOUS
<1>2. QED
  BY <1>1, GreatestIsIn

\* Max of an interval that is not empty is its end.
LEMMA MaxOfInterval ==
  ASSUME NEW n \in Nat, NEW i \in 1 .. n
  PROVE  Max(1 .. i) = i /\ (1 .. i) \ {Max(1 .. i)} = 1 .. (i - 1)
<1>1. 1 .. i \in SUBSET (1 .. n) /\ i \in 1 .. i
  OBVIOUS
<1> DEFINE top == Max(1 .. i)
<1>2. top \in 1 .. i /\ top >= i
  BY <1>1, MaxIsIn
<1>3. top = i
  <2> HIDE DEF top
  <2> QED
    BY <1>2
<1>4. (1 .. i) \ {i} = 1 .. (i - 1)
  OBVIOUS
<1>5. QED
  BY <1>3, <1>4

-----------------------------------------------------------------------------
(* Clean.                                                                  *)

\* One step of Clean.
CleanStep(sofar, c) ==
  CASE c \in {"/", "."} -> sofar
    [] c = ".." -> IF sofar = <<>> THEN <<>> ELSE Front(sofar)
    [] OTHER -> Append(sofar, c)

\* All but the last of a sequence.
LEMMA FrontIsASequence ==
  ASSUME NEW S, NEW s \in Seq(S), s # <<>>
  PROVE  Front(s) \in Seq(S) /\ Len(Front(s)) = Len(s) - 1
<1>1. Len(s) \in Nat \ {0}
  OBVIOUS
<1> DEFINE m == Len(s)
<1>2. SubSeq(s, 1, m - 1) \in Seq(S) /\ Len(SubSeq(s, 1, m - 1)) = m - 1
  <2>1. m - 1 \in Int /\ 1 \in Int /\ (IF 1 <= m - 1 THEN (m - 1) - 1 + 1 ELSE 0) = m - 1
    <3>1. m \in Nat \ {0}
      BY <1>1
    <3> HIDE DEF m
    <3>2. QED
      BY <3>1
  <2>2. \A i \in 1 .. m - 1 : s[i] \in S
    BY <1>1
  <2> HIDE DEF m
  <2>3. QED
    BY <2>1, <2>2, SubSeqProperties
<1>3. QED
  BY <1>2 DEF Front

\* Clean goes through a path piece by piece.
LEMMA CleanWalks ==
  ASSUME NEW P, NEW text \in Seq(P)
  PROVE  \E walk :
           /\ walk[0] = <<>>
           /\ \A i \in 1 .. Len(text) : walk[i] = CleanStep(walk[i - 1], text[i])
           /\ Clean(text) = walk[Len(text)]
<1> DEFINE n == Len(text)
           Text == Seq(P)
           step == [i \in 1 .. n |-> [sofar \in Text |-> CleanStep(sofar, text[i])]]
<1>1. n \in Nat /\ DOMAIN text = 1 .. n /\ \A i \in 1 .. n : text[i] \in P
  OBVIOUS
<1>2. step \in [1 .. n -> [Text -> Text]]
  <2> SUFFICES ASSUME NEW sofar \in Text, NEW i \in 1 .. n
      PROVE  CleanStep(sofar, text[i]) \in Text
    OBVIOUS
  <2>1. CASE text[i] \in {"/", "."}
    BY <2>1 DEF CleanStep
  <2>2. CASE text[i] = ".."
    <3>1. CleanStep(sofar, text[i]) \in {<<>>, sofar, Front(sofar)}
      BY <2>2 DEF CleanStep
    <3>2. CASE sofar = <<>>
      BY <2>2, <3>2 DEF CleanStep
    <3>3. CASE sofar # <<>>
      BY <2>2, <3>3, FrontIsASequence DEF CleanStep
    <3>4. QED
      BY <3>2, <3>3
  <2>3. CASE text[i] \notin {"/", ".", ".."}
    <3>1. CleanStep(sofar, text[i]) = Append(sofar, text[i])
      BY <2>3 DEF CleanStep
    <3>2. QED
      BY <1>1, <3>1
  <2>4. QED
    BY <2>1, <2>2, <2>3
<1>3. PICK h \in [SUBSET (1 .. n) -> Text] : SolvesFold(h, n, <<>>, step)
  <2>1. <<>> \in Text
    OBVIOUS
  <2>2. n \in Nat
    BY <1>1
  <2> HIDE DEF step, n, Text
  <2>3. QED
    BY <1>2, <2>1, <2>2, RecursionExists, Zenon
<1>4. h = [s \in SUBSET (1 .. n) |->
             IF s = {} THEN <<>> ELSE CleanStep(h[s \ {Max(s)}], text[Max(s)])]
  <2>1. ASSUME NEW s \in SUBSET (1 .. n), s # {}
        PROVE  Max(s) \in 1 .. n /\ s \ {Max(s)} \in SUBSET (1 .. n)
    BY <1>1, <2>1, MaxIsIn
  <2>2. ASSUME NEW s \in SUBSET (1 .. n), s # {}
        PROVE  h[s] = CleanStep(h[s \ {Max(s)}], text[Max(s)])
    <3>1. h[s \ {Max(s)}] \in Text /\ Max(s) \in 1 .. n
      BY <2>1, <2>2
    <3>2. QED
      BY <1>3, <2>2, <3>1 DEF SolvesFold
  <2>3. h[{}] = <<>>
    BY <1>3 DEF SolvesFold
  <2> HIDE DEF step, n
  <2>4. QED
    BY <2>2, <2>3
<1> DEFINE iter == CHOOSE it :
             it = [s \in SUBSET DOMAIN text |->
                     IF s = {} THEN <<>> ELSE CleanStep(it[s \ {Max(s)}], text[Max(s)])]
<1>5. iter = [s \in SUBSET DOMAIN text |->
                IF s = {} THEN <<>> ELSE CleanStep(iter[s \ {Max(s)}], text[Max(s)])]
  BY <1>1, <1>4
<1>6. Clean(text) = iter[DOMAIN text]
  BY DEF Clean, FoldLeft, MapThenFoldSet, CleanStep
<1> DEFINE walk == [i \in 0 .. n |-> iter[1 .. i]]
<1>7. walk[0] = <<>>
  <2>1. 1 .. 0 = {} /\ {} \in SUBSET DOMAIN text /\ 0 \in 0 .. n
    BY <1>1
  <2> HIDE DEF iter
  <2>2. iter[{}] = <<>>
    BY <1>5, <2>1
  <2> QED
    BY <2>1, <2>2
<1>8. ASSUME NEW i \in 1 .. n
      PROVE  walk[i] = CleanStep(walk[i - 1], text[i])
  <2>1. /\ 1 .. i \in SUBSET DOMAIN text /\ 1 .. i # {} /\ Max(1 .. i) = i
        /\ (1 .. i) \ {Max(1 .. i)} = 1 .. (i - 1)
    BY <1>1, MaxOfInterval
  <2> HIDE DEF iter, n
  <2>2. iter[1 .. i] = CleanStep(iter[1 .. (i - 1)], text[i])
    BY <1>5, <2>1
  <2>3. i \in 0 .. n /\ i - 1 \in 0 .. n
    BY <1>1
  <2> QED
    BY <2>2, <2>3
<1>9. Clean(text) = walk[n]
  <2>1. n \in 0 .. n
    BY <1>1
  <2> HIDE DEF iter
  <2> QED
    BY <1>1, <1>6, <2>1
<1>10. QED
  <2> HIDE DEF walk
  <2> QED
    BY <1>7, <1>8, <1>9

\* "/" is the root: nothing of it remains.
LEMMA CleanOfRoot == Clean(<<"/">>) = <<>>
<1>1. <<"/">> \in Seq({"/"}) /\ Len(<<"/">>) = 1
  OBVIOUS
<1>2. PICK walk :
        /\ walk[0] = <<>>
        /\ \A i \in 1 .. Len(<<"/">>) : walk[i] = CleanStep(walk[i - 1], <<"/">>[i])
        /\ Clean(<<"/">>) = walk[Len(<<"/">>)]
  BY <1>1, CleanWalks
<1>3. walk[1] = CleanStep(walk[1 - 1], <<"/">>[1])
  BY <1>1, <1>2
<1>4. walk[1] = CleanStep(<<>>, "/")
  BY <1>2, <1>3
<1>5. QED
  BY <1>1, <1>2, <1>4 DEF CleanStep

-----------------------------------------------------------------------------
(* Folds over sequences: Split.                                            *)

\* Folding over the greatest element first is going from 1 to n.
FoldsBy(iter, n, T, base, F) ==
  /\ iter[{}] = base
  /\ \A s \in SUBSET (1 .. n) :
       s # {} /\ iter[s \ {Max(s)}] \in T => iter[s] = F[Max(s)][iter[s \ {Max(s)}]]
\* A fold as a function of how far it has come, given how the recursion of FoldLeft goes.
WalkOf(iter, n) == [i \in 0 .. n |-> iter[1 .. i]]
\* walk goes by F from base, over values in T.
GoesBy(walk, n, T, base, F) ==
  /\ walk \in [0 .. n -> T]
  /\ walk[0] = base
  /\ \A i \in 1 .. n : walk[i] = F[i][walk[i - 1]]

\* FoldLeft is where such a walk ends.
LEMMA FoldIsAWalk ==
  ASSUME NEW n \in Nat, NEW T, NEW base \in T, NEW F \in [1 .. n -> [T -> T]], NEW iter,
         FoldsBy(iter, n, T, base, F)
  PROVE  GoesBy(WalkOf(iter, n), n, T, base, F) /\ WalkOf(iter, n)[n] = iter[1 .. n]
<1> DEFINE walk == WalkOf(iter, n)
<1>0. /\ iter[{}] = base
      /\ \A s \in SUBSET (1 .. n) :
           s # {} /\ iter[s \ {Max(s)}] \in T => iter[s] = F[Max(s)][iter[s \ {Max(s)}]]
  BY DEF FoldsBy
<1>w. walk = [i \in 0 .. n |-> iter[1 .. i]]
  BY DEF WalkOf
<1> HIDE DEF walk
<1>1. walk[0] = base
  <2>1. 1 .. 0 = {} /\ 0 \in 0 .. n
    OBVIOUS
  <2>2. walk[0] = iter[1 .. 0]
    BY <2>1, <1>w
  <2>3. QED
    BY <2>1, <2>2, <1>0
<1>2. ASSUME NEW i \in 1 .. n, walk[i - 1] \in T
      PROVE  walk[i] = F[i][walk[i - 1]] /\ walk[i] \in T
  <2>1. /\ 1 .. i \in SUBSET (1 .. n) /\ 1 .. i # {} /\ Max(1 .. i) = i
        /\ (1 .. i) \ {Max(1 .. i)} = 1 .. (i - 1)
    <3>1. Max(1 .. i) = i /\ (1 .. i) \ {Max(1 .. i)} = 1 .. (i - 1)
      BY MaxOfInterval
    <3>2. 1 .. i \in SUBSET (1 .. n) /\ i \in 1 .. i
      OBVIOUS
    <3>3. QED
      BY <3>1, <3>2
  <2>2. i \in 0 .. n /\ i - 1 \in 0 .. n
    OBVIOUS
  <2>3. walk[i] = iter[1 .. i] /\ walk[i - 1] = iter[1 .. (i - 1)]
    BY <2>2, <1>w
  <2>4. iter[1 .. i] = F[i][iter[1 .. (i - 1)]]
    BY <1>0, <1>2, <2>1, <2>3
  <2>5. QED
    BY <1>2, <2>3, <2>4
<1> DEFINE Good == {i \in 0 .. n : walk[i] \in T}
<1>3. 0 \in Good
  BY <1>1
<1>4. ASSUME NEW i \in 1 .. n, i - 1 \in Good
      PROVE  i \in Good
  <2>1. walk[i - 1] \in T /\ i \in 0 .. n
    BY <1>4
  <2>2. walk[i] \in T
    BY <1>2, <2>1
  <2>3. QED
    BY <2>1, <2>2
<1> HIDE DEF Good
<1>5. \A i \in 0 .. n : i \in Good
  <2>1. \A i \in 1 .. n : i - 1 \in Good => i \in Good
    BY <1>4
  <2>2. QED
    BY <1>3, <2>1, UpTo, Zenon
<1>6. \A i \in 0 .. n : walk[i] \in T
  BY <1>5 DEF Good
<1>7. \A i \in 1 .. n : walk[i] = F[i][walk[i - 1]]
  BY <1>2, <1>6
<1>8. walk[n] = iter[1 .. n]
  BY <1>w
<1>9. walk \in [0 .. n -> T]
  BY <1>w, <1>6
<1>10. GoesBy(walk, n, T, base, F)
  BY <1>1, <1>7, <1>9 DEF GoesBy
<1>11. QED
  BY <1>8, <1>10 DEF walk

\* One step of Split.
SplitStep(sofar, c, sep) ==
  IF c = sep THEN Append(sofar, <<>>)
  ELSE Append(Front(sofar), Append(Last(sofar), c))

\* The walk of Split over text.
IsSplitWalk(walk, P, text, sep) ==
  /\ walk \in [0 .. Len(text) -> Seq(Seq(P)) \ {<<>>}]
  /\ walk[0] = << <<>> >>
  /\ \A i \in 1 .. Len(text) : walk[i] = SplitStep(walk[i - 1], text[i], sep)
  /\ Split(text, sep) = walk[Len(text)]

\* Split is where that walk ends.
LEMMA SplitWalks ==
  ASSUME NEW P, NEW text \in Seq(P), NEW sep
  PROVE  \E walk : IsSplitWalk(walk, P, text, sep)
<1> DEFINE n == Len(text)
           T == Seq(Seq(P)) \ {<<>>}
           step == [i \in 1 .. n |-> [sofar \in T |-> SplitStep(sofar, text[i], sep)]]
           iter == CHOOSE it :
             it = [s \in SUBSET DOMAIN text |->
                     IF s = {} THEN << <<>> >>
                     ELSE SplitStep(it[s \ {Max(s)}], text[Max(s)], sep)]
<1>1. n \in Nat /\ DOMAIN text = 1 .. n /\ \A i \in 1 .. n : text[i] \in P
  OBVIOUS
<1>2. step \in [1 .. n -> [T -> T]]
  <2> SUFFICES ASSUME NEW sofar \in T, NEW i \in 1 .. n
      PROVE  SplitStep(sofar, text[i], sep) \in T
    OBVIOUS
  <2>0. sofar \in Seq(Seq(P)) /\ sofar # <<>> /\ <<>> \in Seq(P)
    OBVIOUS
  <2>1. Append(sofar, <<>>) \in T
    BY <2>0
  <2>2. Append(Front(sofar), Append(Last(sofar), text[i])) \in T
    <3>1. Front(sofar) \in Seq(Seq(P))
      BY <2>0, FrontIsASequence
    <3>2. Len(sofar) \in Nat \ {0}
      BY <2>0
    <3>3. Last(sofar) \in Seq(P)
      <4> DEFINE m == Len(sofar)
      <4>1. m \in 1 .. m
        <5>1. m \in Nat \ {0}
          BY <3>2
        <5> HIDE DEF m
        <5>2. QED
          BY <5>1
      <4>2. sofar[m] \in Seq(P)
        BY <4>1, <2>0
      <4>3. QED
        BY <4>2 DEF Last
    <3>4. Append(Last(sofar), text[i]) \in Seq(P)
      BY <1>1, <3>3
    <3> DEFINE front == Front(sofar)
               last == Append(Last(sofar), text[i])
    <3>5. front \in Seq(Seq(P)) /\ last \in Seq(P)
      BY <3>1, <3>4
    <3> HIDE DEF front, last
    <3> DEFINE S == Seq(P)
    <3>5a. front \in Seq(S) /\ last \in S
      BY <3>5
    <3> HIDE DEF S
    <3>6. Append(front, last) \in Seq(S) /\ Append(front, last) # <<>>
      BY <3>5a, AppendProperties
    <3>7. QED
      BY <3>6 DEF front, last, S
  <2>3. QED
    BY <2>1, <2>2 DEF SplitStep
<1>3. PICK h \in [SUBSET (1 .. n) -> T] : SolvesFold(h, n, << <<>> >>, step)
  <2>1. << <<>> >> \in T
    OBVIOUS
  <2>2. n \in Nat
    BY <1>1
  <2> HIDE DEF step, n, T
  <2>3. QED
    BY <1>2, <2>1, <2>2, RecursionExists, Zenon
<1>4. h = [s \in SUBSET DOMAIN text |->
             IF s = {} THEN << <<>> >> ELSE SplitStep(h[s \ {Max(s)}], text[Max(s)], sep)]
  <2>1. ASSUME NEW s \in SUBSET (1 .. n), s # {}
        PROVE  h[s] = SplitStep(h[s \ {Max(s)}], text[Max(s)], sep)
    <3>1. Max(s) \in 1 .. n /\ s \ {Max(s)} \in SUBSET (1 .. n)
      BY <1>1, <2>1, MaxIsIn
    <3>2. h[s \ {Max(s)}] \in T
      BY <3>1
    <3> HIDE DEF T
    <3>3. QED
      BY <1>3, <2>1, <3>1, <3>2 DEF SolvesFold
  <2>2. h[{}] = << <<>> >>
    BY <1>3 DEF SolvesFold
  <2> HIDE DEF step, n, T
  <2>3. QED
    BY <1>1, <2>1, <2>2
<1>5. iter = [s \in SUBSET DOMAIN text |->
                IF s = {} THEN << <<>> >> ELSE SplitStep(iter[s \ {Max(s)}], text[Max(s)], sep)]
  BY <1>4
<1>6. Split(text, sep) = iter[DOMAIN text]
  BY DEF Split, FoldLeft, MapThenFoldSet, SplitStep
<1> HIDE DEF iter
<1> DEFINE walk == WalkOf(iter, n)
<1>7. /\ walk \in [0 .. n -> T]
      /\ walk[0] = << <<>> >>
      /\ \A i \in 1 .. n : walk[i] = step[i][walk[i - 1]]
      /\ iter[1 .. n] = walk[n]
  <2>1. << <<>> >> \in T /\ n \in Nat
    BY <1>1
  <2>2. iter[{}] = << <<>> >>
    BY <1>1, <1>5
  <2>3. ASSUME NEW s \in SUBSET (1 .. n), s # {}, iter[s \ {Max(s)}] \in T
        PROVE  iter[s] = step[Max(s)][iter[s \ {Max(s)}]]
    <3>1. Max(s) \in 1 .. n
      BY <1>1, <2>3, MaxIsIn
    <3> HIDE DEF T
    <3>2. iter[s] = SplitStep(iter[s \ {Max(s)}], text[Max(s)], sep)
      BY <1>1, <1>5, <2>3
    <3>3. QED
      BY <2>3, <3>1, <3>2
  <2> HIDE DEF n, T, step, walk
  <2>4. FoldsBy(iter, n, T, << <<>> >>, step)
    BY <2>2, <2>3 DEF FoldsBy
  <2>5. GoesBy(walk, n, T, << <<>> >>, step) /\ walk[n] = iter[1 .. n]
    BY <1>2, <2>1, <2>4, FoldIsAWalk, Zenon DEF walk
  <2>6. QED
    BY <2>5 DEF GoesBy
<1>8. \A i \in 1 .. n : walk[i] = SplitStep(walk[i - 1], text[i], sep)
  <2> SUFFICES ASSUME NEW i \in 1 .. n PROVE walk[i] = SplitStep(walk[i - 1], text[i], sep)
    OBVIOUS
  <2>1. i - 1 \in 0 .. n
    BY <1>1
  <2>2. walk[i - 1] \in T
    BY <2>1, <1>7
  <2> HIDE DEF walk, T, n
  <2>3. step[i][walk[i - 1]] = SplitStep(walk[i - 1], text[i], sep)
    BY <2>2
  <2>4. QED
    BY <1>7, <2>3
<1>9. QED
  <2> HIDE DEF walk, T, n
  <2>1. walk \in [0 .. n -> T] /\ walk[0] = << <<>> >> /\ Split(text, sep) = walk[n]
    BY <1>1, <1>6, <1>7
  <2>2. QED
    BY <2>1, <1>8 DEF T, n, IsSplitWalk

-----------------------------------------------------------------------------
(* Normalize.                                                              *)

\* What the provers need to know of every sequence.
LEMMA LengthIs ==
  ASSUME NEW S, NEW s \in Seq(S)
  PROVE  /\ Len(s) \in Nat /\ DOMAIN s = 1 .. Len(s) /\ \A i \in 1 .. Len(s) : s[i] \in S
         /\ SubSeq(s, 1, Len(s)) = s
<1>1. Len(s) \in Nat /\ DOMAIN s = 1 .. Len(s) /\ \A i \in 1 .. Len(s) : s[i] \in S
  OBVIOUS
<1>2. s = [i \in 1 .. Len(s) |-> s[i]]
  OBVIOUS
<1>3. SubSeq(s, 1, Len(s)) = [i \in 1 .. Len(s) |-> s[i]]
  BY <1>1
<1>4. QED
  BY <1>1, <1>2, <1>3

\* A prefix and the next piece.
LEMMA LongerPrefix ==
  ASSUME NEW S, NEW s \in Seq(S), NEW j \in 1 .. Len(s)
  PROVE  /\ SubSeq(s, 1, j - 1) \in Seq(S)
         /\ Append(SubSeq(s, 1, j - 1), s[j]) = SubSeq(s, 1, j)
<1>1. Len(s) \in Nat /\ \A i \in 1 .. Len(s) : s[i] \in S
  BY LengthIs
<1>2. SubSeq(s, 1, j - 1) \in Seq(S) /\ Len(SubSeq(s, 1, j - 1)) = j - 1
  BY <1>1
<1>3. \A i \in 1 .. j - 1 : SubSeq(s, 1, j - 1)[i] = s[i]
  BY <1>1
<1>4. SubSeq(s, 1, j) = [i \in 1 .. j |-> s[i]]
  BY <1>1
<1>5. Append(SubSeq(s, 1, j - 1), s[j]) = [i \in 1 .. j |-> IF i = j THEN s[j] ELSE s[i]]
  <2> DEFINE p == SubSeq(s, 1, j - 1)
             t == Append(p, s[j])
  <2>1. p \in Seq(S) /\ Len(p) = j - 1 /\ s[j] \in S /\ \A i \in 1 .. j - 1 : p[i] = s[i]
    BY <1>1, <1>2, <1>3
  <2> HIDE DEF p
  <2>2. t \in Seq(S) /\ Len(t) = (j - 1) + 1 /\ t[(j - 1) + 1] = s[j] /\ \A i \in 1 .. j - 1 : t[i] = p[i]
    BY <2>1, AppendProperties
  <2> HIDE DEF t
  <2>3. (j - 1) + 1 = j
    BY <1>1
  <2>4. t = [i \in 1 .. j |-> t[i]]
    BY <2>2, <2>3
  <2>5. \A i \in 1 .. j : t[i] = IF i = j THEN s[j] ELSE s[i]
    BY <2>1, <2>2, <2>3
  <2>6. QED
    BY <2>4, <2>5 DEF t, p
<1>6. QED
  BY <1>2, <1>4, <1>5

\* One step of Normalize.
NormalizeStep(sofar, c) ==
  IF c \notin Separators THEN Append(sofar, Lower(c))
  ELSE IF sofar # <<>> /\ Last(sofar) # "-" THEN Append(sofar, "-")
  ELSE sofar

\* What a name can hold of a text of P.
NamePieces(P) == {Lower(c) : c \in P \ Separators} \cup {"-"}

\* What TrimRight leaves is where the last piece is no hyphen.
LEMMA TrimmedIs ==
  ASSUME NEW S, NEW s \in Seq(S)
  PROVE  \E m \in 0 .. Len(s) :
           /\ TrimRight(s) = SubSeq(s, 1, m)
           /\ m > 0 => s[m] # "-"
           /\ \A i \in m + 1 .. Len(s) : s[i] = "-"
<1> DEFINE n == Len(s)
           kept == {0} \cup {i \in DOMAIN s : s[i] # "-"}
           m == Max(kept)
<1>1. n \in Nat /\ DOMAIN s = 1 .. n
  OBVIOUS
<1>2. kept \in SUBSET (0 .. n) /\ kept # {}
  BY <1>1
<1>3. m \in kept /\ \A i \in kept : m >= i
  BY <1>1, <1>2, GreatestIsIn
<1>4. TrimRight(s) = SubSeq(s, 1, m)
  BY DEF TrimRight
<1> HIDE DEF m, n
<1>5. m \in 0 .. n /\ (m > 0 => s[m] # "-")
  BY <1>1, <1>3
<1>6. \A i \in m + 1 .. n : s[i] = "-"
  BY <1>1, <1>3, <1>5
<1> HIDE DEF kept
<1>7. QED
  BY <1>4, <1>5, <1>6 DEF n

\* It is of the same pieces, is no longer, and is empty or ends without a hyphen.
LEMMA TrimKeeps ==
  ASSUME NEW S, NEW s \in Seq(S)
  PROVE  /\ TrimRight(s) \in Seq(S)
         /\ Len(TrimRight(s)) <= Len(s) /\ Len(TrimRight(s)) \in Nat
         /\ TrimRight(s) = <<>> \/ Last(TrimRight(s)) # "-"
         /\ s # <<>> /\ Last(s) # "-" => TrimRight(s) = s
         /\ TrimRight(s) = <<>> => \A i \in 1 .. Len(s) : s[i] = "-"
<1> DEFINE n == Len(s)
           t == TrimRight(s)
<1>1. /\ n \in Nat /\ \A i \in 1 .. n : s[i] \in S
      /\ SubSeq(s, 1, n) = s /\ (s # <<>> => n > 0)
  <2>1. n \in Nat /\ (s # <<>> => n > 0) /\ \A i \in 1 .. n : s[i] \in S
    OBVIOUS
  <2>2. s = [i \in 1 .. n |-> s[i]] /\ SubSeq(s, 1, n) = [i \in 1 .. n |-> s[i]]
    OBVIOUS
  <2>3. QED
    BY <2>1, <2>2
<1>2. PICK m \in 0 .. n :
        /\ t = SubSeq(s, 1, m) /\ (m > 0 => s[m] # "-")
        /\ \A i \in m + 1 .. n : s[i] = "-"
  BY TrimmedIs
<1> HIDE DEF t, n
<1>3. t \in Seq(S) /\ Len(t) = m /\ \A i \in 1 .. m : t[i] = s[i]
  <2>1. m \in Int /\ 1 \in Int /\ \A i \in 1 .. m : s[i] \in S
    BY <1>1, <1>2
  <2>2. /\ SubSeq(s, 1, m) \in Seq(S)
        /\ Len(SubSeq(s, 1, m)) = IF 1 <= m THEN m - 1 + 1 ELSE 0
        /\ \A i \in 1 .. m - 1 + 1 : SubSeq(s, 1, m)[i] = s[1 + i - 1]
    BY <2>1, SubSeqProperties
  <2>3. QED
    BY <1>1, <1>2, <2>2
<1>4. t = <<>> \/ Last(t) # "-"
  <2>1. CASE m = 0
    BY <1>3, <2>1, EmptySeq
  <2>2. CASE m > 0
    <3>1. t[m] = s[m]
      BY <1>1, <1>2, <1>3, <2>2
    <3>2. QED
      BY <1>2, <1>3, <2>2, <3>1 DEF Last
  <2>3. QED
    BY <1>1, <1>2, <2>1, <2>2
<1>5. ASSUME s # <<>>, Last(s) # "-"
      PROVE  t = s
  <2>1. n > 0 /\ s[n] # "-"
    BY <1>1, <1>5 DEF Last, n
  <2>2. m = n
    BY <1>1, <1>2, <2>1
  <2>3. QED
    BY <1>1, <1>2, <2>2
<1>6. ASSUME t = <<>>
      PROVE  \A i \in 1 .. n : s[i] = "-"
  <2>1. m = 0
    BY <1>3, <1>6, EmptySeq
  <2>2. QED
    BY <1>2, <2>1
<1>7. m \in Nat /\ m <= n
  BY <1>1, <1>2
<1>8. QED
  BY <1>3, <1>4, <1>5, <1>6, <1>7 DEF t, n

\* So is what Truncate leaves, which is not longer than asked for.
LEMMA TruncateKeeps ==
  ASSUME NEW S, NEW s \in Seq(S), NEW n \in Int
  PROVE  /\ Truncate(s, n) \in Seq(S)
         /\ n >= 0 => Len(Truncate(s, n)) <= n
         /\ Len(s) <= n => Truncate(s, n) = s
         /\ Len(Truncate(s, n)) <= Len(s)
         /\ n > 0 /\ s # <<>> => Truncate(s, n) # <<>> /\ Truncate(s, n)[1] = s[1]
<1> DEFINE size == Len(s)
           m == Min({n, size})
           t == Truncate(s, n)
<1>1. /\ size \in Nat /\ \A i \in 1 .. size : s[i] \in S
      /\ SubSeq(s, 1, size) = s /\ (s # <<>> => size > 0)
  <2>1. size \in Nat /\ (s # <<>> => size > 0) /\ \A i \in 1 .. size : s[i] \in S
    OBVIOUS
  <2>2. s = [i \in 1 .. size |-> s[i]] /\ SubSeq(s, 1, size) = [i \in 1 .. size |-> s[i]]
    OBVIOUS
  <2>3. QED
    BY <2>1, <2>2
<1>2. m \in {n, size} /\ m <= size /\ m <= n
  <2> HIDE DEF size
  <2>1. \E x \in {n, size} : \A y \in {n, size} : x <= y
    BY <1>1
  <2>2. QED
    BY <2>1 DEF Min
<1>3. t = SubSeq(s, 1, m)
  BY DEF Truncate
<1> HIDE DEF size, m, t
<1>4. /\ SubSeq(s, 1, m) \in Seq(S)
      /\ Len(SubSeq(s, 1, m)) = IF 1 <= m THEN m - 1 + 1 ELSE 0
      /\ \A i \in 1 .. m - 1 + 1 : SubSeq(s, 1, m)[i] = s[1 + i - 1]
  <2>1. m \in Int /\ 1 \in Int /\ \A i \in 1 .. m : s[i] \in S
    BY <1>1, <1>2
  <2>2. QED
    BY <2>1, SubSeqProperties
<1>5. t \in Seq(S) /\ Len(t) <= size /\ (n >= 0 => Len(t) <= n)
  BY <1>1, <1>2, <1>3, <1>4
<1>6. size <= n => t = s
  BY <1>1, <1>2, <1>3
<1>7. ASSUME n > 0, s # <<>>
      PROVE  t # <<>> /\ t[1] = s[1]
  <2>1. m >= 1
    BY <1>1, <1>2, <1>7
  <2>2. Len(t) >= 1 /\ t[1] = s[1]
    BY <1>1, <1>2, <1>3, <1>4, <2>1
  <2>3. QED
    BY <2>2, EmptySeq
<1>8. QED
  BY <1>5, <1>6, <1>7 DEF t, size

\* The walk of Normalize over text.
IsNormalizeWalk(walk, P, text) ==
  /\ walk \in [0 .. Len(text) -> Seq(NamePieces(P))]
  /\ walk[0] = <<>>
  /\ \A i \in 1 .. Len(text) : walk[i] = NormalizeStep(walk[i - 1], text[i])
  /\ Normalize(text) = TrimRight(walk[Len(text)])

\* Normalize is where that walk ends, but for the hyphens there.
LEMMA NormalizeWalks ==
  ASSUME NEW P, NEW text \in Seq(P)
  PROVE  \E walk : IsNormalizeWalk(walk, P, text)
<1> DEFINE n == Len(text)
           T == Seq(NamePieces(P))
           step == [i \in 1 .. n |-> [sofar \in T |-> NormalizeStep(sofar, text[i])]]
           iter == CHOOSE it :
             it = [s \in SUBSET DOMAIN text |->
                     IF s = {} THEN <<>> ELSE NormalizeStep(it[s \ {Max(s)}], text[Max(s)])]
<1>1. n \in Nat /\ DOMAIN text = 1 .. n /\ \A i \in 1 .. n : text[i] \in P
  OBVIOUS
<1>2. step \in [1 .. n -> [T -> T]]
  <2> SUFFICES ASSUME NEW sofar \in T, NEW i \in 1 .. n
      PROVE  NormalizeStep(sofar, text[i]) \in T
    OBVIOUS
  <2>1. text[i] \notin Separators => Append(sofar, Lower(text[i])) \in T
    <3>1. text[i] \notin Separators => Lower(text[i]) \in NamePieces(P)
      BY <1>1 DEF NamePieces
    <3> DEFINE Q == NamePieces(P)
    <3> HIDE DEF Q
    <3>2. QED
      BY <3>1 DEF Q
  <2>2. Append(sofar, "-") \in T
    <3>1. "-" \in NamePieces(P)
      BY DEF NamePieces
    <3> DEFINE Q == NamePieces(P)
    <3> HIDE DEF Q
    <3>2. QED
      BY <3>1 DEF Q
  <2> HIDE DEF T
  <2>3. QED
    BY <2>1, <2>2 DEF NormalizeStep
<1>3. PICK h \in [SUBSET (1 .. n) -> T] : SolvesFold(h, n, <<>>, step)
  <2>1. <<>> \in T
    OBVIOUS
  <2>2. n \in Nat
    BY <1>1
  <2> HIDE DEF step, n, T
  <2>3. QED
    BY <1>2, <2>1, <2>2, RecursionExists, Zenon
<1>4. h = [s \in SUBSET DOMAIN text |->
             IF s = {} THEN <<>> ELSE NormalizeStep(h[s \ {Max(s)}], text[Max(s)])]
  <2>1. ASSUME NEW s \in SUBSET (1 .. n), s # {}
        PROVE  h[s] = NormalizeStep(h[s \ {Max(s)}], text[Max(s)])
    <3>1. Max(s) \in 1 .. n /\ s \ {Max(s)} \in SUBSET (1 .. n)
      BY <1>1, <2>1, MaxIsIn
    <3>2. h[s \ {Max(s)}] \in T
      BY <3>1
    <3> HIDE DEF T
    <3>3. QED
      BY <1>3, <2>1, <3>1, <3>2 DEF SolvesFold
  <2>2. h[{}] = <<>>
    BY <1>3 DEF SolvesFold
  <2> HIDE DEF step, n, T
  <2>3. QED
    BY <1>1, <2>1, <2>2
<1>5. iter = [s \in SUBSET DOMAIN text |->
                IF s = {} THEN <<>> ELSE NormalizeStep(iter[s \ {Max(s)}], text[Max(s)])]
  BY <1>4
<1>6. Normalize(text) = TrimRight(iter[DOMAIN text])
  BY DEF Normalize, FoldLeft, MapThenFoldSet, NormalizeStep
<1> HIDE DEF iter
<1> DEFINE walk == WalkOf(iter, n)
<1>7. /\ walk \in [0 .. n -> T]
      /\ walk[0] = <<>>
      /\ \A i \in 1 .. n : walk[i] = step[i][walk[i - 1]]
      /\ iter[1 .. n] = walk[n]
  <2>1. <<>> \in T /\ n \in Nat
    BY <1>1
  <2>2. iter[{}] = <<>>
    BY <1>1, <1>5
  <2>3. ASSUME NEW s \in SUBSET (1 .. n), s # {}, iter[s \ {Max(s)}] \in T
        PROVE  iter[s] = step[Max(s)][iter[s \ {Max(s)}]]
    <3>1. Max(s) \in 1 .. n
      BY <1>1, <2>3, MaxIsIn
    <3> HIDE DEF T
    <3>2. iter[s] = NormalizeStep(iter[s \ {Max(s)}], text[Max(s)])
      BY <1>1, <1>5, <2>3
    <3>3. QED
      BY <2>3, <3>1, <3>2
  <2> HIDE DEF n, T, step, walk
  <2>4. FoldsBy(iter, n, T, <<>>, step)
    BY <2>2, <2>3 DEF FoldsBy
  <2>5. GoesBy(walk, n, T, <<>>, step) /\ walk[n] = iter[1 .. n]
    BY <1>2, <2>1, <2>4, FoldIsAWalk, Zenon DEF walk
  <2>6. QED
    BY <2>5 DEF GoesBy
<1>8. \A i \in 1 .. n : walk[i] = NormalizeStep(walk[i - 1], text[i])
  <2> SUFFICES ASSUME NEW i \in 1 .. n PROVE walk[i] = NormalizeStep(walk[i - 1], text[i])
    OBVIOUS
  <2>1. i - 1 \in 0 .. n
    BY <1>1
  <2>2. walk[i - 1] \in T
    BY <2>1, <1>7
  <2> HIDE DEF walk, T, n
  <2>3. step[i][walk[i - 1]] = NormalizeStep(walk[i - 1], text[i])
    BY <2>2
  <2>4. QED
    BY <1>7, <2>3
<1>9. QED
  <2> HIDE DEF walk, T, n
  <2>1. walk \in [0 .. n -> T] /\ walk[0] = <<>> /\ Normalize(text) = TrimRight(walk[n])
    BY <1>1, <1>6, <1>7
  <2>2. QED
    BY <2>1, <1>8 DEF T, n, IsNormalizeWalk

\* A normalised text holds no separator but the hyphen, and does not end in it.
LEMMA NormalizeIsOfNamePieces ==
  ASSUME NEW P, NEW text \in Seq(P)
  PROVE  /\ Normalize(text) \in Seq(NamePieces(P))
         /\ Normalize(text) = <<>> \/ Last(Normalize(text)) # "-"
<1>1. PICK walk : IsNormalizeWalk(walk, P, text)
  BY NormalizeWalks, Zenon
<1> DEFINE Q == NamePieces(P)
           n == Len(text)
<1>2. n \in Nat
  OBVIOUS
<1> HIDE DEF Q, n
<1>3. walk \in [0 .. n -> Seq(Q)] /\ Normalize(text) = TrimRight(walk[n])
  BY <1>1 DEF IsNormalizeWalk, Q, n
<1>4. walk[n] \in Seq(Q)
  BY <1>2, <1>3
<1>5. QED
  BY <1>3, <1>4, TrimKeeps DEF Q

\* A text of letters and digits in lower case is its own normal form.
LEMMA PlainIsNormal ==
  ASSUME NEW P, NEW text \in Seq(P), text # <<>>,
         \A i \in 1 .. Len(text) : text[i] \notin Separators /\ Lower(text[i]) = text[i]
  PROVE  Normalize(text) = text
<1>1. PICK walk : IsNormalizeWalk(walk, P, text)
  BY NormalizeWalks, Zenon
<1> DEFINE n == Len(text)
           Good == {i \in 0 .. n : walk[i] = SubSeq(text, 1, i)}
<1>2. /\ n \in Nat /\ n > 0 /\ \A i \in 1 .. n : text[i] \in P
  OBVIOUS
<1>3. SubSeq(text, 1, n) = text
  <2>1. text = [i \in 1 .. n |-> text[i]] /\ SubSeq(text, 1, n) = [i \in 1 .. n |-> text[i]]
    OBVIOUS
  <2>2. QED
    BY <2>1
<1>4. /\ walk[0] = <<>> /\ Normalize(text) = TrimRight(walk[n])
      /\ \A i \in 1 .. n : walk[i] = NormalizeStep(walk[i - 1], text[i])
  BY <1>1 DEF IsNormalizeWalk
<1>5. 0 \in Good
  <2>1. SubSeq(text, 1, 0) = <<>>
    OBVIOUS
  <2>2. 0 \in 0 .. n
    <3> HIDE DEF n
    <3>1. QED
      BY <1>2
  <2> HIDE DEF n
  <2>3. QED
    BY <1>4, <2>1, <2>2
<1>6. ASSUME NEW i \in 1 .. n, i - 1 \in Good
      PROVE  i \in Good
  <2>1. walk[i - 1] = SubSeq(text, 1, i - 1)
    BY <1>6
  <2>2. walk[i] = Append(SubSeq(text, 1, i - 1), text[i])
    BY <1>4, <2>1 DEF NormalizeStep
  <2>3. Append(SubSeq(text, 1, i - 1), text[i]) = SubSeq(text, 1, i)
    <3>1. i \in 1 .. Len(text)
      OBVIOUS
    <3> HIDE DEF n
    <3>2. QED
      BY <3>1, LongerPrefix
  <2>4. i \in 0 .. n
    BY <1>2
  <2>5. QED
    BY <2>2, <2>3, <2>4
<1> HIDE DEF Good
<1>7. \A i \in 0 .. n : i \in Good
  <2> HIDE DEF n
  <2>1. QED
    BY <1>2, <1>5, <1>6, UpTo, Zenon
<1>8. walk[n] = text
  <2>1. n \in Good
    BY <1>2, <1>7
  <2>2. QED
    BY <1>3, <2>1 DEF Good
<1>9. Last(text) # "-"
  <2>1. "-" \in Separators
    BY DEF Separators
  <2>2. text[n] \notin Separators
    BY <1>2
  <2>3. QED
    BY <2>1, <2>2 DEF Last
<1>10. QED
  BY <1>4, <1>8, <1>9, TrimKeeps

-----------------------------------------------------------------------------
(* Join.                                                                   *)

\* One step of Join.
JoinStep(sofar, t, sep) == sofar \o <<sep>> \o t

\* A step of Join keeps to pieces and separators.
LEMMA JoinStepKeeps ==
  ASSUME NEW Q, NEW sep \in Q, NEW sofar \in Seq(Q), NEW t \in Seq(Q)
  PROVE  JoinStep(sofar, t, sep) \in Seq(Q)
<1>1. <<sep>> \in Seq(Q)
  OBVIOUS
<1>2. sofar \o <<sep>> \in Seq(Q)
  BY <1>1
<1>3. QED
  BY <1>2 DEF JoinStep

\* All but the first of a sequence, piece by piece.
LEMMA TailIs ==
  ASSUME NEW S, NEW texts \in Seq(S), texts # <<>>
  PROVE  /\ Tail(texts) \in Seq(S) /\ Len(texts) \in Nat \ {0} /\ texts[1] \in S
         /\ Len(Tail(texts)) = Len(texts) - 1
         /\ \A i \in 1 .. Len(texts) - 1 : Tail(texts)[i] = texts[i + 1]
<1>1. Len(texts) \in Nat \ {0}
  OBVIOUS
<1>2. Tail(texts) \in Seq(S) /\ Len(Tail(texts)) = Len(texts) - 1
  OBVIOUS
<1>3. \A i \in 1 .. Len(texts) - 1 : Tail(texts)[i] = texts[i + 1]
  OBVIOUS
<1>4. texts[1] \in S
  <2> DEFINE m == Len(texts)
  <2>1. m \in Nat \ {0}
    BY <1>1
  <2>2. 1 \in 1 .. m
    <3> HIDE DEF m
    <3>1. QED
      BY <2>1
  <2>3. QED
    BY <2>2
<1>5. QED
  BY <1>1, <1>2, <1>3, <1>4

\* Join is where a walk of such steps ends.
LEMMA JoinWalks ==
  ASSUME NEW P, NEW texts \in Seq(Seq(P)), texts # <<>>, NEW sep
  PROVE  \E walk \in [0 .. Len(texts) - 1 -> Seq(P \cup {sep})] :
           /\ walk[0] = texts[1]
           /\ \A i \in 1 .. Len(texts) - 1 : walk[i] = walk[i - 1] \o <<sep>> \o texts[i + 1]
           /\ Join(texts, sep) = walk[Len(texts) - 1]
<1> DEFINE n == Len(texts) - 1
           rest == Tail(texts)
           first == texts[1]
           T == Seq(P \cup {sep})
           step == [i \in 1 .. n |-> [sofar \in T |-> JoinStep(sofar, rest[i], sep)]]
           iter == CHOOSE it :
             it = [s \in SUBSET DOMAIN rest |->
                     IF s = {} THEN first ELSE JoinStep(it[s \ {Max(s)}], rest[Max(s)], sep)]
<1>1. /\ n \in Nat /\ DOMAIN rest = 1 .. n /\ \A i \in 1 .. n : rest[i] \in T
      /\ first \in T /\ \A i \in 1 .. n : rest[i] = texts[i + 1]
  <2> DEFINE S == Seq(P)
  <2>1. Seq(P) \subseteq Seq(P \cup {sep})
    OBVIOUS
  <2>2. texts \in Seq(S)
    OBVIOUS
  <2> HIDE DEF S, rest
  <2>3. /\ rest \in Seq(S) /\ Len(texts) \in Nat \ {0} /\ texts[1] \in S
        /\ Len(rest) = Len(texts) - 1 /\ \A i \in 1 .. Len(texts) - 1 : rest[i] = texts[i + 1]
    BY <2>2, TailIs DEF rest
  <2>4. n \in Nat
    <3> DEFINE m == Len(texts)
    <3>1. m \in Nat \ {0}
      BY <2>3
    <3> HIDE DEF m
    <3>2. m - 1 \in Nat
      BY <3>1
    <3>3. QED
      BY <3>2 DEF m
  <2>5. DOMAIN rest = 1 .. n /\ \A i \in 1 .. n : rest[i] \in S
    <3>1. rest \in Seq(S) /\ Len(rest) = n
      BY <2>3
    <3> HIDE DEF n
    <3>2. QED
      BY <3>1
  <2>6. QED
    BY <2>1, <2>3, <2>4, <2>5 DEF S
<1> HIDE DEF first, rest
<1>2. step \in [1 .. n -> [T -> T]]
  <2> SUFFICES ASSUME NEW sofar \in T, NEW i \in 1 .. n
      PROVE  JoinStep(sofar, rest[i], sep) \in T
    OBVIOUS
  <2>1. sep \in P \cup {sep} /\ rest[i] \in T
    BY <1>1
  <2> DEFINE Q == P \cup {sep}
  <2>2. sep \in Q /\ sofar \in Seq(Q) /\ rest[i] \in Seq(Q)
    BY <2>1
  <2> HIDE DEF Q
  <2>3. JoinStep(sofar, rest[i], sep) \in Seq(Q)
    BY <2>2, JoinStepKeeps
  <2>4. QED
    BY <2>3 DEF Q
<1>3. PICK h \in [SUBSET (1 .. n) -> T] : SolvesFold(h, n, first, step)
  <2>1. first \in T /\ n \in Nat
    BY <1>1
  <2> HIDE DEF step, n, T
  <2>3. QED
    BY <1>2, <2>1, RecursionExists, Zenon
<1>4. h = [s \in SUBSET DOMAIN rest |->
             IF s = {} THEN first ELSE JoinStep(h[s \ {Max(s)}], rest[Max(s)], sep)]
  <2>1. ASSUME NEW s \in SUBSET (1 .. n), s # {}
        PROVE  h[s] = JoinStep(h[s \ {Max(s)}], rest[Max(s)], sep)
    <3> HIDE DEF n
    <3>1. Max(s) \in 1 .. n /\ s \ {Max(s)} \in SUBSET (1 .. n)
      BY <1>1, <2>1, MaxIsIn
    <3>2. h[s \ {Max(s)}] \in T
      BY <3>1
    <3> HIDE DEF T
    <3>3. QED
      BY <1>3, <2>1, <3>1, <3>2 DEF SolvesFold
  <2>2. h[{}] = first
    BY <1>3 DEF SolvesFold
  <2> HIDE DEF step, n, T
  <2>3. QED
    BY <1>1, <2>1, <2>2
<1>5. iter = [s \in SUBSET DOMAIN rest |->
                IF s = {} THEN first ELSE JoinStep(iter[s \ {Max(s)}], rest[Max(s)], sep)]
  BY <1>4
<1>6. Join(texts, sep) = iter[DOMAIN rest]
  BY DEF Join, FoldLeft, MapThenFoldSet, JoinStep, first, rest
<1> HIDE DEF iter
<1> DEFINE walk == WalkOf(iter, n)
<1>7. /\ walk \in [0 .. n -> T]
      /\ walk[0] = first
      /\ \A i \in 1 .. n : walk[i] = step[i][walk[i - 1]]
      /\ iter[1 .. n] = walk[n]
  <2>1. first \in T /\ n \in Nat
    BY <1>1
  <2>2. iter[{}] = first
    BY <1>1, <1>5
  <2>3. ASSUME NEW s \in SUBSET (1 .. n), s # {}, iter[s \ {Max(s)}] \in T
        PROVE  iter[s] = step[Max(s)][iter[s \ {Max(s)}]]
    <3>1. Max(s) \in 1 .. n
      <4> HIDE DEF n
      <4>1. QED
        BY <1>1, <2>3, MaxIsIn
    <3> HIDE DEF T
    <3>2. iter[s] = JoinStep(iter[s \ {Max(s)}], rest[Max(s)], sep)
      BY <1>1, <1>5, <2>3
    <3>3. QED
      BY <2>3, <3>1, <3>2
  <2> HIDE DEF n, T, step, walk
  <2>4. FoldsBy(iter, n, T, first, step)
    BY <2>2, <2>3 DEF FoldsBy
  <2>5. GoesBy(walk, n, T, first, step) /\ walk[n] = iter[1 .. n]
    BY <1>2, <2>1, <2>4, FoldIsAWalk, Zenon DEF walk
  <2>6. QED
    BY <2>5 DEF GoesBy
<1>8. ASSUME NEW i \in 1 .. n
      PROVE  walk[i] = walk[i - 1] \o <<sep>> \o texts[i + 1]
  <2>1. i - 1 \in 0 .. n
    <3> HIDE DEF n
    <3>1. QED
      BY <1>1
  <2>2. walk[i - 1] \in T
    BY <2>1, <1>7
  <2> HIDE DEF walk, T, n
  <2>3. step[i][walk[i - 1]] = JoinStep(walk[i - 1], rest[i], sep)
    BY <2>2
  <2>4. QED
    BY <1>1, <1>7, <2>3 DEF JoinStep
<1>9. QED
  <2> HIDE DEF walk, T, n
  <2>1. walk \in [0 .. n -> T] /\ walk[0] = first /\ Join(texts, sep) = walk[n]
    BY <1>1, <1>6, <1>7
  <2>2. QED
    BY <2>1, <1>8 DEF T, n, first

-----------------------------------------------------------------------------
(* Sequences.                                                              *)

\* What is appended is the last, behind what was there.
LEMMA EndOfAppend ==
  ASSUME NEW S, NEW s \in Seq(S), NEW x \in S
  PROVE  Front(Append(s, x)) = s /\ Last(Append(s, x)) = x
<1> DEFINE t == Append(s, x)
           n == Len(s)
<1>1. /\ n \in Nat /\ t \in Seq(S) /\ Len(t) = n + 1 /\ t[n + 1] = x
      /\ \A i \in 1 .. n : t[i] = s[i]
  BY AppendProperties, LengthIs
<1>2. s = [i \in 1 .. n |-> s[i]]
  OBVIOUS
<1>3. SubSeq(t, 1, n) = [i \in 1 .. n |-> t[i]]
  <2> HIDE DEF t, n
  <2>1. QED
    BY <1>1
<1>4. Len(t) - 1 = n
  <2> HIDE DEF t, n
  <2>1. QED
    BY <1>1
<1>5. [i \in 1 .. n |-> t[i]] = [i \in 1 .. n |-> s[i]]
  BY <1>1
<1>6. QED
  BY <1>1, <1>2, <1>3, <1>4, <1>5 DEF Front, Last

\* From k on, where S is whole, the walk goes over b.
GoesOver(walk, k, S, b, sep) ==
  /\ walk[k] = Append(S, <<>>)
  /\ \A j \in 1 .. Len(b) : walk[k + j] = SplitStep(walk[k + j - 1], b[j], sep)

\* From where a text begins to its end nothing splits it.
LEMMA PlainPartIsOne ==
  ASSUME NEW P, NEW sep, NEW S \in Seq(Seq(P)), NEW b \in Seq(P), ~Holds(b, sep),
         NEW k \in Nat, NEW walk, GoesOver(walk, k, S, b, sep)
  PROVE  walk[k + Len(b)] = Append(S, b)
<1> DEFINE n == Len(b)
           Good == {j \in 0 .. n : walk[k + j] = Append(S, SubSeq(b, 1, j))}
<1>1. n \in Nat /\ SubSeq(b, 1, n) = b
  BY LengthIs
<1>0. \A j \in 1 .. n : b[j] # sep /\ walk[k + j] = SplitStep(walk[k + j - 1], b[j], sep)
  <2>1. DOMAIN b = 1 .. n
    BY LengthIs
  <2>2. QED
    BY <2>1 DEF Holds, Range, GoesOver
<1>2. 0 \in Good
  <2>1. SubSeq(b, 1, 0) = <<>>
    OBVIOUS
  <2>2. k + 0 = k
    OBVIOUS
  <2>3. 0 \in 0 .. n
    BY <1>1
  <2>4. QED
    BY <2>1, <2>2, <2>3 DEF GoesOver
<1>3. ASSUME NEW j \in 1 .. n, j - 1 \in Good
      PROVE  j \in Good
  <2> DEFINE p == SubSeq(b, 1, j - 1)
  <2>1. p \in Seq(P) /\ Append(p, b[j]) = SubSeq(b, 1, j)
    BY LongerPrefix
  <2>2. k + (j - 1) = k + j - 1 /\ j \in 0 .. n
    BY <1>1
  <2>3. walk[k + j - 1] = Append(S, p)
    BY <1>3, <2>2
  <2> HIDE DEF p
  <2>4. walk[k + j] = SplitStep(Append(S, p), b[j], sep)
    BY <1>0, <2>3
  <2>5. SplitStep(Append(S, p), b[j], sep)
          = Append(Front(Append(S, p)), Append(Last(Append(S, p)), b[j]))
    BY <1>0 DEF SplitStep
  <2>6. Front(Append(S, p)) = S /\ Last(Append(S, p)) = p
    <3> DEFINE T == Seq(P)
    <3>1. S \in Seq(T) /\ p \in T
      BY <2>1
    <3> HIDE DEF T
    <3>2. QED
      BY <3>1, EndOfAppend
  <2>7. QED
    BY <2>1, <2>2, <2>4, <2>5, <2>6
<1>4. \A j \in 0 .. n : j \in Good
  <2> HIDE DEF Good, n
  <2>1. \A j \in 1 .. n : j - 1 \in Good => j \in Good
    BY <1>3
  <2>2. QED
    BY <1>1, <1>2, <2>1, UpTo, Zenon
<1>5. n \in Good
  <2>1. n \in 0 .. n
    BY <1>1
  <2>2. QED
    BY <1>4, <2>1
<1>6. QED
  BY <1>1, <1>5

-----------------------------------------------------------------------------
(* What is joined is split.                                                *)

\* A text without the separator is split into itself.
LEMMA SplitOfPlain ==
  ASSUME NEW P, NEW sep, NEW b \in Seq(P), ~Holds(b, sep)
  PROVE  Split(b, sep) = <<b>>
<1>0. PICK walk : IsSplitWalk(walk, P, b, sep)
  BY SplitWalks, Zenon
<1>1. /\ walk[0] = << <<>> >>
      /\ \A i \in 1 .. Len(b) : walk[i] = SplitStep(walk[i - 1], b[i], sep)
      /\ Split(b, sep) = walk[Len(b)]
  BY <1>0 DEF IsSplitWalk
<1>2. Append(<<>>, <<>>) = << <<>> >> /\ Append(<<>>, b) = <<b>> /\ <<>> \in Seq(Seq(P))
  OBVIOUS
<1>3. Len(b) \in Nat
  BY LengthIs
<1> DEFINE S == <<>>
<1>4. GoesOver(walk, 0, S, b, sep)
  BY <1>1, <1>2, <1>3 DEF GoesOver
<1>5. S \in Seq(Seq(P)) /\ 0 \in Nat
  BY <1>2
<1> HIDE DEF S
<1>6. walk[0 + Len(b)] = Append(S, b)
  BY <1>4, <1>5, PlainPartIsOne, Zenon
<1>7. 0 + Len(b) = Len(b)
  BY <1>3
<1>8. QED
  BY <1>1, <1>2, <1>6, <1>7 DEF S

\* Two texts with a piece between them, piece by piece.
LEMMA PiecesOfThree ==
  ASSUME NEW P, NEW a \in Seq(P), NEW b \in Seq(P), NEW sep \in P,
         NEW text, text = a \o <<sep>> \o b
  PROVE  /\ text \in Seq(P) /\ Len(text) = Len(a) + 1 + Len(b)
         /\ Len(a) \in Nat /\ Len(b) \in Nat
         /\ \A i \in 1 .. Len(a) : text[i] = a[i]
         /\ text[Len(a) + 1] = sep
         /\ \A j \in 1 .. Len(b) : text[Len(a) + 1 + j] = b[j]
<1> DEFINE m == Len(a)
           n == Len(b)
           c == a \o <<sep>>
<1>1. m \in Nat /\ n \in Nat
  BY LengthIs
<1>2. /\ c \in Seq(P) /\ Len(c) = m + 1 /\ c[m + 1] = sep
      /\ \A i \in 1 .. m : c[i] = a[i]
  OBVIOUS
<1>3. text = c \o b
  OBVIOUS
<1> HIDE DEF c, m, n
<1>4. /\ text \in Seq(P) /\ Len(text) = Len(c) + Len(b)
      /\ \A i \in 1 .. Len(c) : text[i] = c[i]
      /\ \A j \in 1 .. Len(b) : text[Len(c) + j] = b[j]
  <2>1. c \in Seq(P) /\ b \in Seq(P) /\ text = c \o b
    BY <1>2, <1>3
  <2>2. text \in Seq(P)
    BY <2>1
  <2>3. Len(text) = Len(c) + Len(b)
    BY <2>1
  <2>4. \A i \in 1 .. Len(c) : text[i] = c[i]
    BY <2>1
  <2>5. \A j \in 1 .. Len(b) : text[Len(c) + j] = b[j]
    BY <2>1
  <2>6. QED
    BY <2>2, <2>3, <2>4, <2>5
<1>5. Len(text) = m + 1 + n
  BY <1>1, <1>2, <1>4 DEF n
<1>6. \A i \in 1 .. m : text[i] = a[i]
  BY <1>1, <1>2, <1>4
<1>7. text[m + 1] = sep
  BY <1>1, <1>2, <1>4
<1>8. \A j \in 1 .. n : text[m + 1 + j] = b[j]
  BY <1>1, <1>2, <1>4 DEF n
<1>9. QED
  BY <1>1, <1>4, <1>5, <1>6, <1>7, <1>8 DEF m, n

\* What is appended behind a separator is read back by itself.
LEMMA SplitOfAppended ==
  ASSUME NEW P, NEW a \in Seq(P), NEW b \in Seq(P), NEW sep \in P,
         ~Holds(b, sep)
  PROVE  Split(a \o <<sep>> \o b, sep) = Append(Split(a, sep), b)
<1> DEFINE text == a \o <<sep>> \o b
           m == Len(a)
           n == Len(b)
           T == Seq(Seq(P)) \ {<<>>}
<1>1. /\ text \in Seq(P) /\ Len(text) = m + 1 + n /\ m \in Nat /\ n \in Nat
      /\ \A i \in 1 .. m : text[i] = a[i]
      /\ text[m + 1] = sep
      /\ \A j \in 1 .. n : text[m + 1 + j] = b[j]
  BY PiecesOfThree
<1> HIDE DEF text
<1>2a. PICK walk : IsSplitWalk(walk, P, text, sep)
  BY <1>1, SplitWalks, Zenon
<1>2. /\ walk[0] = << <<>> >>
      /\ \A i \in 1 .. Len(text) : walk[i] = SplitStep(walk[i - 1], text[i], sep)
      /\ Split(text, sep) = walk[Len(text)]
  BY <1>2a DEF IsSplitWalk
<1>3a. PICK start : IsSplitWalk(start, P, a, sep)
  BY SplitWalks, Zenon
<1>3. /\ start \in [0 .. m -> T]
      /\ start[0] = << <<>> >>
      /\ \A i \in 1 .. m : start[i] = SplitStep(start[i - 1], a[i], sep)
      /\ Split(a, sep) = start[m]
  BY <1>3a DEF IsSplitWalk
<1> HIDE DEF m, n, T
<1>4. walk[m] = start[m]
  <2> DEFINE Good == {i \in 0 .. m : walk[i] = start[i]}
  <2>1. 0 \in Good
    <3>1. 0 \in 0 .. m
      BY <1>1
    <3>2. QED
      BY <1>2, <1>3, <3>1
  <2>2. ASSUME NEW i \in 1 .. m, i - 1 \in Good
        PROVE  i \in Good
    <3>1. i \in 1 .. Len(text) /\ i \in 0 .. m
      BY <1>1
    <3>2. QED
      BY <1>1, <1>2, <1>3, <2>2, <3>1
  <2> HIDE DEF Good
  <2>3. \A i \in 1 .. m : i - 1 \in Good => i \in Good
    BY <2>2
  <2>4. \A i \in 0 .. m : i \in Good
    BY <1>1, <2>1, <2>3, UpTo, Zenon
  <2>5. m \in 0 .. m
    BY <1>1
  <2>6. QED
    BY <2>4, <2>5 DEF Good
<1> DEFINE S == start[m]
<1>5. S \in Seq(Seq(P)) /\ Split(a, sep) = S
  <2>1. m \in 0 .. m
    BY <1>1
  <2>2. QED
    BY <1>3, <2>1 DEF T
<1>6. walk[m + 1] = Append(S, <<>>)
  <2>1. m + 1 \in 1 .. Len(text) /\ (m + 1) - 1 = m
    BY <1>1
  <2>2. QED
    BY <1>1, <1>2, <1>4, <2>1 DEF SplitStep
<1>7. GoesOver(walk, m + 1, S, b, sep)
  <2> SUFFICES ASSUME NEW j \in 1 .. Len(b)
      PROVE  walk[m + 1 + j] = SplitStep(walk[m + 1 + j - 1], b[j], sep)
    BY <1>6 DEF GoesOver
  <2>1. m + 1 + j \in 1 .. Len(text) /\ j \in 1 .. n
    BY <1>1 DEF n
  <2>2. QED
    BY <1>1, <1>2, <2>1
<1> HIDE DEF S
<1>8. walk[m + 1 + n] = Append(S, b)
  <2>1. m + 1 \in Nat
    BY <1>1
  <2>2. QED
    BY <1>5, <1>7, <2>1, PlainPartIsOne, Zenon DEF n
<1>9. QED
  BY <1>1, <1>2, <1>5, <1>8 DEF text

\* A list of texts without the separator is read back as it was joined.
LEMMA JoinedIsSplit ==
  ASSUME NEW P, NEW sep \in P, NEW texts \in Seq(Seq(P)), texts # <<>>,
         \A i \in 1 .. Len(texts) : ~Holds(texts[i], sep)
  PROVE  Split(Join(texts, sep), sep) = texts
<1> DEFINE n == Len(texts) - 1
<1>1. PICK walk \in [0 .. n -> Seq(P \cup {sep})] :
        /\ walk[0] = texts[1]
        /\ \A i \in 1 .. n : walk[i] = walk[i - 1] \o <<sep>> \o texts[i + 1]
        /\ Join(texts, sep) = walk[n]
  BY JoinWalks
<1>2. n \in Nat /\ Len(texts) = n + 1
  <2>1. Len(texts) \in Nat \ {0}
    OBVIOUS
  <2> DEFINE m == Len(texts)
  <2>2. m \in Nat \ {0}
    BY <2>1
  <2> HIDE DEF m
  <2>3. m - 1 \in Nat /\ m = (m - 1) + 1
    BY <2>2
  <2>4. QED
    BY <2>3 DEF m
<1> HIDE DEF n
<1>3. ASSUME NEW i \in 1 .. n + 1
      PROVE  texts[i] \in Seq(P) /\ ~Holds(texts[i], sep)
  BY <1>2
<1>4. P \cup {sep} = P
  OBVIOUS
<1> DEFINE Good == {i \in 0 .. n : Split(walk[i], sep) = SubSeq(texts, 1, i + 1)}
<1>5. 0 \in Good
  <2>1. 1 \in 1 .. n + 1 /\ 0 \in 0 .. n
    BY <1>2
  <2>2. Split(texts[1], sep) = <<texts[1]>>
    BY <1>3, <2>1, SplitOfPlain
  <2>3. SubSeq(texts, 1, 0 + 1) = <<texts[1]>>
    <3>1. Append(SubSeq(texts, 1, 1 - 1), texts[1]) = SubSeq(texts, 1, 1)
      <4> DEFINE S == Seq(P)
      <4>1. texts \in Seq(S) /\ 1 \in 1 .. Len(texts)
        BY <1>2, <2>1
      <4> HIDE DEF S
      <4>2. QED
        BY <4>1, LongerPrefix
    <3>2. SubSeq(texts, 1, 1 - 1) = <<>>
      OBVIOUS
    <3>3. Append(<<>>, texts[1]) = <<texts[1]>>
      OBVIOUS
    <3>4. 0 + 1 = 1
      OBVIOUS
    <3>5. QED
      BY <3>1, <3>2, <3>3, <3>4, Zenon
  <2>4. QED
    BY <1>1, <2>1, <2>2, <2>3
<1>6. ASSUME NEW i \in 1 .. n, i - 1 \in Good
      PROVE  i \in Good
  <2>1. i - 1 \in 0 .. n /\ i \in 0 .. n /\ i + 1 \in 1 .. n + 1 /\ (i - 1) + 1 = i /\ (i + 1) - 1 = i
    BY <1>2
  <2>2. walk[i - 1] \in Seq(P) /\ Split(walk[i - 1], sep) = SubSeq(texts, 1, i)
    BY <1>1, <1>4, <1>6, <2>1
  <2>3. Split(walk[i], sep) = Append(SubSeq(texts, 1, i), texts[i + 1])
    <3>1. walk[i] = walk[i - 1] \o <<sep>> \o texts[i + 1]
      BY <1>1
    <3>2. texts[i + 1] \in Seq(P) /\ ~Holds(texts[i + 1], sep)
      BY <1>3, <2>1
    <3>3. Split(walk[i - 1] \o <<sep>> \o texts[i + 1], sep)
            = Append(Split(walk[i - 1], sep), texts[i + 1])
      BY <2>2, <3>2, SplitOfAppended, Zenon
    <3>4. QED
      BY <2>2, <3>1, <3>3
  <2>4. Append(SubSeq(texts, 1, i), texts[i + 1]) = SubSeq(texts, 1, i + 1)
    <3> DEFINE S == Seq(P)
    <3>1. texts \in Seq(S) /\ i + 1 \in 1 .. Len(texts)
      BY <1>2, <2>1
    <3> HIDE DEF S
    <3>2. QED
      BY <2>1, <3>1, LongerPrefix
  <2>5. QED
    BY <2>1, <2>3, <2>4
<1>7. n \in Good
  <2> HIDE DEF Good
  <2>1. \A i \in 1 .. n : i - 1 \in Good => i \in Good
    BY <1>6
  <2>2. \A i \in 0 .. n : i \in Good
    BY <1>2, <1>5, <2>1, UpTo, Zenon
  <2>3. n \in 0 .. n
    BY <1>2
  <2>4. QED
    BY <2>2, <2>3
<1>8. SubSeq(texts, 1, n + 1) = texts
  <2> DEFINE S == Seq(P)
  <2>1. texts \in Seq(S)
    OBVIOUS
  <2> HIDE DEF S
  <2>2. QED
    BY <1>2, <2>1, LengthIs
<1>9. QED
  BY <1>1, <1>7, <1>8

-----------------------------------------------------------------------------
(* Names without a comma.                                                  *)

\* A text without the comma.
Clear(s) == \E S : s \in Seq(S) /\ "," \notin S

\* A sequence is one of the pieces it has.
LEMMA IsOf ==
  ASSUME NEW S, NEW s \in Seq(S), NEW U, \A i \in 1 .. Len(s) : s[i] \in U
  PROVE  s \in Seq(U)
<1>1. s \in [1 .. Len(s) -> U] /\ Len(s) \in Nat
  <2>1. s \in [1 .. Len(s) -> S] /\ Len(s) \in Nat
    BY LenProperties
  <2>2. QED
    BY <2>1
<1>2. QED
  BY <1>1, SeqDef

\* Clear, said by Holds.
LEMMA ClearHolds ==
  ASSUME NEW s, Clear(s)
  PROVE  ~Holds(s, ",") /\ s \in Seq(Range(s))
<1>1. PICK S : s \in Seq(S) /\ "," \notin S
  BY DEF Clear
<1>2. DOMAIN s = 1 .. Len(s) /\ Len(s) \in Nat /\ \A i \in 1 .. Len(s) : s[i] \in S
  BY <1>1, LengthIs
<1>3. \A i \in 1 .. Len(s) : s[i] \in Range(s)
  BY <1>2 DEF Range
<1>4. s \in Seq(Range(s))
  BY <1>1, <1>3, IsOf
<1>5. QED
  BY <1>1, <1>2, <1>4 DEF Holds, Range

\* The other way round.
LEMMA HoldsNotIsClear ==
  ASSUME NEW S, NEW s \in Seq(S), ~Holds(s, ",")
  PROVE  Clear(s)
<1>1. DOMAIN s = 1 .. Len(s) /\ Len(s) \in Nat
  BY LengthIs
<1> DEFINE U == S \ {","}
<1>2. "," \notin Range(s)
  BY DEF Holds
<1>3. \A i \in 1 .. Len(s) : s[i] \in S /\ s[i] # ","
  BY <1>1, <1>2, LengthIs DEF Range
<1>4. "," \notin U /\ \A i \in 1 .. Len(s) : s[i] \in U
  BY <1>3
<1> HIDE DEF U
<1>5. s \in Seq(U)
  BY <1>4, IsOf
<1>6. QED
  BY <1>4, <1>5 DEF Clear

\* Two texts without a comma, one behind the other.
LEMMA ClearJoins ==
  ASSUME NEW s, NEW t, Clear(s), Clear(t)
  PROVE  Clear(s \o t)
<1>1. PICK S : s \in Seq(S) /\ "," \notin S
  BY DEF Clear
<1>2. PICK T : t \in Seq(T) /\ "," \notin T
  BY DEF Clear
<1> DEFINE U == S \cup T
<1>3. s \in Seq(U) /\ t \in Seq(U) /\ "," \notin U
  <2>1. \A i \in 1 .. Len(s) : s[i] \in U
    BY <1>1, LengthIs
  <2>2. \A i \in 1 .. Len(t) : t[i] \in U
    BY <1>2, LengthIs
  <2>3. "," \notin U
    BY <1>1, <1>2
  <2> HIDE DEF U
  <2>4. QED
    BY <1>1, <1>2, <2>1, <2>2, <2>3, IsOf
<1> HIDE DEF U
<1>4. s \o t \in Seq(U)
  <2>1. s \in Seq(U) /\ t \in Seq(U)
    BY <1>3
  <2>2. QED
    BY <2>1, ConcatProperties
<1>5. QED
  BY <1>3, <1>4 DEF Clear

\* A sequence of one.
LEMMA OnePiece ==
  ASSUME NEW S, NEW x \in S
  PROVE  <<x>> \in Seq(S)
OBVIOUS

\* A text of one piece that is no comma.
LEMMA ClearPiece ==
  ASSUME NEW x, x # ","
  PROVE  Clear(<<x>>)
<1> DEFINE S == {x}
<1>1. x \in S /\ "," \notin S
  OBVIOUS
<1> HIDE DEF S
<1>2. <<x>> \in Seq(S)
  BY <1>1, OnePiece
<1>3. QED
  BY <1>1, <1>2 DEF Clear

\* What is cut off a text brings no comma in.
LEMMA ClearCut ==
  ASSUME NEW s, Clear(s), NEW n \in Int
  PROVE  Clear(TrimRight(s)) /\ Clear(Truncate(s, n))
<1>1. PICK S : s \in Seq(S) /\ "," \notin S
  BY DEF Clear
<1>2. TrimRight(s) \in Seq(S) /\ Truncate(s, n) \in Seq(S)
  BY <1>1, TrimKeeps, TruncateKeeps
<1>3. QED
  BY <1>1, <1>2 DEF Clear

\* normalize leaves no comma, whatever it is given.
LEMMA ClearNormalize ==
  ASSUME NEW P, NEW text \in Seq(P)
  PROVE  Clear(Normalize(text))
<1>1. Normalize(text) \in Seq(NamePieces(P))
  BY NormalizeIsOfNamePieces
<1>2. "," \notin NamePieces(P)
  <2>1. ASSUME NEW c \in P \ Separators
        PROVE  Lower(c) # ","
    <3>1. c # ","
      BY DEF Separators
    <3>2. QED
      BY <3>1 DEF Lower
  <2>2. QED
    BY <2>1 DEF NamePieces
<1>3. QED
  BY <1>1, <1>2 DEF Clear

\* A hash is of one piece that stands for the text, and of zeros.
HashIsClear(text) == ToString(text) # ","

\* Nor has a hash one.
LEMMA ClearHash ==
  ASSUME NEW text, HashIsClear(text)
  PROVE  Clear(ShortHash(text))
<1> DEFINE x == ToString(text)
           S == {x, "0"}
<1>1. x # ","
  BY DEF HashIsClear
<1>2. ShortHash(text) = [i \in 1 .. 8 |-> IF i = 1 THEN x ELSE "0"]
  BY DEF ShortHash
<1> HIDE DEF x
<1>3. ShortHash(text) \in [1 .. 8 -> S] /\ "," \notin S
  BY <1>1, <1>2
<1> HIDE DEF S
<1>4. ShortHash(text) \in Seq(S)
  BY <1>3, SeqDef
<1>5. QED
  BY <1>3, <1>4 DEF Clear

\* The pieces of a hash.
LEMMA HashIsText ==
  ASSUME NEW text
  PROVE  ShortHash(text) \in Seq({ToString(text), "0"})
<1> DEFINE x == ToString(text)
           S == {x, "0"}
<1>1. ShortHash(text) = [i \in 1 .. 8 |-> IF i = 1 THEN x ELSE "0"]
  BY DEF ShortHash
<1> HIDE DEF x
<1>2. ShortHash(text) \in [1 .. 8 -> S]
  BY <1>1
<1> HIDE DEF S
<1>3. ShortHash(text) \in Seq(S)
  BY <1>2, SeqDef
<1>4. QED
  BY <1>3 DEF S, x

\* So what stands for a project or a suffix has none.
LEMMA ClearSlug ==
  ASSUME NEW P, NEW text \in Seq(P), HashIsClear(text)
  PROVE  Clear(Slug(text))
BY ClearNormalize, ClearHash DEF Slug

\* No name idev gives an instance holds a comma.
LEMMA ClearNames ==
  ASSUME NEW P, NEW project \in Seq(P), NEW suffix \in Seq(P),
         HashIsClear(project), HashIsClear(suffix)
  PROVE  Clear(InstanceName(project)) /\ Clear(Suffixed(project, suffix))
<1>1. Clear(Slug(project)) /\ Clear(Slug(suffix)) /\ Clear(ShortHash(suffix))
  BY ClearSlug, ClearHash
<1>2. Clear(InstanceNamePrefix) /\ Len(InstanceNamePrefix) \in Int
  <2>1. InstanceNamePrefix \in Seq({"d", "e", "v", "-"})
    BY DEF InstanceNamePrefix
  <2> DEFINE S == {"d", "e", "v", "-"}
  <2>2. "," \notin S
    OBVIOUS
  <2> HIDE DEF S
  <2>3. InstanceNamePrefix \in Seq(S)
    BY <2>1 DEF S
  <2>4. Clear(InstanceNamePrefix)
    BY <2>2, <2>3 DEF Clear
  <2>5. Len(InstanceNamePrefix) \in Nat
    BY <2>3, LengthIs
  <2>6. QED
    BY <2>4, <2>5
<1>3. Clear(InstanceName(project))
  <2>1. Clear(InstanceNamePrefix \o Slug(project))
    BY <1>1, <1>2, ClearJoins
  <2>2. MaxInstanceName \in Int
    BY DEF MaxInstanceName
  <2>3. QED
    BY <2>1, <2>2, ClearCut DEF InstanceName
<1>4. Clear(Suffixed(project, suffix))
  <2> DEFINE tail == IF Len(Normalize(suffix)) > MaxSuffix THEN ShortHash(suffix) ELSE Slug(suffix)
             room == MaxInstanceName - Len(InstanceNamePrefix) - 1 - Len(tail)
             head == TrimRight(Truncate(Slug(project), room))
  <2>1. Clear(tail)
    BY <1>1
  <2>2. Len(tail) \in Int
    <3> HIDE DEF tail
    <3>1. PICK S : tail \in Seq(S)
      BY <2>1 DEF Clear
    <3>2. Len(tail) \in Nat
      BY <3>1, LengthIs
    <3>3. QED
      BY <3>2
  <2>3. room \in Int
    <3>1. MaxInstanceName \in Int
      BY DEF MaxInstanceName
    <3> DEFINE a == Len(InstanceNamePrefix)
               b == Len(tail)
    <3>2. a \in Int /\ b \in Int
      BY <1>2, <2>2
    <3> HIDE DEF a, b, tail
    <3>3. MaxInstanceName - a - 1 - b \in Int
      BY <3>1, <3>2
    <3>4. QED
      BY <3>3 DEF a, b
  <2> HIDE DEF room, tail
  <2>4. Clear(head)
    BY <1>1, <2>3, ClearCut
  <2>5. Clear(<<"-">>)
    BY ClearPiece
  <2> HIDE DEF head
  <2>6. Clear(InstanceNamePrefix \o head)
    BY <1>2, <2>4, ClearJoins
  <2>7. Clear((InstanceNamePrefix \o head) \o <<"-">>)
    BY <2>5, <2>6, ClearJoins
  <2>8. Clear(((InstanceNamePrefix \o head) \o <<"-">>) \o tail)
    BY <2>1, <2>7, ClearJoins
  <2>9. Suffixed(project, suffix) = InstanceNamePrefix \o head \o <<"-">> \o tail
    BY DEF Suffixed, head, tail, room
  <2>10. QED
    BY <2>8, <2>9
<1>5. QED
  BY <1>3, <1>4

-----------------------------------------------------------------------------
(* The search, and the inductive invariant.                                *)

\* The fields of a command, and the stages it goes through: under way, before it has
\* a name; what ends a search, and why it found nothing.
Fields == {"pc", "start", "dir", "shadowed", "bare", "online", "flag", "target", "branch",
           "instance", "said", "why"}
Going == {"search", "load", "connect", "name", "named", "ready"}
Unnamed == {"idle", "search", "load", "connect", "name"}
Ends == {"regular", "denied"}
NothingFound == {"none", "no dev.yml in it", "unusable"}

\* The world is one of those given, and a command has its fields.
WorldKept ==
  /\ world \in Worlds
  /\ DOMAIN cmd = Cmds
  /\ \A c \in Cmds : DOMAIN cmd[c] = Fields

\* Real and Found in world w.
RealIn(w, dir) ==
  IF dir # <<>> /\ SubSeq(dir, 1, 1) \in DOMAIN w.links
    THEN w.links[SubSeq(dir, 1, 1)] \o Tail(dir) ELSE dir
FoundIn(w, dir) == w.tree[RealIn(w, dir)]

\* The first n elements of the path command k was started at, and of which of
\* them the search has gone past.
Prefix(w, k, n) == SubSeq(RealIn(w, k.start), 1, n)
Passed(w, k) == Len(k.dir) + 1 .. Len(RealIn(w, k.start))

\* The search has come from the start up to k.dir, past nothing that ends it.
Searched(w, k) ==
  /\ RealIn(w, k.start) \in DOMAIN w.tree
  /\ Len(k.dir) \in 0 .. Len(RealIn(w, k.start))
  /\ k.dir = Prefix(w, k, Len(k.dir))
  /\ \A n \in Passed(w, k) : FoundIn(w, Prefix(w, k, n)) \notin Ends

\* What is remembered as unusable is the nearest such, if there is one.
ShadowedIsNearest(w, k) ==
  \/ /\ k.shadowed = Nowhere
     /\ \A n \in Passed(w, k) : FoundIn(w, Prefix(w, k, n)) \notin Unusable
  \/ \E m \in Passed(w, k) :
       /\ k.shadowed = Prefix(w, k, m)
       /\ FoundIn(w, Prefix(w, k, m)) \in Unusable
       /\ \A n \in Passed(w, k) : n > m => FoundIn(w, Prefix(w, k, n)) \notin Unusable

\* k has had its dev.yml accepted.
LetThrough(k) == k.pc \in {"connect", "name", "named", "ready"}

\* The dev.yml k has found.
DocIn(w, k) == Docs[w.docs[RealIn(w, k.dir)]]

\* The name a command goes by is that of its directory.
NamedAfter(w, k) ==
  LET doc == DocIn(w, k)
  IN  /\ k.branch = IF Scope(doc) = "branch" THEN w.branch[RealIn(w, k.dir)] ELSE <<>>
      /\ Scope(doc) = "branch" => k.branch # <<>>
      /\ k.instance = InstanceNameFor(doc.project, Scope(doc), k.dir, k.branch)

\* What holds of a command at each stage.
CommandInv(w, k) ==
  /\ k.pc \in Going => Searched(w, k) /\ ShadowedIsNearest(w, k)
  /\ LetThrough(k) => k.said = {k.shadowed} \ {Nowhere} /\ Problems(DocIn(w, k)) = {}
  /\ k.pc \in Going \ {"search"} => FoundIn(w, k.dir) = "regular"
  /\ k.pc \in Unnamed => k.instance = <<>>
  /\ k.pc \in {"named", "ready"} /\ k.instance # <<>> => NamedAfter(w, k)
  /\ k.why \in NothingFound =>
       k.pc = "refused" /\ Searched(w, k) /\ k.dir = <<>> /\ FoundIn(w, <<>>) \notin Ends

\* ... of both commands.
SearchInv == \A c \in Cmds : CommandInv(world, cmd[c])

\* The inductive invariant of Loading.
LoadInv == WorldKept /\ SearchInv

\* The operators of Loading are those above in the world as it is.
LEMMA RealIsRealIn ==
  \A dir : Real(dir) = RealIn(world, dir) /\ Found(dir) = FoundIn(world, dir)
BY DEF Real, RealIn, Found, FoundIn

\* A command is a record of its fields.
Shape(k) == DOMAIN k = Fields

\* The idle command.
LEMMA IdleShape ==
  /\ DOMAIN Idle = Fields
  /\ Idle.pc = "idle" /\ Idle.why = "" /\ Idle.instance = <<>>
BY DEF Idle, Fields

\* A prefix of a path, and the directory above it.
LEMMA PrefixFacts ==
  ASSUME NEW r \in Seq(STRING), NEW n \in 0 .. Len(r)
  PROVE  /\ SubSeq(r, 1, n) \in Seq(STRING)
         /\ Len(SubSeq(r, 1, n)) = n
         /\ n > 0 => Front(SubSeq(r, 1, n)) = SubSeq(r, 1, n - 1)
         /\ n > 0 => SubSeq(r, 1, n) # <<>>
         /\ n = 0 => SubSeq(r, 1, n) = <<>>
<1>1. Len(r) \in Nat
  OBVIOUS
<1>2. SubSeq(r, 1, n) \in Seq(STRING) /\ Len(SubSeq(r, 1, n)) = n
  BY <1>1
<1>3. ASSUME n > 0
      PROVE  Front(SubSeq(r, 1, n)) = SubSeq(r, 1, n - 1) /\ SubSeq(r, 1, n) # <<>>
  <2>1. SubSeq(SubSeq(r, 1, n), 1, n - 1) = SubSeq(r, 1, n - 1)
    BY <1>1, <1>3
  <2>2. QED
    BY <2>1, <1>2, <1>3 DEF Front
<1>4. QED
  BY <1>1, <1>2, <1>3

\* The longest prefix is the path.
LEMMA SubSeqWhole ==
  ASSUME NEW r \in Seq(STRING)
  PROVE  SubSeq(r, 1, Len(r)) = r
<1>1. Len(r) \in Nat /\ r = [i \in 1 .. Len(r) |-> r[i]]
  OBVIOUS
<1>2. SubSeq(r, 1, Len(r)) = [i \in 1 .. Len(r) |-> r[i]]
  BY <1>1
<1>3. QED
  BY <1>1, <1>2

\* The tree holds with a directory all above it, and none goes by a link.
LEMMA PrefixesAreReal ==
  ASSUME NEW w \in Worlds, NEW r \in DOMAIN w.tree, NEW n \in 0 .. Len(r)
  PROVE  /\ r \in Seq(STRING)
         /\ SubSeq(r, 1, n) \in DOMAIN w.tree
BY WorldsAssumption DEF Texts

\* A directory of the tree is its own real path.
LEMMA TreeIsReal ==
  ASSUME NEW w \in Worlds, NEW dir \in DOMAIN w.tree
  PROVE  RealIn(w, dir) = dir
BY WorldsAssumption DEF RealIn

\* It holds at first.
LEMMA InitHolds == Init => LoadInv
BY IdleShape DEF Init, LoadInv, WorldKept, SearchInv, CommandInv, LetThrough, Going, NothingFound, Unnamed

\* An action changes one command, of which nothing but these fields.
Changes(c, new) ==
  /\ world' = world
  /\ cmd' = [cmd EXCEPT ![c] = new]

\* A step of one command keeps world and fields.
LEMMA BecomesKeeps ==
  ASSUME WorldKept, NEW c \in Cmds, NEW new, Becomes(c, new), DOMAIN new = Fields
  PROVE  /\ WorldKept'
         /\ world' = world
         /\ cmd'[c] = new
         /\ \A d \in Cmds \ {c} : cmd'[d] = cmd[d]
BY DEF WorldKept, Becomes


\* A step of one command leaves the other as it is: what is to show is of the one.
LEMMA InvOfOthers ==
  ASSUME LoadInv, NEW c \in Cmds, NEW new, Becomes(c, new), DOMAIN new = Fields,
         CommandInv(world, new)
  PROVE  LoadInv'
<1>1. /\ WorldKept' /\ world' = world /\ cmd'[c] = new
      /\ \A d \in Cmds \ {c} : cmd'[d] = cmd[d]
  BY BecomesKeeps DEF LoadInv
<1>2. ASSUME NEW d \in Cmds
      PROVE  CommandInv(world', cmd'[d])
  <2>1. CommandInv(world, new)
    OBVIOUS
  <2>2. CommandInv(world, cmd[d])
    BY DEF LoadInv, SearchInv
  <2>3. QED
    BY <1>1, <2>1, <2>2
<1>3. QED
  BY <1>1, <1>2 DEF LoadInv, SearchInv


\* A directory without a dev.yml to use is gone past, and remembered if it is
\* the first with one that cannot be used.
LEMMA GoingPast ==
  ASSUME NEW w \in Worlds, NEW k, NEW new,
         Searched(w, k), ShadowedIsNearest(w, k), k.dir # <<>>,
         FoundIn(w, k.dir) \notin Ends,
         new.start = k.start, new.dir = Front(k.dir),
         new.shadowed = IF k.shadowed = Nowhere /\ FoundIn(w, k.dir) \in Unusable
                          THEN k.dir ELSE k.shadowed
  PROVE  Searched(w, new) /\ ShadowedIsNearest(w, new)
<1> DEFINE r == RealIn(w, k.start)
           top == Len(r)
           m == Len(k.dir)
<1>1. r \in DOMAIN w.tree /\ r \in Seq(STRING) /\ top \in Nat /\ m \in 0 .. top
  BY PrefixesAreReal DEF Searched
<1>2. k.dir = SubSeq(r, 1, m) /\ m > 0
  <2>1. k.dir = SubSeq(r, 1, m)
    BY DEF Searched, Prefix
  <2>2. m # 0
    BY <2>1, <1>1, PrefixFacts
  <2>3. QED
    BY <2>1, <2>2, <1>1
<1>3. /\ new.dir = SubSeq(r, 1, m - 1) /\ Len(new.dir) = m - 1
      /\ RealIn(w, new.start) = r
  <2>1. Front(k.dir) = SubSeq(r, 1, m - 1)
    BY <1>1, <1>2, PrefixFacts
  <2>2. m - 1 \in 0 .. Len(r)
    BY <1>1, <1>2
  <2>3. Len(SubSeq(r, 1, m - 1)) = m - 1
    BY <2>2, <1>1, PrefixFacts
  <2>4. QED
    BY <2>1, <2>3
<1>4. /\ \A n : Prefix(w, new, n) = Prefix(w, k, n)
      /\ Prefix(w, k, m) = k.dir
      /\ Passed(w, k) = m + 1 .. top
      /\ Passed(w, new) = m .. top
  <2>1. Len(new.dir) + 1 = m
    BY <1>1, <1>3
  <2>2. QED
    BY <2>1, <1>2, <1>3 DEF Prefix, Passed
<1> HIDE DEF r, top, m
<1>5. Passed(w, new) = Passed(w, k) \cup {m} /\ \A n \in Passed(w, k) : n > m
  BY <1>1, <1>4
<1>6. Searched(w, new)
  <2>1. Len(new.dir) \in 0 .. Len(RealIn(w, new.start))
    BY <1>1, <1>2, <1>3 DEF top
  <2>2. new.dir = Prefix(w, new, Len(new.dir))
    BY <1>3 DEF Prefix, r
  <2>3. \A n \in Passed(w, new) : FoundIn(w, Prefix(w, new, n)) \notin Ends
    BY <1>4, <1>5 DEF Searched
  <2>4. QED
    BY <1>1, <1>3, <2>1, <2>2, <2>3 DEF Searched
<1>7. CASE k.shadowed = Nowhere /\ FoundIn(w, k.dir) \in Unusable
  <2>1. new.shadowed = Prefix(w, new, m) /\ FoundIn(w, Prefix(w, new, m)) \in Unusable
    BY <1>4, <1>7
  <2>2. k.shadowed = Nowhere
    BY <1>7
  <2>3. ~\E n \in Passed(w, k) : k.shadowed = Prefix(w, k, n)
    <3> SUFFICES ASSUME NEW n \in Passed(w, k) PROVE Prefix(w, k, n) \in DOMAIN w.tree
      BY <2>2, WorldsAssumption
    <3>1. n \in 0 .. Len(r)
      BY <1>1, <1>4 DEF top
    <3> QED
      BY <3>1, <1>1, PrefixesAreReal DEF Prefix, r
  <2>4. \A n \in Passed(w, k) : FoundIn(w, Prefix(w, k, n)) \notin Unusable
    BY <2>3 DEF ShadowedIsNearest
  <2>5. QED
    <3>1. m \in Passed(w, new) /\ ~(m > m)
      BY <1>1, <1>5
    <3>2. ASSUME NEW n \in Passed(w, new), n > m
          PROVE  FoundIn(w, Prefix(w, new, n)) \notin Unusable
      <4>1. n \in Passed(w, k)
        BY <3>1, <3>2, <1>5
      <4>2. QED
        BY <4>1, <2>4, <1>4
    <3>3. QED
      BY <1>6, <2>1, <3>1, <3>2 DEF ShadowedIsNearest
<1>8. CASE k.shadowed = Nowhere /\ FoundIn(w, k.dir) \notin Unusable
  <2>1. new.shadowed = Nowhere
    BY <1>8
  <2>2. ~\E n \in Passed(w, k) : k.shadowed = Prefix(w, k, n)
    <3> SUFFICES ASSUME NEW n \in Passed(w, k) PROVE Prefix(w, k, n) \in DOMAIN w.tree
      BY <1>8, WorldsAssumption
    <3>1. n \in 0 .. Len(r)
      BY <1>1, <1>4 DEF top
    <3> QED
      BY <3>1, <1>1, PrefixesAreReal DEF Prefix, r
  <2>3. \A n \in Passed(w, k) : FoundIn(w, Prefix(w, k, n)) \notin Unusable
    BY <2>2 DEF ShadowedIsNearest
  <2>4. QED
    <3>1. ASSUME NEW n \in Passed(w, new)
          PROVE  FoundIn(w, Prefix(w, new, n)) \notin Unusable
      <4>1. CASE n \in Passed(w, k)
        BY <4>1, <2>3, <1>4
      <4>2. CASE n = m
        BY <4>2, <1>4, <1>8
      <4>3. QED
        BY <4>1, <4>2, <1>5
    <3>2. QED
      BY <1>6, <2>1, <3>1 DEF ShadowedIsNearest
<1>9. CASE k.shadowed # Nowhere
  <2>1. new.shadowed = k.shadowed
    BY <1>9
  <2>2. PICK u \in Passed(w, k) :
          /\ k.shadowed = Prefix(w, k, u)
          /\ FoundIn(w, Prefix(w, k, u)) \in Unusable
          /\ \A n \in Passed(w, k) : n > u => FoundIn(w, Prefix(w, k, n)) \notin Unusable
    BY <1>9 DEF ShadowedIsNearest
  <2>3. u > m /\ ~(m > u)
    <3>1. u \in Int /\ m \in Int
      BY <1>1, <1>4, <2>2
    <3>2. QED
      BY <3>1, <1>5, <2>2
  <2>4. QED
    <3>1. u \in Passed(w, new) /\ new.shadowed = Prefix(w, new, u)
      BY <2>1, <2>2, <1>4, <1>5
    <3>2. FoundIn(w, Prefix(w, new, u)) \in Unusable
      BY <2>2, <1>4
    <3>3. ASSUME NEW n \in Passed(w, new), n > u
          PROVE  FoundIn(w, Prefix(w, new, n)) \notin Unusable
      <4>1. n \in Passed(w, k)
        BY <3>3, <2>3, <1>5
      <4>2. QED
        BY <4>1, <3>3, <2>2, <1>4
    <3>4. QED
      BY <1>6, <3>1, <3>2, <3>3 DEF ShadowedIsNearest
<1>10. QED
  BY <1>6, <1>7, <1>8, <1>9

\* Discover begins.
LEMMA StartHolds ==
  ASSUME LoadInv, NEW c \in Cmds, Start(c)
  PROVE  LoadInv'
<1> DEFINE k == cmd[c]
<1>1. PICK line \in world.lines[c] :
        IF Real(line.start) \notin DOMAIN world.tree
          THEN Refuse(c, "start")
          ELSE Becomes(c, [Idle EXCEPT !.pc = "search", !.start = line.start, !.dir = Real(line.start),
                                       !.online = line.online, !.flag = line.flag])
  BY DEF Start
<1>2. DOMAIN k = Fields /\ k.pc = "idle" /\ CommandInv(world, k) /\ world \in Worlds /\ WorldKept
  BY DEF LoadInv, SearchInv, Start, AtPc, WorldKept
<1>3. CASE Real(line.start) \notin DOMAIN world.tree
  <2> DEFINE new == [k EXCEPT !.pc = "refused", !.why = "start"]
  <2>1. DOMAIN new = Fields /\ new.pc = "refused" /\ new.why = "start"
    BY <1>2 DEF Fields
  <2>2. Becomes(c, new)
    BY <1>1, <1>3 DEF Refuse
  <2>3. CommandInv(world, new)
    BY <2>1 DEF CommandInv, Going, LetThrough, NothingFound, Unnamed
  <2> HIDE DEF new
  <2>4. QED
    BY <2>1, <2>2, <2>3, InvOfOthers
<1>4. CASE Real(line.start) \in DOMAIN world.tree
  <2> DEFINE new == [Idle EXCEPT !.pc = "search", !.start = line.start, !.dir = Real(line.start),
                                 !.online = line.online, !.flag = line.flag]
             r == Real(line.start)
  <2>1. /\ DOMAIN new = Fields /\ new.pc = "search" /\ new.why = "" /\ new.start = line.start
        /\ new.instance = <<>> /\ new.dir = r /\ new.shadowed = Nowhere /\ RealIn(world, new.start) = r
    BY RealIsRealIn DEF Idle, Fields
  <2>2. Becomes(c, new)
    BY <1>1, <1>4
  <2>3. /\ r \in Seq(STRING) /\ SubSeq(r, 1, Len(r)) = r /\ Len(r) \in Nat
        /\ r \in DOMAIN world.tree
    BY <1>2, <1>4, WorldsAssumption, SubSeqWhole DEF Texts
  <2> HIDE DEF new, r
  <2>4. Passed(world, new) = {}
    <3>1. Len(new.dir) = Len(r) /\ Len(RealIn(world, new.start)) = Len(r)
      BY <2>1
    <3>2. Len(r) + 1 .. Len(r) = {}
      BY <2>3
    <3>3. QED
      BY <3>1, <3>2 DEF Passed
  <2>5. Searched(world, new) /\ ShadowedIsNearest(world, new)
    <3>1. Len(new.dir) = Len(r) /\ Len(RealIn(world, new.start)) = Len(r)
      BY <2>1
    <3>2. Len(new.dir) \in 0 .. Len(RealIn(world, new.start))
      BY <2>3, <3>1
    <3>3. new.dir = Prefix(world, new, Len(new.dir))
      BY <2>1, <2>3, <3>1 DEF Prefix
    <3>4. QED
      BY <2>1, <2>3, <2>4, <3>2, <3>3 DEF Searched, ShadowedIsNearest
  <2>6. CommandInv(world, new)
    BY <2>1, <2>5 DEF CommandInv, Going, LetThrough, NothingFound, Unnamed
  <2>7. QED
    BY <2>1, <2>2, <2>6, InvOfOthers
<1>5. QED
  BY <1>3, <1>4

\* What the invariant says of one command.
LEMMA StateOf ==
  ASSUME LoadInv, NEW c \in Cmds
  PROVE  /\ world \in Worlds /\ WorldKept
         /\ DOMAIN cmd[c] = Fields
         /\ CommandInv(world, cmd[c])
BY DEF LoadInv, SearchInv, WorldKept

\* A command that is refused has only its reason to answer for.
LEMMA RefuseHolds ==
  ASSUME LoadInv, NEW c \in Cmds, NEW why, Refuse(c, why), why \notin NothingFound
  PROVE  LoadInv'
<1> DEFINE new == [cmd[c] EXCEPT !.pc = "refused", !.why = why]
<1>1. DOMAIN new = Fields /\ new.pc = "refused" /\ new.why = why
  BY StateOf DEF Fields
<1>2. Becomes(c, new)
  BY DEF Refuse
<1> HIDE DEF new
<1>3. CommandInv(world, new)
  BY <1>1 DEF CommandInv, Going, LetThrough, Unnamed
<1>4. QED
  BY <1>1, <1>2, <1>3, InvOfOthers

\* A directory without a dev.yml is passed.
LEMMA LookHolds ==
  ASSUME LoadInv, NEW c \in Cmds, Look(c)
  PROVE  LoadInv'
<1> DEFINE k == cmd[c]
           shadowed == IF k.shadowed = Nowhere /\ Found(k.dir) \in Unusable THEN k.dir ELSE k.shadowed
           bare == k.bare \/ Found(k.dir) = "bare"
           now == [k EXCEPT !.shadowed = shadowed, !.bare = bare]
           why == IF now.shadowed # Nowhere THEN "unusable"
                  ELSE IF now.bare THEN "no dev.yml in it" ELSE "none"
<1>1. /\ world \in Worlds /\ DOMAIN k = Fields /\ k.pc = "search" /\ CommandInv(world, k)
      /\ Found(k.dir) \notin Ends /\ FoundIn(world, k.dir) = Found(k.dir)
  BY StateOf, RealIsRealIn DEF Look, AtPc, Ends
<1>2. /\ Searched(world, k) /\ ShadowedIsNearest(world, k) /\ k.instance = <<>>
      /\ k.why \notin NothingFound
  BY <1>1 DEF CommandInv, Going, Unnamed
<1>3. /\ DOMAIN now = Fields /\ now.pc = "search" /\ now.start = k.start /\ now.dir = k.dir
      /\ now.shadowed = shadowed /\ now.instance = <<>> /\ now.why = k.why
  BY <1>1, <1>2 DEF Fields
<1>4. IF k.dir # <<>> THEN Becomes(c, [now EXCEPT !.dir = Front(k.dir)])
      ELSE Becomes(c, [now EXCEPT !.pc = "refused", !.why = why])
  BY DEF Look
<1> HIDE DEF now, why
<1>5. CASE k.dir # <<>>
  <2> DEFINE new == [now EXCEPT !.dir = Front(k.dir)]
  <2>1. /\ DOMAIN new = Fields /\ new.pc = "search" /\ new.start = k.start
        /\ new.dir = Front(k.dir) /\ new.shadowed = shadowed /\ new.instance = <<>>
        /\ new.why = k.why
    BY <1>3 DEF Fields
  <2>2. Becomes(c, new)
    BY <1>4, <1>5
  <2> HIDE DEF new, k
  <2>3. Searched(world, new) /\ ShadowedIsNearest(world, new)
    BY <1>1, <1>2, <1>5, <2>1, GoingPast
  <2>4. CommandInv(world, new)
    BY <2>1, <2>3, <1>2 DEF CommandInv, Going, LetThrough, Unnamed
  <2>5. QED
    BY <2>1, <2>2, <2>4, InvOfOthers
<1>6. CASE k.dir = <<>>
  <2> DEFINE new == [now EXCEPT !.pc = "refused", !.why = why]
  <2>1. DOMAIN new = Fields /\ new.pc = "refused" /\ new.start = k.start /\ new.dir = k.dir
    BY <1>3 DEF Fields
  <2>2. Becomes(c, new)
    BY <1>4, <1>6
  <2> HIDE DEF new
  <2>3. Searched(world, new)
    BY <1>2, <2>1 DEF Searched, Passed, Prefix
  <2>4. FoundIn(world, <<>>) \notin Ends
    BY <1>1, <1>6
  <2>5. CommandInv(world, new)
    BY <2>1, <2>3, <2>4, <1>6 DEF CommandInv, Going, LetThrough, Unnamed
  <2>6. QED
    BY <2>1, <2>2, <2>5, InvOfOthers
<1>7. QED
  BY <1>5, <1>6

\* A directory that cannot be looked into ends the search.
LEMMA LookDeniedHolds ==
  ASSUME LoadInv, NEW c \in Cmds, LookDenied(c)
  PROVE  LoadInv'
BY RefuseHolds DEF LookDenied, NothingFound

\* Further on the search is over: where it ended stays as it is.
LEMMA EndKept ==
  ASSUME NEW w, NEW k, NEW new, Searched(w, k), ShadowedIsNearest(w, k),
         new.start = k.start, new.dir = k.dir, new.shadowed = k.shadowed
  PROVE  /\ Searched(w, new) /\ ShadowedIsNearest(w, new)
         /\ DocIn(w, new) = DocIn(w, k) /\ FoundIn(w, new.dir) = FoundIn(w, k.dir)
<1>1. /\ \A n : Prefix(w, new, n) = Prefix(w, k, n)
      /\ Passed(w, new) = Passed(w, k)
  BY DEF Prefix, Passed
<1>2. Searched(w, new)
  BY <1>1 DEF Searched
<1>3. ShadowedIsNearest(w, new)
  BY <1>1 DEF ShadowedIsNearest
<1>4. QED
  BY <1>2, <1>3 DEF DocIn

\* The nearest dev.yml is found.
LEMMA LookFoundHolds ==
  ASSUME LoadInv, NEW c \in Cmds, LookFound(c)
  PROVE  LoadInv'
<1> DEFINE k == cmd[c]
           new == [k EXCEPT !.pc = "load"]
<1>1. DOMAIN k = Fields /\ k.pc = "search" /\ CommandInv(world, k)
  BY StateOf DEF LookFound, AtPc
<1>2. /\ DOMAIN new = Fields /\ new.pc = "load" /\ new.start = k.start /\ new.dir = k.dir
      /\ new.shadowed = k.shadowed /\ new.instance = k.instance /\ new.why = k.why
  BY <1>1 DEF Fields
<1>3. Becomes(c, new)
  BY DEF LookFound
<1>4. /\ Searched(world, k) /\ ShadowedIsNearest(world, k) /\ k.instance = <<>>
      /\ k.why \notin NothingFound /\ FoundIn(world, k.dir) = "regular"
  BY <1>1, RealIsRealIn DEF CommandInv, Going, Unnamed, LookFound
<1> HIDE DEF new, k
<1>5. CommandInv(world, new)
  BY <1>2, <1>4, EndKept DEF CommandInv, Going, LetThrough, Unnamed
<1>6. QED
  BY <1>2, <1>3, <1>5, InvOfOthers

\* It is read.
LEMMA LoadHolds ==
  ASSUME LoadInv, NEW c \in Cmds, Load(c)
  PROVE  LoadInv'
<1> DEFINE k == cmd[c]
           new == [k EXCEPT !.pc = IF k.online THEN "connect" ELSE "name",
                            !.target = Target(k.flag, Doc(c)),
                            !.said = {k.shadowed} \ {Nowhere}]
<1>1. DOMAIN k = Fields /\ k.pc = "load" /\ CommandInv(world, k)
  BY StateOf DEF Load, AtPc
<1>2. CASE Problems(Doc(c)) # {}
  BY <1>2, RefuseHolds DEF Load, NothingFound
<1>3. CASE Problems(Doc(c)) = {}
  <2>1. /\ DOMAIN new = Fields /\ new.pc \in {"connect", "name"} /\ new.start = k.start
        /\ new.dir = k.dir /\ new.shadowed = k.shadowed /\ new.instance = k.instance
        /\ new.why = k.why /\ new.said = {k.shadowed} \ {Nowhere}
    BY <1>1 DEF Fields
  <2>2. Becomes(c, new)
    BY <1>3 DEF Load
  <2>3. /\ Searched(world, k) /\ ShadowedIsNearest(world, k) /\ k.instance = <<>>
        /\ k.why \notin NothingFound /\ FoundIn(world, k.dir) = "regular"
    BY <1>1 DEF CommandInv, Going, Unnamed
  <2>4. Doc(c) = DocIn(world, k)
    BY RealIsRealIn DEF Doc, DocIn
  <2> HIDE DEF new, k
  <2>5. CommandInv(world, new)
    BY <1>3, <2>1, <2>3, <2>4, EndKept DEF CommandInv, Going, LetThrough, Unnamed
  <2>6. QED
    BY <2>1, <2>2, <2>5, InvOfOthers
<1>4. QED
  BY <1>2, <1>3

\* A connection is made, or not.
LEMMA ConnectHolds ==
  ASSUME LoadInv, NEW c \in Cmds, Connect(c)
  PROVE  LoadInv'
<1> DEFINE k == cmd[c]
           new == [k EXCEPT !.pc = "name"]
<1>1. DOMAIN k = Fields /\ k.pc = "connect" /\ CommandInv(world, k)
  BY StateOf DEF Connect, AtPc
<1>2. CASE Refuse(c, "no daemon")
  BY <1>2, RefuseHolds DEF NothingFound
<1>3. CASE Becomes(c, new)
  <2>1. /\ DOMAIN new = Fields /\ new.pc = "name" /\ new.start = k.start
        /\ new.dir = k.dir /\ new.shadowed = k.shadowed /\ new.instance = k.instance
        /\ new.why = k.why /\ new.said = k.said
    BY <1>1 DEF Fields
  <2>2. /\ Searched(world, k) /\ ShadowedIsNearest(world, k) /\ k.instance = <<>>
        /\ k.why \notin NothingFound /\ FoundIn(world, k.dir) = "regular"
        /\ k.said = {k.shadowed} \ {Nowhere} /\ Problems(DocIn(world, k)) = {}
    BY <1>1 DEF CommandInv, Going, Unnamed, LetThrough
  <2> HIDE DEF new, k
  <2>3. CommandInv(world, new)
    BY <2>1, <2>2, EndKept DEF CommandInv, Going, LetThrough, Unnamed
  <2>4. QED
    BY <1>3, <2>1, <2>3, InvOfOthers
<1>4. QED
  BY <1>2, <1>3 DEF Connect

\* The instance is named.
LEMMA NameHolds ==
  ASSUME LoadInv, NEW c \in Cmds, Name(c)
  PROVE  LoadInv'
<1> DEFINE k == cmd[c]
           doc == Doc(c)
           branch == IF Scope(doc) = "branch" THEN world.branch[Real(k.dir)] ELSE <<>>
<1>1. DOMAIN k = Fields /\ k.pc = "name" /\ CommandInv(world, k)
  BY StateOf DEF Name, AtPc
<1>2. /\ Searched(world, k) /\ ShadowedIsNearest(world, k) /\ k.instance = <<>>
      /\ k.why \notin NothingFound /\ FoundIn(world, k.dir) = "regular"
      /\ k.said = {k.shadowed} \ {Nowhere} /\ Problems(DocIn(world, k)) = {}
  BY <1>1 DEF CommandInv, Going, Unnamed, LetThrough
<1>3. doc = DocIn(world, k) /\ Real(k.dir) = RealIn(world, k.dir)
  BY RealIsRealIn DEF Doc, DocIn
<1>4. CASE Refuse(c, "no branch")
  BY <1>4, RefuseHolds DEF NothingFound
<1>5. CASE Becomes(c, [k EXCEPT !.pc = "ready"])
  <2> DEFINE new == [k EXCEPT !.pc = "ready"]
  <2>1. /\ DOMAIN new = Fields /\ new.pc = "ready" /\ new.start = k.start
        /\ new.dir = k.dir /\ new.shadowed = k.shadowed /\ new.instance = k.instance
        /\ new.why = k.why /\ new.said = k.said
    BY <1>1 DEF Fields
  <2> HIDE DEF new, k
  <2>2. CommandInv(world, new)
    BY <2>1, <1>2, EndKept DEF CommandInv, Going, LetThrough, Unnamed
  <2>3. QED
    BY <1>5, <2>1, <2>2, InvOfOthers DEF new
<1>6. CASE /\ ~(Scope(doc) = "branch" /\ branch = <<>>)
           /\ Becomes(c, [k EXCEPT
                !.pc = "named", !.branch = branch,
                !.instance = InstanceNameFor(doc.project, Scope(doc), k.dir, branch)])
  <2> DEFINE name == InstanceNameFor(doc.project, Scope(doc), k.dir, branch)
             new == [k EXCEPT !.pc = "named", !.branch = branch, !.instance = name]
  <2>1. /\ DOMAIN new = Fields /\ new.pc = "named" /\ new.start = k.start
        /\ new.dir = k.dir /\ new.shadowed = k.shadowed /\ new.instance = name
        /\ new.why = k.why /\ new.said = k.said /\ new.branch = branch
    BY <1>1 DEF Fields
  <2>2. Becomes(c, new)
    BY <1>6
  <2> HIDE DEF new, k, doc
  <2>3. DocIn(world, new) = doc /\ Searched(world, new) /\ ShadowedIsNearest(world, new)
    BY <1>2, <1>3, <2>1, EndKept
  <2>4. NamedAfter(world, new)
    BY <1>3, <1>6, <2>1, <2>3 DEF NamedAfter, doc, k
  <2> HIDE DEF name, branch
  <2>5. CommandInv(world, new)
    BY <1>2, <1>3, <2>1, <2>3, <2>4 DEF CommandInv, Going, LetThrough, Unnamed
  <2>6. QED
    BY <2>1, <2>2, <2>5, InvOfOthers
<1>7. QED
  BY <1>4, <1>5, <1>6 DEF Name

\* The names of the volumes are checked.
LEMMA CheckVolumesHolds ==
  ASSUME LoadInv, NEW c \in Cmds, CheckVolumes(c)
  PROVE  LoadInv'
<1> DEFINE k == cmd[c]
           new == [k EXCEPT !.pc = "ready"]
<1>1. DOMAIN k = Fields /\ k.pc = "named" /\ CommandInv(world, k)
  BY StateOf DEF CheckVolumes, AtPc
<1>2. CASE Refuse(c, "volume name")
  BY <1>2, RefuseHolds DEF NothingFound
<1>3. CASE Becomes(c, new)
  <2>1. /\ DOMAIN new = Fields /\ new.pc = "ready" /\ new.start = k.start
        /\ new.dir = k.dir /\ new.shadowed = k.shadowed /\ new.instance = k.instance
        /\ new.why = k.why /\ new.said = k.said /\ new.branch = k.branch
    BY <1>1 DEF Fields
  <2>2. /\ Searched(world, k) /\ ShadowedIsNearest(world, k)
        /\ k.why \notin NothingFound /\ FoundIn(world, k.dir) = "regular"
        /\ k.said = {k.shadowed} \ {Nowhere} /\ Problems(DocIn(world, k)) = {}
        /\ k.instance # <<>> => NamedAfter(world, k)
    BY <1>1 DEF CommandInv, Going, Unnamed, LetThrough
  <2> HIDE DEF new, k
  <2>3. NamedAfter(world, k) => NamedAfter(world, new)
    BY <2>1, <2>2, EndKept DEF NamedAfter
  <2>4. CommandInv(world, new)
    BY <2>1, <2>2, <2>3, EndKept DEF CommandInv, Going, LetThrough, Unnamed
  <2>5. QED
    BY <1>3, <2>1, <2>4, InvOfOthers
<1>4. QED
  BY <1>2, <1>3 DEF CheckVolumes

\* Every step keeps the invariant.
LEMMA StepHolds == LoadInv /\ [Next]_vars => LoadInv'
<1> SUFFICES ASSUME LoadInv, [Next]_vars PROVE LoadInv'
  OBVIOUS
<1>1. CASE Next
  <2>1. PICK c \in Cmds :
          \/ Start(c) \/ Look(c) \/ LookDenied(c) \/ LookFound(c)
          \/ Load(c) \/ Connect(c) \/ Name(c) \/ CheckVolumes(c)
    BY <1>1 DEF Next
  <2>2. QED
    BY <2>1, StartHolds, LookHolds, LookDeniedHolds, LookFoundHolds, LoadHolds, ConnectHolds,
       NameHolds, CheckVolumesHolds
<1>2. CASE UNCHANGED vars
  BY <1>2 DEF vars, LoadInv, WorldKept, SearchInv
<1>3. QED
  BY <1>1, <1>2

\* The search and what came of it, whatever the tree and the files in it.
THEOREM LoadingInv == Spec => []LoadInv
BY InitHolds, StepHolds, PTL DEF Spec


\* A command acts on the nearest dev.yml, and says which nearer one it could not use.
\* (discover.go: Discover; root.go: the warning)
THEOREM ActsOnTheNearest == Spec => []NearestIsActedOn
<1>1. ASSUME LoadInv PROVE NearestIsActedOn
  <2> SUFFICES ASSUME NEW c \in Cmds
      PROVE  LET start == cmd[c].start
                 nearer == Below(start, cmd[c].dir)
                 unusable == {d \in nearer : Found(d) \in Unusable}
             IN  /\ Accepted(c) =>
                      /\ IsPrefix(cmd[c].dir, Real(start))
                      /\ \A d \in nearer : Found(d) \notin {"regular", "denied"}
                      /\ cmd[c].said = {d \in unusable : \A e \in unusable : Len(e) <= Len(d)}
                 /\ cmd[c].why \in {"none", "no dev.yml in it", "unusable"} =>
                      \A d \in nearer \cup {<<>>} : Found(d) \notin {"regular", "denied"}
    BY DEF NearestIsActedOn
  <2> DEFINE k == cmd[c]
             nearer == Below(k.start, k.dir)
             unusable == {d \in nearer : Found(d) \in Unusable}
             r == RealIn(world, k.start)
  <2>1. /\ world \in Worlds /\ CommandInv(world, k)
        /\ \A d : Found(d) = FoundIn(world, d)
        /\ nearer = {Prefix(world, k, n) : n \in Passed(world, k)}
    BY <1>1, StateOf, RealIsRealIn DEF Below, Prefix, Passed
  <2>2. ASSUME Searched(world, k)
        PROVE  \A d \in nearer : Found(d) \notin Ends
    BY <2>1, <2>2 DEF Searched
  <2>3. ASSUME Searched(world, k)
        PROVE  /\ r \in Seq(STRING) /\ Len(r) \in Nat /\ Len(k.dir) \in 0 .. Len(r)
               /\ \A n \in Passed(world, k) :
                    /\ n \in 0 .. Len(r) /\ Len(Prefix(world, k, n)) = n
                    /\ Prefix(world, k, n) \in DOMAIN world.tree
    <3>1. r \in DOMAIN world.tree /\ r \in Seq(STRING) /\ Len(r) \in Nat /\ Len(k.dir) \in 0 .. Len(r)
      BY <2>1, <2>3, PrefixesAreReal DEF Searched
    <3>2. Passed(world, k) = Len(k.dir) + 1 .. Len(r)
      BY DEF Passed
    <3>3. ASSUME NEW n \in Passed(world, k)
          PROVE  n \in 0 .. Len(r)
      <4> HIDE DEF r, k
      <4> QED
        BY <3>1, <3>2
    <3>4. QED
      BY <2>1, <3>1, <3>3, PrefixFacts, PrefixesAreReal DEF Prefix
  <2>4. ASSUME Accepted(c)
        PROVE  /\ IsPrefix(k.dir, Real(k.start))
               /\ \A d \in nearer : Found(d) \notin Ends
               /\ k.said = {d \in unusable : \A e \in unusable : Len(e) <= Len(d)}
    <3>1. /\ Searched(world, k) /\ ShadowedIsNearest(world, k)
          /\ k.said = {k.shadowed} \ {Nowhere}
      BY <2>1, <2>4 DEF Accepted, CommandInv, LetThrough, Going
    <3>2. IsPrefix(k.dir, Real(k.start))
      <4>1. /\ Len(k.dir) <= Len(r) /\ k.dir = SubSeq(r, 1, Len(k.dir))
            /\ k.dir \in Seq(STRING)
        <5>1. k.dir = SubSeq(r, 1, Len(k.dir))
          BY <3>1 DEF Searched, Prefix
        <5>2. r \in Seq(STRING) /\ Len(r) \in Nat /\ Len(k.dir) \in 0 .. Len(r)
          BY <2>3, <3>1
        <5> HIDE DEF r, k
        <5>3. k.dir \in Seq(STRING)
          BY <5>1, <5>2, PrefixFacts
        <5>4. QED
          BY <5>1, <5>2, <5>3
      <4>2. SubSeq(k.dir, 1, Len(k.dir)) = k.dir
        BY <4>1, SubSeqWhole
      <4>3. Real(k.start) = r
        BY RealIsRealIn
      <4> HIDE DEF r, k
      <4>4. QED
        BY <4>1, <4>2, <4>3 DEF IsPrefix
    <3> HIDE DEF k, r
    <3>3. CASE /\ k.shadowed = Nowhere
               /\ \A n \in Passed(world, k) : FoundIn(world, Prefix(world, k, n)) \notin Unusable
      <4>1. unusable = {} /\ k.said = {}
        BY <2>1, <3>1, <3>3
      <4>2. QED
        BY <4>1, <3>1, <3>2, <2>2
    <3>4. CASE \E m \in Passed(world, k) :
                 /\ k.shadowed = Prefix(world, k, m)
                 /\ FoundIn(world, Prefix(world, k, m)) \in Unusable
                 /\ \A n \in Passed(world, k) : n > m => FoundIn(world, Prefix(world, k, n)) \notin Unusable
      <4>1. PICK m \in Passed(world, k) :
                 /\ k.shadowed = Prefix(world, k, m)
                 /\ FoundIn(world, Prefix(world, k, m)) \in Unusable
                 /\ \A n \in Passed(world, k) : n > m => FoundIn(world, Prefix(world, k, n)) \notin Unusable
        BY <3>4
      <4>2. k.said = {k.shadowed} /\ k.shadowed \in unusable /\ Len(k.shadowed) = m /\ m \in Nat
        <5>1. k.shadowed # Nowhere
          BY <4>1, <3>1, <2>1, <2>3, WorldsAssumption
        <5>2. k.shadowed \in unusable
          BY <4>1, <2>1
        <5>3. Len(k.shadowed) = m /\ m \in Nat
          BY <4>1, <3>1, <2>3
        <5>4. QED
          BY <5>1, <5>2, <5>3, <3>1
      <4>3. ASSUME NEW d \in unusable
            PROVE  /\ Len(d) <= m
                   /\ Len(d) = m => d = k.shadowed
        <5>1. PICK n \in Passed(world, k) : d = Prefix(world, k, n)
          BY <2>1
        <5>2. FoundIn(world, Prefix(world, k, n)) \in Unusable /\ Len(d) = n /\ n \in Nat
          BY <5>1, <2>1, <3>1, <2>3
        <5>3. ~(n > m)
          BY <4>1, <5>2
        <5>4. QED
          BY <5>1, <5>2, <5>3, <4>1, <4>2
      <4>4. ASSUME NEW d \in unusable
            PROVE  (\A e \in unusable : Len(e) <= Len(d)) <=> d = k.shadowed
        <5>1. Len(d) <= m /\ (Len(d) = m => d = k.shadowed)
          BY <4>3
        <5>2. Len(d) \in Nat
          BY <2>1, <3>1, <2>3
        <5>3. ASSUME \A e \in unusable : Len(e) <= Len(d)
              PROVE  d = k.shadowed
          BY <5>1, <5>2, <5>3, <4>2
        <5>4. ASSUME d = k.shadowed
              PROVE  \A e \in unusable : Len(e) <= Len(d)
          BY <5>4, <4>2, <4>3
        <5>5. QED
          BY <5>3, <5>4
      <4>5. k.said = {d \in unusable : \A e \in unusable : Len(e) <= Len(d)}
        <5> HIDE DEF unusable
        <5> QED
          BY <4>2, <4>4
      <4>6. QED
        BY <4>5, <3>1, <3>2, <2>2
    <3>5. QED
      BY <3>1, <3>3, <3>4 DEF ShadowedIsNearest
  <2>5. ASSUME k.why \in NothingFound
        PROVE  \A d \in nearer \cup {<<>>} : Found(d) \notin Ends
    <3>1. Searched(world, k) /\ FoundIn(world, <<>>) \notin Ends
      BY <2>1, <2>5 DEF CommandInv
    <3>2. QED
      BY <3>1, <2>1, <2>2
  <2>6. QED
    BY <2>4, <2>5 DEF Ends, NothingFound
<1>2. QED
  BY <1>1, LoadingInv, PTL

-----------------------------------------------------------------------------
(* Accepted documents.                                                     *)

\* What is let through was found, is a document, and has no problem.
LEMMA AcceptedDoc ==
  ASSUME LoadInv, NEW c \in Cmds, Accepted(c)
  PROVE  IsDoc(Doc(c)) /\ Problems(Doc(c)) = {}
<1> DEFINE k == cmd[c]
<1>1. /\ world \in Worlds /\ Searched(world, k) /\ Problems(DocIn(world, k)) = {}
      /\ FoundIn(world, k.dir) = "regular"
  BY StateOf DEF CommandInv, LetThrough, Going, Accepted
<1>2. Doc(c) = DocIn(world, k)
  BY RealIsRealIn DEF Doc, DocIn
<1>3. k.dir \in DOMAIN world.tree
  <2>1. /\ RealIn(world, k.start) \in DOMAIN world.tree
        /\ Len(k.dir) \in 0 .. Len(RealIn(world, k.start))
        /\ k.dir = SubSeq(RealIn(world, k.start), 1, Len(k.dir))
    BY <1>1 DEF Searched, Prefix
  <2> HIDE DEF k
  <2>2. QED
    BY <1>1, <2>1, PrefixesAreReal
<1>4. RealIn(world, k.dir) = k.dir
  BY <1>1, <1>3, TreeIsReal
<1>5. world.tree[k.dir] = "regular"
  BY <1>1, <1>4 DEF FoundIn
<1>6. world.docs[k.dir] \in DOMAIN Docs
  BY <1>1, <1>3, <1>5, WorldsAssumption
<1>7. QED
  BY <1>1, <1>2, <1>4, <1>6, DocsAssumption DEF DocIn

\* Of a document with no problem no stage of Parse found one.
LEMMA NoProblem ==
  ASSUME NEW doc, Problems(doc) = {}
  PROVE  /\ ~(doc.documents > 1) /\ ~doc.twice
         /\ SchemaProblems(doc) = {} /\ ~Undecodable(doc.workspace)
         /\ SemanticProblems(doc) = {}
<1>1. ~(doc.documents > 1)
  BY Zenon DEF Problems
<1>2. ~doc.twice
  BY <1>1, Zenon DEF Problems
<1>3. doc.schema = 1
  BY <1>1, <1>2, Zenon DEF Problems
<1>4. SchemaProblems(doc) = {}
  BY <1>1, <1>2, <1>3, Zenon DEF Problems
<1>5. ~Undecodable(doc.workspace)
  BY <1>1, <1>2, <1>3, <1>4, Zenon DEF Problems
<1>6. SemanticProblems(doc) = {}
  BY <1>1, <1>2, <1>3, <1>4, <1>5, Zenon DEF Problems
<1>7. QED
  BY <1>1, <1>2, <1>4, <1>5, <1>6

\* ... and no part of the semantic check.
LEMMA NoSemanticProblem ==
  ASSUME NEW doc, SemanticProblems(doc) = {}
  PROVE  /\ \A s \in Range(doc.provision) : StepProblems(s, TRUE) = {}
         /\ InstanceProblems(doc) = {}
         /\ VolumeProblems(doc) = {} /\ ShapeProblems(doc) = {}
         /\ WorkspaceProblems(doc) = {} /\ MountPathProblems(doc) = {}
<1> DEFINE early == UNION {StepProblems(s, FALSE) : s \in Range(doc.bootstrap)}
           late == UNION {StepProblems(s, TRUE) : s \in Range(doc.provision)}
<1>0. SemanticProblems(doc)
        = RuntimeProblems(doc) \cup early \cup late
          \cup InstanceProblems(doc) \cup ShellProblems(doc) \cup VolumeProblems(doc)
          \cup SecretProblems(doc) \cup ShapeProblems(doc) \cup WorkspaceProblems(doc)
          \cup MountPathProblems(doc) \cup PathProblems(doc)
  BY DEF SemanticProblems
<1>1. /\ late = {} /\ InstanceProblems(doc) = {} /\ VolumeProblems(doc) = {}
      /\ ShapeProblems(doc) = {} /\ WorkspaceProblems(doc) = {}
      /\ MountPathProblems(doc) = {}
  <2> HIDE DEF early, late
  <2>1. QED
    BY <1>0
<1>2. ASSUME NEW s \in Range(doc.provision)
      PROVE  StepProblems(s, TRUE) = {}
  BY <1>1, Zenon
<1>3. QED
  BY <1>1, <1>2, Zenon

-----------------------------------------------------------------------------
(* The workspace section.                                                  *)

\* What a workspace section the shape check accepts is made of.
LEMMA ShapeFacts ==
  ASSUME NEW doc, ShapeProblems(doc) = {}, NEW ws, ws = doc.workspace
  PROVE  /\ OwnerKey \in DOMAIN ws =>
              IsObject(ws[OwnerKey]) /\ DOMAIN ws[OwnerKey].fields \subseteq OwnerFields
         /\ MapForm(ws) =>
              \A n \in DOMAIN ws \ {OwnerKey, IdmapKey} :
                IsObject(ws[n]) /\ DOMAIN ws[n].fields \subseteq MountFields
         /\ ~MapForm(ws) => DOMAIN ws \ {OwnerKey} \subseteq SingleFields
<1>1. OwnerKey \in DOMAIN ws => IsObject(ws[OwnerKey])
  BY DEF ShapeProblems, If
<1>2. OwnerKey \in DOMAIN ws => DOMAIN ws[OwnerKey].fields \subseteq OwnerFields
  BY DEF ShapeProblems
<1>3. ASSUME MapForm(ws), NEW n \in DOMAIN ws \ {OwnerKey, IdmapKey}
      PROVE  IsObject(ws[n]) /\ DOMAIN ws[n].fields \subseteq MountFields
  <2>1. IsObject(ws[n])
    <3> DEFINE loose == {e \in (DOMAIN ws \ {OwnerKey}) \ {IdmapKey} : ~IsObject(ws[e])}
    <3>1. {<<"workspace", m, "belongs to a mount">> : m \in loose} = {}
      BY <1>3 DEF ShapeProblems
    <3>2. loose = {}
      <4> HIDE DEF loose
      <4> QED
        BY <3>1
    <3>3. QED
      BY <3>2, <1>3
  <2>2. ASSUME NEW f \in DOMAIN ws[n].fields \ MountFields
        PROVE  FALSE
    <3>1. {<<"workspace", g, "unknown field of a mount">> :
               g \in DOMAIN ws[n].fields \ MountFields} = {}
      BY <1>3, <2>1 DEF ShapeProblems
    <3>2. QED
      BY <3>1, <2>2
  <2>3. QED
    BY <2>1, <2>2
<1>4. ASSUME ~MapForm(ws)
      PROVE  DOMAIN ws \ {OwnerKey} \subseteq SingleFields
  BY <1>4 DEF ShapeProblems
<1>5. QED
  BY <1>1, <1>2, <1>3, <1>4

\* main is always among the mounts, and what the section holds otherwise.
LEMMA MountsAre ==
  ASSUME NEW doc
  PROVE  /\ DOMAIN Mounts(doc) = {MainMount} \cup DOMAIN Section(doc).mounts
         /\ Mounts(doc)[MainMount] = Main(doc)
         /\ \A n \in DOMAIN Section(doc).mounts \ {MainMount} :
              Mounts(doc)[n] = Section(doc).mounts[n]
BY DEF Mounts

\* The section as it is read, without its defaults.
LEMMA SectionIs ==
  ASSUME NEW doc, NEW ws, ws = doc.workspace
  PROVE  /\ DOMAIN ws = {} => DOMAIN Section(doc).mounts = {}
         /\ DOMAIN ws # {} /\ MapForm(ws) =>
              /\ DOMAIN Section(doc).mounts = MountEntries(ws)
              /\ \A n \in MountEntries(ws) : Section(doc).mounts[n] = Mount(ws[n].fields)
         /\ DOMAIN ws # {} /\ ~MapForm(ws) =>
              /\ DOMAIN Section(doc).mounts = {MainMount}
              /\ Section(doc).mounts[MainMount] = Mount(ws)
         /\ Section(doc).idmap = IF IdmapKey \in DOMAIN ws /\ ws[IdmapKey].kind = "string"
                                   THEN ws[IdmapKey].text ELSE <<>>
         /\ Section(doc).owner = IF OwnerGiven(ws) THEN ws[OwnerKey].fields ELSE << >>
<1>1. Section(doc).mounts = IF DOMAIN ws = {} THEN << >>
              ELSE IF MapForm(ws) THEN [n \in MountEntries(ws) |-> Mount(ws[n].fields)]
              ELSE [n \in {MainMount} |-> Mount(ws)]
  BY DEF Section, Workspace
<1>3. DOMAIN << >> = {}
  OBVIOUS
<1>4. DOMAIN ws = {} => DOMAIN Section(doc).mounts = {}
  BY <1>1, <1>3
<1>5. DOMAIN ws # {} /\ MapForm(ws) =>
        Section(doc).mounts = [n \in MountEntries(ws) |-> Mount(ws[n].fields)]
  BY <1>1
<1>6. DOMAIN ws # {} /\ ~MapForm(ws) =>
        Section(doc).mounts = [x \in {MainMount} |-> Mount(ws)]
  BY <1>1
<1>7. QED
  BY <1>4, <1>5, <1>6 DEF Section, Workspace

\* main as it is taken from an entry, with the defaults for what is not given.
LEMMA MainIs ==
  ASSUME NEW doc, NEW fields,
         MainMount \in DOMAIN Section(doc).mounts, Section(doc).mounts[MainMount] = Mount(fields)
  PROVE  /\ Main(doc).source = Or(TextOf(fields, <<"source">>), <<".">>)
         /\ Main(doc).target = Or(TextOf(fields, <<"target">>), <<"/", "workspace">>)
         /\ Main(doc).readonly = (TextOf(fields, <<"readonly">>) = <<"true">>)
BY DEF Main, Mount

\* What the check of the workspace section leaves.
LEMMA WorkspaceFacts ==
  ASSUME NEW doc, WorkspaceProblems(doc) = {}
  PROVE  /\ IDMap(doc) \in IDMapModes
         /\ OwnerGiven(doc.workspace) => IDMap(doc) \notin {<<"shift">>, <<"none">>}
         /\ \A n \in DOMAIN Mounts(doc) :
              IsAbs(Mounts(doc)[n].target) /\ ~IsRoot(Mounts(doc)[n].target)
         /\ \A n \in DOMAIN Mounts(doc) \ {MainMount} : MountNameProblems(doc, n) = {}
<1> DEFINE targets == UNION {If(~IsAbs(Mounts(doc)[n].target), <<"workspace", n, "target">>)
               \cup If(IsRoot(Mounts(doc)[n].target), <<"workspace", n, "root">>)
               : n \in DOMAIN Mounts(doc)}
           names == UNION {MountNameProblems(doc, n) : n \in DOMAIN Mounts(doc) \ {MainMount}}
<1>1. /\ If(IDMap(doc) \notin IDMapModes, At("workspace.idmap", "mode")) = {}
      /\ OwnerProblems(doc) = {} /\ targets = {} /\ names = {}
  <2>1. WorkspaceProblems(doc) = If(IDMap(doc) \notin IDMapModes, At("workspace.idmap", "mode"))
           \cup OwnerProblems(doc) \cup targets \cup names
    BY DEF WorkspaceProblems
  <2> HIDE DEF targets, names
  <2>2. QED
    BY <2>1
<1>2. IDMap(doc) \in IDMapModes
  BY <1>1 DEF If
<1>3. OwnerGiven(doc.workspace) => IDMap(doc) \notin {<<"shift">>, <<"none">>}
  BY <1>1 DEF OwnerProblems, If
<1>4. ASSUME NEW n \in DOMAIN Mounts(doc)
      PROVE  IsAbs(Mounts(doc)[n].target) /\ ~IsRoot(Mounts(doc)[n].target)
  <2>1. If(~IsAbs(Mounts(doc)[n].target), <<"workspace", n, "target">>)
        \cup If(IsRoot(Mounts(doc)[n].target), <<"workspace", n, "root">>) = {}
    BY <1>1, Zenon
  <2>2. QED
    BY <2>1 DEF If
<1>5. ASSUME NEW n \in DOMAIN Mounts(doc) \ {MainMount}
      PROVE  MountNameProblems(doc, n) = {}
  BY <1>1, Zenon
<1>6. QED
  BY <1>2, <1>3, <1>4, <1>5

-----------------------------------------------------------------------------
(* Nothing of it is dropped.                                               *)

\* A default is taken for an empty text alone.
LEMMA OrIs ==
  ASSUME NEW text, NEW default
  PROVE  text \in {<<>>, Or(text, default)} /\ (text # <<>> => Or(text, default) = text)
BY DEF Or

\* Nothing that validation lets through is dropped.
LEMMA NothingIsDropped ==
  ASSUME NEW doc, IsDoc(doc), Problems(doc) = {}
  PROVE  AllIsTaken(doc)
<1> DEFINE ws == doc.workspace
           taken(mount, key, text) ==
             CASE key = <<"source">> -> text \in {<<>>, mount.source}
               [] key = <<"target">> -> text \in {<<>>, mount.target}
               [] key = <<"readonly">> -> mount.readonly = (text = <<"true">>)
               [] OTHER -> FALSE
<1>1. /\ ~(doc.documents > 1) /\ ~doc.twice /\ ~Undecodable(ws)
      /\ ShapeProblems(doc) = {} /\ WorkspaceProblems(doc) = {}
  BY NoProblem, NoSemanticProblem
<1>2. doc.documents = 1 /\ ~doc.twice
  <2>1. doc.documents \in Nat \ {0}
    BY DEF IsDoc
  <2>2. \A m \in Nat \ {0} : ~(m > 1) => m = 1
    OBVIOUS
  <2>3. QED
    BY <1>1, <2>1, <2>2, Zenon
<1>3. ASSUME OwnerKey \in DOMAIN ws
      PROVE  /\ OwnerGiven(ws) /\ IDMap(doc) \in {<<"auto">>, <<"raw">>}
             /\ \A f \in DOMAIN ws[OwnerKey].fields :
                  \/ f = <<"uid">> /\ ws[OwnerKey].fields[f].text \in {<<>>, Owner(doc).uid}
                  \/ f = <<"gid">> /\ ws[OwnerKey].fields[f].text \in {<<>>, Owner(doc).gid}
  <2> DEFINE fields == ws[OwnerKey].fields
  <2>1. OwnerGiven(ws) /\ DOMAIN fields \subseteq OwnerFields
    BY <1>1, <1>3, ShapeFacts DEF OwnerGiven
  <2>2. IDMap(doc) \in {<<"auto">>, <<"raw">>}
    BY <1>1, <2>1, WorkspaceFacts DEF IDMapModes
  <2>3. Section(doc).owner = fields
    BY <2>1, SectionIs
  <2>4. ASSUME NEW f \in DOMAIN fields, f = <<"uid">>
        PROVE  fields[f].text \in {<<>>, Owner(doc).uid}
    BY <2>3, <2>4, OrIs DEF Owner, TextOf
  <2>5. ASSUME NEW f \in DOMAIN fields, f = <<"gid">>
        PROVE  fields[f].text \in {<<>>, Owner(doc).gid}
    BY <2>3, <2>5, OrIs DEF Owner, TextOf
  <2>6. QED
    BY <2>1, <2>2, <2>4, <2>5 DEF OwnerFields
<1>4. ASSUME IdmapKey \in DOMAIN ws
      PROVE  ws[IdmapKey].kind # "string" \/ ws[IdmapKey].text \in {<<>>, IDMap(doc)}
  BY <1>4, SectionIs, OrIs DEF IDMap
<1>5. ASSUME NEW n \in DOMAIN ws \ {OwnerKey, IdmapKey}, MapForm(ws),
             NEW f \in DOMAIN ws[n].fields
      PROVE  n \in DOMAIN Mounts(doc) /\ taken(Mounts(doc)[n], f, ws[n].fields[f].text)
  <2> DEFINE fields == ws[n].fields
  <2>1. n \in MountEntries(ws) /\ f \in MountFields
    BY <1>1, <1>5, ShapeFacts DEF MountEntries
  <2>2. /\ DOMAIN Section(doc).mounts = MountEntries(ws)
        /\ Section(doc).mounts[n] = Mount(fields)
    BY <1>5, <2>1, SectionIs
  <2>3. n \in DOMAIN Mounts(doc)
    BY <2>1, <2>2, MountsAre
  <2>4. CASE n = MainMount
    <3>1. Mounts(doc)[n] = Main(doc)
      BY <2>4, MountsAre
    <3>2. /\ Main(doc).source = Or(TextOf(fields, <<"source">>), <<".">>)
          /\ Main(doc).target = Or(TextOf(fields, <<"target">>), <<"/", "workspace">>)
          /\ Main(doc).readonly = (TextOf(fields, <<"readonly">>) = <<"true">>)
      BY <2>1, <2>2, <2>4, MainIs
    <3>3. TextOf(fields, f) = fields[f].text
      BY DEF TextOf
    <3> HIDE DEF fields
    <3>4. CASE f = <<"source">>
      BY <3>1, <3>2, <3>3, <3>4, <2>3, OrIs DEF fields
    <3>5. CASE f = <<"target">>
      BY <3>1, <3>2, <3>3, <3>5, <2>3, OrIs DEF fields
    <3>6. CASE f = <<"readonly">>
      BY <3>1, <3>2, <3>3, <3>6, <2>3 DEF fields
    <3>7. QED
      BY <3>4, <3>5, <3>6, <2>1 DEF MountFields
  <2>5. CASE n # MainMount
    <3>1. Mounts(doc)[n] = Mount(fields)
      BY <2>1, <2>2, <2>5, MountsAre
    <3>2. TextOf(fields, f) = fields[f].text
      BY DEF TextOf
    <3>3. QED
      BY <3>1, <3>2, <2>1, <2>3 DEF Mount, MountFields
  <2>6. QED
    BY <2>4, <2>5
<1>6. ASSUME NEW n \in DOMAIN ws \ {OwnerKey, IdmapKey}, ~MapForm(ws)
      PROVE  taken(Main(doc), n, ws[n].text)
  <2>1. n \in MountFields /\ DOMAIN ws # {}
    BY <1>1, <1>6, ShapeFacts DEF SingleFields, MountFields, IdmapKey, OwnerKey
  <2>2. /\ Main(doc).source = Or(TextOf(ws, <<"source">>), <<".">>)
        /\ Main(doc).target = Or(TextOf(ws, <<"target">>), <<"/", "workspace">>)
        /\ Main(doc).readonly = (TextOf(ws, <<"readonly">>) = <<"true">>)
    BY <1>6, <2>1, SectionIs, MainIs
  <2>3. TextOf(ws, n) = ws[n].text
    BY DEF TextOf
  <2> HIDE DEF ws
  <2>4. QED
    BY <2>1, <2>2, <2>3, OrIs DEF MountFields
<1> HIDE DEF taken
<1>7. ASSUME NEW n \in DOMAIN ws
      PROVE  CASE n = OwnerKey ->
                  /\ OwnerGiven(ws) /\ IDMap(doc) \in {<<"auto">>, <<"raw">>}
                  /\ \A f \in DOMAIN ws[n].fields :
                       \/ f = <<"uid">> /\ ws[n].fields[f].text \in {<<>>, Owner(doc).uid}
                       \/ f = <<"gid">> /\ ws[n].fields[f].text \in {<<>>, Owner(doc).gid}
             [] n = IdmapKey -> ws[n].kind # "string" \/ ws[n].text \in {<<>>, IDMap(doc)}
             [] n \notin {OwnerKey, IdmapKey} /\ MapForm(ws) ->
                  \A f \in DOMAIN ws[n].fields :
                    n \in DOMAIN Mounts(doc) /\ taken(Mounts(doc)[n], f, ws[n].fields[f].text)
             [] OTHER -> taken(Main(doc), n, ws[n].text)
  <2>1. OwnerKey # IdmapKey
    BY DEF OwnerKey, IdmapKey
  <2>2. QED
    BY <1>3, <1>4, <1>5, <1>6, <2>1
<1>8. QED
  BY <1>2, <1>7 DEF AllIsTaken, taken

-----------------------------------------------------------------------------
(* Names and paths.                                                        *)

\* What the schema leaves.
LEMMA SchemaFacts ==
  ASSUME NEW doc, SchemaProblems(doc) = {}
  PROVE  /\ \A n \in DOMAIN doc.volumes : Plain(n) /\ ~(Len(n) > MaxDeviceName)
         /\ \A n \in DOMAIN doc.devices : Len(n) \in 1 .. MaxDeviceName
         /\ <<>> \notin doc.config
         /\ Plain(doc.project) /\ ~(Len(doc.project) > MaxProjectName)
<1> DEFINE badVolumes == {v \in DOMAIN doc.volumes : ~Plain(v) \/ Len(v) > MaxDeviceName}
           badDevices == {d \in DOMAIN doc.devices : Len(d) \notin 1 .. MaxDeviceName}
<1>1. /\ {<<"volumes", n, "key name">> : n \in badVolumes} = {}
      /\ {<<"instance.devices", n, "key name">> : n \in badDevices} = {}
      /\ If(<<>> \in doc.config, At("instance.config", "key name")) = {}
      /\ If(~Plain(doc.project) \/ Len(doc.project) > MaxProjectName, At("project.name", "pattern")) = {}
  BY DEF SchemaProblems
<1>2. badVolumes = {} /\ badDevices = {}
  <2> HIDE DEF badVolumes, badDevices
  <2>1. QED
    BY <1>1
<1>3. <<>> \notin doc.config /\ Plain(doc.project) /\ ~(Len(doc.project) > MaxProjectName)
  BY <1>1 DEF If
<1>4. QED
  BY <1>2, <1>3

\* What validateVolumes leaves.
LEMMA VolumeFacts ==
  ASSUME NEW doc, VolumeProblems(doc) = {}, NEW n \in DOMAIN doc.volumes
  PROVE  /\ IsAbs(doc.volumes[n].path) /\ n # WorkspaceName
         /\ ~Holds(n, ",") /\ ~Holds(n, "/")
         /\ n \notin DOMAIN doc.devices /\ n \notin DOMAIN Section(doc).mounts
<1> DEFINE problems(v) ==
             If(~IsAbs(doc.volumes[v].path), <<"volumes", v, "path">>)
             \cup If(v = WorkspaceName, <<"volumes", v, "reserved">>)
             \cup If(Holds(v, ",") \/ Holds(v, "/"), <<"volumes", v, "separator">>)
             \cup If(v \in DOMAIN doc.devices, <<"volumes", v, "conflicts with a device">>)
             \cup If(v \in DOMAIN Section(doc).mounts, <<"volumes", v, "conflicts with a mount">>)
<1>1. UNION {problems(v) : v \in DOMAIN doc.volumes} = {}
  BY DEF VolumeProblems
<1>2. problems(n) = {}
  <2> HIDE DEF problems
  <2>1. QED
    BY <1>1, Zenon
<1>3. QED
  BY <1>2 DEF If

\* What validateInstance leaves.
LEMMA InstanceFacts ==
  ASSUME NEW doc, InstanceProblems(doc) = {}
  PROVE  /\ \A k \in doc.config : ~Holds(k, ",")
         /\ \A n \in DOMAIN doc.devices : ~Holds(n, ",")
         /\ doc.profiles.given /\ doc.profiles.names = {} => HasRootDisk(doc.devices)
         /\ WorkspaceName \notin DOMAIN doc.devices
<1> DEFINE badKeys == {k \in doc.config : BadKey(k)}
           badNames == {n \in DOMAIN doc.devices : BadDeviceName(n)}
<1>1. /\ {<<"instance.config", k, "key">> : k \in badKeys} = {}
      /\ {<<"instance.devices", n, "name">> : n \in badNames} = {}
      /\ If(doc.profiles.given /\ doc.profiles.names = {} /\ ~HasRootDisk(doc.devices),
            At("instance.devices", "no root disk")) = {}
      /\ If(WorkspaceName \in DOMAIN doc.devices,
            <<"instance.devices", WorkspaceName, "reserved">>) = {}
  BY DEF InstanceProblems
<1>2. badKeys = {} /\ badNames = {}
  <2> HIDE DEF badKeys, badNames
  <2>1. QED
    BY <1>1
<1>3. QED
  BY <1>1, <1>2 DEF If, BadKey, BadDeviceName

\* What validateMountName leaves.
LEMMA MountNameFacts ==
  ASSUME NEW doc, NEW n, MountNameProblems(doc, n) = {}
  PROVE  /\ n # WorkspaceName /\ ~Holds(n, ",") /\ ~(Len(n) > MaxDeviceName)
         /\ n \notin DOMAIN doc.devices
BY DEF MountNameProblems, If, BadDeviceName

\* What validateMountPaths leaves.
LEMMA MountPathFacts ==
  ASSUME NEW doc, MountPathProblems(doc) = {}
  PROVE  /\ \A n \in DOMAIN doc.volumes : ~IsRoot(doc.volumes[n].path)
         /\ \A p, q \in PathClaims(doc) :
              IsAbs(p[3]) /\ IsAbs(q[3]) /\ Clean(p[3]) = Clean(q[3]) => p = q
<1> DEFINE claims == {c \in PathClaims(doc) : IsAbs(c[3])}
           roots == {v \in DOMAIN doc.volumes : IsRoot(doc.volumes[v].path)}
           taken == {c \in claims : \E d \in claims \ {c} : Clean(c[3]) = Clean(d[3])}
<1>1. /\ {<<"volumes", n, "root">> : n \in roots} = {}
      /\ {At("(paths)", "taken") : c \in taken} = {}
  BY DEF MountPathProblems
<1>2. roots = {} /\ taken = {}
  <2> HIDE DEF roots, taken
  <2>1. QED
    BY <1>1
<1>3. QED
  BY <1>2

\* The names of mounts are those of their devices, but for main.
LEMMA MountClaims ==
  ASSUME NEW doc, WorkspaceProblems(doc) = {}, IsDoc(doc), NEW n \in DOMAIN Mounts(doc)
  PROVE  /\ n # MainMount =>
              /\ MountDeviceName(n) = n /\ n # WorkspaceName /\ n \notin DOMAIN doc.devices
              /\ n \in DOMAIN Section(doc).mounts /\ ~Holds(n, ",")
              /\ n \in Texts /\ ~(Len(n) > MaxDeviceName)
         /\ n = MainMount => MountDeviceName(n) = WorkspaceName
<1>1. ASSUME n # MainMount
      PROVE  /\ MountDeviceName(n) = n /\ n # WorkspaceName /\ n \notin DOMAIN doc.devices
             /\ n \in DOMAIN Section(doc).mounts /\ ~Holds(n, ",")
             /\ ~(Len(n) > MaxDeviceName)
  BY <1>1, WorkspaceFacts, MountNameFacts, MountsAre DEF MountDeviceName
<1>2. ASSUME n # MainMount
      PROVE  n \in Texts
  <2>1. n \in DOMAIN doc.workspace
    BY <1>1, <1>2, SectionIs DEF MountEntries
  <2>2. QED
    BY <2>1 DEF IsDoc, AreTexts
<1>3. QED
  BY <1>1, <1>2 DEF MountDeviceName

-----------------------------------------------------------------------------
(* Nothing collides.                                                       *)

\* Nothing collides in a document without problems.
LEMMA NothingCollides ==
  ASSUME NEW doc, IsDoc(doc), Problems(doc) = {}
  PROVE  NoDeviceCollides(doc)
<1>1. /\ SchemaProblems(doc) = {} /\ InstanceProblems(doc) = {} /\ VolumeProblems(doc) = {}
      /\ WorkspaceProblems(doc) = {} /\ MountPathProblems(doc) = {}
  BY NoProblem, NoSemanticProblem
<1> DEFINE names == DeviceClaims(doc)
           paths == PathClaims(doc)
           mounts == DOMAIN Mounts(doc)
           volumes == DOMAIN doc.volumes
           devices == DOMAIN doc.devices
<1>2. ASSUME NEW n \in mounts
      PROVE  /\ MountDeviceName(n) \notin volumes \cup devices
             /\ \A m \in mounts : MountDeviceName(n) = MountDeviceName(m) => n = m
             /\ Len(MountDeviceName(n)) \in 0 .. MaxDeviceName
  <2>1. MountDeviceName(n) \notin devices
    BY <1>1, <1>2, MountClaims, InstanceFacts
  <2>2. MountDeviceName(n) \notin volumes
    BY <1>1, <1>2, MountClaims, VolumeFacts
  <2>3. ASSUME NEW m \in mounts, MountDeviceName(n) = MountDeviceName(m)
        PROVE  n = m
    <3>1. /\ n # MainMount => MountDeviceName(n) = n /\ n # WorkspaceName
          /\ n = MainMount => MountDeviceName(n) = WorkspaceName
      BY <1>1, MountClaims
    <3>2. /\ m # MainMount => MountDeviceName(m) = m /\ m # WorkspaceName
          /\ m = MainMount => MountDeviceName(m) = WorkspaceName
      BY <1>1, MountClaims
    <3>3. QED
      BY <2>3, <3>1, <3>2
  <2>4. Len(MountDeviceName(n)) \in 0 .. MaxDeviceName
    <3>1. CASE n = MainMount
      <4>1. MountDeviceName(n) = WorkspaceName
        BY <3>1 DEF MountDeviceName
      <4>2. Len(WorkspaceName) = 1
        BY DEF WorkspaceName
      <4>3. 1 \in 0 .. MaxDeviceName
        BY DEF MaxDeviceName
      <4>4. QED
        BY <4>1, <4>2, <4>3, Zenon
    <3>2. CASE n # MainMount
      <4>1. MountDeviceName(n) = n /\ n \in Seq(STRING) /\ ~(Len(n) > MaxDeviceName)
        BY <1>1, <1>2, <3>2, MountClaims DEF Texts
      <4> DEFINE size == Len(n)
      <4>2. size \in Nat /\ ~(size > MaxDeviceName)
        BY <4>1
      <4> HIDE DEF size
      <4>3. size \in 0 .. MaxDeviceName
        BY <4>2 DEF MaxDeviceName
      <4>4. QED
        BY <4>1, <4>3 DEF size
    <3>3. QED
      BY <3>1, <3>2
  <2>5. QED
    BY <2>1, <2>2, <2>3, <2>4
<1>3. ASSUME NEW n \in volumes
      PROVE  n \notin devices /\ Len(n) \in 1 .. MaxDeviceName
  <2>1. n \notin devices
    BY <1>1, VolumeFacts
  <2>2. n \in Seq(STRING) /\ n # <<>> /\ ~(Len(n) > MaxDeviceName)
    BY <1>1, SchemaFacts DEF IsDoc, AreTexts, Texts, Plain
  <2>3. Len(n) \in Nat /\ Len(n) # 0
    BY <2>2
  <2> DEFINE size == Len(n)
  <2>4. size \in Nat /\ size # 0 /\ ~(size > MaxDeviceName)
    BY <2>2, <2>3
  <2> HIDE DEF size
  <2>5. size \in 1 .. MaxDeviceName
    BY <2>4 DEF MaxDeviceName
  <2>6. QED
    BY <2>1, <2>5 DEF size
<1>4. \A n \in devices : Len(n) \in 1 .. MaxDeviceName
  BY <1>1, SchemaFacts
<1>5. \A n \in names :
        \/ \E m \in mounts : n = <<"mount", m, MountDeviceName(m)>>
        \/ \E v \in volumes : n = <<"volume", v, v>>
        \/ \E d \in devices : n = <<"device", d, d>>
  BY DEF DeviceClaims
<1>6. \A n, m \in names : n[3] = m[3] => n = m
  <2> HIDE DEF names, mounts, volumes, devices
  <2>1. QED
    BY <1>2, <1>3, <1>5
<1>7. \A n \in names : Len(n[3]) \in (IF n[1] = "mount" THEN 0 ELSE 1) .. MaxDeviceName
  <2> HIDE DEF names, mounts, volumes, devices
  <2>1. QED
    BY <1>2, <1>3, <1>4, <1>5
<1>8. \A p, q \in paths : IsAbs(p[3]) /\ IsAbs(q[3]) /\ Clean(p[3]) = Clean(q[3]) => p = q
  BY <1>1, MountPathFacts
<1>9. \A p \in paths : p[1] # "device" => IsAbs(p[3]) /\ ~IsRoot(p[3])
  <2> SUFFICES ASSUME NEW p \in paths, p[1] # "device"
      PROVE  IsAbs(p[3]) /\ ~IsRoot(p[3])
    OBVIOUS
  <2>1. CASE \E n \in mounts : p = <<"mount", n, Mounts(doc)[n].target>>
    BY <1>1, <2>1, WorkspaceFacts
  <2>2. CASE \E n \in volumes : p = <<"volume", n, doc.volumes[n].path>>
    <3>1. PICK n \in volumes : p = <<"volume", n, doc.volumes[n].path>>
      BY <2>2
    <3>2. IsAbs(doc.volumes[n].path) /\ ~IsRoot(doc.volumes[n].path)
      BY <1>1, VolumeFacts, MountPathFacts
    <3>3. QED
      BY <3>1, <3>2
  <2>3. QED
    BY <2>1, <2>2 DEF PathClaims
<1>10. ASSUME doc.profiles.given /\ doc.profiles.names = {}
       PROVE  \E p \in paths : p[1] = "device" /\ IsRoot(p[3])
  <2>1. PICK n \in devices : doc.devices[n].type = "disk" /\ doc.devices[n].path = <<"/">>
    BY <1>1, <1>10, InstanceFacts DEF HasRootDisk
  <2>2. <<"device", n, doc.devices[n].path>> \in paths
    BY <2>1 DEF PathClaims
  <2>3. IsRoot(<<"/">>)
    BY CleanOfRoot DEF IsRoot, IsAbs, Starts
  <2>4. QED
    BY <2>1, <2>2, <2>3
<1>11. QED
  <2> HIDE DEF names, paths
  <2>1. QED
    BY <1>6, <1>7, <1>8, <1>9, <1>10 DEF NoDeviceCollides, names, paths

\* No two devices of an accepted dev.yml share a name or a path, for any documents:
\* what validate.go lets through, desiredDevices can put on an instance.
THEOREM DevicesApart == Spec => []DevicesNeverCollide
<1>1. LoadInv => DevicesNeverCollide
  BY AcceptedDoc, NothingCollides DEF DevicesNeverCollide
<1>2. QED
  BY <1>1, LoadingInv, PTL

\* Of an accepted dev.yml, all the workspace section says has been taken (workspace.go
\* UnmarshalJSON, validate.go validateWorkspaceShape), for any documents.
THEOREM NothingDropped == Spec => []WrittenIsTaken
<1>1. LoadInv => WrittenIsTaken
  BY AcceptedDoc, NothingIsDropped DEF WrittenIsTaken
<1>2. QED
  BY <1>1, LoadingInv, PTL

-----------------------------------------------------------------------------
(* Records.                                                                *)

\* A finite set as a sequence.
LEMMA SetAsSequence ==
  ASSUME NEW S, IsFiniteSet(S)
  PROVE  /\ SetToSeq(S) \in Seq(S) /\ IsInjective(SetToSeq(S))
         /\ Len(SetToSeq(S)) = Cardinality(S) /\ Cardinality(S) \in Nat
<1> DEFINE n == Cardinality(S)
<1>1. n \in Nat /\ ExistsBijection(1 .. n, S)
  BY FS_CardinalityType
<1>2. \E f \in [1 .. n -> S] : IsInjective(f)
  <2>1. PICK f : f \in Bijection(1 .. n, S)
    BY <1>1 DEF ExistsBijection
  <2>2. f \in [1 .. n -> S] /\ \A a, b \in 1 .. n : f[a] = f[b] => a = b
    BY <2>1 DEF Bijection, Injection, IsInjective
  <2>3. QED
    BY <2>2 DEF IsInjective
<1> DEFINE f == SetToSeq(S)
<1>3. f \in [1 .. n -> S] /\ IsInjective(f)
  BY <1>2 DEF SetToSeq
<1> HIDE DEF f, n
<1>4. f \in Seq(S)
  BY <1>1, <1>3, SeqDef
<1>5. Len(f) = n
  BY <1>1, <1>3, <1>4, LenProperties
<1>6. QED
  BY <1>1, <1>3, <1>4, <1>5 DEF f, n

\* What is written of names without a comma is read back, but for the empty
\* name alone.
LEMMA ClearComesBack ==
  ASSUME NEW names, IsFiniteSet(names), \A n \in names : Clear(n), names # {<<>>}
  PROVE  ComesBack(names)
<1> DEFINE P == {","} \cup UNION {Range(n) : n \in names}
           texts == SetToSeq(names)
<1>1. \A n \in names : n \in Seq(P) /\ ~Holds(n, ",")
  <2> SUFFICES ASSUME NEW n \in names
               PROVE  n \in Seq(P) /\ ~Holds(n, ",")
    OBVIOUS
  <2>1. ~Holds(n, ",") /\ n \in Seq(Range(n))
    BY ClearHolds
  <2>2. Range(n) \subseteq P
    OBVIOUS
  <2> HIDE DEF P
  <2>3. \A i \in 1 .. Len(n) : n[i] \in P
    BY <2>1, <2>2, LengthIs
  <2>4. n \in Seq(P)
    BY <2>1, <2>3, IsOf
  <2>5. QED
    BY <2>1, <2>4
<1>2. "," \in P
  OBVIOUS
<1> HIDE DEF P
<1>3. /\ texts \in Seq(names) /\ Len(texts) = Cardinality(names) /\ Cardinality(names) \in Nat
  BY SetAsSequence
<1> HIDE DEF texts
<1>4. \A i \in 1 .. Len(texts) : texts[i] \in names
  BY <1>3, LengthIs
<1>5. texts \in Seq(Seq(P)) /\ \A i \in 1 .. Len(texts) : ~Holds(texts[i], ",")
  BY <1>1, <1>3, <1>4, IsOf
<1>6. CASE texts = <<>>
  <2>1. Join(texts, ",") = <<>>
    BY <1>6 DEF Join
  <2>2. SplitList(<<>>) = <<>>
    BY DEF SplitList
  <2>3. QED
    BY <1>6, <2>1, <2>2 DEF ComesBack, texts
<1>7. CASE texts # <<>>
  <2>1. Split(Join(texts, ","), ",") = texts
    BY <1>2, <1>5, <1>7, JoinedIsSplit
  <2>2. Join(texts, ",") # <<>>
    <3>1. SUFFICES ASSUME Join(texts, ",") = <<>>
                   PROVE  FALSE
      OBVIOUS
    <3>2. <<>> \in Seq(P) /\ ~Holds(<<>>, ",")
      BY EmptySeq DEF Holds, Range
    <3>3. Split(<<>>, ",") = << <<>> >>
      BY <3>2, SplitOfPlain
    <3>4. texts = << <<>> >>
      BY <2>1, <3>1, <3>3
    <3>5. Len(texts) = 1 /\ texts[1] = <<>>
      BY <3>4
    <3>6. <<>> \in names /\ Cardinality(names) = 1
      BY <1>3, <1>4, <3>5
    <3>7. PICK x : names = {x}
      BY <3>6, FS_Singleton
    <3>8. QED
      BY <3>6, <3>7
  <2>3. SplitList(Join(texts, ",")) = texts
    BY <2>1, <2>2 DEF SplitList
  <2>4. QED
    BY <2>3 DEF ComesBack, texts
<1>8. QED
  BY <1>6, <1>7

\* What a function makes of a finite set is finite.
LEMMA ImageIsFinite ==
  ASSUME NEW S, IsFiniteSet(S), NEW T, NEW f \in [S -> T], T = {f[x] : x \in S}
  PROVE  IsFiniteSet(T)
<1>1. f \in Surjection(S, T)
  BY DEF Surjection
<1>2. QED
  BY <1>1, FS_Surjection

\* A name is a text that is written without a comma.
LEMMA TextIsClear ==
  ASSUME NEW s \in Texts, ~Holds(s, ",")
  PROVE  Clear(s)
BY HoldsNotIsClear DEF Texts

\* The record of the config keys.
LEMMA KeysComeBack ==
  ASSUME NEW doc, IsDoc(doc), SchemaProblems(doc) = {}, InstanceProblems(doc) = {}
  PROVE  ComesBack(ManagedKeys(doc))
<1>1. IsFiniteSet(doc.config) /\ \A n \in doc.config : n \in Texts
  BY DEF IsDoc, AreTexts
<1>2. \A n \in doc.config : Clear(n)
  BY <1>1, InstanceFacts, TextIsClear
<1>3. doc.config # {<<>>}
  BY SchemaFacts
<1>4. QED
  BY <1>1, <1>2, <1>3, ClearComesBack DEF ManagedKeys

\* The tags ansible-playbook is given.
LEMMA TagsComeBack ==
  ASSUME NEW doc, IsDoc(doc), NEW s \in Range(doc.provision), s.kinds = {"ansible"},
         StepProblems(s, TRUE) = {}
  PROVE  ComesBack(s.tags)
<1>1. PICK i \in DOMAIN doc.provision : s = doc.provision[i]
  BY DEF Range
<1>2. AreTexts(s.tags) /\ <<>> \notin s.tags
  BY <1>1 DEF IsDoc
<1>3. \A t \in s.tags : ~Holds(t, ",")
  BY DEF StepProblems, If
<1>4. IsFiniteSet(s.tags) /\ \A t \in s.tags : Clear(t)
  BY <1>2, <1>3, TextIsClear DEF AreTexts
<1>5. s.tags # {<<>>}
  BY <1>2
<1>6. QED
  BY <1>4, <1>5, ClearComesBack

\* The third parts of such triples.
Tagged(tag, S, f) == {<<tag, n, f[n]>> : n \in S}
\* ... the third parts of triples, ...
Thirds(T) == {c[3] : c \in T}
\* ... and what f makes of S.
Images(S, f) == {f[n] : n \in S}

\* They are the same of such triples.
LEMMA ThirdParts ==
  ASSUME NEW S, NEW tag, NEW f
  PROVE  Thirds(Tagged(tag, S, f)) = Images(S, f)
<1> DEFINE T == Tagged(tag, S, f)
<1>1. ASSUME NEW n \in S
      PROVE  f[n] \in Thirds(T)
  <2>1. <<tag, n, f[n]>> \in T /\ <<tag, n, f[n]>>[3] = f[n]
    BY DEF Tagged
  <2>2. QED
    BY <2>1, Zenon DEF Thirds
<1>2. ASSUME NEW c \in T
      PROVE  c[3] \in Images(S, f)
  <2>1. PICK n \in S : c = <<tag, n, f[n]>>
    BY DEF Tagged
  <2>2. c[3] = f[n]
    BY <2>1
  <2>3. QED
    BY <2>2 DEF Images
<1>3. QED
  BY <1>1, <1>2 DEF Thirds, Images

\* The record of the devices.
LEMMA DevicesComeBack ==
  ASSUME NEW doc, IsDoc(doc), Problems(doc) = {}
  PROVE  ComesBack(ManagedDevices(doc))
<1>1. /\ SchemaProblems(doc) = {} /\ InstanceProblems(doc) = {} /\ VolumeProblems(doc) = {}
      /\ WorkspaceProblems(doc) = {}
  BY NoProblem, NoSemanticProblem
<1> DEFINE mounts == DOMAIN Mounts(doc)
           named == {MountDeviceName(n) : n \in mounts}
<1>2. ManagedDevices(doc) = named \cup DOMAIN doc.volumes \cup DOMAIN doc.devices
  <2> DEFINE M == {<<"mount", n, MountDeviceName(n)>> : n \in mounts}
             V == {<<"volume", n, n>> : n \in DOMAIN doc.volumes}
             D == {<<"device", n, n>> : n \in DOMAIN doc.devices}
  <2>1. ManagedDevices(doc) = Thirds(M \cup V \cup D)
    BY Zenon DEF ManagedDevices, DeviceClaims, Thirds
  <2>2. Thirds(M) = named
    <3> DEFINE f == [n \in mounts |-> MountDeviceName(n)]
    <3>1. M = Tagged("mount", mounts, f) /\ named = Images(mounts, f)
      BY DEF Tagged, Images
    <3> HIDE DEF M, named, mounts, f
    <3>2. QED
      BY <3>1, ThirdParts
  <2>3. Thirds(V) = DOMAIN doc.volumes
    <3> DEFINE S == DOMAIN doc.volumes
               f == [n \in S |-> n]
    <3>1. V = Tagged("volume", S, f) /\ S = Images(S, f)
      BY DEF Tagged, Images
    <3> HIDE DEF V, S, f
    <3>2. Thirds(V) = S
      BY <3>1, ThirdParts
    <3>3. QED
      BY <3>2 DEF S
  <2>4. Thirds(D) = DOMAIN doc.devices
    <3> DEFINE S == DOMAIN doc.devices
               f == [n \in S |-> n]
    <3>1. D = Tagged("device", S, f) /\ S = Images(S, f)
      BY DEF Tagged, Images
    <3> HIDE DEF D, S, f
    <3>2. Thirds(D) = S
      BY <3>1, ThirdParts
    <3>3. QED
      BY <3>2 DEF S
  <2> HIDE DEF M, V, D, named, mounts
  <2>5. Thirds(M \cup V \cup D) = Thirds(M) \cup Thirds(V) \cup Thirds(D)
    BY DEF Thirds
  <2>6. QED
    BY <2>1, <2>2, <2>3, <2>4, <2>5
<1>3. IsFiniteSet(named)
  <2>1. IsFiniteSet(mounts)
    <3>1. IsFiniteSet(DOMAIN doc.workspace \cup {MainMount})
      BY FS_AddElement DEF IsDoc, AreTexts
    <3>2. mounts \subseteq DOMAIN doc.workspace \cup {MainMount}
      BY DEF Mounts, Section, Workspace, MountEntries
    <3> HIDE DEF mounts
    <3>3. QED
      BY <3>1, <3>2, FS_Subset
  <2> DEFINE f == [n \in mounts |-> MountDeviceName(n)]
  <2>2. named = {f[n] : n \in mounts} /\ f \in [mounts -> named]
    OBVIOUS
  <2> HIDE DEF f, mounts, named
  <2>3. QED
    BY <2>1, <2>2, ImageIsFinite
<1>4. IsFiniteSet(DOMAIN doc.volumes) /\ IsFiniteSet(DOMAIN doc.devices)
  BY DEF IsDoc, AreTexts
<1>5. IsFiniteSet(ManagedDevices(doc))
  <2> HIDE DEF named
  <2>1. IsFiniteSet(named \cup DOMAIN doc.volumes)
    BY <1>3, <1>4, FS_Union
  <2>2. QED
    BY <1>2, <1>4, <2>1, FS_Union
<1>6. WorkspaceName \in named
  <2>1. MainMount \in mounts
    BY DEF Mounts
  <2>2. MountDeviceName(MainMount) = WorkspaceName
    BY DEF MountDeviceName
  <2>3. QED
    BY <2>1, <2>2
<1>7. \A n \in ManagedDevices(doc) : Clear(n)
  <2>1. \A n \in DOMAIN doc.volumes : Clear(n)
    BY <1>1, VolumeFacts, TextIsClear DEF IsDoc, AreTexts
  <2>2. \A n \in DOMAIN doc.devices : Clear(n)
    BY <1>1, InstanceFacts, TextIsClear DEF IsDoc, AreTexts
  <2>3. \A n \in mounts : Clear(MountDeviceName(n))
    <3> SUFFICES ASSUME NEW n \in mounts
                 PROVE  Clear(MountDeviceName(n))
      OBVIOUS
    <3>1. CASE n = MainMount
      <4>1. MountDeviceName(n) = <<"workspace">>
        BY <3>1 DEF MountDeviceName, WorkspaceName
      <4>2. Clear(<<"workspace">>)
        BY ClearPiece
      <4>3. QED
        BY <4>1, <4>2
    <3>2. CASE n # MainMount
      <4>1. MountDeviceName(n) = n /\ ~Holds(n, ",") /\ n \in Texts
        BY <1>1, <3>2, MountClaims
      <4>2. QED
        BY <4>1, TextIsClear
    <3>3. QED
      BY <3>1, <3>2
  <2>4. QED
    BY <1>2, <2>1, <2>2, <2>3
<1>8. ManagedDevices(doc) # {<<>>}
  <2>1. WorkspaceName \in ManagedDevices(doc)
    BY <1>2, <1>6
  <2>2. WorkspaceName # <<>>
    BY DEF WorkspaceName
  <2>3. QED
    BY <2>1, <2>2
<1>9. QED
  BY <1>5, <1>7, <1>8, ClearComesBack

\* A volume's entry is cut where its pool ends.
LEMMA CutAtThePool ==
  ASSUME NEW P, NEW pool \in Seq(P), NEW name \in Seq(P), "/" \in P, ~Holds(pool, "/")
  PROVE  SplitVolume(VolumeRef(pool, name)) = <<pool, name>>
<1> DEFINE ref == VolumeRef(pool, name)
           m == Len(pool)
           n == Len(name)
           cuts == {i \in DOMAIN ref : ref[i] = "/"}
           cut == Min(cuts)
<1>1. ref = pool \o <<"/">> \o name
  BY DEF VolumeRef
<1> HIDE DEF ref
<1>2. /\ ref \in Seq(P) /\ Len(ref) = m + 1 + n /\ m \in Nat /\ n \in Nat
      /\ \A i \in 1 .. m : ref[i] = pool[i]
      /\ ref[m + 1] = "/"
      /\ \A j \in 1 .. n : ref[m + 1 + j] = name[j]
  BY <1>1, PiecesOfThree
<1>3. DOMAIN ref = 1 .. Len(ref)
  BY <1>2, LengthIs
<1>4. \A i \in 1 .. m : pool[i] # "/"
  BY LengthIs DEF Holds, Range
<1> HIDE DEF m, n
<1>5. m + 1 \in cuts /\ \A i \in cuts : i \in Int /\ m + 1 <= i
  BY <1>2, <1>3, <1>4
<1> HIDE DEF cuts
<1>6. cut = m + 1
  <2>1. \E x \in cuts : \A y \in cuts : x =< y
    BY <1>5
  <2>2. cut \in cuts /\ \A y \in cuts : cut =< y
    BY <2>1 DEF Min
  <2> HIDE DEF cut
  <2>3. QED
    BY <1>2, <1>5, <2>2
<1> HIDE DEF cut
<1>7. SubSeq(ref, 1, cut - 1) = pool
  <2>1. cut - 1 = m /\ m \in 0 .. Len(ref)
    BY <1>2, <1>6
  <2> DEFINE head == SubSeq(ref, 1, m)
  <2>2. head \in Seq(P) /\ Len(head) = m /\ \A i \in 1 .. m : head[i] = ref[i]
    BY <1>2, <2>1, SubSeqProperties
  <2> HIDE DEF head
  <2>3. head = pool
    BY <1>2, <2>2, SeqEqual DEF m
  <2>4. QED
    BY <2>1, <2>3 DEF head
<1>8. SubSeq(ref, cut + 1, Len(ref)) = name
  <2>1. cut + 1 = m + 2 /\ Len(ref) = m + 1 + n
    BY <1>2, <1>6
  <2> DEFINE tail == SubSeq(ref, m + 2, m + 1 + n)
  <2>2. tail \in Seq(P) /\ Len(tail) = n /\ \A j \in 1 .. n : tail[j] = ref[m + 1 + j]
    BY <1>2, SubSeqProperties
  <2> HIDE DEF tail
  <2>3. \A j \in 1 .. n : tail[j] = name[j]
    BY <1>2, <2>2
  <2>4. tail = name
    BY <2>2, <2>3, SeqEqual DEF n
  <2>5. QED
    BY <2>1, <2>4 DEF tail
<1>9. QED
  BY <1>7, <1>8 DEF SplitVolume, ref, cut, cuts

-----------------------------------------------------------------------------
(* The volumes.                                                            *)

\* The dev.yml of a named instance, and what it is named after.
LEMMA ProjectOf ==
  ASSUME LoadInv, NEW c \in Cmds, Named(c)
  PROVE  LET k == cmd[c]
             doc == Doc(c)
             branch == world.branch[k.dir]
         IN  /\ world \in Worlds /\ k.dir \in ProjectDirs(world) /\ k.dir \in Texts
             /\ Real(k.dir) = k.dir /\ doc = Docs[world.docs[k.dir]]
             /\ IsDoc(doc) /\ Problems(doc) = {}
             /\ branch \in Texts /\ Scope(doc) \in {"path", "branch", "name"}
             /\ k.branch = IF Scope(doc) = "branch" THEN branch ELSE <<>>
             /\ k.instance = InstanceNameFor(doc.project, Scope(doc), k.dir, k.branch)
<1> DEFINE k == cmd[c]
           doc == DocIn(world, k)
<1>1. /\ world \in Worlds /\ Searched(world, k) /\ Problems(DocIn(world, k)) = {}
      /\ FoundIn(world, k.dir) = "regular" /\ NamedAfter(world, k)
  BY StateOf DEF CommandInv, Going, Named, AtPc, LetThrough
<1>2. k.dir \in DOMAIN world.tree
  <2>1. /\ RealIn(world, k.start) \in DOMAIN world.tree
        /\ Len(k.dir) \in 0 .. Len(RealIn(world, k.start))
        /\ k.dir = SubSeq(RealIn(world, k.start), 1, Len(k.dir))
    BY <1>1 DEF Searched, Prefix
  <2> HIDE DEF k
  <2>2. QED
    BY <1>1, <2>1, PrefixesAreReal
<1>3. RealIn(world, k.dir) = k.dir /\ Real(k.dir) = k.dir
  BY <1>1, <1>2, TreeIsReal, RealIsRealIn
<1>4. /\ world.tree[k.dir] = "regular" /\ world.docs[k.dir] \in DOMAIN Docs
      /\ world.branch[k.dir] \in Texts /\ k.dir \in Texts
  <2>1. world.tree[k.dir] = "regular"
    BY <1>1, <1>3 DEF FoundIn
  <2> HIDE DEF k
  <2>2. QED
    BY <1>1, <1>2, <2>1, WorldsAssumption
<1>5. k.dir \in ProjectDirs(world)
  BY <1>2, <1>4 DEF ProjectDirs
<1>6. Doc(c) = doc /\ doc = Docs[world.docs[k.dir]]
  BY <1>3, RealIsRealIn DEF Doc, DocIn
<1>7. IsDoc(doc)
  BY <1>4, <1>6, DocsAssumption
<1>8. Scope(doc) \in {"path", "branch", "name"}
  BY <1>7 DEF Scope, IsDoc
<1>9. /\ k.branch = IF Scope(doc) = "branch" THEN world.branch[k.dir] ELSE <<>>
      /\ k.instance = InstanceNameFor(doc.project, Scope(doc), k.dir, k.branch)
  BY <1>1, <1>3 DEF NamedAfter
<1> HIDE DEF doc, k
<1>10. QED
  BY <1>1, <1>3, <1>4, <1>5, <1>6, <1>7, <1>8, <1>9 DEF k, doc

\* Hashes hold nothing of what is written.
LEMMA HashIsNew ==
  ASSUME NEW w \in Worlds, NEW text \in Hashed(w)
  PROVE  /\ HashIsClear(text)
         /\ ToString(text) \notin Separators /\ Lower(ToString(text)) = ToString(text)
         /\ \A piece \in Written(w) : ToString(text) \notin {piece, Lower(piece)}
         /\ \A other \in Hashed(w) : ToString(text) = ToString(other) => text = other
<1>1. /\ ToString(text) \notin Separators /\ Lower(ToString(text)) = ToString(text)
      /\ \A piece \in Written(w) : ToString(text) \notin {piece, Lower(piece)}
      /\ \A other \in Hashed(w) : ToString(text) = ToString(other) => text = other
  BY HashAssumption
<1>2. "," \in Separators
  BY DEF Separators
<1>3. QED
  BY <1>1, <1>2 DEF HashIsClear

\* What is hashed at a project is among what is hashed.
LEMMA HashedThere ==
  ASSUME NEW w, NEW dir \in ProjectDirs(w)
  PROVE  {Docs[w.docs[dir]].project, dir, ShortHash(dir), w.branch[dir]} \subseteq Hashed(w)
BY DEF Hashed

\* The name of a named instance holds no comma.
LEMMA InstanceIsClear ==
  ASSUME LoadInv, NEW c \in Cmds, Named(c)
  PROVE  Clear(cmd[c].instance)
<1> DEFINE k == cmd[c]
           doc == Doc(c)
<1>1. /\ world \in Worlds /\ k.dir \in ProjectDirs(world)
      /\ doc = Docs[world.docs[k.dir]] /\ IsDoc(doc)
      /\ world.branch[k.dir] \in Texts /\ Scope(doc) \in {"path", "branch", "name"}
      /\ k.branch = IF Scope(doc) = "branch" THEN world.branch[k.dir] ELSE <<>>
      /\ k.instance = InstanceNameFor(doc.project, Scope(doc), k.dir, k.branch)
  BY ProjectOf
<1> HIDE DEF k, doc
<1>5. /\ HashIsClear(k.dir) /\ HashIsClear(world.branch[k.dir])
      /\ HashIsClear(ShortHash(k.dir)) /\ HashIsClear(doc.project)
  BY <1>1, HashedThere, HashIsNew
<1>7. doc.project \in Seq(STRING) /\ world.branch[k.dir] \in Seq(STRING)
  BY <1>1 DEF IsDoc, Texts
<1>8. /\ k.branch = IF Scope(doc) = "branch" THEN world.branch[k.dir] ELSE <<>>
      /\ k.instance = InstanceNameFor(doc.project, Scope(doc), k.dir, k.branch)
  BY <1>1
<1>9. Scope(doc) \in {"path", "branch", "name"}
  BY <1>1
<1> DEFINE project == doc.project
           branch == world.branch[k.dir]
           dir == k.dir
<1>10. CASE Scope(doc) = "path"
  <2>1. k.instance = Suffixed(project, ShortHash(dir))
    BY <1>8, <1>10 DEF InstanceNameFor
  <2> DEFINE x == ToString(dir)
             P == STRING \cup {x, "0"}
             suffix == ShortHash(dir)
  <2>2. suffix \in Seq({x, "0"})
    BY HashIsText
  <2> HIDE DEF x, project, suffix
  <2>3. project \in Seq(P) /\ suffix \in Seq(P)
    <3>1. \A i \in 1 .. Len(project) : project[i] \in P
      BY <1>7, LengthIs DEF project
    <3>2. \A i \in 1 .. Len(suffix) : suffix[i] \in P
      BY <2>2, LengthIs
    <3> HIDE DEF P
    <3>3. project \in Seq(STRING)
      BY <1>7 DEF project
    <3>4. QED
      BY <2>2, <3>1, <3>2, <3>3, IsOf
  <2> HIDE DEF P
  <2>4. Clear(Suffixed(project, suffix))
    BY <1>5, <2>3, ClearNames DEF project, suffix
  <2>5. QED
    BY <2>1, <2>4 DEF suffix, k
<1>11. CASE Scope(doc) = "branch"
  <2>1. k.instance = Suffixed(project, branch)
    BY <1>8, <1>11 DEF InstanceNameFor
  <2>2. project \in Seq(STRING) /\ branch \in Seq(STRING)
    BY <1>7
  <2>3. HashIsClear(project) /\ HashIsClear(branch)
    BY <1>5
  <2> HIDE DEF project, branch
  <2>4. QED
    BY <2>1, <2>2, <2>3, ClearNames DEF k
<1>12. CASE Scope(doc) = "name"
  <2>1. k.instance = InstanceName(project)
    BY <1>8, <1>12 DEF InstanceNameFor
  <2>2. project \in Seq(STRING) /\ HashIsClear(project)
    BY <1>5, <1>7
  <2> HIDE DEF project
  <2>3. QED
    BY <2>1, <2>2, ClearNames DEF k
<1>13. QED
  BY <1>9, <1>10, <1>11, <1>12 DEF k

\* The pieces a volume's entry is of.
LEMMA VolumeIsClear ==
  ASSUME NEW doc, IsDoc(doc), Problems(doc) = {}, PoolsAreNames(doc),
         NEW instance, Clear(instance), NEW key \in DOMAIN doc.volumes
  PROVE  LET pool == Pool(doc.volumes[key])
             name == VolumeName(instance, key)
         IN  Clear(pool) /\ Clear(name) /\ ~Holds(pool, "/")
<1>1. VolumeProblems(doc) = {}
  BY NoProblem, NoSemanticProblem
<1>2. key \in Texts /\ ~Holds(key, ",")
  BY <1>1, VolumeFacts DEF IsDoc, AreTexts
<1>3. Clear(key)
  BY <1>2, TextIsClear
<1>4. Clear(VolumeName(instance, key))
  <2>1. Clear(<<"-">>)
    BY ClearPiece
  <2>2. Clear(instance \o <<"-">>)
    BY <2>1, ClearJoins
  <2>3. Clear((instance \o <<"-">>) \o key)
    BY <1>3, <2>2, ClearJoins
  <2>4. QED
    BY <2>3 DEF VolumeName
<1> DEFINE pool == Pool(doc.volumes[key])
<1>5. ~Holds(pool, ",") /\ ~Holds(pool, "/")
  BY DEF PoolsAreNames
<1>6. Clear(pool)
  <2>1. CASE doc.volumes[key].pool = <<>>
    <3>1. pool = <<"default">>
      BY <2>1 DEF Pool, Or
    <3>2. Clear(<<"default">>)
      BY ClearPiece
    <3>3. QED
      BY <3>1, <3>2
  <2>2. CASE doc.volumes[key].pool # <<>>
    <3>1. pool = doc.volumes[key].pool
      BY <2>2 DEF Pool, Or
    <3>2. pool \in Texts
      BY <3>1 DEF IsDoc
    <3> HIDE DEF pool
    <3>3. QED
      BY <1>5, <3>2, TextIsClear
  <2>3. QED
    BY <2>1, <2>2
<1>7. QED
  BY <1>4, <1>5, <1>6

\* An entry of the record, which is never empty.
LEMMA VolumeRefIsClear ==
  ASSUME NEW pool, NEW name, Clear(pool), Clear(name), ~Holds(pool, "/")
  PROVE  /\ Clear(VolumeRef(pool, name)) /\ VolumeRef(pool, name) # <<>>
         /\ SplitVolume(VolumeRef(pool, name)) = <<pool, name>>
<1>1. PICK S : pool \in Seq(S) /\ "," \notin S
  BY DEF Clear
<1>2. PICK T : name \in Seq(T) /\ "," \notin T
  BY DEF Clear
<1> DEFINE P == {"/"} \cup S \cup T
<1>3. pool \in Seq(P) /\ name \in Seq(P) /\ "/" \in P
  <2>1. \A i \in 1 .. Len(pool) : pool[i] \in P
    BY <1>1, LengthIs
  <2>2. \A i \in 1 .. Len(name) : name[i] \in P
    BY <1>2, LengthIs
  <2>3. "/" \in P
    OBVIOUS
  <2> HIDE DEF P
  <2>4. QED
    BY <1>1, <1>2, <2>1, <2>2, <2>3, IsOf
<1> HIDE DEF P
<1>4. SplitVolume(VolumeRef(pool, name)) = <<pool, name>>
  BY <1>3, CutAtThePool
<1> DEFINE ref == VolumeRef(pool, name)
<1>5. Clear(ref)
  <2>1. Clear(<<"/">>)
    BY ClearPiece
  <2>2. Clear(pool \o <<"/">>)
    BY <2>1, ClearJoins
  <2>3. Clear((pool \o <<"/">>) \o name)
    BY <2>2, ClearJoins
  <2>4. QED
    BY <2>3 DEF VolumeRef
<1>6. ref # <<>>
  <2>1. ref = pool \o <<"/">> \o name
    BY DEF VolumeRef
  <2> HIDE DEF ref
  <2>2. Len(ref) = Len(pool) + 1 + Len(name) /\ Len(pool) \in Nat /\ Len(name) \in Nat
    BY <1>3, <2>1, PiecesOfThree
  <2>3. Len(ref) # 0
    BY <2>2
  <2>4. QED
    BY <2>3, EmptySeq
<1>7. QED
  BY <1>4, <1>5, <1>6

\* The record of the volumes.
LEMMA VolumesComeBack ==
  ASSUME NEW doc, IsDoc(doc), Problems(doc) = {}, PoolsAreNames(doc),
         NEW instance, Clear(instance)
  PROVE  VolumesReadBack(doc, instance)
<1> DEFINE keys == DOMAIN doc.volumes
           ref(key) == VolumeRef(Pool(doc.volumes[key]), VolumeName(instance, key))
<1>1. \A key \in keys : Clear(ref(key)) /\ ref(key) # <<>>
  BY VolumeIsClear, VolumeRefIsClear
<1>2. \A key \in keys :
        LET pool == Pool(doc.volumes[key])
            name == VolumeName(instance, key)
        IN  SplitVolume(VolumeRef(pool, name)) = <<pool, name>>
  BY VolumeIsClear, VolumeRefIsClear
<1> DEFINE names == DeclaredVolumes(doc, instance)
<1>3. names = {ref(key) : key \in keys}
  BY DEF DeclaredVolumes
<1>4. IsFiniteSet(keys)
  BY DEF IsDoc, AreTexts
<1>5. IsFiniteSet(names)
  <2> DEFINE f == [key \in keys |-> ref(key)]
  <2>1. names = {f[key] : key \in keys} /\ f \in [keys -> names]
    BY <1>3
  <2> HIDE DEF f, keys, names, ref
  <2>2. QED
    BY <1>4, <2>1, ImageIsFinite
<1> HIDE DEF ref, names, keys
<1>6. (\A n \in names : Clear(n)) /\ <<>> \notin names
  BY <1>1, <1>3
<1>7. names # {<<>>}
  BY <1>6
<1>8. ComesBack(names)
  BY <1>5, <1>6, <1>7, ClearComesBack
<1>9. QED
  BY <1>2, <1>8 DEF VolumesReadBack, names, keys

\* The names idev writes into its records, joined by commas, are those it reads back
\* (plan.go, volumes.go, app.go splitList), for any documents and worlds.
THEOREM RecordsAreReadBack == Spec => []ReadsBack
<1>1. LoadInv => ReadsBack
  <2> SUFFICES ASSUME LoadInv, NEW c \in Cmds, Accepted(c)
               PROVE  /\ RecordsReadBack(Doc(c))
                      /\ Named(c) /\ PoolsAreNames(Doc(c)) =>
                           VolumesReadBack(Doc(c), cmd[c].instance)
    BY DEF ReadsBack
  <2> DEFINE doc == Doc(c)
  <2>1. IsDoc(doc) /\ Problems(doc) = {}
    BY AcceptedDoc
  <2> HIDE DEF doc
  <2>2. RecordsReadBack(doc)
    <3>1. SchemaProblems(doc) = {} /\ InstanceProblems(doc) = {}
      BY <2>1, NoProblem, NoSemanticProblem
    <3>2. \A s \in Range(doc.provision) : StepProblems(s, TRUE) = {}
      BY <2>1, NoProblem, NoSemanticProblem
    <3>3. \A s \in Range(doc.provision) : s.kinds = {"ansible"} => ComesBack(s.tags)
      BY <2>1, <3>2, TagsComeBack
    <3>4. QED
      BY <2>1, <3>1, <3>3, KeysComeBack, DevicesComeBack DEF RecordsReadBack
  <2>3. Named(c) /\ PoolsAreNames(doc) => VolumesReadBack(doc, cmd[c].instance)
    BY <2>1, InstanceIsClear, VolumesComeBack
  <2>4. QED
    BY <2>2, <2>3 DEF doc
<1>2. QED
  BY <1>1, LoadingInv, PTL

-----------------------------------------------------------------------------
(* Names with a suffix.                                                    *)

\* normalize leaves something of what begins with a letter or a digit.
LEMMA NormalStart ==
  ASSUME NEW P, NEW text \in Seq(P), text # <<>>, text[1] \notin Separators
  PROVE  Normalize(text) # <<>>
<1>1. PICK walk : IsNormalizeWalk(walk, P, text)
  BY NormalizeWalks, Zenon
<1> DEFINE n == Len(text)
           Q == NamePieces(P)
           first == Lower(text[1])
           Good == {i \in 0 .. n : i > 0 => walk[i] # <<>> /\ walk[i][1] = first}
<1>2. n \in Nat /\ n > 0
  OBVIOUS
<1>3. \A i \in 1 .. n : text[i] \in P
  OBVIOUS
<1> HIDE DEF n, Q
<1>4. /\ walk \in [0 .. n -> Seq(Q)] /\ walk[0] = <<>> /\ Normalize(text) = TrimRight(walk[n])
      /\ \A i \in 1 .. n : walk[i] = NormalizeStep(walk[i - 1], text[i])
  BY <1>1 DEF IsNormalizeWalk, n, Q
<1>5. 0 \in Good
  BY <1>2
<1>6. \A c \in P \ Separators : Lower(c) \in Q
  BY DEF NamePieces, Q
<1>7. "-" \in Q
  BY DEF NamePieces, Q
<1>8. ASSUME NEW i \in 1 .. n, i - 1 \in Good
      PROVE  i \in Good
  <2> DEFINE s == walk[i - 1]
             t == walk[i]
  <2>0. i \in 0 .. n /\ i - 1 \in 0 .. n
    BY <1>2
  <2>1. s \in Seq(Q) /\ t = NormalizeStep(s, text[i])
    BY <1>4, <2>0
  <2> HIDE DEF s, t, first
  <2>2. CASE i = 1
    <3>1. s = <<>>
      BY <1>4, <2>2 DEF s
    <3>2. t = Append(<<>>, first)
      BY <2>1, <2>2, <3>1 DEF NormalizeStep, first
    <3>3. t # <<>> /\ t[1] = first
      BY <3>2
    <3>4. QED
      BY <2>0, <3>3 DEF t
  <2>3. CASE i # 1
    <3>1. s # <<>> /\ s[1] = first
      BY <1>8, <2>0, <2>3 DEF s
    <3>2. t = s \/ \E x \in Q : t = Append(s, x)
      BY <1>3, <1>6, <1>7, <2>1 DEF NormalizeStep
    <3>3. ASSUME NEW x \in Q, t = Append(s, x)
          PROVE  t # <<>> /\ t[1] = first
      <4>1. Len(s) \in Nat /\ Len(s) > 0
        BY <2>1, <3>1
      <4>2. /\ Append(s, x) # <<>>
            /\ \A j \in 1 .. Len(s) : Append(s, x)[j] = s[j]
        BY <2>1, AppendProperties
      <4> DEFINE m == Len(s)
      <4> HIDE DEF m
      <4>3. m \in Nat /\ m > 0 /\ \A j \in 1 .. m : Append(s, x)[j] = s[j]
        BY <4>1, <4>2 DEF m
      <4>4. Append(s, x)[1] = s[1]
        BY <4>3
      <4>5. QED
        BY <3>1, <3>3, <4>2, <4>4
    <3>4. QED
      BY <2>0, <3>1, <3>2, <3>3 DEF t
  <2>4. QED
    BY <2>2, <2>3
<1> HIDE DEF Good
<1>9. \A i \in 0 .. n : i \in Good
  BY <1>2, <1>5, <1>8, UpTo, Zenon
<1> DEFINE s == walk[n]
<1>10. s \in Seq(Q) /\ s # <<>> /\ s[1] = first
  <2>1. n \in 0 .. n
    BY <1>2
  <2>2. n \in Good
    BY <1>9, <2>1
  <2>3. QED
    BY <1>2, <1>4, <2>1, <2>2 DEF Good
<1> HIDE DEF s
<1>11. first # "-"
  <2>1. text[1] # "-"
    BY DEF Separators
  <2>2. QED
    BY <2>1 DEF Lower, first
<1>12. SUFFICES ASSUME TrimRight(s) = <<>>
                PROVE  FALSE
  BY <1>4 DEF s
<1>13. \A j \in 1 .. Len(s) : s[j] = "-"
  BY <1>10, <1>12, TrimKeeps
<1>14. 1 \in 1 .. Len(s)
  <2>1. Len(s) \in Nat /\ Len(s) > 0
    BY <1>10
  <2> DEFINE m == Len(s)
  <2>2. m \in Nat /\ m > 0
    BY <2>1
  <2> HIDE DEF m
  <2>3. 1 \in 1 .. m
    BY <2>2
  <2>4. QED
    BY <2>3 DEF m
<1>15. QED
  BY <1>10, <1>11, <1>13, <1>14

\* What of a suffix is put into a name.
TailOf(suffix) ==
  IF Len(Normalize(suffix)) \in 1 .. MaxSuffix THEN Normalize(suffix) ELSE ShortHash(suffix)

\* What of a project is left beside it.
HeadOf(project, tail) ==
  TrimRight(Truncate(Slug(project), MaxInstanceName - Len(InstanceNamePrefix) - 1 - Len(tail)))

\* The prefix.
LEMMA PrefixIs ==
  /\ InstanceNamePrefix \in Seq({"d", "e", "v", "-"}) /\ Len(InstanceNamePrefix) = 4
  /\ InstanceNamePrefix # <<>> /\ InstanceNamePrefix[1] = "d"
BY DEF InstanceNamePrefix

\* ... is of whatever pieces there are.
LEMMA PrefixIsOf ==
  ASSUME NEW P, Range(InstanceNamePrefix) \subseteq P
  PROVE  InstanceNamePrefix \in Seq(P)
<1> DEFINE prefix == InstanceNamePrefix
           S == {"d", "e", "v", "-"}
<1>1. prefix \in Seq(S) /\ Len(prefix) = 4
  BY PrefixIs
<1> HIDE DEF S, prefix
<1>2. \A i \in 1 .. Len(prefix) : prefix[i] \in Range(prefix)
  BY <1>1, LengthIs DEF Range
<1>3. \A i \in 1 .. Len(prefix) : prefix[i] \in P
  BY <1>2 DEF prefix
<1>4. QED
  BY <1>1, <1>3, IsOf DEF prefix

\* A hash, piece by piece.
LEMMA HashIs ==
  ASSUME NEW text
  PROVE  /\ ShortHash(text) \in Seq({ToString(text), "0"}) /\ Len(ShortHash(text)) = 8
         /\ ShortHash(text)[1] = ToString(text) /\ Last(ShortHash(text)) = "0"
         /\ \A i \in 2 .. 8 : ShortHash(text)[i] = "0"
<1> DEFINE x == ToString(text)
           h == ShortHash(text)
<1>1. h = [i \in 1 .. 8 |-> IF i = 1 THEN x ELSE "0"]
  BY DEF ShortHash
<1>2. h \in Seq({x, "0"})
  BY HashIsText
<1> HIDE DEF x, h
<1>3. Len(h) = 8
  BY <1>1, <1>2, LenProperties
<1>4. h[1] = x /\ \A i \in 2 .. 8 : h[i] = "0"
  BY <1>1
<1>5. QED
  BY <1>2, <1>3, <1>4 DEF x, h, Last

\* It has a length and an end that fit into one.
LEMMA TailIsShort ==
  ASSUME NEW P, NEW suffix \in Seq(P)
  PROVE  LET tail == TailOf(suffix)
         IN  /\ tail \in Seq(NamePieces(P) \cup {ToString(suffix), "0"})
             /\ Len(tail) \in 1 .. 32 /\ Last(tail) # "-"
<1> DEFINE t == Normalize(suffix)
           h == ShortHash(suffix)
           Q == NamePieces(P)
           x == ToString(suffix)
<1>1. t \in Seq(Q) /\ (t = <<>> \/ Last(t) # "-")
  BY NormalizeIsOfNamePieces
<1>2. h \in Seq({x, "0"}) /\ Len(h) = 8 /\ Last(h) = "0"
  BY HashIs
<1> DEFINE U == Q \cup {x, "0"}
<1>3. t \in Seq(U) /\ h \in Seq(U)
  <2>1. (\A i \in 1 .. Len(t) : t[i] \in U) /\ \A i \in 1 .. Len(h) : h[i] \in U
    BY <1>1, <1>2, LengthIs
  <2> HIDE DEF U, t, h, Q, x
  <2>2. QED
    BY <1>1, <1>2, <2>1, IsOf
<1>4. TailOf(suffix) = IF Len(t) \in 1 .. 32 THEN t ELSE h
  BY DEF TailOf, MaxSuffix
<1> HIDE DEF U, t, h, Q, x
<1>5. Len(t) \in 1 .. 32 => t # <<>>
  <2>1. Len(<<>>) = 0 /\ 0 \notin 1 .. 32
    OBVIOUS
  <2>2. QED
    BY <2>1
<1>6. QED
  BY <1>1, <1>2, <1>3, <1>4, <1>5 DEF U, Q, x

\* A text behind another, piece by piece.
LEMMA BehindAnother ==
  ASSUME NEW S, NEW s \in Seq(S), NEW t \in Seq(S)
  PROVE  /\ s \o t \in Seq(S) /\ Len(s) \in Nat /\ Len(t) \in Nat
         /\ Len(s \o t) = Len(s) + Len(t)
         /\ \A i \in 1 .. Len(s) : (s \o t)[i] = s[i]
         /\ \A j \in 1 .. Len(t) : (s \o t)[Len(s) + j] = t[j]
<1>1. s \o t \in Seq(S) /\ Len(s) \in Nat /\ Len(t) \in Nat
  OBVIOUS
<1>2. Len(s \o t) = Len(s) + Len(t)
  OBVIOUS
<1>3. \A i \in 1 .. Len(s) : (s \o t)[i] = s[i]
  OBVIOUS
<1>4. \A j \in 1 .. Len(t) : (s \o t)[Len(s) + j] = t[j]
  OBVIOUS
<1>5. QED
  BY <1>1, <1>2, <1>3, <1>4

\* A name with a suffix, of these.
LEMMA SuffixedIs ==
  ASSUME NEW P, NEW suffix \in Seq(P), NEW project
  PROVE  Suffixed(project, suffix)
           = InstanceNamePrefix \o HeadOf(project, TailOf(suffix)) \o <<"-">> \o TailOf(suffix)
<1> DEFINE t == Normalize(suffix)
           tail == IF Len(t) > MaxSuffix THEN ShortHash(suffix) ELSE Slug(suffix)
<1>1. t \in Seq(NamePieces(P))
  BY NormalizeIsOfNamePieces
<1>2. Len(t) \in Nat /\ (Len(t) = 0 <=> t = <<>>)
  <2> DEFINE Q == NamePieces(P)
  <2>1. t \in Seq(Q)
    BY <1>1
  <2> HIDE DEF t, Q
  <2>2. Len(t) \in Nat
    BY <2>1, LengthIs
  <2>3. QED
    BY <2>1, <2>2, EmptySeq
<1>3. Slug(suffix) = IF t = <<>> THEN ShortHash(suffix) ELSE t
  BY DEF Slug
<1>4. tail = TailOf(suffix)
  <2> DEFINE m == Len(t)
             h == ShortHash(suffix)
  <2>1. m \in Nat /\ (m = 0 <=> t = <<>>)
    BY <1>2
  <2>2. TailOf(suffix) = IF m \in 1 .. 32 THEN t ELSE h
    BY DEF TailOf, MaxSuffix
  <2>3. tail = IF m > 32 THEN h ELSE IF t = <<>> THEN h ELSE t
    BY <1>3 DEF MaxSuffix
  <2> HIDE DEF m, t, h, tail
  <2>4. QED
    BY <2>1, <2>2, <2>3
<1>5. Suffixed(project, suffix)
        = InstanceNamePrefix
          \o TrimRight(Truncate(Slug(project),
               MaxInstanceName - Len(InstanceNamePrefix) - 1 - Len(tail)))
          \o <<"-">> \o tail
  BY DEF Suffixed
<1> HIDE DEF tail
<1>6. QED
  BY <1>4, <1>5 DEF HeadOf

\* A name out of these is not too long and does not end in a hyphen.
LEMMA SuffixedFits ==
  ASSUME NEW P, NEW slug \in Seq(P), NEW tail \in Seq(P), "-" \in P,
         Range(InstanceNamePrefix) \subseteq P, Len(tail) \in 1 .. 32, Last(tail) # "-",
         NEW project, Slug(project) = slug
  PROVE  NameFits(InstanceNamePrefix \o HeadOf(project, tail) \o <<"-">> \o tail)
<1> DEFINE n == Len(tail)
           room == MaxInstanceName - Len(InstanceNamePrefix) - 1 - n
           head == HeadOf(project, tail)
           prefix == InstanceNamePrefix
           start == prefix \o head
           name == start \o <<"-">> \o tail
<1>1. room = 58 - n /\ n \in 1 .. 32
  <2>1. MaxInstanceName = 63 /\ Len(InstanceNamePrefix) = 4
    BY PrefixIs DEF MaxInstanceName
  <2>2. QED
    BY <2>1
<1>2. head = TrimRight(Truncate(slug, room))
  BY DEF HeadOf
<1> HIDE DEF room, head, n
<1>3. room \in Int /\ room >= 0
  BY <1>1
<1>4. Truncate(slug, room) \in Seq(P) /\ Len(Truncate(slug, room)) <= room
  BY <1>3, TruncateKeeps
<1>5. head \in Seq(P) /\ Len(head) \in Nat /\ Len(head) <= room
  <2> DEFINE t == Truncate(slug, room)
  <2>1. t \in Seq(P) /\ Len(t) <= room /\ head = TrimRight(t)
    BY <1>2, <1>4
  <2> HIDE DEF t
  <2>2. head \in Seq(P) /\ Len(head) <= Len(t) /\ Len(head) \in Nat
    BY <2>1, TrimKeeps
  <2>3. Len(t) \in Nat
    BY <2>1, LengthIs
  <2>4. QED
    BY <1>3, <2>1, <2>2, <2>3
<1>6. prefix \in Seq(P) /\ Len(prefix) = 4
  BY PrefixIs, PrefixIsOf
<1> HIDE DEF prefix
<1>7. start \in Seq(P) /\ Len(start) = 4 + Len(head)
  <2>1. head \in Seq(P) /\ prefix \in Seq(P)
    BY <1>5, <1>6
  <2>2. start \in Seq(P) /\ Len(start) = Len(prefix) + Len(head)
    BY <2>1, BehindAnother, Zenon
  <2>3. QED
    BY <1>6, <2>2
<1> HIDE DEF start
<1>8. /\ name \in Seq(P) /\ Len(name) = Len(start) + 1 + Len(tail)
      /\ \A j \in 1 .. Len(tail) : name[Len(start) + 1 + j] = tail[j]
  <2> HIDE DEF name
  <2>1. name = start \o <<"-">> \o tail
    BY DEF name
  <2>2. QED
    <3>1. start \in Seq(P) /\ tail \in Seq(P) /\ "-" \in P
      BY <1>7
    <3>2. QED
      BY <2>1, <3>1, PiecesOfThree
<1> HIDE DEF name
<1>9. Len(name) <= 63
  BY <1>1, <1>5, <1>7, <1>8 DEF n
<1>10. Last(name) = Last(tail)
  <2> DEFINE k == Len(start)
             l == Len(name)
  <2>1. k \in Nat /\ n \in 1 .. n /\ l = k + 1 + n
    <3>1. n \in 1 .. 32
      BY <1>1
    <3>2. Len(head) \in Nat /\ k = 4 + Len(head)
      BY <1>5, <1>7
    <3>3. l = k + 1 + n
      BY <1>8 DEF n
    <3> HIDE DEF k, l
    <3>4. k \in Nat
      BY <3>2
    <3>5. QED
      BY <3>1, <3>3, <3>4
  <2>2. name[k + 1 + n] = tail[n]
    BY <1>8, <2>1 DEF n
  <2> HIDE DEF k, l
  <2>3. name[l] = tail[n]
    BY <2>1, <2>2
  <2>4. QED
    BY <2>3 DEF Last, l, n
<1>11. QED
  BY <1>9, <1>10 DEF NameFits, MaxInstanceName, name, start, prefix, head

\* The same of a name without a suffix.
LEMMA PlainNameFits ==
  ASSUME NEW P, NEW project, Slug(project) \in Seq(P), Range(InstanceNamePrefix) \subseteq P
  PROVE  NameFits(InstanceName(project))
<1> DEFINE slug == Slug(project)
           prefix == InstanceNamePrefix
           whole == prefix \o slug
           cut == Truncate(whole, 63)
           name == TrimRight(cut)
<1>1. prefix \in Seq(P) /\ Len(prefix) = 4 /\ prefix[1] = "d"
  BY PrefixIs, PrefixIsOf
<1>2. InstanceName(project) = name
  BY DEF InstanceName, MaxInstanceName
<1> HIDE DEF prefix, slug
<1>3. slug \in Seq(P)
  BY DEF slug
<1>4. /\ whole \in Seq(P) /\ Len(whole) = Len(prefix) + Len(slug) /\ Len(slug) \in Nat
      /\ \A i \in 1 .. Len(prefix) : whole[i] = prefix[i]
  BY <1>1, <1>3, BehindAnother
<1>5. whole # <<>> /\ whole[1] = "d"
  <2> HIDE DEF whole
  <2>1. whole[1] = "d"
    BY <1>1, <1>4
  <2>2. Len(whole) # 0
    BY <1>1, <1>4
  <2>3. QED
    BY <1>4, <2>1, <2>2, EmptySeq
<1> HIDE DEF whole
<1>6. cut \in Seq(P) /\ Len(cut) <= 63 /\ cut # <<>> /\ cut[1] = "d"
  <2>1. 63 \in Int /\ 63 >= 0 /\ 63 > 0
    OBVIOUS
  <2>2. QED
    BY <1>4, <1>5, <2>1, TruncateKeeps
<1> HIDE DEF cut
<1>7. /\ Len(name) <= Len(cut) /\ Len(name) \in Nat
      /\ name = <<>> \/ Last(name) # "-"
      /\ name = <<>> => \A i \in 1 .. Len(cut) : cut[i] = "-"
  BY <1>6, TrimKeeps
<1> HIDE DEF name
<1>8. Len(cut) \in Nat /\ Len(cut) > 0
  BY <1>6, EmptySeq, LengthIs
<1>9. name # <<>>
  <2>1. 1 \in 1 .. Len(cut)
    BY <1>8
  <2>2. QED
    BY <1>6, <1>7, <2>1
<1>10. Len(name) <= 63
  BY <1>6, <1>7, <1>8
<1>11. QED
  BY <1>2, <1>7, <1>9, <1>10 DEF NameFits, MaxInstanceName

-----------------------------------------------------------------------------
(* What a name tells apart.                                                *)

\* A project begins with a letter or a digit, so it needs no hash.
LEMMA SlugOfProject ==
  ASSUME NEW P, NEW project \in Seq(P), Plain(project)
  PROVE  LET slug == Slug(project)
         IN  slug \in Seq(NamePieces(P)) /\ slug # <<>> /\ Last(slug) # "-"
<1>1. project # <<>> /\ project[1] \notin Separators
  BY DEF Plain
<1>2. Normalize(project) # <<>>
  BY <1>1, NormalStart
<1>3. Slug(project) = Normalize(project)
  BY <1>2 DEF Slug
<1>4. QED
  BY <1>2, <1>3, NormalizeIsOfNamePieces

\* The tail that identifies a checkout is its hash.
LEMMA HashIsItsTail ==
  ASSUME NEW text, ToString(text) \notin Separators, Lower(ToString(text)) = ToString(text)
  PROVE  TailOf(ShortHash(text)) = ShortHash(text)
<1> DEFINE h == ShortHash(text)
           x == ToString(text)
           P == {x, "0"}
<1>1. h \in Seq(P) /\ Len(h) = 8 /\ h[1] = x /\ \A i \in 2 .. 8 : h[i] = "0"
  BY HashIs
<1>2. "0" \notin Separators /\ Lower("0") = "0"
  BY DEF Separators, Lower
<1> HIDE DEF h, P, x
<1>3. \A i \in 1 .. Len(h) : h[i] \notin Separators /\ Lower(h[i]) = h[i]
  <2>1. \A i \in 1 .. Len(h) : i = 1 \/ i \in 2 .. 8
    BY <1>1
  <2>2. QED
    BY <1>1, <1>2, <2>1 DEF x
<1>4. h # <<>>
  <2>1. Len(<<>>) = 0
    OBVIOUS
  <2>2. QED
    BY <1>1, <2>1
<1>5. Normalize(h) = h
  BY <1>1, <1>3, <1>4, PlainIsNormal
<1>6. QED
  BY <1>1, <1>5 DEF TailOf, MaxSuffix, h

\* The first piece of a text that has one.
LEMMA FirstIsIn ==
  ASSUME NEW S, NEW text \in Seq(S), Len(text) \in 1 .. 32
  PROVE  text[1] \in S
<1>1. 1 \in 1 .. Len(text)
  <2>1. PICK n \in 1 .. 32 : Len(text) = n
    OBVIOUS
  <2> QED
    BY <2>1
<1>2. QED
  BY <1>1, LengthIs

\* What comes behind the same is the same.
LEMMA CancelLeft ==
  ASSUME NEW S, NEW s \in Seq(S), NEW t \in Seq(S), NEW u \in Seq(S), s \o t = s \o u
  PROVE  t = u
<1> DEFINE n == Len(t)
           m == Len(u)
           k == Len(s)
           text == s \o t
<1>1. /\ k \in Nat /\ n \in Nat /\ Len(text) = k + n
      /\ \A j \in 1 .. n : text[k + j] = t[j]
  BY BehindAnother
<1>2. /\ m \in Nat /\ Len(text) = k + m
      /\ \A j \in 1 .. m : text[k + j] = u[j]
  BY BehindAnother
<1> HIDE DEF n, m, k, text
<1>3. n = m /\ \A j \in 1 .. n : t[j] = u[j]
  BY <1>1, <1>2
<1>4. QED
  BY <1>3, SeqEqual DEF n, m

\* Texts one behind another, grouped in two ways.
Groups(S, s, t, u, v) ==
  /\ ((s \o t) \o u) \o v = s \o ((t \o u) \o v)
  /\ t \o u \in Seq(S) /\ (t \o u) \o v \in Seq(S)

\* Both ways are the same.
LEMMA GroupedAnyhow ==
  ASSUME NEW S, NEW s \in Seq(S), NEW t \in Seq(S), NEW u \in Seq(S), NEW v \in Seq(S)
  PROVE  Groups(S, s, t, u, v)
<1>1. (s \o t) \o u = s \o (t \o u)
  OBVIOUS
<1> DEFINE w == t \o u
<1>2. w \in Seq(S)
  BY ConcatProperties
<1> HIDE DEF w
<1>3. (s \o w) \o v = s \o (w \o v) /\ w \o v \in Seq(S)
  BY <1>2, ConcatProperties
<1>4. QED
  BY <1>1, <1>2, <1>3 DEF w, Groups

\* Branches that an instance is shared by on purpose have one tail, ...
LEMMA SameTail ==
  ASSUME NEW b, NEW e, SameName(b, e)
  PROVE  TailOf(b) = TailOf(e)
BY DEF SameName, TailOf

\* ... and nothing else does.
LEMMA TailTells ==
  ASSUME NEW P, NEW Q, NEW b \in Seq(P), NEW e \in Seq(Q), TailOf(b) = TailOf(e),
         ToString(b) \notin NamePieces(Q), ToString(e) \notin NamePieces(P),
         ToString(b) = ToString(e) => b = e
  PROVE  SameName(b, e)
<1> DEFINE s == Normalize(b)
           t == Normalize(e)
           Short(text) == Len(text) \in 1 .. MaxSuffix
<1>1. s \in Seq(NamePieces(P)) /\ t \in Seq(NamePieces(Q))
  BY NormalizeIsOfNamePieces
<1>2. ShortHash(b)[1] = ToString(b) /\ ShortHash(e)[1] = ToString(e)
  BY HashIs
<1>3. MaxSuffix = 32
  BY DEF MaxSuffix
<1>4. (Short(s) => s[1] \in NamePieces(P)) /\ (Short(t) => t[1] \in NamePieces(Q))
  BY <1>1, <1>3, FirstIsIn
<1>5. /\ TailOf(b) = IF Short(s) THEN s ELSE ShortHash(b)
      /\ TailOf(e) = IF Short(t) THEN t ELSE ShortHash(e)
  BY DEF TailOf
<1>6. SameName(b, e) <=> b = e \/ (s = t /\ Short(s))
  BY DEF SameName
<1> HIDE DEF s, t, Short
<1>7. QED
  BY <1>2, <1>4, <1>5, <1>6

\* What is before the first separator is told from what is after.
LEMMA CutApart ==
  ASSUME NEW P, NEW sep \in P, NEW a \in Seq(P), NEW b \in Seq(P),
         NEW c \in Seq(P), NEW d \in Seq(P), ~Holds(a, sep), ~Holds(c, sep),
         a \o <<sep>> \o b = c \o <<sep>> \o d
  PROVE  b = d
<1> DEFINE text == a \o <<sep>> \o b
           m == Len(a)
           n == Len(c)
<1>1. /\ text \in Seq(P) /\ Len(text) = m + 1 + Len(b)
      /\ m \in Nat /\ Len(b) \in Nat
      /\ \A i \in 1 .. m : text[i] = a[i]
      /\ text[m + 1] = sep
      /\ \A j \in 1 .. Len(b) : text[m + 1 + j] = b[j]
  BY PiecesOfThree
<1>2. /\ Len(text) = n + 1 + Len(d)
      /\ n \in Nat /\ Len(d) \in Nat
      /\ \A i \in 1 .. n : text[i] = c[i]
      /\ text[n + 1] = sep
      /\ \A j \in 1 .. Len(d) : text[n + 1 + j] = d[j]
  <2>1. text = c \o <<sep>> \o d
    OBVIOUS
  <2> HIDE DEF text
  <2>2. QED
    BY <2>1, PiecesOfThree
<1>3. (\A i \in 1 .. m : a[i] # sep) /\ \A i \in 1 .. n : c[i] # sep
  BY LengthIs DEF Holds, Range
<1> HIDE DEF text, m, n
<1>4. m = n
  <2>1. ~(m < n)
    <3>1. SUFFICES ASSUME m < n
                   PROVE  FALSE
      OBVIOUS
    <3>2. m + 1 \in 1 .. n
      BY <1>1, <1>2, <3>1
    <3>3. QED
      BY <1>1, <1>2, <1>3, <3>2
  <2>2. ~(n < m)
    <3>1. SUFFICES ASSUME n < m
                   PROVE  FALSE
      OBVIOUS
    <3>2. n + 1 \in 1 .. m
      BY <1>1, <1>2, <3>1
    <3>3. QED
      BY <1>1, <1>2, <1>3, <3>2
  <2>3. QED
    BY <1>1, <1>2, <2>1, <2>2
<1> DEFINE k == Len(b)
           l == Len(d)
<1>5. k = l
  <2>1. k \in Nat /\ l \in Nat /\ m + 1 + k = n + 1 + l
    BY <1>1, <1>2
  <2> HIDE DEF k, l
  <2>2. QED
    BY <1>1, <1>2, <1>4, <2>1
<1>6. \A j \in 1 .. k : b[j] = d[j]
  BY <1>1, <1>2, <1>4, <1>5
<1>7. QED
  BY <1>5, <1>6, SeqEqual

\* What is left of a project that is never cut where it could be taken for a
\* suffix.
LEMMA HeadIs ==
  ASSUME NEW P, NEW project, NEW tail, Len(tail) \in 1 .. 32,
         LET slug == Slug(project) IN slug \in Seq(P) /\ slug # <<>> /\ Last(slug) # "-"
  PROVE  LET slug == Slug(project)
             head == HeadOf(project, tail)
         IN  /\ head \in Seq(P)
             /\ Len(slug) <= 26 => head = slug
             /\ ~Holds(slug, "-") => ~Holds(head, "-")
<1> DEFINE n == Len(tail)
           room == MaxInstanceName - Len(InstanceNamePrefix) - 1 - n
           slug == Slug(project)
           cut == Truncate(slug, room)
           head == HeadOf(project, tail)
<1>1. room = 58 - n /\ n \in 1 .. 32
  <2>1. MaxInstanceName = 63 /\ Len(InstanceNamePrefix) = 4
    BY PrefixIs DEF MaxInstanceName
  <2>2. QED
    BY <2>1
<1>2. head = TrimRight(cut)
  BY DEF HeadOf
<1> HIDE DEF room, head, n
<1>3. room \in Int /\ room >= 26
  BY <1>1
<1>4. slug \in Seq(P) /\ slug # <<>> /\ Last(slug) # "-"
  OBVIOUS
<1> HIDE DEF slug
<1>5. head \in Seq(P)
  <2>1. cut \in Seq(P)
    BY <1>3, <1>4, TruncateKeeps
  <2> HIDE DEF cut
  <2>2. QED
    BY <1>2, <2>1, TrimKeeps
<1>6. ASSUME Len(slug) <= 26
      PROVE  head = slug
  <2>1. Len(slug) <= room
    <3>1. Len(slug) \in Nat
      BY <1>4, LengthIs
    <3>2. QED
      BY <1>3, <1>6, <3>1
  <2>2. cut = slug
    BY <1>3, <1>4, <2>1, TruncateKeeps
  <2>3. TrimRight(slug) = slug
    BY <1>4, TrimKeeps
  <2>4. QED
    BY <1>2, <2>2, <2>3
<1>7. ASSUME ~Holds(slug, "-")
      PROVE  ~Holds(head, "-")
  <2> DEFINE S == P \ {"-"}
  <2>1. \A i \in 1 .. Len(slug) : slug[i] \in S
    BY <1>4, <1>7, LengthIs DEF Holds, Range
  <2>2. "-" \notin S
    OBVIOUS
  <2> HIDE DEF S
  <2>3. slug \in Seq(S)
    BY <1>4, <2>1, IsOf
  <2>4. cut \in Seq(S)
    BY <1>3, <2>3, TruncateKeeps
  <2> HIDE DEF cut
  <2>5. head \in Seq(S)
    BY <1>2, <2>4, TrimKeeps
  <2>6. QED
    BY <2>2, <2>5, LengthIs DEF Holds, Range
<1>8. QED
  BY <1>5, <1>6, <1>7 DEF slug, head

\* Names of one project share a tail only if the suffixes do.
LEMMA TailsApart ==
  ASSUME NEW P, "-" \in P, Range(InstanceNamePrefix) \subseteq P,
         NEW t \in Seq(P), NEW u \in Seq(P), Len(t) \in 1 .. 32, Len(u) \in 1 .. 32,
         NEW project,
         LET slug == Slug(project) IN slug \in Seq(P) /\ slug # <<>> /\ Last(slug) # "-",
         ~Holds(Slug(project), "-") \/ Len(Slug(project)) <= 26,
         InstanceNamePrefix \o HeadOf(project, t) \o <<"-">> \o t
           = InstanceNamePrefix \o HeadOf(project, u) \o <<"-">> \o u
  PROVE  t = u
<1> DEFINE slug == Slug(project)
           prefix == InstanceNamePrefix
           a == HeadOf(project, t)
           c == HeadOf(project, u)
           sep == <<"-">>
<1>1. /\ a \in Seq(P) /\ (Len(slug) <= 26 => a = slug)
      /\ ~Holds(slug, "-") => ~Holds(a, "-")
  BY HeadIs
<1>2. /\ c \in Seq(P) /\ (Len(slug) <= 26 => c = slug)
      /\ ~Holds(slug, "-") => ~Holds(c, "-")
  BY HeadIs
<1>3. prefix \in Seq(P)
  BY PrefixIsOf
<1>4. sep \in Seq(P)
  BY OnePiece
<1>5. ~Holds(slug, "-") \/ Len(slug) <= 26
  OBVIOUS
<1>6. ((prefix \o a) \o sep) \o t = ((prefix \o c) \o sep) \o u
  OBVIOUS
<1> HIDE DEF slug, prefix, a, c, sep
<1>7. (a \o sep) \o t = (c \o sep) \o u
  <2>1. ASSUME NEW x \in Seq(P), NEW y \in Seq(P)
        PROVE  /\ ((prefix \o x) \o sep) \o y = prefix \o ((x \o sep) \o y)
               /\ (x \o sep) \o y \in Seq(P)
    <3>1. Groups(P, prefix, x, sep, y)
      BY <1>3, <1>4, GroupedAnyhow, Zenon
    <3>2. QED
      BY <3>1 DEF Groups
  <2> DEFINE v == (a \o sep) \o t
             w == (c \o sep) \o u
  <2>2. prefix \o v = prefix \o w /\ v \in Seq(P) /\ w \in Seq(P)
    BY <1>1, <1>2, <1>6, <2>1
  <2> HIDE DEF v, w
  <2>3. v = w
    BY <1>3, <2>2, CancelLeft, Zenon
  <2>4. QED
    BY <2>3 DEF v, w
<1>8. CASE Len(slug) <= 26
  <2> DEFINE z == slug \o sep
  <2>1. a = slug /\ c = slug
    BY <1>1, <1>2, <1>8
  <2>2. z \in Seq(P) /\ z \o t = z \o u
    <3>1. a \o sep \in Seq(P)
      BY <1>1, <1>4, ConcatProperties
    <3>2. QED
      BY <1>7, <2>1, <3>1
  <2> HIDE DEF z
  <2>3. QED
    BY <2>2, CancelLeft, Zenon
<1>9. CASE ~Holds(slug, "-")
  <2>1. ~Holds(a, "-") /\ ~Holds(c, "-") /\ a \in Seq(P) /\ c \in Seq(P)
    BY <1>1, <1>2, <1>9
  <2>2. a \o <<"-">> \o t = c \o <<"-">> \o u
    BY <1>7 DEF sep
  <2>3. QED
    BY <2>1, <2>2, CutApart
<1>10. QED
  BY <1>5, <1>8, <1>9

\* A text that bears the mark h, which is not known otherwise.
Marked(text, K, h) == text \in Seq(K \cup {h, "0"}) /\ h \in Range(text)

\* It bears only one.
LEMMA MarksAgree ==
  ASSUME NEW K, NEW g, NEW h, g \notin K, h \notin K,
         NEW text, Marked(text, K, g), Marked(text, K, h)
  PROVE  g = h
<1>1. Range(text) \subseteq K \cup {g, "0"} /\ Range(text) \subseteq K \cup {h, "0"}
  BY LengthIs DEF Marked, Range
<1>2. QED
  BY <1>1 DEF Marked

\* With known pieces before it or behind it, it bears the mark still.
LEMMA StaysMarked ==
  ASSUME NEW K, NEW h, NEW text, Marked(text, K, h), NEW more \in Seq(K)
  PROVE  Marked(more \o text, K, h) /\ Marked(text \o more, K, h)
<1> DEFINE U == K \cup {h, "0"}
<1>1. text \in Seq(U) /\ more \in Seq(U)
  <2>1. \A i \in 1 .. Len(more) : more[i] \in U
    BY LengthIs
  <2>2. text \in Seq(U)
    BY DEF Marked
  <2> HIDE DEF U
  <2>3. QED
    BY <2>1, <2>2, IsOf
<1> HIDE DEF U
<1>2. PICK i \in 1 .. Len(text) : text[i] = h
  BY <1>1, LengthIs DEF Marked, Range
<1>3. Len(text) \in Nat /\ Len(more) \in Nat
  BY <1>1, LengthIs
<1>4. /\ text \o more \in Seq(U) /\ Len(text \o more) = Len(text) + Len(more)
      /\ (text \o more)[i] = h
  <2>1. /\ text \o more \in Seq(U) /\ Len(text \o more) = Len(text) + Len(more)
        /\ \A j \in 1 .. Len(text) : (text \o more)[j] = text[j]
    BY <1>1, BehindAnother
  <2>2. QED
    BY <1>2, <2>1
<1>5. /\ more \o text \in Seq(U) /\ Len(more \o text) = Len(more) + Len(text)
      /\ (more \o text)[Len(more) + i] = h
  <2>1. /\ more \o text \in Seq(U) /\ Len(more \o text) = Len(more) + Len(text)
        /\ \A j \in 1 .. Len(text) : (more \o text)[Len(more) + j] = text[j]
    BY <1>1, BehindAnother
  <2>2. QED
    BY <1>2, <2>1
<1> DEFINE s == text \o more
           t == more \o text
<1>6. h \in Range(s)
  <2> HIDE DEF s
  <2>1. i \in 1 .. Len(s) /\ s[i] = h /\ DOMAIN s = 1 .. Len(s)
    BY <1>2, <1>3, <1>4, LengthIs DEF s
  <2>2. QED
    BY <2>1 DEF Range
<1>7. h \in Range(t)
  <2> DEFINE k == Len(more) + i
  <2> HIDE DEF t
  <2>1. k \in 1 .. Len(t) /\ t[k] = h /\ DOMAIN t = 1 .. Len(t)
    BY <1>2, <1>3, <1>5, LengthIs DEF t
  <2> HIDE DEF k
  <2>2. QED
    BY <2>1 DEF Range
<1>8. QED
  BY <1>4, <1>5, <1>6, <1>7 DEF Marked, U

-----------------------------------------------------------------------------
(* Marks.                                                                  *)

\* The pieces there are but for hashes.
Known(w) == Written(w) \cup {Lower(piece) : piece \in Written(w)} \cup Separators

\* What is written at a project is among what is written.
LEMMA WrittenThere ==
  ASSUME NEW w, NEW dir \in ProjectDirs(w), NEW doc, doc = Docs[w.docs[dir]]
  PROVE  /\ Range(doc.project) \subseteq Written(w) /\ Range(w.branch[dir]) \subseteq Written(w)
         /\ \A key \in DOMAIN doc.volumes :
              Range(key) \subseteq Written(w) /\ Range(doc.volumes[key].pool) \subseteq Written(w)
         /\ Range(InstanceNamePrefix) \subseteq Written(w) /\ "default" \in Written(w)
<1>1. PiecesOf(doc) \cup Range(w.branch[dir]) \subseteq Written(w)
  BY DEF Written
<1>2. Range(InstanceNamePrefix) \subseteq Written(w) /\ "default" \in Written(w)
  BY DEF Written
<1>3. Range(doc.project) \subseteq PiecesOf(doc)
  BY DEF PiecesOf
<1>4. \A key \in DOMAIN doc.volumes : Range(key) \cup Range(doc.volumes[key].pool) \subseteq PiecesOf(doc)
  BY DEF PiecesOf
<1>5. QED
  BY <1>1, <1>2, <1>3, <1>4

\* A text is of the pieces it has.
LEMMA TextIsOf ==
  ASSUME NEW text \in Texts, NEW K, Range(text) \subseteq K
  PROVE  text \in Seq(K)
<1>1. text \in Seq(STRING)
  BY DEF Texts
<1>2. \A i \in 1 .. Len(text) : text[i] \in Range(text)
  BY <1>1, LengthIs DEF Range
<1>3. \A i \in 1 .. Len(text) : text[i] \in K
  BY <1>2
<1>4. QED
  BY <1>1, <1>3, IsOf

\* A hash is not among them.
LEMMA MarkIsNew ==
  ASSUME NEW w \in Worlds, NEW text \in Hashed(w)
  PROVE  ToString(text) \notin Known(w)
BY HashIsNew DEF Known

\* normalize leaves known pieces.
LEMMA NamePiecesAreKnown ==
  ASSUME NEW w
  PROVE  NamePieces(Written(w)) \subseteq Known(w) /\ "-" \in Known(w) /\ "/" \in Known(w)
BY DEF NamePieces, Known, Separators

\* A project as a name has it.
LEMMA SlugIsKnown ==
  ASSUME NEW w, NEW project \in Texts, Plain(project), Range(project) \subseteq Written(w)
  PROVE  LET slug == Slug(project)
         IN  slug \in Seq(Known(w)) /\ slug # <<>> /\ Last(slug) # "-"
<1> DEFINE W == Written(w)
           Q == NamePieces(W)
           K == Known(w)
           slug == Slug(project)
<1>1. project \in Seq(W)
  BY TextIsOf
<1>2. slug \in Seq(Q) /\ slug # <<>> /\ Last(slug) # "-"
  BY <1>1, SlugOfProject
<1>3. Q \subseteq K
  BY NamePiecesAreKnown
<1> HIDE DEF W, Q, K, slug
<1>4. \A i \in 1 .. Len(slug) : slug[i] \in K
  BY <1>2, <1>3, LengthIs
<1>5. slug \in Seq(K)
  BY <1>2, <1>4, IsOf
<1>6. QED
  BY <1>2, <1>5 DEF slug, K

\* A sequence of these is one of those.
LEMMA KnownIsOf ==
  ASSUME NEW K, NEW s \in Seq(K), NEW U, K \subseteq U
  PROVE  s \in Seq(U)
<1>1. \A i \in 1 .. Len(s) : s[i] \in U
  BY LengthIs
<1>2. QED
  BY <1>1, IsOf

\* The name of an instance of its own bears the hash of its directory.
LEMMA PathName ==
  ASSUME NEW w, NEW project \in Texts, Plain(project), Range(project) \subseteq Written(w),
         Range(InstanceNamePrefix) \subseteq Written(w), NEW dir,
         ToString(dir) \notin Separators, Lower(ToString(dir)) = ToString(dir)
  PROVE  LET name == Suffixed(project, ShortHash(dir))
         IN  Marked(name, Known(w), ToString(dir)) /\ NameFits(name)
<1> DEFINE x == ToString(dir)
           h == ShortHash(dir)
           slug == Slug(project)
           K == Known(w)
           U == K \cup {x, "0"}
           prefix == InstanceNamePrefix
           head == HeadOf(project, h)
           sep == <<"-">>
           name == Suffixed(project, h)
<1>1. h \in Seq({x, "0"}) /\ Len(h) = 8 /\ h[1] = x /\ Last(h) = "0"
  BY HashIs
<1>2. TailOf(h) = h
  BY HashIsItsTail
<1>3. slug \in Seq(K) /\ slug # <<>> /\ Last(slug) # "-"
  BY SlugIsKnown
<1>4. "-" \in K /\ Range(prefix) \subseteq K
  BY NamePiecesAreKnown DEF Known
<1>5. Len(h) \in 1 .. 32 /\ Last(h) # "-"
  <2> HIDE DEF h
  <2>1. QED
    BY <1>1
<1>6. name = ((prefix \o head) \o sep) \o h
  <2>1. name = prefix \o HeadOf(project, TailOf(h)) \o sep \o TailOf(h)
    BY <1>1, SuffixedIs
  <2>2. QED
    BY <1>2, <2>1
<1>7. head \in Seq(K) /\ prefix \in Seq(K) /\ sep \in Seq(K)
  <2>1. head \in Seq(K)
    BY <1>3, <1>5, HeadIs
  <2>2. prefix \in Seq(K)
    BY <1>4, PrefixIsOf
  <2>3. sep \in Seq(K)
    <3> HIDE DEF K
    <3>1. QED
      BY <1>4, OnePiece
  <2>4. QED
    BY <2>1, <2>2, <2>3
<1>8. h \in Seq(U) /\ slug \in Seq(U) /\ "-" \in U /\ Range(prefix) \subseteq U
  <2>1. {x, "0"} \subseteq U /\ K \subseteq U
    OBVIOUS
  <2> HIDE DEF h, U, K, slug, prefix, x
  <2>2. QED
    BY <1>1, <1>3, <1>4, <2>1, KnownIsOf
<1>9. NameFits(name)
  <2>1. NameFits(prefix \o head \o <<"-">> \o h)
    BY <1>5, <1>8, SuffixedFits
  <2>2. QED
    BY <1>6, <2>1
<1>10. Marked(h, K, x)
  <2> HIDE DEF h, U, K, x
  <2>1. 1 \in 1 .. Len(h) /\ DOMAIN h = 1 .. Len(h)
    BY <1>1, LengthIs
  <2>2. x \in Range(h)
    BY <1>1, <2>1 DEF Range
  <2>3. h \in Seq(U)
    BY <1>8
  <2>4. QED
    BY <2>2, <2>3 DEF Marked, U
<1> HIDE DEF name, prefix, head, sep, h, K, x
<1> DEFINE start == (prefix \o head) \o sep
<1>11. start \in Seq(K)
  <2>1. prefix \o head \in Seq(K)
    BY <1>7, ConcatProperties
  <2>2. QED
    BY <1>7, <2>1, ConcatProperties
<1> HIDE DEF start
<1>12. Marked(start \o h, K, x)
  BY <1>10, <1>11, StaysMarked
<1>13. Marked(name, K, x)
  BY <1>6, <1>12 DEF start
<1>14. QED
  BY <1>9, <1>13 DEF name, h, K, x

\* So do those of its volumes.
LEMMA RefIsMarked ==
  ASSUME NEW K, NEW h, NEW instance, Marked(instance, K, h), "-" \in K, "/" \in K,
         NEW pool \in Seq(K), NEW key \in Seq(K)
  PROVE  Marked(VolumeRef(pool, VolumeName(instance, key)), K, h)
<1> DEFINE a == instance \o <<"-">>
           name == a \o key
           b == pool \o <<"/">>
<1>1. <<"-">> \in Seq(K) /\ <<"/">> \in Seq(K)
  BY OnePiece
<1>2. Marked(a, K, h)
  BY <1>1, StaysMarked
<1> HIDE DEF a
<1>3. Marked(name, K, h)
  BY <1>2, StaysMarked
<1>4. name = VolumeName(instance, key)
  BY DEF VolumeName, a
<1> HIDE DEF name
<1>5. b \in Seq(K)
  BY <1>1, ConcatProperties
<1> HIDE DEF b
<1>6. Marked(b \o name, K, h)
  BY <1>3, <1>5, StaysMarked
<1>7. QED
  BY <1>4, <1>6 DEF VolumeRef, b

-----------------------------------------------------------------------------
(* Instances, checkouts and branches.                                      *)

\* The name of a branch's instance.
LEMMA BranchName ==
  ASSUME NEW w, NEW project \in Texts, Plain(project), Range(project) \subseteq Written(w),
         Range(InstanceNamePrefix) \subseteq Written(w), NEW b \in Texts
  PROVE  NameFits(Suffixed(project, b))
<1> DEFINE K == Known(w)
           Q == NamePieces(STRING)
           U == K \cup Q \cup {ToString(b), "0"}
           slug == Slug(project)
           tail == TailOf(b)
<1>1. b \in Seq(STRING)
  BY DEF Texts
<1>2. tail \in Seq(Q \cup {ToString(b), "0"}) /\ Len(tail) \in 1 .. 32 /\ Last(tail) # "-"
  BY <1>1, TailIsShort
<1>3. slug \in Seq(K)
  BY SlugIsKnown
<1>4. "-" \in U /\ Range(InstanceNamePrefix) \subseteq U
  BY NamePiecesAreKnown DEF Known
<1>5. tail \in Seq(U) /\ slug \in Seq(U)
  <2> DEFINE T == Q \cup {ToString(b), "0"}
  <2>1. T \subseteq U /\ K \subseteq U
    OBVIOUS
  <2>2. tail \in Seq(T)
    BY <1>2
  <2> HIDE DEF T, U, K, tail, slug
  <2>3. QED
    BY <1>3, <2>1, <2>2, KnownIsOf
<1>6. NameFits(InstanceNamePrefix \o HeadOf(project, tail) \o <<"-">> \o tail)
  <2> HIDE DEF U, tail
  <2>1. QED
    BY <1>2, <1>4, <1>5, SuffixedFits
<1>7. Suffixed(project, b) = InstanceNamePrefix \o HeadOf(project, tail) \o <<"-">> \o tail
  BY <1>1, SuffixedIs
<1>8. QED
  BY <1>6, <1>7

\* Branches with one tail have one instance.
LEMMA SameNameSameInstance ==
  ASSUME NEW project, NEW b \in Texts, NEW e \in Texts, SameName(b, e)
  PROVE  Suffixed(project, b) = Suffixed(project, e)
<1>1. b \in Seq(STRING) /\ e \in Seq(STRING)
  BY DEF Texts
<1>2. TailOf(b) = TailOf(e)
  BY SameTail
<1>3. QED
  BY <1>1, <1>2, SuffixedIs

\* Of a project whose name is never cut, the name of the instance tells the
\* branches apart.
LEMMA InstanceTellsBranch ==
  ASSUME NEW w \in Worlds, NEW project \in Texts, Plain(project),
         Range(project) \subseteq Written(w), Range(InstanceNamePrefix) \subseteq Written(w),
         NEW b \in Texts, NEW e \in Texts, b \in Hashed(w), e \in Hashed(w),
         Range(b) \subseteq Written(w), Range(e) \subseteq Written(w),
         ~Holds(Slug(project), "-")
           \/ Len(Slug(project)) <= MaxInstanceName - Len(InstanceNamePrefix) - 1 - MaxSuffix,
         Suffixed(project, b) = Suffixed(project, e)
  PROVE  SameName(b, e)
<1> DEFINE K == Known(w)
           W == Written(w)
           U == K \cup {ToString(b), ToString(e), "0"}
           slug == Slug(project)
           t == TailOf(b)
           u == TailOf(e)
           T == NamePieces(W) \cup {ToString(b), "0"}
           V == NamePieces(W) \cup {ToString(e), "0"}
<1>1. b \in Seq(W) /\ e \in Seq(W)
  BY TextIsOf
<1>2. /\ t \in Seq(T) /\ Len(t) \in 1 .. 32
      /\ u \in Seq(V) /\ Len(u) \in 1 .. 32
  <2> HIDE DEF W
  <2>1. QED
    BY <1>1, TailIsShort
<1>3. slug \in Seq(K) /\ slug # <<>> /\ Last(slug) # "-"
  BY SlugIsKnown
<1>4. "-" \in U /\ Range(InstanceNamePrefix) \subseteq U
  BY NamePiecesAreKnown DEF Known
<1>5. t \in Seq(U) /\ u \in Seq(U) /\ slug \in Seq(U)
  <2>1. T \subseteq U /\ V \subseteq U /\ K \subseteq U
    BY NamePiecesAreKnown
  <2> HIDE DEF U, K, T, V, t, u, slug
  <2>2. QED
    BY <1>2, <1>3, <2>1, KnownIsOf
<1>6. ~Holds(slug, "-") \/ Len(slug) <= 26
  <2>1. MaxInstanceName - Len(InstanceNamePrefix) - 1 - MaxSuffix = 26
    BY PrefixIs DEF MaxInstanceName, MaxSuffix
  <2> HIDE DEF slug
  <2>2. QED
    BY <2>1 DEF slug
<1>7. InstanceNamePrefix \o HeadOf(project, t) \o <<"-">> \o t
        = InstanceNamePrefix \o HeadOf(project, u) \o <<"-">> \o u
  <2> HIDE DEF W
  <2>1. QED
    BY <1>1, SuffixedIs
<1>8. t = u
  <2> HIDE DEF U, t, u
  <2>1. QED
    BY <1>2, <1>3, <1>4, <1>5, <1>6, <1>7, TailsApart DEF slug
<1>9. /\ ToString(b) \notin NamePieces(W) /\ ToString(e) \notin NamePieces(W)
      /\ ToString(b) = ToString(e) => b = e
  <2>1. ToString(b) \notin Known(w) /\ ToString(e) \notin Known(w)
    BY MarkIsNew
  <2>2. QED
    BY <2>1, NamePiecesAreKnown, HashIsNew
<1>10. QED
  <2> HIDE DEF W
  <2>1. QED
    BY <1>1, <1>8, <1>9, TailTells

\* What the lemmas need of a named instance.
NamedFrom(c) ==
  LET k == cmd[c]
      doc == Doc(c)
      w == world
  IN  /\ w \in Worlds /\ Real(k.dir) = k.dir /\ doc = Docs[w.docs[k.dir]] /\ IsDoc(doc)
      /\ doc.project \in Texts /\ Plain(doc.project)
      /\ Range(doc.project) \subseteq Written(w) /\ Range(InstanceNamePrefix) \subseteq Written(w)
      /\ k.dir \in Hashed(w)
      /\ Scope(doc) = "path" => k.instance = Suffixed(doc.project, ShortHash(k.dir))
      /\ Scope(doc) = "branch" =>
           /\ k.branch \in Texts /\ k.branch \in Hashed(w) /\ Range(k.branch) \subseteq Written(w)
           /\ k.instance = Suffixed(doc.project, k.branch)
      /\ Scope(doc) = "name" => k.instance = InstanceName(doc.project)
      /\ Scope(doc) \in {"path", "branch", "name"}
      /\ \A key \in DOMAIN doc.volumes :
           /\ key \in Texts /\ Range(key) \subseteq Written(w)
           /\ Pool(doc.volumes[key]) \in Seq(Written(w))

\* ... is so.
LEMMA NamedIsFrom ==
  ASSUME LoadInv, NEW c \in Cmds, Named(c)
  PROVE  NamedFrom(c)
<1> DEFINE k == cmd[c]
           doc == Doc(c)
           w == world
           branch == w.branch[k.dir]
<1>1. /\ w \in Worlds /\ k.dir \in ProjectDirs(w) /\ Real(k.dir) = k.dir
      /\ doc = Docs[w.docs[k.dir]] /\ IsDoc(doc) /\ Problems(doc) = {}
      /\ branch \in Texts /\ Scope(doc) \in {"path", "branch", "name"}
      /\ k.branch = IF Scope(doc) = "branch" THEN branch ELSE <<>>
      /\ k.instance = InstanceNameFor(doc.project, Scope(doc), k.dir, k.branch)
  BY ProjectOf
<1> HIDE DEF k, doc, w
<1>2. /\ Range(doc.project) \subseteq Written(w) /\ Range(branch) \subseteq Written(w)
      /\ \A key \in DOMAIN doc.volumes :
           Range(key) \subseteq Written(w) /\ Range(doc.volumes[key].pool) \subseteq Written(w)
      /\ Range(InstanceNamePrefix) \subseteq Written(w) /\ "default" \in Written(w)
  BY <1>1, WrittenThere
<1>3. k.dir \in Hashed(w) /\ branch \in Hashed(w)
  BY <1>1, HashedThere
<1>4. doc.project \in Texts /\ Plain(doc.project)
  <2>1. SchemaProblems(doc) = {}
    BY <1>1, NoProblem
  <2>2. QED
    BY <1>1, <2>1, SchemaFacts DEF IsDoc
<1>5. ASSUME NEW key \in DOMAIN doc.volumes
      PROVE  key \in Texts /\ Pool(doc.volumes[key]) \in Seq(Written(w))
  <2>1. key \in Texts /\ doc.volumes[key].pool \in Texts
    BY <1>1 DEF IsDoc, AreTexts
  <2> DEFINE pool == doc.volumes[key].pool
             W == Written(w)
  <2>2. pool \in Seq(W)
    BY <1>2, <2>1, TextIsOf
  <2>3. <<"default">> \in Seq(W)
    <3>1. "default" \in W
      BY <1>2
    <3> HIDE DEF W
    <3>2. QED
      BY <3>1, OnePiece
  <2>4. QED
    BY <2>1, <2>2, <2>3 DEF Pool, Or
<1>6. /\ Scope(doc) = "path" => k.instance = Suffixed(doc.project, ShortHash(k.dir))
      /\ Scope(doc) = "branch" => k.branch = branch /\ k.instance = Suffixed(doc.project, branch)
      /\ Scope(doc) = "name" => k.instance = InstanceName(doc.project)
  BY <1>1 DEF InstanceNameFor
<1>7. QED
  <2> HIDE DEF branch
  <2>1. QED
    BY <1>1, <1>2, <1>3, <1>4, <1>5, <1>6 DEF NamedFrom, branch, k, doc, w

\* Its name is one Incus takes.
LEMMA EveryNameFits ==
  ASSUME NEW c \in Cmds, NamedFrom(c)
  PROVE  NameFits(cmd[c].instance)
<1> DEFINE k == cmd[c]
           project == Doc(c).project
           scope == Scope(Doc(c))
           w == world
<1>1. /\ w \in Worlds /\ project \in Texts /\ Plain(project)
      /\ Range(project) \subseteq Written(w) /\ Range(InstanceNamePrefix) \subseteq Written(w)
      /\ k.dir \in Hashed(w) /\ scope \in {"path", "branch", "name"}
      /\ scope = "path" => k.instance = Suffixed(project, ShortHash(k.dir))
      /\ scope = "branch" => k.branch \in Texts /\ k.instance = Suffixed(project, k.branch)
      /\ scope = "name" => k.instance = InstanceName(project)
  BY DEF NamedFrom
<1> HIDE DEF k, project, scope, w
<1>2. CASE scope = "path"
  <2>1. ToString(k.dir) \notin Separators /\ Lower(ToString(k.dir)) = ToString(k.dir)
    BY <1>1, HashIsNew
  <2>2. QED
    BY <1>1, <1>2, <2>1, PathName DEF k
<1>3. CASE scope = "branch"
  BY <1>1, <1>3, BranchName DEF k
<1>4. CASE scope = "name"
  <2> DEFINE K == Known(w)
  <2>1. Slug(project) \in Seq(K)
    BY <1>1, SlugIsKnown
  <2>2. Range(InstanceNamePrefix) \subseteq K
    BY <1>1 DEF Known
  <2> HIDE DEF K
  <2>3. NameFits(InstanceName(project))
    BY <2>1, <2>2, PlainNameFits
  <2>4. QED
    BY <1>1, <1>4, <2>3 DEF k
<1>5. QED
  BY <1>1, <1>2, <1>3, <1>4

\* One instance for every checkout, and its volumes are its own.
LEMMA CheckoutsTell ==
  ASSUME NEW c \in Cmds, NEW d \in Cmds, NamedFrom(c), NamedFrom(d)
  PROVE  OnePerCheckout(c, d)
<1> SUFFICES ASSUME Scope(Doc(c)) = "path", Scope(Doc(d)) = "path"
             PROVE  /\ SameInstance(c, d) <=> Real(cmd[c].dir) = Real(cmd[d].dir)
                    /\ ~SameInstance(c, d) => VolumesOf(c) \cap VolumesOf(d) = {}
  BY DEF OnePerCheckout, Scope
<1> DEFINE K == Known(world)
           Mark(e) == ToString(cmd[e].dir)
<1>1. ASSUME NEW e \in {c, d}
      PROVE  /\ Marked(cmd[e].instance, K, Mark(e)) /\ Mark(e) \notin K
             /\ \A ref \in VolumesOf(e) : Marked(ref, K, Mark(e))
  <2>1. NamedFrom(e) /\ Scope(Doc(e)) = "path"
    OBVIOUS
  <2> DEFINE k == cmd[e]
             doc == Doc(e)
             project == Doc(e).project
             w == world
  <2>2. /\ w \in Worlds /\ project \in Texts /\ Plain(project)
        /\ Range(project) \subseteq Written(w) /\ Range(InstanceNamePrefix) \subseteq Written(w)
        /\ k.dir \in Hashed(w) /\ k.instance = Suffixed(project, ShortHash(k.dir))
        /\ \A key \in DOMAIN doc.volumes :
             /\ key \in Texts /\ Range(key) \subseteq Written(w)
             /\ Pool(doc.volumes[key]) \in Seq(Written(w))
    BY <2>1 DEF NamedFrom
  <2> HIDE DEF k, doc, project, w
  <2>3. ToString(k.dir) \notin Separators /\ Lower(ToString(k.dir)) = ToString(k.dir)
    BY <2>2, HashIsNew
  <2>4. Marked(k.instance, Known(w), ToString(k.dir))
    BY <2>2, <2>3, PathName
  <2>5. ToString(k.dir) \notin Known(w)
    BY <2>2, MarkIsNew
  <2>6. ASSUME NEW key \in DOMAIN doc.volumes
        PROVE  Marked(VolumeRef(Pool(doc.volumes[key]), VolumeName(k.instance, key)),
                      Known(w), ToString(k.dir))
    <3> DEFINE pool == Pool(doc.volumes[key])
               W == Written(w)
               KW == Known(w)
               h == ToString(k.dir)
               instance == k.instance
    <3>1. key \in Seq(KW) /\ pool \in Seq(KW)
      <4>1. W \subseteq KW
        BY DEF Known
      <4>2. key \in Seq(W) /\ pool \in Seq(W)
        BY <2>2, TextIsOf
      <4> HIDE DEF W, KW, pool
      <4>3. QED
        BY <4>1, <4>2, KnownIsOf
    <3>2. "-" \in KW /\ "/" \in KW
      BY NamePiecesAreKnown
    <3>3. Marked(instance, KW, h)
      BY <2>4
    <3> HIDE DEF KW, pool, h, instance
    <3>4. Marked(VolumeRef(pool, VolumeName(instance, key)), KW, h)
      BY <3>1, <3>2, <3>3, RefIsMarked
    <3>5. QED
      BY <3>4 DEF KW, pool, h, instance
  <2>7. VolumesOf(e)
          = {VolumeRef(Pool(doc.volumes[key]), VolumeName(k.instance, key)) : key \in DOMAIN doc.volumes}
    BY DEF VolumesOf, DeclaredVolumes, k, doc
  <2>8. \A ref \in VolumesOf(e) : Marked(ref, Known(w), ToString(k.dir))
    BY <2>6, <2>7
  <2>9. QED
    BY <2>4, <2>5, <2>8 DEF k, w
<1>2. /\ cmd[c].dir \in Hashed(world) /\ cmd[d].dir \in Hashed(world) /\ world \in Worlds
      /\ Real(cmd[c].dir) = cmd[c].dir /\ Real(cmd[d].dir) = cmd[d].dir
  BY DEF NamedFrom
<1>3. Mark(c) = Mark(d) => cmd[c].dir = cmd[d].dir
  BY <1>2, HashIsNew
<1>4. ASSUME cmd[c].dir = cmd[d].dir
      PROVE  SameInstance(c, d)
  <2>1. Doc(c) = Doc(d)
    BY <1>4 DEF Doc
  <2>2. /\ cmd[c].instance = Suffixed(Doc(c).project, ShortHash(cmd[c].dir))
        /\ cmd[d].instance = Suffixed(Doc(d).project, ShortHash(cmd[d].dir))
    BY DEF NamedFrom
  <2>3. QED
    BY <1>4, <2>1, <2>2 DEF SameInstance
<1> HIDE DEF K, Mark
<1>5. ASSUME NEW text, Marked(text, K, Mark(c)), Marked(text, K, Mark(d))
      PROVE  Mark(c) = Mark(d)
  BY <1>1, <1>5, MarksAgree
<1>6. ASSUME SameInstance(c, d)
      PROVE  cmd[c].dir = cmd[d].dir
  <2>1. Marked(cmd[c].instance, K, Mark(c)) /\ Marked(cmd[c].instance, K, Mark(d))
    BY <1>1, <1>6 DEF SameInstance
  <2>2. QED
    BY <1>3, <1>5, <2>1
<1>7. ASSUME NEW ref \in VolumesOf(c) \cap VolumesOf(d)
      PROVE  SameInstance(c, d)
  <2>1. Marked(ref, K, Mark(c)) /\ Marked(ref, K, Mark(d))
    BY <1>1
  <2>2. QED
    BY <1>3, <1>4, <1>5, <2>1
<1>8. QED
  BY <1>2, <1>4, <1>6, <1>7

\* One for every branch.
LEMMA BranchesTell ==
  ASSUME NEW c \in Cmds, NEW d \in Cmds, NamedFrom(c), NamedFrom(d)
  PROVE  OnePerBranch(c, d)
<1> SUFFICES ASSUME SameProject(c, d, "branch")
             PROVE  /\ SameName(cmd[c].branch, cmd[d].branch) => SameInstance(c, d)
                    /\ SameInstance(c, d) /\ NeverCut(Doc(c)) =>
                         SameName(cmd[c].branch, cmd[d].branch)
  BY DEF OnePerBranch
<1> DEFINE project == Doc(c).project
           b == cmd[c].branch
           e == cmd[d].branch
           w == world
<1>1. /\ w \in Worlds /\ project \in Texts /\ Plain(project)
      /\ Range(project) \subseteq Written(w) /\ Range(InstanceNamePrefix) \subseteq Written(w)
      /\ b \in Texts /\ b \in Hashed(w) /\ Range(b) \subseteq Written(w)
      /\ cmd[c].instance = Suffixed(project, b)
  BY DEF NamedFrom, SameProject
<1>2. /\ e \in Texts /\ e \in Hashed(w) /\ Range(e) \subseteq Written(w)
      /\ cmd[d].instance = Suffixed(project, e)
  BY DEF NamedFrom, SameProject
<1>3. NeverCut(Doc(c)) =>
        ~Holds(Slug(project), "-")
          \/ Len(Slug(project)) <= MaxInstanceName - Len(InstanceNamePrefix) - 1 - MaxSuffix
  BY DEF NeverCut
<1> HIDE DEF project, b, e, w
<1>4. SameInstance(c, d) <=> Suffixed(project, b) = Suffixed(project, e)
  BY <1>1, <1>2 DEF SameInstance
<1>5. SameName(b, e) => SameInstance(c, d)
  BY <1>1, <1>2, <1>4, SameNameSameInstance
<1>6. SameInstance(c, d) /\ NeverCut(Doc(c)) => SameName(b, e)
  BY <1>1, <1>2, <1>3, <1>4, InstanceTellsBranch
<1>7. QED
  BY <1>5, <1>6 DEF b, e

\* Every instance has a name Incus takes; under scope path there is one for every
\* checkout, whose volumes are its own, under branch one for every branch, under
\* name one for the project (naming.go instanceNameFor, name.go
\* InstanceNameWithSuffix), for any documents, trees and branches.
THEOREM CheckoutsStayApart == Spec => []CheckoutsApart
<1>1. LoadInv => CheckoutsApart
  <2> SUFFICES ASSUME LoadInv, NEW c \in Cmds, NEW d \in Cmds, Named(c), Named(d)
               PROVE  /\ NameFits(cmd[c].instance)
                      /\ OnePerCheckout(c, d) /\ OnePerBranch(c, d)
                      /\ SameProject(c, d, "name") => SameInstance(c, d)
    BY DEF CheckoutsApart
  <2>1. NamedFrom(c) /\ NamedFrom(d)
    BY NamedIsFrom
  <2>2. NameFits(cmd[c].instance) /\ OnePerCheckout(c, d) /\ OnePerBranch(c, d)
    BY <2>1, EveryNameFits, CheckoutsTell, BranchesTell
  <2>3. SameProject(c, d, "name") => SameInstance(c, d)
    BY <2>1 DEF NamedFrom, SameProject, SameInstance
  <2>4. QED
    BY <2>2, <2>3
<1>2. QED
  BY <1>1, LoadingInv, PTL
=============================================================================
