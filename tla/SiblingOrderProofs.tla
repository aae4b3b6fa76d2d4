-------------------------- MODULE SiblingOrderProofs --------------------------
(***************************************************************************)
(* What holds of the children of a parent for any number of them and of    *)
(* requests.  No transaction ever sees what another one has written; that  *)
(* they agree in the end rests on the row locks and on the unique index,   *)
(* whose doubtful entries make others wait.                                *)
(***************************************************************************)
EXTENDS SiblingOrder, FiniteSetTheorems, SequenceTheorems, TLAPS

-----------------------------------------------------------------------------
(* Finite sets of positions *)

Increasing(f) == \A i, j \in DOMAIN f : i < j => f[i] < f[j]

\* The place of p when P is sorted.
Rank(P) == [p \in P |-> Cardinality({q \in P : q <= p})]

\* The place is between 1 and the number of positions, and grows with them.
LEMMA RankIsIncreasing ==
  ASSUME NEW P \in SUBSET Nat, IsFiniteSet(P)
  PROVE  /\ Cardinality(P) \in Nat
         /\ \A p \in P : Rank(P)[p] \in 1..Cardinality(P)
         /\ \A p, q \in P : p < q => Rank(P)[p] < Rank(P)[q]
<1> DEFINE Upto(p) == {q \in P : q <= p}
<1>1. Cardinality(P) \in Nat BY FS_CardinalityType
<1>2. ASSUME NEW p \in P
      PROVE  /\ IsFiniteSet(Upto(p)) /\ Cardinality(Upto(p)) \in 1..Cardinality(P)
             /\ Rank(P)[p] = Cardinality(Upto(p))
  <2>1. Upto(p) \in SUBSET P /\ p \in Upto(p) OBVIOUS
  <2>2. IsFiniteSet(Upto(p)) /\ Cardinality(Upto(p)) <= Cardinality(P)
      BY <2>1, FS_Subset
  <2>3. Cardinality(Upto(p)) \in Nat BY <2>2, FS_CardinalityType
  <2>4. Cardinality(Upto(p)) # 0 BY <2>1, <2>2, FS_EmptySet
  <2>5. Rank(P)[p] = Cardinality(Upto(p)) BY DEF Rank
  <2> QED BY <1>1, <2>2, <2>3, <2>4, <2>5
<1>3. ASSUME NEW p \in P, NEW q \in P, p < q
      PROVE  Rank(P)[p] < Rank(P)[q]
  <2>0. \A x \in P : x \in Nat OBVIOUS
  <2>a. \A x \in P : x <= p => x <= q BY <1>3, <2>0
  <2>b. q <= q /\ ~(q <= p) BY <1>3, <2>0
  <2>1. Upto(p) \in SUBSET Upto(q) /\ q \in Upto(q) /\ q \notin Upto(p) BY <2>a, <2>b
  <2>2. Cardinality(Upto(p)) <= Cardinality(Upto(q)) /\ Cardinality(Upto(p)) # Cardinality(Upto(q))
      BY <2>1, <1>2, FS_Subset
  <2>3. Cardinality(Upto(p)) \in Nat /\ Cardinality(Upto(q)) \in Nat BY <1>2, FS_CardinalityType
  <2>4. Cardinality(Upto(p)) < Cardinality(Upto(q)) BY <2>2, <2>3
  <2> QED BY <2>4, <1>2
<1> QED BY <1>1, <1>2, <1>3

\* Any finite set of positions can be sorted.
LEMMA Sortable ==
  ASSUME NEW P \in SUBSET Nat, IsFiniteSet(P)
  PROVE  \E f \in Orders(P) : Increasing(f)
<1> DEFINE n == Cardinality(P)
           r == Rank(P)
           f == [i \in 1..n |-> CHOOSE p \in P : r[p] = i]
<1>1. /\ n \in Nat /\ r \in [P -> 1..n]
      /\ \A p, q \in P : p < q => r[p] < r[q]
    BY RankIsIncreasing DEF Rank
<1>2. r \in Injection(P, 1..n)
  <2>1. \A p, q \in P : r[p] = r[q] => p = q
    <3> SUFFICES ASSUME NEW p \in P, NEW q \in P, r[p] = r[q], p # q PROVE FALSE
        OBVIOUS
    <3>1. p < q \/ q < p OBVIOUS
    <3>2. r[p] \in Nat /\ r[q] \in Nat BY <1>1
    <3> QED BY <3>1, <3>2, <1>1
  <2> QED BY <1>1, <2>1 DEF Injection, IsInjective
<1>3. IsFiniteSet(1..n) /\ Cardinality(1..n) = n BY <1>1, FS_Interval
<1>4. r \in Surjection(P, 1..n) BY <1>2, <1>3, FS_Injection
<1>5. \A i \in 1..n : f[i] \in P /\ r[f[i]] = i
  <2>1. \A i \in 1..n : \E p \in P : r[p] = i BY <1>4 DEF Surjection
  <2> QED BY <2>1
<1>6. f \in Orders(P)
  <2>1. f \in [1..n -> P] BY <1>5
  <2>2. \A i, j \in 1..n : f[i] = f[j] => i = j BY <1>5
  <2> QED BY <2>1, <2>2 DEF Orders
<1>7. Increasing(f)
  <2> SUFFICES ASSUME NEW i \in 1..n, NEW j \in 1..n, i < j PROVE f[i] < f[j]
      BY DEF Increasing
  <2>1. f[i] \in Nat /\ f[j] \in Nat BY <1>5
  <2>2. ~(f[j] < f[i])
    <3>1. r[f[i]] = i /\ r[f[j]] = j BY <1>5
    <3> HIDE DEF f, r
    <3>2. f[j] < f[i] => r[f[j]] < r[f[i]] BY <1>5, <1>1
    <3> QED BY <3>1, <3>2, <1>1
  <2>3. f[i] # f[j] BY <1>5
  <2> QED BY <2>1, <2>2, <2>3
<1> QED BY <1>6, <1>7

\* Ascending sorts.
LEMMA AscendingSorts ==
  ASSUME NEW P \in SUBSET Nat, IsFiniteSet(P)
  PROVE  Ascending(P) \in Orders(P) /\ Increasing(Ascending(P))
<1>1. \E f \in Orders(P) : \A i, j \in DOMAIN f : i < j => f[i] < f[j]
    BY Sortable DEF Increasing
<1> QED BY <1>1 DEF Ascending, Increasing

\* A finite set of positions that is not empty has a highest one.
LEMMA Highest ==
  ASSUME NEW P \in SUBSET Nat, IsFiniteSet(P), P # {}
  PROVE  \E p \in P : \A q \in P : q <= p
<1> DEFINE n == Cardinality(P)
<1>1. PICK f \in Orders(P) : Increasing(f) BY Sortable
<1>2. n \in Nat /\ n # 0 BY FS_CardinalityType, FS_EmptySet
<1>3. f \in Injection(1..n, P) BY <1>1 DEF Orders, Injection, IsInjective
<1>4. IsFiniteSet(1..n) /\ Cardinality(1..n) = n BY <1>2, FS_Interval
<1>5. f \in Surjection(1..n, P) BY <1>3, <1>4, FS_Injection
<1>6. f \in [1..n -> P] /\ \A q \in P : \E i \in 1..n : f[i] = q BY <1>5 DEF Surjection
<1>7. f[n] \in P BY <1>6, <1>2
<1>8. ASSUME NEW q \in P PROVE q <= f[n]
  <2>1. PICK i \in 1..n : f[i] = q BY <1>6
  <2>2. DOMAIN f = 1..n /\ n \in 1..n /\ (i = n \/ i < n) BY <1>2, <1>6
  <2>3. i = n \/ f[i] < f[n] BY <1>1, <2>2 DEF Increasing
  <2>4. q \in Nat /\ f[n] \in Nat BY <1>7
  <2> QED BY <2>1, <2>3, <2>4
<1> QED BY <1>7, <1>8

-----------------------------------------------------------------------------
(* The inductive invariant *)

Count == Cardinality(Existing)

\* The rows that t is to reorder.
Submitted(t) == {seen[t].order[i] : i \in DOMAIN seen[t].order}

\* A request that is not being served holds nothing.
IdleStands(t) ==
  /\ op[t] = "none" <=> pc[t] = "idle"
  /\ op[t] = "none" => locked[t] = {}

\* A creation inserts one fresh row, at most one place after the last.
CreationStands(t) ==
  op[t] = "create" =>
    /\ pc[t] \in {"insert", "commit"}
    /\ seen[t].base \in 1..(Count + 1)
    /\ pc[t] = "insert" => locked[t] = {}
    /\ pc[t] = "commit" => \E c \in Children : /\ locked[t] = {c} /\ child[c].status = "absent"
                                               /\ written[t][c] = seen[t].base

\* A reorder locks the rows it was submitted, which exist, and has brought those
\* before next where they belong, to positions that are in use.
ReorderStands(t) ==
  LET s == seen[t]
  IN op[t] = "reorder" =>
       /\ pc[t] \in {"max", "move", "place", "commit"}
       /\ \A i \in DOMAIN s.order : s.order[i] \in Existing /\ s.final[i] \in 1..Count
       /\ Increasing(s.final)
       /\ locked[t] \subseteq Submitted(t)
       /\ pc[t] = "max" => locked[t] = {}
       /\ pc[t] # "max" => s.base # 0 /\ s.next # 0
       /\ pc[t] = "move" => \A i \in DOMAIN s.order : i < s.next => s.order[i] \in locked[t]
       /\ pc[t] \in {"place", "commit"} => Submitted(t) \subseteq locked[t]
       /\ \A i \in DOMAIN s.order :
            pc[t] = "commit" \/ (pc[t] = "place" /\ i < s.next) => written[t][s.order[i]] = s.final[i]

\* The position that t sees row c at.
Seems(t, c) == IF written[t][c] # 0 THEN written[t][c] ELSE child[c].position

\* What t writes is locked, and at a position where t sees no other row.
WritesStand(t) ==
  \A c \in Children :
    written[t][c] # 0 =>
      /\ c \in locked[t]
      /\ \A d \in Children \ {c} : Seems(t, d) # written[t][c]

Sound(t) == IdleStands(t) /\ CreationStands(t) /\ ReorderStands(t) /\ WritesStand(t)

\* Two transactions lock no row in common, and enter no position in common.
Apart(t, u) ==
  /\ locked[t] \cap locked[u] = {}
  /\ \A c, d \in Children : written[t][c] # 0 => written[t][c] # written[u][d]

IInv ==
  /\ TypeOK /\ PositionsAreDense
  /\ \A t \in Tx : Sound(t)
  /\ \A t, u \in Tx : t # u => Apart(t, u)

-----------------------------------------------------------------------------
(* Rows and their positions *)

\* There are finitely many rows, and their positions are natural numbers.
LEMMA RowsAreFinite ==
  ASSUME TypeOK
  PROVE  /\ IsFiniteSet(Existing) /\ Count \in Nat
         /\ Count <= Cardinality(Children) /\ Cardinality(Children) \in Nat
         /\ Listed \in SUBSET Existing /\ Existing \in SUBSET Children
         /\ \A c \in Existing : child[c].position \in Nat \ {0}
<1>1. Existing \in SUBSET Children /\ Listed \in SUBSET Existing BY DEF Existing, Listed
<1>2. IsFiniteSet(Existing) /\ Cardinality(Existing) <= Cardinality(Children)
    BY <1>1, ChildrenAssumption, FS_Subset
<1>3. Cardinality(Existing) \in Nat /\ Cardinality(Children) \in Nat
    BY <1>2, ChildrenAssumption, FS_CardinalityType
<1>4. \A c \in Existing : child[c].position \in Nat \ {0} BY DEF TypeOK, Child, Existing
<1> QED BY <1>1, <1>2, <1>3, <1>4 DEF Count

\* The positions of some of the rows: as many as rows, when no two are at one.
LEMMA PositionsAreFinite ==
  ASSUME TypeOK, PositionsAreDense, NEW S \in SUBSET Existing
  PROVE  /\ IsFiniteSet(S) /\ IsFiniteSet(PositionsOf(S))
         /\ PositionsOf(S) \in SUBSET Nat /\ PositionsOf(S) \subseteq 1..Count
         /\ Cardinality(PositionsOf(S)) = Cardinality(S)
<1> DEFINE at == [c \in S |-> child[c].position]
<1>1. IsFiniteSet(S) BY RowsAreFinite, FS_Subset
<1>2. PositionsOf(S) \subseteq 1..Count
    BY DEF PositionsAreDense, PositionsOf, Count
<1>3. at \in Surjection(S, PositionsOf(S)) /\ at \in Injection(S, PositionsOf(S))
  <2>1. at \in [S -> PositionsOf(S)] BY DEF PositionsOf
  <2>2. \A p \in PositionsOf(S) : \E c \in S : at[c] = p BY DEF PositionsOf
  <2>3. \A c, d \in S : at[c] = at[d] => c = d BY DEF PositionsAreDense
  <2> QED BY <2>1, <2>2, <2>3 DEF Surjection, Injection, IsInjective
<1>4. IsFiniteSet(PositionsOf(S)) /\ Cardinality(PositionsOf(S)) = Cardinality(S)
    BY <1>1, <1>3, FS_Surjection
<1>5. PositionsOf(S) \in SUBSET Nat BY <1>2, RowsAreFinite
<1> QED BY <1>1, <1>2, <1>4, <1>5

\* The aggregate is the highest position.
LEMMA LastIsHighest ==
  ASSUME TypeOK, PositionsAreDense, NEW S \in SUBSET Existing
  PROVE  Last(S) \in 0..Count /\ \A c \in S : child[c].position <= Last(S)
<1> DEFINE P == PositionsOf(S) \cup {0}
<1>1. IsFiniteSet(P) /\ P # {} /\ P \in SUBSET Nat
    BY PositionsAreFinite, FS_AddElement
<1>2. PICK p \in P : \A q \in P : q <= p BY <1>1, Highest
<1>3. Last(S) \in P /\ \A r \in PositionsOf(S) : r <= Last(S)
    BY <1>2 DEF Last
<1>4. P \subseteq 0..Count BY PositionsAreFinite, RowsAreFinite
<1> QED BY <1>3, <1>4 DEF PositionsOf

-----------------------------------------------------------------------------
(* The steps of a request before its commit *)

\* What a request relies on, as long as neither it nor the rows change.
LEMMA StandsStill ==
  ASSUME NEW u \in Tx, Sound(u), child' = child, locked'[u] = locked[u], written'[u] = written[u],
         pc'[u] = pc[u], op'[u] = op[u], seen'[u] = seen[u]
  PROVE  Sound(u)'
<1>1. Existing' = Existing /\ Count' = Count BY DEF Existing, Count
<1>2. Submitted(u)' = Submitted(u) BY DEF Submitted
<1>3. WritesStand(u)' BY DEF Sound, WritesStand, Seems
<1>4. IdleStands(u)' /\ CreationStands(u)' BY <1>1 DEF Sound, IdleStands, CreationStands
<1>5. ReorderStands(u)' BY <1>1, <1>2 DEF Sound, ReorderStands, Increasing
<1> QED BY <1>3, <1>4, <1>5 DEF Sound

\* A step of t that changes nothing but t's own affairs keeps the invariant if t
\* itself stays sound, and apart from the others.
LEMMA OwnAffairs ==
  ASSUME IInv, NEW t \in Tx, TypeOK', child' = child, Sound(t)',
         \A u \in Tx \ {t} : /\ locked'[u] = locked[u] /\ written'[u] = written[u]
                             /\ pc'[u] = pc[u] /\ op'[u] = op[u] /\ seen'[u] = seen[u]
                             /\ Apart(t, u)'
  PROVE  IInv'
<1>1. \A u \in Tx \ {t} : Sound(u)' BY StandsStill DEF IInv
<1>2. PositionsAreDense' BY DEF IInv, PositionsAreDense, PositionsOf, Existing
<1>3. \A u \in Tx \ {t} : Apart(u, t)' BY DEF Apart
<1>4. ASSUME NEW u \in Tx \ {t}, NEW v \in Tx \ {t}, u # v PROVE Apart(u, v)'
    BY <1>4 DEF IInv, Apart
<1> QED BY <1>1, <1>2, <1>3, <1>4 DEF IInv

LEMMA NothingIsSeen == NothingSeen \in Seen /\ DOMAIN NothingSeen.final = DOMAIN NothingSeen.order
<1>1. NoOrder \in [1..0 -> 1..Cardinality(Children)] BY DEF NoOrder
<1>2. Cardinality(Children) \in Nat BY ChildrenAssumption, FS_CardinalityType
<1>3. NoOrder \in PositionLists BY <1>1, <1>2 DEF PositionLists
<1>4. NoOrder \in Orders({}) BY FS_EmptySet DEF Orders, NoOrder
<1>5. NoOrder \in Lists BY <1>4 DEF Lists
<1> QED BY <1>3, <1>5 DEF Seen, NothingSeen

LEMMA Initially == Init => IInv
<1> SUFFICES ASSUME Init PROVE IInv
    OBVIOUS
<1> USE DEF Init
<1>1. Existing = {} /\ Count = 0 BY FS_EmptySet DEF Existing, NoChild, Count
<1>2. TypeOK BY NothingIsSeen DEF TypeOK, Child, NoChild, Stage, Kind
<1>3. PositionsAreDense BY <1>1 DEF PositionsAreDense, PositionsOf, Count
<1>4. \A t \in Tx : Sound(t) BY DEF Sound, IdleStands, CreationStands, ReorderStands, WritesStand
<1>5. \A t, u \in Tx : Apart(t, u) BY DEF Apart
<1> QED BY <1>2, <1>3, <1>4, <1>5 DEF IInv

\* An entry that is granted is at a position where t sees no row, and that no
\* other transaction has entered.
LEMMA EntryIsApart ==
  ASSUME IInv, NEW t \in Tx, NEW c \in Children, NEW p \in Nat \ {0}, Enter(t, c, p),
         child' = child, locked' \in [Tx -> SUBSET Children],
         locked[t] \subseteq locked'[t], c \in locked'[t],
         \A u \in Tx \ {t} : locked'[u] = locked[u] /\ locked'[t] \cap locked[u] = {}
  PROVE  /\ written' \in [Tx -> [Children -> Nat]]
         /\ written'[t][c] = p
         /\ \A d \in Children \ {c} : written'[t][d] = written[t][d]
         /\ \A u \in Tx \ {t} : written'[u] = written[u]
         /\ WritesStand(t)'
         /\ \A u \in Tx \ {t} : Apart(t, u)'
<1>1. written \in [Tx -> [Children -> Nat]] /\ child \in [Children -> Child]
      /\ \A d \in Children : child[d].status = "absent" <=> child[d].position = 0
    BY DEF IInv, TypeOK
<1>2. /\ written' \in [Tx -> [Children -> Nat]] /\ written'[t][c] = p
      /\ \A d \in Children \ {c} : written'[t][d] = written[t][d]
      /\ \A u \in Tx \ {t} : written'[u] = written[u]
    BY <1>1 DEF Enter
<1>3. \A d \in Children \ {c} : Seems(t, d) # p
    BY <1>1 DEF Enter, Taken, Seems
<1>4. WritesStand(t)
    BY DEF IInv, Sound
<1>5. WritesStand(t)'
  <2> SUFFICES ASSUME NEW e \in Children, written'[t][e] # 0
               PROVE  e \in locked'[t] /\ \A d \in Children \ {e} : Seems(t, d)' # written'[t][e]
      BY DEF WritesStand
  <2>1. \A d \in Children \ {c} : Seems(t, d)' = Seems(t, d) BY <1>2 DEF Seems
  <2>2. Seems(t, c)' = p BY <1>2 DEF Seems
  <2>3. CASE e = c BY <2>1, <2>3, <1>2, <1>3
  <2>4. CASE e # c
    <3>1. written[t][e] # 0 /\ Seems(t, e) = written[t][e] BY <2>4, <1>2 DEF Seems
    <3>2. e \in locked[t] /\ \A d \in Children \ {e} : Seems(t, d) # written[t][e]
        BY <3>1, <1>4 DEF WritesStand
    <3>3. Seems(t, c)' # written'[t][e] BY <2>2, <2>4, <3>1, <1>2, <1>3
    <3> QED BY <3>2, <3>3, <2>1, <2>4, <1>2
  <2> QED BY <2>3, <2>4
<1>6. ASSUME NEW u \in Tx \ {t} PROVE Apart(t, u)'
  <2>1. \A d \in Children \ {c} : written[u][d] # p BY DEF Enter, EntryHolders
  <2>2. written[u][c] = 0 BY DEF IInv, Sound, WritesStand
  <2>3. \A e, d \in Children : written[t][e] # 0 => written[t][e] # written[u][d]
      BY DEF IInv, Apart
  <2>4. \A e, d \in Children : written'[t][e] # 0 => written'[t][e] # written'[u][d]
      BY <2>1, <2>2, <2>3, <1>2
  <2> QED BY <2>4 DEF Apart
<1> QED BY <1>2, <1>5, <1>6

\* Nothing is locked or entered: the others stay apart from t.
LEMMA StaysApart ==
  ASSUME IInv, NEW t \in Tx, UNCHANGED <<locked, written>>
  PROVE  \A u \in Tx \ {t} : Apart(t, u)'
  BY DEF IInv, Apart

LEMMA Creates == ASSUME IInv, NEW t \in Tx, Create(t) PROVE IInv'
<1> USE DEF Create
<1>1. TypeOK /\ Sound(t) /\ PositionsAreDense BY DEF IInv
<1>2. locked[t] = {} BY <1>1 DEF Sound, IdleStands
<1>3. AppendPosition \in 1..(Count + 1)
    BY <1>1, RowsAreFinite, LastIsHighest DEF AppendPosition
<1>a. AppendPosition \in Nat BY <1>1, <1>3, RowsAreFinite
<1>b. seen \in [Tx -> Seen] BY <1>1 DEF TypeOK
<1>4. seen' \in [Tx -> Seen] /\ seen'[t] = [seen[t] EXCEPT !.base = AppendPosition]
    BY <1>a, <1>b DEF Seen
<1>5. TypeOK' BY <1>1, <1>4 DEF TypeOK, Stage, Kind, Seen
<1>6. Count' = Count BY DEF Count, Existing
<1>7. Sound(t)'
  <2>1. op'[t] = "create" /\ pc'[t] = "insert" /\ seen'[t].base = AppendPosition
      BY <1>1, <1>4 DEF TypeOK, Seen
  <2>2. WritesStand(t)' BY <1>1 DEF Sound, WritesStand, Seems
  <2> QED BY <2>1, <2>2, <1>2, <1>3, <1>6 DEF Sound, IdleStands, CreationStands, ReorderStands
<1> QED BY <1>1, <1>5, <1>7, StaysApart, OwnAffairs DEF TypeOK

LEMMA Inserts == ASSUME IInv, NEW t \in Tx, Insert(t) PROVE IInv'
<1>1. TypeOK /\ Sound(t) BY DEF IInv
<1>2. op[t] = "create" /\ locked[t] = {} /\ seen[t].base \in 1..(Count + 1) /\ pc[t] = "insert"
    BY <1>1 DEF Insert, TypeOK, Kind, Sound, IdleStands, CreationStands, ReorderStands
<1>3. PICK c \in Children : child[c].status = "absent" /\ Lock(t, c) /\ Enter(t, c, seen[t].base)
    BY DEF Insert
<1>4. /\ locked' \in [Tx -> SUBSET Children] /\ locked'[t] = {c}
      /\ \A u \in Tx \ {t} : locked'[u] = locked[u] /\ locked'[t] \cap locked[u] = {}
    BY <1>1, <1>2, <1>3 DEF Lock, RowHolders, TypeOK
<1>5. seen[t].base \in Nat \ {0} BY <1>1, <1>2, RowsAreFinite
<1>6. UNCHANGED <<child, op, seen>> /\ pc' = [pc EXCEPT ![t] = "commit"] BY DEF Insert
<1>7. /\ written' \in [Tx -> [Children -> Nat]] /\ written'[t][c] = seen[t].base
      /\ \A u \in Tx \ {t} : written'[u] = written[u]
      /\ WritesStand(t)' /\ \A u \in Tx \ {t} : Apart(t, u)'
    BY <1>2, <1>3, <1>4, <1>5, <1>6, EntryIsApart
<1>8. TypeOK' BY <1>1, <1>4, <1>6, <1>7 DEF TypeOK, Stage
<1>9. Count' = Count BY <1>6 DEF Count, Existing
<1>10. Sound(t)'
  <2>1. pc'[t] = "commit" /\ op'[t] = "create" /\ seen'[t] = seen[t] /\ child'[c].status = "absent"
      BY <1>1, <1>2, <1>3, <1>6 DEF TypeOK
  <2> QED BY <2>1, <1>2, <1>4, <1>7, <1>9 DEF Sound, IdleStands, CreationStands, ReorderStands
<1>11. \A u \in Tx \ {t} : pc'[u] = pc[u] BY <1>1, <1>6 DEF TypeOK
<1> QED BY <1>4, <1>6, <1>7, <1>8, <1>10, <1>11, OwnAffairs

LEMMA Reorders == ASSUME IInv, NEW t \in Tx, Reorder(t) PROVE IInv'
<1>1. TypeOK /\ Sound(t) /\ PositionsAreDense BY DEF IInv
<1>2. locked[t] = {} BY <1>1 DEF Reorder, Sound, IdleStands
<1>3. PICK order \in Orders(Listed) :
        seen' = [seen EXCEPT ![t] = [NothingSeen EXCEPT !.order = order,
                                                        !.final = Ascending(PositionsOf(Listed))]]
    BY DEF Reorder
<1> DEFINE final == Ascending(PositionsOf(Listed))
           n == Cardinality(Listed)
<1>4. Listed \in SUBSET Existing /\ Existing \in SUBSET Children BY <1>1, RowsAreFinite
<1>5. /\ PositionsOf(Listed) \in SUBSET Nat /\ PositionsOf(Listed) \subseteq 1..Count
      /\ IsFiniteSet(PositionsOf(Listed)) /\ IsFiniteSet(Listed)
      /\ Cardinality(PositionsOf(Listed)) = n
    BY <1>1, <1>4, PositionsAreFinite
<1>6. final \in Orders(PositionsOf(Listed)) /\ Increasing(final) BY <1>5, AscendingSorts
<1>7. order \in [1..n -> Listed] /\ final \in [1..n -> 1..Count]
    BY <1>5, <1>6 DEF Orders
<1>8. n \in 0..Cardinality(Children) /\ Count <= Cardinality(Children) /\ Count \in Nat
  <2>1. Listed \in SUBSET Children BY <1>4
  <2> QED BY <2>1, <1>1, <1>5, RowsAreFinite, FS_Subset, FS_CardinalityType, ChildrenAssumption
<1>9. seen'[t] = [order |-> order, final |-> final, base |-> 0, next |-> 0]
      /\ \A u \in Tx \ {t} : seen'[u] = seen[u]
    BY <1>1, <1>3 DEF TypeOK, NothingSeen
<1>10. seen' \in [Tx -> Seen]
  <2>1. order \in Lists BY <1>4 DEF Lists
  <2>a. Cardinality(Children) \in Nat BY ChildrenAssumption, FS_CardinalityType
  <2>b. 1..Count \subseteq 1..Cardinality(Children) BY <2>a, <1>8
  <2>2. final \in [1..n -> 1..Cardinality(Children)]
    <3> HIDE DEF final
    <3> QED BY <2>b, <1>7
  <2>3. final \in PositionLists BY <2>2, <1>8 DEF PositionLists
  <2>4. [order |-> order, final |-> final, base |-> 0, next |-> 0] \in Seen
      BY <2>1, <2>3 DEF Seen
  <2> QED BY <2>4, <1>1, <1>3 DEF TypeOK, NothingSeen
<1>11. /\ pc' = [pc EXCEPT ![t] = "max"] /\ op' = [op EXCEPT ![t] = "reorder"]
       /\ UNCHANGED <<child, locked, written>>
    BY DEF Reorder
<1>12. DOMAIN seen'[t].order = 1..n /\ DOMAIN seen'[t].final = 1..n BY <1>7, <1>9
<1>13. TypeOK' BY <1>1, <1>9, <1>10, <1>11, <1>12 DEF TypeOK, Stage, Kind
<1>14. Sound(t)'
  <2>1. op'[t] = "reorder" /\ pc'[t] = "max" BY <1>1, <1>11 DEF TypeOK
  <2>2. WritesStand(t)' BY <1>1, <1>11 DEF Sound, WritesStand, Seems
  <2>3. Existing' = Existing /\ Count' = Count BY <1>11 DEF Count, Existing
  <2>4. \A i \in 1..n : order[i] \in Existing /\ final[i] \in 1..Count BY <1>4, <1>7
  <2>5. seen'[t].order = order /\ seen'[t].final = final BY <1>9
  <2>6. ReorderStands(t)'
      BY <2>1, <2>3, <2>4, <2>5, <1>2, <1>6, <1>11, <1>12 DEF ReorderStands, Increasing
  <2> QED BY <2>1, <2>2, <2>6 DEF Sound, IdleStands, CreationStands
<1>15. \A u \in Tx \ {t} : pc'[u] = pc[u] /\ op'[u] = op[u] BY <1>1, <1>11 DEF TypeOK
<1> QED BY <1>9, <1>11, <1>13, <1>14, <1>15, StaysApart, OwnAffairs

\* A submitted list has no row twice, and a position for each.
LEMMA ListShape ==
  ASSUME TypeOK, NEW t \in Tx
  PROVE  \E n \in Nat : /\ seen[t].order \in [1..n -> Children]
                        /\ seen[t].final \in [1..n -> Nat]
                        /\ DOMAIN seen[t].order = 1..n /\ Cardinality(1..n) = n
                        /\ \A i, j \in 1..n : seen[t].order[i] = seen[t].order[j] => i = j
<1>1. seen[t] \in Seen /\ DOMAIN seen[t].final = DOMAIN seen[t].order BY DEF TypeOK
<1>2. PICK S \in SUBSET Children : seen[t].order \in Orders(S) BY <1>1 DEF Seen, Lists
<1>3. Cardinality(S) \in Nat BY FS_Subset, FS_CardinalityType, ChildrenAssumption
<1>4. Cardinality(1..Cardinality(S)) = Cardinality(S) BY <1>3, FS_Interval
<1>5. PICK m \in 0..Cardinality(Children) : seen[t].final \in [1..m -> 1..Cardinality(Children)]
    BY <1>1 DEF Seen, PositionLists
<1>6. 1..Cardinality(Children) \subseteq Nat BY ChildrenAssumption, FS_CardinalityType
<1>7. seen[t].final \in [1..m -> Nat] BY <1>5, <1>6
<1>8. seen[t].order \in [1..Cardinality(S) -> Children] BY <1>2 DEF Orders
<1>9. seen[t].final \in [1..Cardinality(S) -> Nat] BY <1>1, <1>7, <1>8
<1>10. \A i, j \in 1..Cardinality(S) : seen[t].order[i] = seen[t].order[j] => i = j
    BY <1>2 DEF Orders
<1> QED BY <1>3, <1>4, <1>8, <1>9, <1>10

LEMMA ReadsMax == ASSUME IInv, NEW t \in Tx, ReadMax(t) PROVE IInv'
<1>1. TypeOK /\ Sound(t) /\ PositionsAreDense BY DEF IInv
<1>2. op[t] = "reorder" /\ locked[t] = {}
    BY <1>1 DEF ReadMax, TypeOK, Kind, Sound, IdleStands, CreationStands, ReorderStands
<1>3. Last(Existing) + 1 \in Nat \ {0} BY <1>1, RowsAreFinite, LastIsHighest
<1>4. seen \in [Tx -> Seen] BY <1>1 DEF TypeOK
<1>5. /\ seen' = [seen EXCEPT ![t] = [seen[t] EXCEPT !.base = Last(Existing) + 1, !.next = 1]]
      /\ pc' = [pc EXCEPT ![t] = "move"] /\ UNCHANGED <<child, locked, written, op>>
    BY DEF ReadMax
<1>6. /\ seen' \in [Tx -> Seen] /\ seen'[t].order = seen[t].order /\ seen'[t].final = seen[t].final
      /\ seen'[t].next = 1 /\ seen'[t].base # 0
      /\ \A u \in Tx \ {t} : seen'[u] = seen[u]
    BY <1>3, <1>4, <1>5 DEF Seen
<1>7. TypeOK' BY <1>1, <1>5, <1>6 DEF TypeOK, Stage
<1>8. Sound(t)'
  <2>1. WritesStand(t)' BY <1>1, <1>5 DEF Sound, WritesStand, Seems
  <2>2. pc'[t] = "move" BY <1>1, <1>5 DEF TypeOK
  <2>3. Existing' = Existing /\ Count' = Count BY <1>5 DEF Count, Existing
  <2>4. \A i \in DOMAIN seen[t].order : ~(i < 1) BY <1>1, ListShape
  <2>5. ReorderStands(t)
      BY <1>1 DEF Sound
  <2>6. ReorderStands(t)'
      BY <2>2, <2>3, <2>4, <2>5, <1>2, <1>5, <1>6 DEF ReorderStands, Increasing, Submitted
  <2> QED BY <2>1, <2>2, <2>6, <1>2, <1>5 DEF Sound, IdleStands, CreationStands
<1>9. \A u \in Tx \ {t} : pc'[u] = pc[u] BY <1>1, <1>5 DEF TypeOK
<1> QED BY <1>5, <1>6, <1>7, <1>8, <1>9, StaysApart, OwnAffairs

\* The entry of the list that is next, as long as there is one.
LEMMA NextEntry ==
  ASSUME IInv, NEW t \in Tx, pc[t] \in {"move", "place"}
  PROVE  /\ op[t] = "reorder" /\ Sound(t)
         /\ ~Finished(t) => /\ seen[t].next \in DOMAIN seen[t].order
                            /\ seen[t].order[seen[t].next] \in Children \cap Submitted(t)
         /\ \A i \in DOMAIN seen[t].order : Finished(t) => i < seen[t].next
<1>1. TypeOK /\ Sound(t) BY DEF IInv
<1>2. op[t] = "reorder"
    BY <1>1 DEF TypeOK, Kind, Sound, IdleStands, CreationStands, ReorderStands
<1>3. seen[t].next \in Nat \ {0}
    BY <1>1, <1>2 DEF TypeOK, Seen, Sound, ReorderStands
<1> QED BY <1>1, <1>2, <1>3, ListShape DEF Finished, Submitted

LEMMA LocksRow == ASSUME IInv, NEW t \in Tx, LockRow(t) PROVE IInv'
<1> DEFINE c == seen[t].order[seen[t].next]
<1>1. /\ pc[t] = "move" /\ ~Finished(t) /\ Lock(t, c)
      /\ UNCHANGED <<child, written, pc, op, seen>>
    BY DEF LockRow
<1>2. op[t] = "reorder" /\ Sound(t) /\ c \in Children /\ c \in Submitted(t) BY <1>1, NextEntry
<1>3. TypeOK BY DEF IInv
<1>4. /\ locked' \in [Tx -> SUBSET Children] /\ locked'[t] = locked[t] \cup {c}
      /\ \A u \in Tx \ {t} : locked'[u] = locked[u] /\ c \notin locked[u]
    BY <1>1, <1>2, <1>3 DEF Lock, RowHolders, TypeOK
<1>5. TypeOK' BY <1>1, <1>3, <1>4 DEF TypeOK
<1>6. Sound(t)'
  <2>1. WritesStand(t)' BY <1>1, <1>2, <1>4 DEF Sound, WritesStand, Seems
  <2>2. ReorderStands(t) BY <1>2 DEF Sound
  <2>3. Existing' = Existing /\ Count' = Count BY <1>1 DEF Count, Existing
  <2>4. ReorderStands(t)'
      BY <2>2, <2>3, <1>1, <1>2, <1>4 DEF ReorderStands, Increasing, Submitted
  <2> QED BY <2>1, <2>4, <1>1, <1>2 DEF Sound, IdleStands, CreationStands
<1>7. \A u \in Tx \ {t} : Apart(t, u)' BY <1>1, <1>4 DEF IInv, Apart
<1> QED BY <1>1, <1>4, <1>5, <1>6, <1>7, OwnAffairs

\* The index admits the next entry of t's list at p: t writes it, and goes on.
LEMMA Enters ==
  ASSUME IInv, NEW t \in Tx, NEW p \in Nat \ {0}, pc[t] \in {"move", "place"}, ~Finished(t),
         seen[t].order[seen[t].next] \in locked[t],
         Enter(t, seen[t].order[seen[t].next], p),
         pc[t] = "place" => p = seen[t].final[seen[t].next],
         seen' = [seen EXCEPT ![t] = [seen[t] EXCEPT !.next = @ + 1]], UNCHANGED <<child, locked, pc, op>>
  PROVE  IInv'
<1> DEFINE s == seen[t]
           c == s.order[s.next]
<1>1. TypeOK /\ op[t] = "reorder" /\ Sound(t) /\ c \in Children /\ s.next \in DOMAIN s.order
    BY NextEntry DEF IInv
<1>2. \A u \in Tx \ {t} : locked[t] \cap locked[u] = {} BY DEF IInv, Apart
<1>3. /\ written' \in [Tx -> [Children -> Nat]] /\ written'[t][c] = p
      /\ \A d \in Children \ {c} : written'[t][d] = written[t][d]
      /\ \A u \in Tx \ {t} : written'[u] = written[u]
      /\ WritesStand(t)' /\ \A u \in Tx \ {t} : Apart(t, u)'
  <2>1. locked' = locked /\ locked' \in [Tx -> SUBSET Children] BY <1>1 DEF TypeOK
  <2>2. \A u \in Tx \ {t} : locked'[u] = locked[u] /\ locked'[t] \cap locked[u] = {} BY <2>1, <1>2
  <2>3. c \in locked'[t] /\ locked[t] \subseteq locked'[t] BY <2>1
  <2> QED BY <1>1, <2>1, <2>2, <2>3, EntryIsApart
<1>4. seen \in [Tx -> Seen] /\ s \in Seen BY <1>1 DEF TypeOK
<1>5. /\ seen' \in [Tx -> Seen] /\ seen'[t].order = s.order /\ seen'[t].final = s.final
      /\ seen'[t].next = s.next + 1 /\ seen'[t].base = s.base
      /\ \A u \in Tx \ {t} : seen'[u] = seen[u]
    BY <1>4 DEF Seen
<1>6. TypeOK' BY <1>1, <1>3, <1>5 DEF TypeOK
<1>7. Sound(t)'
  <2>1. ReorderStands(t) BY <1>1 DEF Sound
  <2>2. Existing' = Existing /\ Count' = Count BY DEF Count, Existing
  <2>3. PICK n \in Nat : /\ s.order \in [1..n -> Children] /\ s.final \in [1..n -> Nat]
                         /\ DOMAIN s.order = 1..n
                         /\ \A i, j \in 1..n : s.order[i] = s.order[j] => i = j
      BY <1>1, ListShape
  <2>4. s.next \in Nat /\ s.next # 0 /\ s.base # 0 /\ s.next + 1 # 0
      BY <1>1, <2>1, <2>3 DEF ReorderStands
  <2>5. \A i \in 1..n : i < s.next + 1 => i < s.next \/ i = s.next BY <2>3, <2>4
  <2>6. ASSUME NEW i \in 1..n, i < s.next + 1, pc[t] = "place" PROVE written'[t][s.order[i]] = s.final[i]
    <3>1. CASE i = s.next BY <3>1, <2>6, <1>3
    <3>2. CASE i # s.next
      <4>1. s.order[i] # c /\ s.order[i] \in Children BY <3>2, <2>3, <1>1
      <4>2. written[t][s.order[i]] = s.final[i]
          BY <3>2, <2>5, <2>6, <2>1, <2>3, <1>1 DEF ReorderStands
      <4> QED BY <4>1, <4>2, <1>3
    <3> QED BY <3>1, <3>2
  <2>7. \A i \in 1..n : (pc[t] = "move" /\ i < s.next + 1) => s.order[i] \in locked[t]
      BY <2>1, <2>3, <2>5, <1>1 DEF ReorderStands
  <2>8. Submitted(t)' = Submitted(t) BY <1>5 DEF Submitted
  <2> HIDE DEF s, c
  <2>9. ReorderStands(t)'
    <3>1. /\ seen'[t].order = s.order /\ seen'[t].final = s.final /\ seen'[t].next = s.next + 1
          /\ seen'[t].base = s.base /\ DOMAIN s.order = 1..n
        BY <1>5, <2>3
    <3>2. /\ \A i \in 1..n : s.order[i] \in Existing /\ s.final[i] \in 1..Count
          /\ Increasing(s.final) /\ locked[t] \subseteq Submitted(t)
          /\ pc[t] = "place" => Submitted(t) \subseteq locked[t]
        BY <2>1, <2>3, <1>1 DEF ReorderStands, s
    <3>3. Increasing(seen[t].final)' BY <3>1, <3>2 DEF Increasing
    <3>4. pc' = pc /\ op' = op /\ locked' = locked OBVIOUS
    <3>5. pc[t] = "move" => \A i \in 1..n : i < seen'[t].next => s.order[i] \in locked[t]
        BY <3>1, <2>7
    <3>6. pc[t] = "place" => \A i \in 1..n : i < seen'[t].next => written'[t][s.order[i]] = s.final[i]
        BY <3>1, <2>6
    <3>7. pc'[t] \in {"move", "place"} BY <3>4
    <3>8. \A i \in DOMAIN seen'[t].order :
            /\ seen'[t].order[i] \in Existing' /\ seen'[t].final[i] \in 1..Count'
            /\ pc'[t] = "place" /\ i < seen'[t].next => written'[t][seen'[t].order[i]] = seen'[t].final[i]
        BY <3>1, <3>2, <3>4, <3>6, <2>2
    <3>9. locked'[t] \subseteq Submitted(t)' /\ (pc'[t] = "place" => Submitted(t)' \subseteq locked'[t])
        BY <3>2, <3>4, <2>8
    <3>10. /\ seen'[t].base # 0 /\ seen'[t].next # 0
           /\ pc'[t] = "move" => \A i \in DOMAIN seen'[t].order : i < seen'[t].next => seen'[t].order[i] \in locked'[t]
        BY <3>1, <3>4, <3>5, <2>4
    <3> QED BY <3>3, <3>7, <3>8, <3>9, <3>10 DEF ReorderStands
  <2> QED BY <2>9, <1>1, <1>3 DEF Sound, IdleStands, CreationStands
<1> QED BY <1>3, <1>5, <1>6, <1>7, OwnAffairs

\* One of the two phases is over: t starts the next one with its first entry.
LEMMA PhaseEnds ==
  ASSUME IInv, NEW t \in Tx, pc[t] \in {"move", "place"}, Finished(t),
         NEW stage \in {"place", "commit"}, pc' = [pc EXCEPT ![t] = stage],
         stage = "place" => pc[t] = "move" /\ seen' = [seen EXCEPT ![t] = [seen[t] EXCEPT !.next = 1]],
         stage = "commit" => pc[t] = "place" /\ seen' = seen,
         UNCHANGED <<child, locked, written, op>>
  PROVE  IInv'
<1> DEFINE s == seen[t]
<1>1. TypeOK /\ op[t] = "reorder" /\ Sound(t) /\ \A i \in DOMAIN s.order : i < s.next
    BY NextEntry DEF IInv
<1>2. seen \in [Tx -> Seen] /\ s \in Seen BY <1>1 DEF TypeOK
<1>3. /\ seen' \in [Tx -> Seen] /\ seen'[t].order = s.order /\ seen'[t].final = s.final
      /\ seen'[t].next # 0 /\ (stage = "place" => seen'[t].next = 1) /\ seen'[t].base = s.base
      /\ \A u \in Tx \ {t} : seen'[u] = seen[u]
  <2>1. s.next # 0 BY <1>1 DEF Sound, ReorderStands
  <2> QED BY <1>2, <2>1 DEF Seen
<1>4. pc'[t] = stage /\ \A u \in Tx \ {t} : pc'[u] = pc[u] BY <1>1 DEF TypeOK
<1>5. TypeOK' BY <1>1, <1>3 DEF TypeOK, Stage
<1>6. Sound(t)'
  <2>1. ReorderStands(t) BY <1>1 DEF Sound
  <2>2. Existing' = Existing /\ Count' = Count /\ Submitted(t)' = Submitted(t)
      BY <1>3 DEF Count, Existing, Submitted
  <2>3. Submitted(t) \subseteq locked[t] BY <2>1, <1>1 DEF ReorderStands, Submitted
  <2>4. \A i \in DOMAIN s.order : stage = "place" => ~(i < 1) BY <1>1, ListShape
  <2>5. \A i \in DOMAIN s.order :
          /\ s.order[i] \in Existing /\ s.final[i] \in 1..Count
          /\ stage = "commit" => written[t][s.order[i]] = s.final[i]
      BY <2>1, <1>1 DEF ReorderStands
  <2>6. Increasing(s.final) /\ locked[t] \subseteq Submitted(t) /\ s.base # 0
      BY <2>1, <1>1 DEF ReorderStands
  <2>7. Increasing(seen[t].final)' BY <2>6, <1>3 DEF Increasing
  <2> HIDE DEF s
  <2>8. ReorderStands(t)'
      BY <2>2, <2>3, <2>4, <2>5, <2>6, <2>7, <1>3, <1>4 DEF ReorderStands
  <2>9. WritesStand(t)' BY <1>1 DEF Sound, WritesStand, Seems
  <2> QED BY <2>8, <2>9, <1>1, <1>4 DEF Sound, IdleStands, CreationStands
<1> QED BY <1>3, <1>4, <1>5, <1>6, StaysApart, OwnAffairs

LEMMA Moves == ASSUME IInv, NEW t \in Tx, Move(t) PROVE IInv'
<1> DEFINE s == seen[t]
<1>1. TypeOK /\ pc[t] = "move" /\ UNCHANGED <<child, locked, op>> BY DEF Move, IInv
<1>2. CASE Finished(t)
  <2>1. /\ pc' = [pc EXCEPT ![t] = "place"] /\ seen' = [seen EXCEPT ![t] = [seen[t] EXCEPT !.next = 1]]
        /\ UNCHANGED written
      BY <1>2 DEF Move
  <2> QED BY <2>1, <1>1, <1>2, PhaseEnds
<1>3. CASE ~Finished(t)
  <2>1. /\ s.order[s.next] \in locked[t] /\ Enter(t, s.order[s.next], s.base + s.next - 1)
        /\ seen' = [seen EXCEPT ![t] = [seen[t] EXCEPT !.next = @ + 1]] /\ UNCHANGED pc
      BY <1>3 DEF Move
  <2>2. op[t] = "reorder" /\ Sound(t) BY <1>1, NextEntry
  <2>3. s.base # 0 /\ s.next # 0 BY <2>2, <1>1 DEF Sound, ReorderStands
  <2>4. s.base \in Nat /\ s.next \in Nat BY <1>1 DEF TypeOK, Seen
  <2>5. s.base + s.next - 1 \in Nat \ {0} BY <2>3, <2>4
  <2> QED BY <2>1, <2>5, <1>1, <1>3, Enters
<1> QED BY <1>2, <1>3

LEMMA Places == ASSUME IInv, NEW t \in Tx, Place(t) PROVE IInv'
<1> DEFINE s == seen[t]
<1>1. TypeOK /\ pc[t] = "place" /\ UNCHANGED <<child, locked, op>> BY DEF Place, IInv
<1>2. op[t] = "reorder" /\ Sound(t) BY <1>1, NextEntry
<1>4. CASE Finished(t)
  <2>1. pc' = [pc EXCEPT ![t] = "commit"] /\ UNCHANGED <<written, seen>> BY <1>4 DEF Place
  <2> QED BY <2>1, <1>1, <1>4, PhaseEnds
<1>5. CASE ~Finished(t)
  <2>1. /\ Enter(t, s.order[s.next], s.final[s.next])
        /\ seen' = [seen EXCEPT ![t] = [seen[t] EXCEPT !.next = @ + 1]] /\ UNCHANGED pc
      BY <1>5 DEF Place
  <2>2. s.next \in DOMAIN s.order /\ s.order[s.next] \in Submitted(t) BY <1>1, <1>5, NextEntry
  <2>3. s.order[s.next] \in locked[t] /\ s.final[s.next] \in 1..Count
      BY <2>2, <1>1, <1>2 DEF Sound, ReorderStands
  <2>4. s.final[s.next] \in Nat \ {0} BY <2>3, <1>1, RowsAreFinite
  <2> QED BY <2>1, <2>3, <2>4, <1>1, <1>5, Enters
<1> QED BY <1>4, <1>5

\* The end of a transaction, in so far as it is t's own affair.
LEMMA EndLeavesNothing ==
  ASSUME TypeOK, NEW t \in Tx, End(t)
  PROVE  /\ pc' \in [Tx -> Stage] /\ op' \in [Tx -> Kind] /\ seen' \in [Tx -> Seen]
         /\ locked' \in [Tx -> SUBSET Children] /\ written' \in [Tx -> [Children -> Nat]]
         /\ \A u \in Tx : DOMAIN seen'[u].final = DOMAIN seen'[u].order
         /\ pc'[t] = "idle" /\ op'[t] = "none" /\ locked'[t] = {} /\ \A c \in Children : written'[t][c] = 0
         /\ \A u \in Tx \ {t} : /\ pc'[u] = pc[u] /\ op'[u] = op[u] /\ seen'[u] = seen[u]
                                /\ locked'[u] = locked[u] /\ written'[u] = written[u]
<1>1. NothingSeen \in Seen /\ DOMAIN NothingSeen.final = DOMAIN NothingSeen.order BY NothingIsSeen
<1> QED BY <1>1 DEF TypeOK, End, Stage, Kind

LEMMA RollsBack == ASSUME IInv, NEW t \in Tx, Rollback(t) PROVE IInv'
<1>1. TypeOK /\ End(t) /\ child' = child BY DEF IInv, Rollback
<1>2. TypeOK' BY <1>1, EndLeavesNothing DEF TypeOK
<1>3. Sound(t)'
    BY <1>1, EndLeavesNothing DEF Sound, IdleStands, CreationStands, ReorderStands, WritesStand
<1>4. \A u \in Tx \ {t} : Apart(t, u)' BY <1>1, EndLeavesNothing DEF Apart
<1> QED BY <1>1, <1>2, <1>3, <1>4, EndLeavesNothing, OwnAffairs

-----------------------------------------------------------------------------
(* The steps that change rows *)

LEMMA IntervalsGrow ==
  ASSUME NEW m \in Nat, NEW n \in Nat, m <= n
  PROVE  1..m \subseteq 1..n /\ 1..(m + 1) \subseteq 1..(n + 1)
  OBVIOUS

\* What u relies on when rows change: those it has locked keep their status, none
\* disappears, and none comes to a position that u has entered.
LEMMA RowsMayChange ==
  ASSUME IInv, NEW u \in Tx, Existing \subseteq Existing', Count <= Count', Count' \in Nat,
         locked'[u] = locked[u], written'[u] = written[u],
         pc'[u] = pc[u], op'[u] = op[u], seen'[u] = seen[u],
         \A c \in locked[u] : child'[c].status = child[c].status,
         \A c, d \in Children :
           \/ child'[d].position = child[d].position
           \/ written[u][c] # 0 => child'[d].position # written[u][c]
  PROVE  Sound(u)'
<1>1. TypeOK /\ Sound(u) /\ Count \in Nat BY RowsAreFinite DEF IInv
<1>2. 1..Count \subseteq 1..Count' /\ 1..(Count + 1) \subseteq 1..(Count' + 1) BY <1>1, IntervalsGrow
<1>3. WritesStand(u)'
  <2>1. ASSUME NEW c \in Children, written[u][c] # 0, NEW d \in Children \ {c}
        PROVE  Seems(u, d)' # written[u][c]
    <3>1. Seems(u, d) # written[u][c] BY <2>1, <1>1 DEF Sound, WritesStand
    <3>2. Seems(u, d)' = IF written[u][d] # 0 THEN written[u][d] ELSE child'[d].position BY DEF Seems
    <3> QED BY <2>1, <3>1, <3>2 DEF Seems
  <2>2. \A c \in Children : written[u][c] # 0 => c \in locked[u] BY <1>1 DEF Sound, WritesStand
  <2> QED BY <2>1, <2>2 DEF WritesStand
<1>4. IdleStands(u)' BY <1>1 DEF Sound, IdleStands
<1>5. CreationStands(u)'
  <2>1. CreationStands(u) BY <1>1 DEF Sound
  <2> QED BY <2>1, <1>2 DEF CreationStands
<1>6. ReorderStands(u)'
  <2>1. ReorderStands(u) /\ Submitted(u)' = Submitted(u) BY <1>1 DEF Sound, Submitted
  <2> QED BY <2>1, <1>2 DEF ReorderStands, Increasing
<1> QED BY <1>3, <1>4, <1>5, <1>6 DEF Sound

\* What t has written takes effect.
LEMMA RowsAfterCommit ==
  ASSUME IInv, NEW t \in Tx, Commit(t)
  PROVE  /\ TypeOK'
         /\ \A c \in Children : /\ child'[c].position = Seems(t, c)
                                /\ written[t][c] = 0 => child'[c] = child[c]
                                /\ child[c].status # "absent" => child'[c].status = child[c].status
                                /\ child'[c].status # "archived" \/ child[c].status # "absent"
         /\ Existing' = Existing \cup {c \in Children : written[t][c] # 0}
         /\ \A c, d \in Existing' : Seems(t, c) = Seems(t, d) => c = d
<1>1. TypeOK /\ End(t) /\ WritesStand(t) /\ PositionsAreDense BY DEF IInv, Commit, Sound
<1>2. \A c \in Children :
        child'[c] = IF written[t][c] = 0 THEN child[c]
                    ELSE [status |-> IF child[c].status = "absent" THEN "listed" ELSE child[c].status,
                          position |-> written[t][c]]
    BY DEF Commit
<1>3. child' = [c \in Children |-> child'[c]] BY DEF Commit
<1>4. written[t] \in [Children -> Nat] BY <1>1 DEF TypeOK
<1>5. ASSUME NEW c \in Children
      PROVE  /\ child'[c] \in Child /\ (child'[c].status = "absent" <=> child'[c].position = 0)
             /\ child'[c].position = Seems(t, c)
             /\ child'[c].status # "absent" <=> child[c].status # "absent" \/ written[t][c] # 0
             /\ child[c].status # "absent" => child'[c].status = child[c].status
             /\ child'[c].status # "archived" \/ child[c].status # "absent"
  <2>1. child[c] \in Child /\ written[t][c] \in Nat /\ (child[c].status = "absent" <=> child[c].position = 0)
      BY <1>1, <1>4 DEF TypeOK
  <2>2. CASE written[t][c] = 0 BY <2>1, <2>2, <1>2 DEF Seems
  <2>3. CASE written[t][c] # 0
    <3>1. PICK status \in {"listed", "archived"} :
            /\ child'[c] = [status |-> status, position |-> written[t][c]]
            /\ status = IF child[c].status = "absent" THEN "listed" ELSE child[c].status
        BY <2>1, <2>3, <1>2 DEF Child
    <3> QED BY <3>1, <2>1, <2>3 DEF Child, Seems
  <2> QED BY <2>2, <2>3
<1>6. TypeOK' BY <1>1, <1>3, <1>5, EndLeavesNothing DEF TypeOK
<1>7. \A c \in Children : /\ child'[c].position = Seems(t, c)
                          /\ written[t][c] = 0 => child'[c] = child[c]
                          /\ child[c].status # "absent" => child'[c].status = child[c].status
                          /\ child'[c].status # "archived" \/ child[c].status # "absent"
    BY <1>2, <1>5
<1>8. Existing' = Existing \cup {c \in Children : written[t][c] # 0}
  <2>1. \A c \in Children : child'[c].status # "absent" <=> child[c].status # "absent" \/ written[t][c] # 0
      BY <1>5
  <2> QED BY <2>1 DEF Existing
<1>9. ASSUME NEW c \in Existing', NEW d \in Existing', Seems(t, c) = Seems(t, d), c # d PROVE FALSE
  <2>1. c \in Children /\ d \in Children BY DEF Existing
  <2>2. written[t][c] = 0 /\ written[t][d] = 0 BY <2>1, <1>1, <1>9 DEF WritesStand, Seems
  <2>3. c \in Existing /\ d \in Existing /\ child[c].position = child[d].position
      BY <2>2, <1>8, <1>9 DEF Seems
  <2> QED BY <2>3, <1>1, <1>9 DEF PositionsAreDense
<1> QED BY <1>6, <1>7, <1>8, <1>9

\* A creation adds the position after the last: of those it may have computed,
\* it is the only one where it sees no row.
LEMMA CreationAppends ==
  ASSUME IInv, NEW t \in Tx, Commit(t), op[t] = "create"
  PROVE  \E c \in Children \ Existing :
           /\ Existing' = Existing \cup {c} /\ Count' = Count + 1
           /\ child'[c].position = Count + 1
           /\ \A d \in Existing : child'[d] = child[d]
<1>1. TypeOK /\ Sound(t) /\ PositionsAreDense /\ pc[t] = "commit" BY DEF IInv, Commit
<1>2. /\ \A c \in Children : child'[c].position = Seems(t, c)
      /\ \A c \in Children : written[t][c] = 0 => child'[c] = child[c]
      /\ Existing' = Existing \cup {c \in Children : written[t][c] # 0}
      /\ \A c, d \in Existing' : Seems(t, c) = Seems(t, d) => c = d
      /\ Existing' \subseteq Children
    BY RowsAfterCommit DEF Existing
<1>3. IsFiniteSet(Existing) /\ Count \in Nat /\ Existing \subseteq Children BY <1>1, RowsAreFinite
<1>4. PositionsOf(Existing) = 1..Count BY <1>1 DEF PositionsAreDense, Count
<1>5. PICK c \in Children : locked[t] = {c} /\ child[c].status = "absent" /\ written[t][c] = seen[t].base
    BY <1>1 DEF Sound, CreationStands
<1>6. seen[t].base \in 1..(Count + 1) BY <1>1 DEF Sound, CreationStands
<1>7. written[t][c] # 0 /\ \A d \in Children \ {c} : written[t][d] = 0
    BY <1>5, <1>6, <1>1, <1>3 DEF Sound, WritesStand
<1>8. Existing' = Existing \cup {c} /\ c \notin Existing BY <1>5, <1>7, <1>2 DEF Existing
<1>9. Count' = Count + 1 BY <1>8, <1>3, FS_AddElement DEF Count
<1>10. \A d \in Existing : /\ child'[d] = child[d]
                          /\ Seems(t, d) = child[d].position /\ Seems(t, d) # Seems(t, c)
    BY <1>7, <1>8, <1>2, <1>3 DEF Seems
<1>11. Seems(t, c) = seen[t].base BY <1>5, <1>7 DEF Seems
<1>12. seen[t].base \notin PositionsOf(Existing) BY <1>10, <1>11 DEF PositionsOf
<1>13. seen[t].base = Count + 1 BY <1>12, <1>6, <1>3, <1>4
<1> QED BY <1>2, <1>8, <1>9, <1>10, <1>11, <1>13

\* A reorder gives its rows positions in use, and no new row appears.
LEMMA ReorderKeepsRows ==
  ASSUME IInv, NEW t \in Tx, Commit(t), op[t] = "reorder"
  PROVE  /\ Existing' = Existing /\ Count' = Count
         /\ \A c \in Existing : child'[c].position \in 1..Count
<1>1. TypeOK /\ Sound(t) /\ PositionsAreDense /\ pc[t] = "commit" BY DEF IInv, Commit
<1>2. /\ \A c \in Children : child'[c].position = Seems(t, c)
      /\ Existing' = Existing \cup {c \in Children : written[t][c] # 0}
    BY RowsAfterCommit
<1>3. Existing \subseteq Children BY DEF Existing
<1>4. PositionsOf(Existing) = 1..Count BY <1>1 DEF PositionsAreDense, Count
<1>5. \A c \in Children : written[t][c] # 0 => c \in Existing /\ written[t][c] \in 1..Count
  <2> SUFFICES ASSUME NEW c \in Children, written[t][c] # 0
               PROVE  c \in Existing /\ written[t][c] \in 1..Count
      OBVIOUS
  <2>1. c \in Submitted(t) BY <1>1 DEF Sound, WritesStand, ReorderStands
  <2>2. PICK i \in DOMAIN seen[t].order : c = seen[t].order[i] BY <2>1 DEF Submitted
  <2> QED BY <2>2, <1>1 DEF Sound, ReorderStands
<1>6. Existing' = Existing BY <1>5, <1>2
<1>7. \A c \in Existing : Seems(t, c) \in 1..Count BY <1>5, <1>3, <1>4 DEF Seems, PositionsOf
<1> QED BY <1>6, <1>7, <1>2, <1>3 DEF Count

\* No commit leaves a gap or a duplicate: a creation appends, and a reorder has
\* given its rows places in use, no two the same.
LEMMA CommitIsDense ==
  ASSUME IInv, NEW t \in Tx, Commit(t)
  PROVE  PositionsAreDense' /\ Count' \in Nat /\ Count <= Count' /\ Existing \subseteq Existing'
<1>1. TypeOK /\ PositionsAreDense /\ op[t] \in {"create", "reorder"}
    BY DEF IInv, Commit, TypeOK, Kind, Sound, IdleStands
<1>2. \A c, d \in Existing' : child'[c].position = child'[d].position => c = d
    BY RowsAfterCommit DEF Existing
<1>3. IsFiniteSet(Existing) /\ Count \in Nat BY <1>1, RowsAreFinite
<1>4. PositionsOf(Existing)' = {child'[c].position : c \in Existing'} BY DEF PositionsOf
<1>5. PositionsOf(Existing) = 1..Count BY <1>1 DEF PositionsAreDense, Count
<1>6. CASE op[t] = "create"
  <2>1. PICK c \in Children \ Existing :
          /\ Existing' = Existing \cup {c} /\ Count' = Count + 1
          /\ child'[c].position = Count + 1
          /\ \A d \in Existing : child'[d] = child[d]
      BY <1>6, CreationAppends
  <2>2. PositionsOf(Existing)' = PositionsOf(Existing) \cup {Count + 1}
      BY <2>1, <1>4, ZenonT(30) DEF PositionsOf
  <2>3. (1..Count) \cup {Count + 1} = 1..(Count + 1) BY <1>3
  <2>4. PositionsOf(Existing)' = 1..Count' BY <2>1, <2>2, <2>3, <1>5, Zenon
  <2> QED BY <2>1, <2>4, <1>2, <1>3 DEF PositionsAreDense, Count
<1>7. CASE op[t] = "reorder"
  <2>1. /\ Existing' = Existing /\ Count' = Count
        /\ \A c \in Existing : child'[c].position \in 1..Count
      BY <1>7, ReorderKeepsRows
  <2> DEFINE at == [c \in Existing |-> child'[c].position]
  <2>2. at \in Injection(Existing, 1..Count) BY <2>1, <1>2 DEF Injection, IsInjective
  <2>3. IsFiniteSet(1..Count) /\ Cardinality(1..Count) = Count BY <1>3, FS_Interval
  <2>4. at \in Surjection(Existing, 1..Count) BY <2>2, <2>3, <1>3, FS_Injection DEF Count
  <2>5. \A p \in 1..Count : \E c \in Existing : child'[c].position = p BY <2>4 DEF Surjection
  <2>6. PositionsOf(Existing)' = 1..Count BY <2>1, <2>5, <1>4
  <2> QED BY <2>1, <2>6, <1>2, <1>3 DEF PositionsAreDense, Count
<1> QED BY <1>1, <1>6, <1>7

LEMMA Commits == ASSUME IInv, NEW t \in Tx, Commit(t) PROVE IInv'
<1>1. TypeOK /\ End(t) BY DEF IInv, Commit
<1>2. Sound(t)'
    BY <1>1, EndLeavesNothing DEF Sound, IdleStands, CreationStands, ReorderStands, WritesStand
<1>3. ASSUME NEW u \in Tx \ {t} PROVE Sound(u)'
  <2>1. Apart(t, u) /\ WritesStand(t) BY DEF IInv, Sound
  <2>2. ASSUME NEW c \in locked[u] PROVE child'[c].status = child[c].status
    <3>1. c \in Children /\ written[t][c] = 0 BY <2>1, <1>1 DEF Apart, WritesStand, TypeOK
    <3> QED BY <3>1, RowsAfterCommit
  <2>3. ASSUME NEW c \in Children, NEW d \in Children
        PROVE  \/ child'[d].position = child[d].position
               \/ written[u][c] # 0 => child'[d].position # written[u][c]
    <3>1. CASE written[t][d] = 0 BY <3>1, RowsAfterCommit
    <3>2. CASE written[t][d] # 0 BY <3>2, <2>1, RowsAfterCommit DEF Seems, Apart
    <3> QED BY <3>1, <3>2
  <2> QED BY <2>2, <2>3, <1>1, EndLeavesNothing, CommitIsDense, RowsMayChange
<1>4. ASSUME NEW u \in Tx, NEW v \in Tx, u # v PROVE Apart(u, v)'
  <2>1. CASE u = t BY <2>1, <1>1, <1>4, EndLeavesNothing DEF Apart
  <2>2. CASE v = t BY <2>2, <1>1, <1>4, EndLeavesNothing DEF Apart
  <2>3. CASE u # t /\ v # t
    <3>1. /\ locked'[u] = locked[u] /\ written'[u] = written[u]
          /\ locked'[v] = locked[v] /\ written'[v] = written[v]
        BY <2>3, <1>1, EndLeavesNothing
    <3>2. Apart(u, v) BY <1>4 DEF IInv
    <3> QED BY <3>1, <3>2 DEF Apart
  <2> QED BY <2>1, <2>2, <2>3
<1> QED BY <1>2, <1>3, <1>4, RowsAfterCommit, CommitIsDense DEF IInv

\* Archiving and restoring move no row and touch none that is locked.
LEMMA StatusChanges ==
  ASSUME IInv, NEW c \in Children, Archive(c) \/ Restore(c)
  PROVE  IInv'
<1>1. TypeOK /\ PositionsAreDense BY DEF IInv
<1>2. PICK status \in {"listed", "archived"} : child' = [child EXCEPT ![c].status = status]
    BY DEF Archive, Restore
<1>3. /\ child[c].status # "absent" /\ \A t \in Tx : c \notin locked[t]
      /\ UNCHANGED <<locked, written, pc, op, seen>>
    BY DEF Archive, Restore
<1>4. /\ child' \in [Children -> Child] /\ child'[c].status # "absent"
      /\ \A d \in Children : child'[d].position = child[d].position
      /\ \A d \in Children \ {c} : child'[d] = child[d]
    BY <1>1, <1>2 DEF TypeOK, Child
<1>5. TypeOK' BY <1>1, <1>3, <1>4 DEF TypeOK
<1>6. Existing' = Existing /\ Count' = Count BY <1>3, <1>4 DEF Existing, Count
<1>7. PositionsAreDense'
  <2>1. PositionsOf(Existing)' = PositionsOf(Existing) BY <1>4, <1>6 DEF PositionsOf, Existing
  <2> QED BY <2>1, <1>1, <1>4, <1>6 DEF PositionsAreDense, Existing, Count
<1>8. ASSUME NEW u \in Tx PROVE Sound(u)'
  <2>1. \A d \in locked[u] : child'[d].status = child[d].status BY <1>1, <1>3, <1>4 DEF TypeOK
  <2> QED BY <2>1, <1>1, <1>3, <1>4, <1>6, RowsAreFinite, RowsMayChange
<1>9. \A t, u \in Tx : t # u => Apart(t, u)' BY <1>3 DEF IInv, Apart
<1> QED BY <1>5, <1>7, <1>8, <1>9 DEF IInv

-----------------------------------------------------------------------------
(* What holds of every behaviour *)

THEOREM Invariance == Spec => []IInv
<1>1. ASSUME IInv, [Next]_vars PROVE IInv'
  <2>1. ASSUME NEW t \in Tx,
               \/ Create(t) \/ Insert(t)
               \/ Reorder(t) \/ ReadMax(t) \/ LockRow(t) \/ Move(t) \/ Place(t)
               \/ Commit(t) \/ Rollback(t)
        PROVE  IInv'
      BY <1>1, <2>1, Creates, Inserts, Reorders, ReadsMax, LocksRow, Moves, Places, Commits, RollsBack
  <2>2. ASSUME NEW c \in Children, Archive(c) \/ Restore(c) PROVE IInv'
      BY <1>1, <2>2, StatusChanges
  <2>3. CASE UNCHANGED vars
    <3>1. TypeOK' BY <1>1, <2>3 DEF IInv, TypeOK, vars
    <3>2. PositionsAreDense' BY <1>1, <2>3 DEF IInv, PositionsAreDense, PositionsOf, Existing, vars
    <3>3. \A t \in Tx : Sound(t)' BY <1>1, <2>3, StandsStill DEF IInv, vars
    <3>4. \A t, u \in Tx : t # u => Apart(t, u)' BY <1>1, <2>3 DEF IInv, Apart, vars
    <3> QED BY <3>1, <3>2, <3>3, <3>4 DEF IInv
  <2> QED BY <1>1, <2>1, <2>2, <2>3 DEF Next
<1> QED BY <1>1, Initially, PTL DEF Spec

\* Rows, locks and requests keep their shape, and a submitted list names every
\* row once, with a position for each (TypeOK).
THEOREM TypeCorrect == Spec => []TypeOK
<1>1. IInv => TypeOK BY DEF IInv
<1> QED BY <1>1, Invariance, PTL

\* The positions of the children of a parent are 1 to their number, whatever
\* creations, reorders, archivals and crashes overlap.
THEOREM PositionsStayDense == Spec => []PositionsAreDense
<1>1. IInv => PositionsAreDense BY DEF IInv
<1> QED BY <1>1, Invariance, PTL

\* A reorder that commits leaves its children in the order it was submitted.
THEOREM ReordersAreHonoured == Spec => ReorderIsHonoured
<1> DEFINE Honoured(t) ==
      pc[t] = "commit" /\ op[t] = "reorder" /\ child' # child /\ written'[t] # written[t] =>
        \A i, j \in DOMAIN seen[t].order :
          i < j => child'[seen[t].order[i]].position < child'[seen[t].order[j]].position
<1>1. ASSUME IInv, [Next]_vars, NEW t \in Tx PROVE Honoured(t)
  <2> SUFFICES ASSUME pc[t] = "commit", op[t] = "reorder", child' # child, written'[t] # written[t],
                      NEW i \in DOMAIN seen[t].order, NEW j \in DOMAIN seen[t].order, i < j
               PROVE  child'[seen[t].order[i]].position < child'[seen[t].order[j]].position
      OBVIOUS
  <2>1. Commit(t)
    <3>1. \A c \in Children : ~Archive(c) /\ ~Restore(c) BY DEF Archive, Restore
    <3>2. \E u \in Tx : Commit(u)
        BY <1>1, <3>1 DEF Next, vars, Create, Insert, Reorder, ReadMax, LockRow, Move, Place, Rollback
    <3>3. \A u \in Tx \ {t} : ~Commit(u) BY <1>1, EndLeavesNothing DEF IInv, Commit
    <3> QED BY <3>2, <3>3
  <2>2. TypeOK /\ ReorderStands(t) BY <1>1 DEF IInv, Sound
  <2>3. PICK n \in Nat : /\ seen[t].order \in [1..n -> Children] /\ seen[t].final \in [1..n -> Nat]
                         /\ DOMAIN seen[t].order = 1..n
      BY <2>2, ListShape
  <2>4. \A k \in 1..n : /\ written[t][seen[t].order[k]] = seen[t].final[k]
                        /\ seen[t].final[k] \in 1..Count
      BY <2>2, <2>3 DEF ReorderStands
  <2>5. ASSUME NEW k \in 1..n PROVE child'[seen[t].order[k]].position = seen[t].final[k]
    <3>1. seen[t].order[k] \in Children BY <2>3
    <3>2. child'[seen[t].order[k]].position = Seems(t, seen[t].order[k])
        BY <3>1, <2>1, <1>1, RowsAfterCommit
    <3>3. seen[t].final[k] # 0 BY <2>4, <2>2, RowsAreFinite
    <3> QED BY <3>2, <3>3, <2>4 DEF Seems
  <2>6. seen[t].final[i] < seen[t].final[j] BY <2>2, <2>3 DEF ReorderStands, Increasing
  <2> QED BY <2>3, <2>5, <2>6
<1>2. IInv /\ [Next]_vars => \A t \in Tx : Honoured(t) BY <1>1
<1>3. (\A t \in Tx : Honoured(t)) <=>
        (\A t \in Tx :
           pc[t] = "commit" /\ op[t] = "reorder" /\ child' # child /\ written'[t] # written[t] =>
             \A i, j \in DOMAIN seen[t].order :
               i < j => child'[seen[t].order[i]].position < child'[seen[t].order[j]].position)
    OBVIOUS
<1> QED BY <1>2, Invariance, PTL DEF Spec, ReorderIsHonoured

-----------------------------------------------------------------------------
(* The refinement *)

\* The rows of E at their positions, as a function of the position.
PlacesOf(E, rows) == [p \in {rows[c].position : c \in E} |-> CHOOSE c \in E : rows[c].position = p]

\* The rows of E have the positions 1 to n.
Dense(E, rows, n) ==
  /\ \A c \in E : rows[c].position \in 1..n
  /\ \A p \in 1..n : \E c \in E : rows[c].position = p
  /\ \A c, d \in E : rows[c].position = rows[d].position => c = d

\* When positions are dense, there is one row of E at each.
LEMMA PlacesAreTaken ==
  ASSUME NEW E, NEW rows, NEW n \in Nat, Dense(E, rows, n)
  PROVE  /\ DOMAIN PlacesOf(E, rows) = 1..n
         /\ PlacesOf(E, rows) = [p \in 1..n |-> PlacesOf(E, rows)[p]]
         /\ \A p \in 1..n : PlacesOf(E, rows)[p] \in E /\ rows[PlacesOf(E, rows)[p]].position = p
         /\ \A c \in E : rows[c].position \in 1..n /\ PlacesOf(E, rows)[rows[c].position] = c
         /\ {PlacesOf(E, rows)[p] : p \in 1..n} = E
<1> DEFINE f == PlacesOf(E, rows)
<1> USE DEF Dense
<1>0. {rows[c].position : c \in E} = 1..n OBVIOUS
<1>1. f = [p \in 1..n |-> CHOOSE c \in E : rows[c].position = p] BY <1>0 DEF PlacesOf
<1>2. ASSUME NEW p \in 1..n PROVE f[p] \in E /\ rows[f[p]].position = p
  <2>1. \E c \in E : rows[c].position = p OBVIOUS
  <2>2. f[p] = CHOOSE c \in E : rows[c].position = p BY <1>1
  <2> QED BY <2>1, <2>2
<1>3. ASSUME NEW c \in E PROVE rows[c].position \in 1..n /\ f[rows[c].position] = c
  <2>1. rows[c].position \in 1..n OBVIOUS
  <2> QED BY <2>1, <1>2
<1> HIDE DEF f
<1>4. f = [p \in 1..n |-> f[p]] /\ DOMAIN f = 1..n BY <1>1
<1>5. {f[p] : p \in 1..n} = E BY <1>2, <1>3
<1> QED BY <1>2, <1>3, <1>4, <1>5 DEF f

\* The abstract list has one place for each row.
LEMMA ListOfRows ==
  ASSUME TypeOK, PositionsAreDense
  PROVE  /\ InOrder \in Seq(Existing) /\ Len(InOrder) = Count /\ DOMAIN InOrder = 1..Count
         /\ InOrder = PlacesOf(Existing, child)
         /\ Siblings!Members = Existing
<1>1. Count \in Nat BY RowsAreFinite
<1>2. InOrder = PlacesOf(Existing, child) BY DEF InOrder, PlacesOf, PositionsOf
<1>3. Dense(Existing, child, Count) BY DEF PositionsAreDense, PositionsOf, Count, Dense
<1>4. /\ DOMAIN InOrder = 1..Count /\ {InOrder[p] : p \in 1..Count} = Existing
      /\ InOrder = [p \in 1..Count |-> InOrder[p]] /\ \A p \in 1..Count : InOrder[p] \in Existing
    BY <1>1, <1>2, <1>3, PlacesAreTaken
<1>5. InOrder \in [1..Count -> Existing] BY <1>4
<1>6. InOrder \in Seq(Existing) /\ Len(InOrder) = Count BY <1>1, <1>4, <1>5, LenProperties
<1> QED BY <1>2, <1>4, <1>6 DEF Siblings!Members

\* The commit of a creation adds its child at the end of the list.
LEMMA CreationRefines ==
  ASSUME IInv, TypeOK', PositionsAreDense', NEW t \in Tx, Commit(t), op[t] = "create"
  PROVE  \E c \in Children : Siblings!Add(c)
<1>1. PICK c \in Children \ Existing :
        /\ Existing' = Existing \cup {c} /\ Count' = Count + 1
        /\ child'[c].position = Count + 1
        /\ \A d \in Existing : child'[d] = child[d]
    BY CreationAppends
<1>2. TypeOK /\ PositionsAreDense /\ Count \in Nat BY RowsAreFinite DEF IInv
<1> DEFINE new == PlacesOf(Existing', child')
<1>3. /\ InOrder \in Seq(Existing) /\ Len(InOrder) = Count
      /\ InOrder = PlacesOf(Existing, child) /\ Siblings!Members = Existing
    BY <1>2, ListOfRows
<1>4. InOrder' = new BY DEF InOrder, PlacesOf, PositionsOf
<1>5. Dense(Existing, child, Count) /\ Dense(Existing', child', Count + 1)
    BY <1>1, <1>2 DEF PositionsAreDense, PositionsOf, Count, Dense
<1>6. /\ new = [p \in 1..(Count + 1) |-> new[p]]
      /\ \A d \in Existing' : new[child'[d].position] = d
    BY <1>2, <1>5, PlacesAreTaken
<1>7. \A p \in 1..Count : InOrder[p] \in Existing /\ child[InOrder[p]].position = p
    BY <1>2, <1>3, <1>5, PlacesAreTaken
<1> HIDE DEF new
<1>8. new[Count + 1] = c BY <1>1, <1>6
<1>9. \A p \in 1..Count : new[p] = InOrder[p] BY <1>1, <1>6, <1>7
<1>10. new = Append(InOrder, c)
  <2> DEFINE longer == Append(InOrder, c)
  <2>1. InOrder \in Seq(Existing \cup {c}) BY <1>3
  <2>2. /\ longer \in Seq(Existing \cup {c}) /\ Len(longer) = Count + 1
        /\ \A p \in 1..Count : longer[p] = InOrder[p]
        /\ longer[Count + 1] = c
      BY <2>1, <1>3, AppendProperties
  <2> HIDE DEF longer
  <2>3. longer = [p \in 1..(Count + 1) |-> longer[p]] BY <2>2, LenProperties
  <2>4. \A p \in 1..(Count + 1) : p = Count + 1 \/ p \in 1..Count BY <1>2
  <2>5. \A p \in 1..(Count + 1) : longer[p] = new[p] BY <2>2, <2>4, <1>8, <1>9
  <2>6. new = longer BY <2>3, <2>5, <1>6
  <2> QED BY <2>6 DEF longer
<1>11. Archived' = Archived
  <2>1. \A d \in Children : child'[d].status = "archived" <=> child[d].status = "archived"
      BY RowsAfterCommit
  <2> QED BY <2>1 DEF Archived
<1> QED BY <1>1, <1>3, <1>4, <1>10, <1>11 DEF Siblings!Add

\* The commit of a reorder rearranges the list.
LEMMA ReorderRefines ==
  ASSUME IInv, TypeOK', PositionsAreDense', NEW t \in Tx, Commit(t), op[t] = "reorder"
  PROVE  Siblings!Rearrange
<1>1. Existing' = Existing /\ Count' = Count BY ReorderKeepsRows
<1>2. DOMAIN InOrder = 1..Count /\ Siblings!Members = Existing BY ListOfRows DEF IInv
<1>3. DOMAIN InOrder' = 1..Count' /\ Siblings!Members' = Existing'
  <2>1. InOrder' = PlacesOf(Existing', child') BY DEF InOrder, PlacesOf, PositionsOf
  <2>2. Dense(Existing', child', Count') BY DEF PositionsAreDense, PositionsOf, Count, Dense
  <2>3. Count' \in Nat BY <1>1, RowsAreFinite DEF IInv
  <2>4. DOMAIN InOrder' = 1..Count' /\ {InOrder'[p] : p \in 1..Count'} = Existing'
      BY <2>1, <2>2, <2>3, PlacesAreTaken
  <2> QED BY <2>4 DEF Siblings!Members
<1>4. Archived' = Archived
  <2>1. \A d \in Children : child'[d].status = "archived" <=> child[d].status = "archived"
      BY RowsAfterCommit
  <2> QED BY <2>1 DEF Archived
<1> QED BY <1>1, <1>2, <1>3, <1>4 DEF Siblings!Rearrange

\* Hiding and showing: the list stands still.
LEMMA StatusRefines ==
  ASSUME IInv, NEW c \in Children, Archive(c) \/ Restore(c)
  PROVE  Siblings!Hide(c) \/ Siblings!Show(c)
<1>1. TypeOK /\ Siblings!Members = Existing BY ListOfRows DEF IInv
<1>2. PICK status \in {"listed", "archived"} :
        child[c].status # "absent" /\ child' = [child EXCEPT ![c].status = status]
    BY DEF Archive, Restore
<1>3. /\ child'[c].status = status /\ child'[c].position = child[c].position
      /\ \A d \in Children \ {c} : child'[d] = child[d]
    BY <1>1, <1>2 DEF TypeOK, Child
<1>4. /\ \A d \in Children : child'[d].position = child[d].position
      /\ Existing' = Existing
    BY <1>2, <1>3 DEF Existing
<1>5. InOrder' = InOrder
  <2>1. \A d \in Existing : child'[d].position = child[d].position BY <1>4 DEF Existing
  <2>2. PositionsOf(Existing)' = PositionsOf(Existing) BY <1>4, <2>1 DEF PositionsOf
  <2>3. \A p : (CHOOSE d \in Existing : child'[d].position = p) = (CHOOSE d \in Existing : child[d].position = p)
      BY <2>1
  <2> QED BY <1>4, <2>2, <2>3 DEF InOrder
<1>6. CASE Archive(c)
  <2>1. child[c].status = "listed" /\ child'[c].status = "archived"
      BY <1>6, <1>1 DEF Archive, TypeOK, Child
  <2>2. Archived' = Archived \cup {c} /\ c \in Existing \ Archived
      BY <2>1, <1>3 DEF Archived, Existing
  <2> QED BY <2>2, <1>1, <1>5 DEF Siblings!Hide
<1>7. CASE Restore(c)
  <2>1. child[c].status = "archived" /\ child'[c].status = "listed"
      BY <1>7, <1>1 DEF Restore, TypeOK, Child
  <2>2. Archived' = Archived \ {c} /\ c \in Archived BY <2>1, <1>3 DEF Archived
  <2> QED BY <2>2, <1>5 DEF Siblings!Show
<1> QED BY <1>6, <1>7

\* Whatever statements and crashes overlap, the rows implement ChildList: every
\* commit is one operation on the list of children, and all else leaves it be.
THEOREM Refinement == Spec => ImplementsChildList
<1>1. Init => Siblings!Init
  <2> SUFFICES ASSUME Init PROVE Siblings!Init
      OBVIOUS
  <2>1. Existing = {} /\ Archived = {} BY DEF Init, NoChild, Existing, Archived
  <2>2. PositionsOf(Existing) = {} BY <2>1 DEF PositionsOf
  <2>3. InOrder = <<>> BY <2>2 DEF InOrder
  <2> QED BY <2>1, <2>3 DEF Siblings!Init
<1>2. IInv /\ IInv' /\ [Next]_vars => [Siblings!Next]_(Siblings!vars)
  <2> SUFFICES ASSUME IInv, IInv', [Next]_vars PROVE [Siblings!Next]_(Siblings!vars)
      OBVIOUS
  <2>1. CASE child' = child
    <3>1. Existing' = Existing /\ Archived' = Archived BY <2>1 DEF Existing, Archived
    <3>2. InOrder' = InOrder BY <2>1, <3>1 DEF InOrder, PositionsOf
    <3> QED BY <3>1, <3>2 DEF Siblings!vars
  <2>2. ASSUME NEW t \in Tx, Commit(t) PROVE Siblings!Next
    <3>1. op[t] \in {"create", "reorder"} BY <2>2 DEF IInv, Commit, TypeOK, Kind, Sound, IdleStands
    <3>2. TypeOK' /\ PositionsAreDense' BY DEF IInv
    <3> QED BY <2>2, <3>1, <3>2, CreationRefines, ReorderRefines DEF Siblings!Next
  <2>3. ASSUME NEW c \in Children, Archive(c) \/ Restore(c) PROVE Siblings!Next
      BY <2>3, StatusRefines DEF Siblings!Next
  <2> QED
      BY <2>1, <2>2, <2>3 DEF Next, vars, Create, Insert, Reorder, ReadMax, LockRow, Move, Place, Rollback
<1> QED BY <1>1, <1>2, Invariance, PTL DEF Spec, ImplementsChildList, Siblings!Spec

=============================================================================
