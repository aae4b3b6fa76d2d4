----------------------------- MODULE SiblingOrder -----------------------------
(***************************************************************************)
(* The order of the children of one parent: the sections of a course       *)
(* (course-section.service.ts) and the lessons of a section                *)
(* (lesson.service.ts) are created, archived, restored and reordered by    *)
(* the same statements, under a unique index on (parent, position) that    *)
(* counts archived rows too.  No advisory lock protects a parent: a        *)
(* transaction keeps the rows it has updated locked, and a statement waits *)
(* first for the row, then for the transactions whose uncommitted entries  *)
(* of the unique index stand in its way.                                   *)
(* Publishing does not look at positions: DRAFT and PUBLISHED are "listed".*)
(***************************************************************************)
EXTENDS Naturals, FiniteSets

CONSTANTS
  Tx,         \* API requests being served: one database transaction each
  Children    \* identifiers of children of the parent

ASSUME ChildrenAssumption == IsFiniteSet(Children)

VARIABLES
  child,      \* committed rows
  locked,     \* per transaction, the rows it has locked
  written,    \* per transaction, the positions it has entered in the index (0: none)
  pc, op,     \* stage and operation of each transaction
  seen        \* what a transaction has read, and how far it is

vars == <<child, locked, written, pc, op, seen>>

-----------------------------------------------------------------------------
(* Rows *)

Child == [status : {"absent", "listed", "archived"}, position : Nat]

NoChild == [status |-> "absent", position |-> 0]

Existing == {c \in Children : child[c].status # "absent"}

Listed == {c \in Children : child[c].status = "listed"}

PositionsOf(S) == {child[c].position : c \in S}

\* The MAX aggregate, 0 for no row.
Last(S) == CHOOSE p \in PositionsOf(S) \cup {0} : \A r \in PositionsOf(S) : r <= p

-----------------------------------------------------------------------------
(* The unique index and the row locks *)

\* The transactions an update of row c by t waits for.
RowHolders(t, c) == {u \in Tx \ {t} : c \in locked[u]}

\* The transactions whose uncommitted entry is position p, or that may give p
\* up: the entry of row c in the unique index waits for them.
EntryHolders(t, c, p) ==
  {u \in Tx \ {t} : \E d \in Children \ {c} :
     written[u][d] = p \/ (d \in locked[u] /\ child[d].position = p)}

\* The position is taken by a row t sees: a unique violation.
Taken(t, c, p) ==
  \E d \in Children \ {c} :
    IF written[t][d] # 0 THEN written[t][d] = p
    ELSE child[d].status # "absent" /\ child[d].position = p

Lock(t, c) ==
  /\ RowHolders(t, c) = {}
  /\ locked' = [locked EXCEPT ![t] = @ \cup {c}]

Enter(t, c, p) ==
  /\ EntryHolders(t, c, p) = {}
  /\ ~Taken(t, c, p)
  /\ written' = [written EXCEPT ![t][c] = p]

-----------------------------------------------------------------------------
(* Requests *)

Stage == {"idle", "max", "move", "place", "insert", "commit"}

Orders(S) ==
  {o \in [1..Cardinality(S) -> S] : \A i, j \in 1..Cardinality(S) : o[i] = o[j] => i = j}

NoOrder == [i \in {} |-> 0]

Kind == {"none", "create", "reorder"}

\* order: the submitted list; final: the positions of its rows, sorted; base:
\* the first temporary position, or the position of a new child; next: the
\* entry of the list to write next.
NothingSeen == [order |-> NoOrder, final |-> NoOrder, base |-> 0, next |-> 0]

Lists == UNION {Orders(S) : S \in SUBSET Children}

PositionLists == UNION {[1..n -> 1..Cardinality(Children)] : n \in 0..Cardinality(Children)}

Seen == [order : Lists, final : PositionLists, base : Nat, next : Nat]

\* The submitted list names each listed child once (assertExactChildIdSet).
TypeOK ==
  /\ child \in [Children -> Child]
  /\ \A c \in Children : child[c].status = "absent" <=> child[c].position = 0
  /\ locked \in [Tx -> SUBSET Children]
  /\ written \in [Tx -> [Children -> Nat]]
  /\ pc \in [Tx -> Stage]
  /\ op \in [Tx -> Kind]
  /\ seen \in [Tx -> Seen]
  /\ \A t \in Tx : DOMAIN seen[t].final = DOMAIN seen[t].order

Init ==
  /\ child = [c \in Children |-> NoChild]
  /\ locked = [t \in Tx |-> {}]
  /\ written = [t \in Tx |-> [c \in Children |-> 0]]
  /\ pc = [t \in Tx |-> "idle"]
  /\ op = [t \in Tx |-> "none"]
  /\ seen = [t \in Tx |-> NothingSeen]

End(t) ==
  /\ pc' = [pc EXCEPT ![t] = "idle"]
  /\ op' = [op EXCEPT ![t] = "none"]
  /\ seen' = [seen EXCEPT ![t] = NothingSeen]
  /\ locked' = [locked EXCEPT ![t] = {}]
  /\ written' = [written EXCEPT ![t] = [c \in Children |-> 0]]

\* Mutant of AppendPosition: the default of the empty aggregate is off by one.
AppendPositionFromOne == (IF Listed = {} THEN 1 ELSE Last(Listed)) + 1

\* Where a new child goes: after the last child that is not archived.
AppendPosition == Last(Listed) + 1

\* createSection, createLesson: the aggregate ...
Create(t) ==
  /\ pc[t] = "idle"
  /\ pc' = [pc EXCEPT ![t] = "insert"]
  /\ op' = [op EXCEPT ![t] = "create"]
  /\ seen' = [seen EXCEPT ![t].base = AppendPosition]
  /\ UNCHANGED <<child, locked, written>>

\* ... and the insertion of a row with a fresh id.
Insert(t) ==
  /\ pc[t] = "insert"
  /\ \E c \in Children :
       /\ child[c].status = "absent"
       /\ Lock(t, c) /\ Enter(t, c, seen[t].base)
  /\ pc' = [pc EXCEPT ![t] = "commit"]
  /\ UNCHANGED <<child, op, seen>>

\* Mutant of Ascending: the positions in any order.
AscendingForgotten(P) == CHOOSE f \in Orders(P) : \A i, j \in DOMAIN f : i < j => f[i] > f[j]

\* Mutant of Ascending: the index in the list instead of a position.
AscendingFromZero(P) == [i \in 1..Cardinality(P) |-> i - 1]

\* A set of positions as a sorted list.
Ascending(P) == CHOOSE f \in Orders(P) : \A i, j \in DOMAIN f : i < j => f[i] < f[j]

\* reorderSections, reorderLessons: the children that are not archived, which
\* the submitted list has to match ...
Reorder(t) ==
  /\ pc[t] = "idle"
  /\ \E order \in Orders(Listed) :
       seen' = [seen EXCEPT ![t] = [NothingSeen EXCEPT !.order = order,
                                                       !.final = Ascending(PositionsOf(Listed))]]
  /\ pc' = [pc EXCEPT ![t] = "max"]
  /\ op' = [op EXCEPT ![t] = "reorder"]
  /\ UNCHANGED <<child, locked, written>>

\* ... then the highest position of any child, by a statement of its own ...
ReadMax(t) ==
  /\ pc[t] = "max"
  /\ seen' = [seen EXCEPT ![t].base = Last(Existing) + 1, ![t].next = 1]
  /\ pc' = [pc EXCEPT ![t] = "move"]
  /\ UNCHANGED <<child, locked, written, op>>

Finished(t) == seen[t].next > Cardinality(DOMAIN seen[t].order)

\* ... phase one: each row in turn to its temporary position above it: first
\* the row is locked ...
LockRow(t) ==
  LET s == seen[t]
  IN /\ pc[t] = "move" /\ ~Finished(t)
     /\ s.order[s.next] \notin locked[t]
     /\ Lock(t, s.order[s.next])
     /\ UNCHANGED <<child, written, pc, op, seen>>

\* ... then its position is entered in the index ...
Move(t) ==
  LET s == seen[t]
  IN /\ pc[t] = "move"
     /\ IF Finished(t)
        THEN /\ pc' = [pc EXCEPT ![t] = "place"]
             /\ seen' = [seen EXCEPT ![t].next = 1]
             /\ UNCHANGED written
        ELSE /\ s.order[s.next] \in locked[t]
             /\ Enter(t, s.order[s.next], s.base + s.next - 1)
             /\ seen' = [seen EXCEPT ![t].next = @ + 1]
             /\ UNCHANGED pc
     /\ UNCHANGED <<child, locked, op>>

\* ... phase two: each row in turn to its share of the old positions.
Place(t) ==
  LET s == seen[t]
  IN /\ pc[t] = "place"
     /\ IF Finished(t)
        THEN pc' = [pc EXCEPT ![t] = "commit"] /\ UNCHANGED <<written, seen>>
        ELSE /\ Enter(t, s.order[s.next], s.final[s.next])
             /\ seen' = [seen EXCEPT ![t].next = @ + 1]
             /\ UNCHANGED pc
     /\ UNCHANGED <<child, locked, op>>

\* Mutant of Commit: the whole row is written back, as it was read.
CommitWholeRow(t) ==
  /\ pc[t] = "commit"
  /\ child' = [c \in Children |->
                 IF written[t][c] = 0 THEN child[c]
                 ELSE [status |-> "listed", position |-> written[t][c]]]
  /\ End(t)

Commit(t) ==
  /\ pc[t] = "commit"
  /\ child' = [c \in Children |->
                 IF written[t][c] = 0 THEN child[c]
                 ELSE [status |-> IF child[c].status = "absent" THEN "listed" ELSE child[c].status,
                       position |-> written[t][c]]]
  /\ End(t)

\* A unique violation (answered as a conflict), a deadlock that PostgreSQL
\* breaks, a refusal, a timeout or a crash: nothing is written.
Rollback(t) ==
  /\ pc[t] # "idle"
  /\ End(t)
  /\ UNCHANGED child

\* archiveSection, archiveLesson: the row keeps its position.  The single
\* UPDATE waits for transactions that have written the row.
Archive(c) ==
  /\ child[c].status = "listed"
  /\ \A t \in Tx : c \notin locked[t]
  /\ child' = [child EXCEPT ![c].status = "archived"]
  /\ UNCHANGED <<locked, written, pc, op, seen>>

\* restoreSection, restoreLesson: back to DRAFT at the same position.
Restore(c) ==
  /\ child[c].status = "archived"
  /\ \A t \in Tx : c \notin locked[t]
  /\ child' = [child EXCEPT ![c].status = "listed"]
  /\ UNCHANGED <<locked, written, pc, op, seen>>

Next ==
  \/ \E t \in Tx :
       \/ Create(t) \/ Insert(t)
       \/ Reorder(t) \/ ReadMax(t) \/ LockRow(t) \/ Move(t) \/ Place(t)
       \/ Commit(t) \/ Rollback(t)
  \/ \E c \in Children : Archive(c) \/ Restore(c)

Spec == Init /\ [][Next]_vars

-----------------------------------------------------------------------------
(* Properties *)

\* The positions of the children, archived ones included, are exactly 1 to
\* their number: no race of creations and reorders ever commits a gap, a
\* duplicate or one of the temporary positions of phase one.
PositionsAreDense ==
  /\ PositionsOf(Existing) = 1..Cardinality(Existing)
  /\ \A c, d \in Existing : child[c].position = child[d].position => c = d

\* A reorder that commits leaves its children in the submitted order, even
\* when others created, archived or reordered children after it read them.
ReorderIsHonoured ==
  [][\A t \in Tx :
       pc[t] = "commit" /\ op[t] = "reorder" /\ child' # child /\ written'[t] # written[t] =>
         \A i, j \in DOMAIN seen[t].order :
           i < j => child'[seen[t].order[i]].position < child'[seen[t].order[j]].position]_vars

\* The row at each position.
InOrder ==
  [p \in PositionsOf(Existing) |-> CHOOSE c \in Existing : child[c].position = p]

Archived == {c \in Children : child[c].status = "archived"}

Siblings == INSTANCE ChildList WITH list <- InOrder, hidden <- Archived

\* The rows, their positions and every interleaving of statements implement
\* ChildList: each commit is one operation on the list.  Nobody sees a
\* temporary position, a creation moves no other child, and a reorder neither
\* drops a child that others add meanwhile nor undoes an archiving.
ImplementsChildList == Siblings!Spec

\* Archived children do not hold positions against new ones ("Partial unique
\* indexes scoped by parent and `position`, excluding archived rows if
\* archived rows are allowed to retain old positions"): the position after the
\* last child is free.
AppendPositionIsFree == \A c \in Existing : child[c].position # AppendPosition

\* The transactions that the next statement of a reorder waits for.
WaitsFor(t) ==
  LET s == seen[t]
      c == s.order[s.next]
  IN IF pc[t] \notin {"move", "place"} \/ Finished(t) THEN {}
     ELSE IF c \notin locked[t] THEN RowHolders(t, c)
     ELSE EntryHolders(t, c, IF pc[t] = "move" THEN s.base + s.next - 1 ELSE s.final[s.next])

\* Concurrent reorders of one parent end in a result or in the "known expected
\* uniqueness conflict", never in a deadlock: no two wait for each other.  The code
\* does not keep this; see "Divergences" in the README.
NoMutualWait == \A t, u \in Tx : ~(u \in WaitsFor(t) /\ t \in WaitsFor(u))

=============================================================================
