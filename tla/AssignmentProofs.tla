--------------------------- MODULE AssignmentProofs ---------------------------
(***************************************************************************)
(* Proofs about Assignment and TrackTable, for every matrix of costs,      *)
(* every number of tracks and detections and every threshold: what the     *)
(* search for the next row keeps, that it ends in a matching, that no      *)
(* other matching costs less, that no detection serves two tracks, and     *)
(* that the whole of it implements the tracker of Tracking.                *)
(***************************************************************************)
EXTENDS TrackTable, FiniteSetTheorems, TLAPS

(* A set of naturals has a least element, which is what Min finds.         *)
LEMMA LeastOf ==
  ASSUME NEW S, S \subseteq Nat, S # {}
  PROVE  Min(S) \in S /\ \A x \in S : Min(S) <= x
<1> DEFINE R == OpToRel(<, Nat)
<1>1. IsWellFoundedOn(R, Nat)
  BY NatLessThanWellFounded
<1>2. PICK x \in S : \A y \in S : <<y, x>> \notin R
  BY <1>1, WFMin
<1>3. \A y \in S : ~(y < x)
  BY <1>2 DEF OpToRel
<1>4. x \in S /\ \A y \in S : x <= y
  BY <1>3
<1> QED
  BY <1>4, Zenon DEF Min

-----------------------------------------------------------------------------
(* The inductive invariant of a call. First the types; row duals only grow. *)
CallTyped ==
  /\ size \in Nat \ {0} /\ apc \in {"row", "scan", "augment"}
  /\ cost \in [Rows -> [Cols -> 0..PaddingCost]]
  /\ u \in [Cols0 -> Nat] /\ v \in [Cols0 -> Int]
  /\ p \in [Cols0 -> Cols0] /\ way \in [Cols0 -> Cols0]
  /\ row \in 1..(size + 1) /\ col \in Cols0
  /\ minv \in [Cols0 -> Int] /\ used \subseteq Cols0
  /\ apc # "row" => row \in Rows
  /\ apc = "augment" => col # 0

(* The columns that hold the rows entered so far, each in one of them: the *)
(* row being entered is in column 0, and while the path is flipped there   *)
(* is a hole at its end.                                                   *)
InForce == IF apc = "row" THEN Cols
           ELSE IF apc = "scan" THEN Cols0 ELSE Cols0 \ {col}
Top     == IF apc = "row" THEN row - 1 ELSE row
OneToOne ==
  /\ \A j \in InForce : p[j] <= Top
  /\ \A j, k \in InForce : p[j] = p[k] /\ p[j] # 0 => j = k
  /\ \A i \in 1..Top : \E j \in InForce : p[j] = i

(* Matched edges are tight; the dual of a column without a row is 0.       *)
Tight == \A j \in InForce \ {0} :
           IF p[j] = 0 THEN v[j] = 0 ELSE Reduced(p[j], j) = 0

(* The tree of the search, and how far from it the other columns are.      *)
InTree == used \cup {col}
Beyond == Cols \ InTree
Tree ==
  apc = "scan" =>
    /\ p[0] # 0 /\ \A k \in InTree : p[k] # 0
    /\ col \notin used
    /\ IF used = {} THEN col = 0 /\ \A j \in Cols : minv[j] = Infinity
       ELSE \A j \in Beyond :
              /\ \A k \in used : minv[j] <= Reduced(p[k], j)
              /\ way[j] \in used /\ Reduced(p[way[j]], j) = minv[j]

(* The edges of the tree are tight and lead back to column 0: each column  *)
(* was reached from one that was in the tree before it. While the path is  *)
(* flipped this holds of what is left of it.                               *)
Back(rank, columns) ==
  \A j \in columns \ {0} :
    /\ way[j] \in used /\ rank[way[j]] < rank[j]
    /\ p[way[j]] # 0 /\ Reduced(p[way[j]], j) = 0
Path ==
  /\ apc = "scan" =>
       \E rank \in [Cols0 -> Nat] : /\ \A j \in used : rank[j] < rank[col]
                                    /\ Back(rank, InTree)
  /\ apc = "augment" =>
       \E rank \in [Cols0 -> Nat] : Back(rank, {j \in InTree : rank[j] <= rank[col]})

CallInv == CallTyped /\ OneToOne /\ DualFeasible /\ Tight /\ Tree /\ Path
SearchInv == IF apc = "idle" THEN size = 0 ELSE CallInv

-----------------------------------------------------------------------------
(* The search for the next row.                                            *)

(* Sides of the matrix.                                                    *)
LEMMA Sides ==
  ASSUME size \in Nat \ {0}
  PROVE  /\ Rows = Cols /\ Cols = Cols0 \ {0} /\ 0 \in Cols0 /\ 0 \notin Cols
         /\ Rows \subseteq Nat /\ Cols0 \subseteq Nat /\ size \in Rows
BY DEF Rows, Cols, Cols0

LEMMA ReducedIsInt ==
  ASSUME CallTyped, NEW i \in Rows, NEW j \in Cols
  PROVE  /\ Reduced(i, j) \in Int /\ cost[i][j] \in 0..PaddingCost
         /\ u[i] \in Nat /\ v[j] \in Int
         /\ Reduced(i, j) = cost[i][j] - u[i] - v[j]
<1>1. i \in Cols0 /\ j \in Cols0
  BY Sides DEF CallTyped
<1>2. cost[i][j] \in 0..PaddingCost /\ u[i] \in Nat /\ v[j] \in Int
  BY <1>1 DEF CallTyped
<1> QED
  BY <1>2, AssignmentAssumption DEF Reduced

(* There are more columns, with column 0, than rows entered: one is free.  *)
LEMMA FreeColumn ==
  ASSUME CallInv, apc = "scan"
  PROVE  \E j \in Cols : p[j] = 0
<1> SUFFICES ASSUME \A j \in Cols : p[j] # 0 PROVE FALSE
  OBVIOUS
<1>0. size \in Nat /\ p \in [Cols0 -> Cols0] /\ p[0] # 0
  BY DEF CallInv, CallTyped, Tree
<1>1. \A j \in Cols0 : p[j] \in 1..size
  <2>1. \A j \in Cols0 : j = 0 \/ j \in Cols
    BY <1>0 DEF Cols0, Cols
  <2> QED BY <1>0, <2>1, SMTT(30) DEF Cols0
<1>2. p \in [Cols0 -> 1..size]
  BY <1>0, <1>1
<1>3. /\ IsFiniteSet(Cols0) /\ Cardinality(Cols0) = size + 1
      /\ IsFiniteSet(1..size) /\ Cardinality(1..size) = size
  BY <1>0, FS_Interval DEF Cols0
<1>4. Cardinality(1..size) < Cardinality(Cols0)
  BY <1>0, <1>3
<1>5. \E j, k \in Cols0 : j # k /\ p[j] = p[k]
  BY ONLY <1>2, <1>3, <1>4, FS_PigeonHole
<1>6. PICK j \in Cols0, k \in Cols0 : j # k /\ p[j] = p[k]
  BY <1>5
<1> QED
  BY <1>1, <1>6 DEF CallInv, OneToOne, InForce

(* With a free column the duals stay within the cost of the padding, and   *)
(* no reduced cost reaches Infinity, with which the slacks start.          *)
LEMMA Bounded ==
  ASSUME CallInv, apc = "scan", NEW i \in Rows, NEW j \in Cols
  PROVE  /\ Reduced(i, j) \in Nat /\ Reduced(i, j) < Infinity
         /\ u[i] + v[j] <= cost[i][j]
<1>1. PICK f \in Cols : p[f] = 0
  BY FreeColumn
<1>2. CallTyped /\ Tight /\ InForce = Cols0 /\ size \in Nat \ {0}
  BY DEF CallInv, InForce, CallTyped
<1>3. v[f] = 0
  BY <1>1, <1>2, Sides DEF Tight
<1>4. \A r \in Rows : u[r] <= PaddingCost
  <2> TAKE r \in Rows
  <2>1. u[r] + v[f] <= cost[r][f]
    BY DEF CallInv, DualFeasible
  <2> QED BY <1>2, <1>3, <2>1, ReducedIsInt, AssignmentAssumption
<1>5. 0 - PaddingCost <= v[j]
  <2>1. CASE p[j] = 0
    BY <1>2, <2>1, Sides, AssignmentAssumption DEF Tight
  <2>2. CASE p[j] # 0
    <3>1. p[j] \in Rows
      BY <1>2, <2>2, Sides DEF CallTyped
    <3>2. Reduced(p[j], j) = 0
      BY <1>2, <2>2, Sides DEF Tight
    <3> QED BY <1>2, <1>4, <3>1, <3>2, ReducedIsInt, AssignmentAssumption
  <2> QED BY <2>1, <2>2
<1>6. u[i] + v[j] <= cost[i][j]
  BY DEF CallInv, DualFeasible
<1> QED
  BY <1>2, <1>4, <1>5, <1>6, ReducedIsInt, AssignmentAssumption DEF Infinity

(* The parts of Scan: the slacks after relaxing from the row of the newest *)
(* column of the tree, the least of them and where it is.                  *)
Nearer(j) == j \in Beyond /\ Reduced(p[col], j) < minv[j]
NewSlack  == [j \in Cols0 |-> IF Nearer(j) THEN Reduced(p[col], j) ELSE minv[j]]
NewWay    == [j \in Cols0 |-> IF Nearer(j) THEN col ELSE way[j]]
Delta     == Min({NewSlack[j] : j \in Beyond})
Nearest   == Min({j \in Beyond : NewSlack[j] = Delta})
TreeRow(i) == \E j \in InTree : p[j] = i

LEMMA ScanParts ==
  ASSUME Scan
  PROVE  /\ apc = "scan" /\ used' = InTree /\ way' = NewWay /\ col' = Nearest
         /\ u' = [i \in Cols0 |-> IF TreeRow(i) THEN u[i] + Delta ELSE u[i]]
         /\ v' = [j \in Cols0 |-> IF j \in InTree THEN v[j] - Delta ELSE v[j]]
         /\ minv' = [j \in Cols0 |-> IF j \in InTree THEN NewSlack[j]
                                     ELSE NewSlack[j] - Delta]
         /\ apc' = IF p[Nearest] = 0 THEN "augment" ELSE "scan"
         /\ size' = size /\ cost' = cost /\ p' = p /\ row' = row
BY DEF Scan, Nearer, NewSlack, NewWay, Delta, Nearest, TreeRow, InTree, Beyond

(* The columns of the tree have rows.                                      *)
LEMMA TreeRows ==
  ASSUME CallInv, apc = "scan", NEW k \in InTree
  PROVE  k \in Cols0 /\ p[k] \in Rows
<1>1. InTree \subseteq Cols0 /\ p \in [Cols0 -> Cols0] /\ p[k] # 0 /\ size \in Nat \ {0}
  BY DEF CallInv, CallTyped, Tree, InTree
<1> QED
  BY <1>1, Sides

(* After relaxing, the slack of each column outside the tree is exact; the *)
(* least of them is not negative, and some column outside has it.          *)
LEMMA Slacks ==
  ASSUME CallInv, apc = "scan"
  PROVE  /\ \A j \in Beyond :
              /\ NewSlack[j] \in Nat /\ Delta <= NewSlack[j]
              /\ \A k \in InTree : NewSlack[j] <= Reduced(p[k], j)
              /\ NewWay[j] \in InTree /\ Reduced(p[NewWay[j]], j) = NewSlack[j]
         /\ Delta \in Nat
         /\ Nearest \in Beyond /\ NewSlack[Nearest] = Delta
<1>0. size \in Nat \ {0} /\ Beyond \subseteq Cols /\ Beyond \subseteq Cols0 /\ col \in InTree
      /\ minv \in [Cols0 -> Int] /\ used \subseteq InTree
  BY Sides DEF CallInv, CallTyped, Beyond, InTree
<1>1. \A k \in InTree, j \in Cols : Reduced(p[k], j) \in Nat /\ Reduced(p[k], j) < Infinity
  BY TreeRows, Bounded
<1>2. ASSUME NEW j \in Beyond
      PROVE  /\ \A k \in InTree : NewSlack[j] <= Reduced(p[k], j)
             /\ NewWay[j] \in InTree /\ Reduced(p[NewWay[j]], j) = NewSlack[j]
  <2>1. /\ j \in Cols /\ j \in Cols0 /\ minv[j] \in Int
        /\ NewSlack[j] = IF Nearer(j) THEN Reduced(p[col], j) ELSE minv[j]
        /\ NewWay[j] = IF Nearer(j) THEN col ELSE way[j]
        /\ Nearer(j) <=> Reduced(p[col], j) < minv[j]
    BY <1>0 DEF NewSlack, NewWay, Nearer
  <2>2. CASE used = {}
    <3>1. InTree = {col} /\ minv[j] = Infinity
      BY <2>1, <2>2 DEF CallInv, Tree, InTree
    <3>2. Reduced(p[col], j) \in Nat /\ Reduced(p[col], j) < minv[j]
      BY <1>0, <1>1, <2>1, <3>1
    <3> QED BY <2>1, <3>1, <3>2
  <2>3. CASE used # {}
    <3>1. /\ \A k \in used : minv[j] <= Reduced(p[k], j)
          /\ way[j] \in used /\ Reduced(p[way[j]], j) = minv[j]
      BY <2>3 DEF CallInv, Tree
    <3>2. \A k \in InTree : k \in used \/ k = col
      BY DEF InTree
    <3>3. \A k \in InTree : Reduced(p[k], j) \in Nat
      BY <1>1, <2>1
    <3>4. \A k \in InTree : NewSlack[j] <= Reduced(p[k], j)
      <4> TAKE k \in InTree
      <4>1. PICK a \in Int, b \in Int, c \in Int :
               a = Reduced(p[k], j) /\ b = Reduced(p[col], j) /\ c = minv[j]
        BY <1>0, <3>3, <2>1
      <4>2. k = col \/ c <= a
        BY <3>1, <3>2, <4>1
      <4> QED BY <2>1, <4>1, <4>2
    <3> QED BY <1>0, <2>1, <3>1, <3>4
  <2> QED BY <2>2, <2>3
<1>3. \A j \in Beyond : NewSlack[j] \in Nat
  BY <1>0, <1>1, <1>2
<1>4. PICK f \in Cols : p[f] = 0
  BY FreeColumn
<1>5. f \in Beyond
  BY <1>4 DEF Beyond, CallInv, Tree
<1>6. Delta \in {NewSlack[j] : j \in Beyond} /\ \A j \in Beyond : Delta <= NewSlack[j]
  <2>1. {NewSlack[j] : j \in Beyond} \subseteq Nat /\ {NewSlack[j] : j \in Beyond} # {}
    BY <1>3, <1>5
  <2> QED BY <2>1, LeastOf, ZenonT(60) DEF Delta
<1>7. Nearest \in {j \in Beyond : NewSlack[j] = Delta}
  <2>1. {j \in Beyond : NewSlack[j] = Delta} \subseteq Nat
    BY <1>0, Sides
  <2>2. {j \in Beyond : NewSlack[j] = Delta} # {}
    BY <1>6
  <2> QED BY <2>1, <2>2, LeastOf DEF Nearest
<1> QED
  BY <1>2, <1>3, <1>6, <1>7

(* A shift of the duals moves only the edges between the tree and the rest. *)
LEMMA Shifted ==
  ASSUME CallInv, Scan, NEW i \in Rows, NEW j \in Cols
  PROVE  /\ u'[i] = IF TreeRow(i) THEN u[i] + Delta ELSE u[i]
         /\ v'[j] = IF j \in InTree THEN v[j] - Delta ELSE v[j]
         /\ Reduced(i, j)' =
              IF TreeRow(i) THEN IF j \in InTree THEN Reduced(i, j)
                                                 ELSE Reduced(i, j) - Delta
              ELSE IF j \in InTree THEN Reduced(i, j) + Delta ELSE Reduced(i, j)
<1>1. i \in Cols0 /\ j \in Cols0
  BY Sides DEF CallInv, CallTyped
<1>2. /\ u'[i] = IF TreeRow(i) THEN u[i] + Delta ELSE u[i]
      /\ v'[j] = IF j \in InTree THEN v[j] - Delta ELSE v[j]
      /\ cost'[i][j] = cost[i][j]
  BY <1>1, ScanParts
<1>3. Reduced(i, j)' = cost'[i][j] - u'[i] - v'[j]
  BY DEF Reduced
<1>4. /\ cost[i][j] \in Int /\ u[i] \in Int /\ v[j] \in Int
      /\ Reduced(i, j) = cost[i][j] - u[i] - v[j] /\ Delta \in Int
  BY ReducedIsInt, ScanParts, Slacks, AssignmentAssumption DEF CallInv
<1>5. CASE TreeRow(i) /\ j \in InTree
  <2>1. u'[i] = u[i] + Delta /\ v'[j] = v[j] - Delta
    BY <1>2, <1>5
  <2> QED BY <1>2, <1>3, <1>4, <1>5, <2>1
<1>6. CASE TreeRow(i) /\ j \notin InTree
  <2>1. u'[i] = u[i] + Delta /\ v'[j] = v[j]
    BY <1>2, <1>6
  <2> QED BY <1>2, <1>3, <1>4, <1>6, <2>1
<1>7. CASE ~TreeRow(i) /\ j \in InTree
  <2>1. u'[i] = u[i] /\ v'[j] = v[j] - Delta
    BY <1>2, <1>7
  <2> QED BY <1>2, <1>3, <1>4, <1>7, <2>1
<1>8. CASE ~TreeRow(i) /\ j \notin InTree
  <2>1. u'[i] = u[i] /\ v'[j] = v[j]
    BY <1>2, <1>8
  <2> QED BY <1>2, <1>3, <1>4, <1>8, <2>1
<1> QED
  BY <1>2, <1>5, <1>6, <1>7, <1>8

(* A pass of the search keeps the invariant.                               *)
LEMMA ScanKeeps ==
  ASSUME CallInv, Scan
  PROVE  CallInv'
<1>1. /\ apc = "scan" /\ used' = InTree /\ way' = NewWay /\ col' = Nearest
      /\ u' = [i \in Cols0 |-> IF TreeRow(i) THEN u[i] + Delta ELSE u[i]]
      /\ v' = [j \in Cols0 |-> IF j \in InTree THEN v[j] - Delta ELSE v[j]]
      /\ minv' = [j \in Cols0 |-> IF j \in InTree THEN NewSlack[j]
                                  ELSE NewSlack[j] - Delta]
      /\ apc' = IF p[Nearest] = 0 THEN "augment" ELSE "scan"
      /\ size' = size /\ cost' = cost /\ p' = p /\ row' = row
  BY ScanParts
<1>2. /\ \A j \in Beyond :
           /\ NewSlack[j] \in Nat /\ Delta <= NewSlack[j]
           /\ \A k \in InTree : NewSlack[j] <= Reduced(p[k], j)
           /\ NewWay[j] \in InTree /\ Reduced(p[NewWay[j]], j) = NewSlack[j]
      /\ Delta \in Nat
      /\ Nearest \in Beyond /\ NewSlack[Nearest] = Delta
  BY <1>1, Slacks
<1>3. /\ CallTyped /\ OneToOne /\ Tight /\ Tree /\ Path
      /\ size \in Nat \ {0} /\ InForce = Cols0 /\ Top = row
      /\ p \in [Cols0 -> Cols0]
  BY <1>1 DEF CallInv, CallTyped, InForce, Top
<1>4. /\ Cols' = Cols /\ Rows' = Rows /\ Cols0' = Cols0
      /\ InTree' = InTree \cup {Nearest} /\ Beyond' \subseteq Beyond
      /\ Nearest \in Cols /\ Nearest \in Cols0 /\ Nearest \notin InTree
      /\ InTree \subseteq Cols0
  BY <1>1, <1>2, <1>3, Sides DEF Cols, Rows, Cols0, InTree, Beyond, CallTyped
<1>5. \A j \in InTree \ {0} : NewWay[j] = way[j] /\ j \in Cols
  BY <1>3, <1>4, Sides DEF NewWay, Nearer, Beyond
<1>6. CallTyped'
  <2>1. u' \in [Cols0 -> Nat]
    <3>1. u \in [Cols0 -> Nat]
      BY <1>3 DEF CallTyped
    <3> QED BY <1>1, <1>2, <3>1
  <2>2. v' \in [Cols0 -> Int]
    <3>1. v \in [Cols0 -> Int]
      BY <1>3 DEF CallTyped
    <3> QED BY <1>1, <1>2, <3>1
  <2>3. NewSlack \in [Cols0 -> Int]
    <3>1. \A j \in Cols0 : NewSlack[j] \in Int
      <4> TAKE j \in Cols0
      <4>1. CASE j \in Beyond
        BY <1>2, <4>1
      <4>2. CASE j \notin Beyond
        BY <1>3, <4>2 DEF CallTyped, NewSlack, Nearer
      <4> QED BY <4>1, <4>2
    <3>2. NewSlack = [j \in Cols0 |-> NewSlack[j]]
      BY DEF NewSlack
    <3> QED BY <3>1, <3>2
  <2>4. minv' \in [Cols0 -> Int]
    BY <1>1, <1>2, <2>3
  <2>5. way' \in [Cols0 -> Cols0]
    BY <1>1, <1>3 DEF CallTyped, NewWay
  <2>6. row \in Rows /\ apc' \in {"row", "scan", "augment"}
    BY <1>1, <1>3 DEF CallTyped
  <2>7. Nearest # 0
    BY <1>3, <1>4, Sides
  <2>8. /\ cost \in [Rows -> [Cols -> 0..PaddingCost]]
        /\ row \in 1..(size + 1)
    BY <1>3 DEF CallTyped
  <2> QED
    BY <1>1, <1>3, <1>4, <2>1, <2>2, <2>4, <2>5, <2>6, <2>7, <2>8 DEF CallTyped
<1>7. OneToOne'
  <2>1. Top' = row /\ InForce' = IF p[Nearest] = 0 THEN Cols0 \ {Nearest} ELSE Cols0
    BY <1>1, <1>4 DEF Top, InForce
  <2>2. row \in Nat
    BY <1>3 DEF CallTyped
  <2>3. /\ \A j \in Cols0 : p[j] <= row
        /\ \A j, k \in Cols0 : p[j] = p[k] /\ p[j] # 0 => j = k
        /\ \A i \in 1..row : \E j \in Cols0 : p[j] = i
    BY <1>3 DEF OneToOne
  <2>4. \A i \in 1..row : \E j \in InForce' : p[j] = i
    <3> TAKE i \in 1..row
    <3>1. PICK j \in Cols0 : p[j] = i
      BY <2>3
    <3>2. i # 0
      BY <2>2
    <3> QED BY <2>1, <3>1, <3>2
  <2>5. \A j \in InForce' : j \in Cols0
    BY <2>1
  <2> QED BY <1>1, <2>1, <2>3, <2>4, <2>5 DEF OneToOne
<1>8. DualFeasible'
  <2> SUFFICES ASSUME NEW i \in Rows, NEW j \in Cols
               PROVE  u'[i] + v'[j] <= cost'[i][j]
    BY <1>4 DEF DualFeasible
  <2>1. /\ u'[i] = IF TreeRow(i) THEN u[i] + Delta ELSE u[i]
        /\ v'[j] = IF j \in InTree THEN v[j] - Delta ELSE v[j]
    BY Shifted
  <2>2. /\ cost[i][j] \in Int /\ u[i] \in Int /\ v[j] \in Int
        /\ Reduced(i, j) = cost[i][j] - u[i] - v[j] /\ u[i] + v[j] <= cost[i][j]
    BY <1>1, <1>3, ReducedIsInt, Bounded, AssignmentAssumption
  <2>3. CASE TreeRow(i) /\ j \notin InTree
    <3>1. PICK k \in InTree : p[k] = i
      BY <2>3 DEF TreeRow
    <3>2. j \in Beyond
      BY <2>3 DEF Beyond
    <3>3. Delta <= Reduced(i, j)
      BY <1>2, <2>2, <3>1, <3>2
    <3> QED BY <1>1, <1>2, <2>1, <2>2, <2>3, <3>3
  <2>4. CASE ~(TreeRow(i) /\ j \notin InTree)
    BY <1>1, <1>2, <2>1, <2>2, <2>4
  <2> QED BY <2>3, <2>4
<1>9. Tight'
  <2> SUFFICES ASSUME NEW j \in InForce' \ {0}
               PROVE  IF p[j] = 0 THEN v'[j] = 0 ELSE Reduced(p[j], j)' = 0
    BY <1>1 DEF Tight
  <2>1. j \in Cols
    BY <1>1, <1>3, <1>4, Sides DEF InForce
  <2>2. IF p[j] = 0 THEN v[j] = 0 ELSE Reduced(p[j], j) = 0
    BY <1>3, <2>1, Sides DEF Tight
  <2>3. CASE p[j] = 0
    <3>1. j \notin InTree
      BY <1>1, <1>3, <2>3 DEF Tree
    <3>2. v'[j] = v[j]
      BY <2>1, <1>1, <1>3, <3>1, Sides
    <3> QED BY <2>2, <2>3, <3>2
  <2>4. CASE p[j] # 0
    <3>1. p[j] \in Rows
      BY <1>3, <2>1, <2>4, Sides
    <3>2. TreeRow(p[j]) <=> j \in InTree
      BY <1>3, <1>4, <2>1, <2>4, Sides DEF TreeRow, OneToOne
    <3>3. Reduced(p[j], j) = 0
      BY <2>2, <2>4
    <3>4. \A i \in Rows : i = p[j] => Reduced(i, j)' = 0
      <4> SUFFICES ASSUME NEW i \in Rows, i = p[j] PROVE Reduced(i, j)' = 0
        OBVIOUS
      <4>1. (TreeRow(i) <=> j \in InTree) /\ Reduced(i, j) = 0
        BY <3>2, <3>3
      <4> QED BY <2>1, <4>1, Shifted
    <3>5. Reduced(p[j], j)' = 0
      BY <1>1, <3>1, <3>4 DEF Reduced
    <3> QED BY <2>4, <3>5
  <2> QED BY <2>3, <2>4
<1> DEFINE R(i, j) == cost'[i][j] - u'[i] - v'[j]
<1>10. \A k \in InTree, j \in Cols :
          R(p[k], j) = IF j \in InTree THEN Reduced(p[k], j) ELSE Reduced(p[k], j) - Delta
  <2> TAKE k \in InTree, j \in Cols
  <2>1. p[k] \in Rows /\ TreeRow(p[k])
    BY <1>1, TreeRows DEF TreeRow
  <2>2. \A i \in Rows : R(i, j) = Reduced(i, j)'
    BY DEF Reduced
  <2> HIDE DEF R
  <2> QED BY <2>1, <2>2, Shifted
<1>11. Tree'
  <2> SUFFICES ASSUME apc' = "scan" PROVE Tree'
    BY DEF Tree
  <2>1. p[Nearest] # 0 /\ p[0] # 0 /\ \A k \in InTree : p[k] # 0
    BY <1>1, <1>3 DEF Tree
  <2>2. col' \notin used' /\ used' # {}
    BY <1>1, <1>4 DEF InTree
  <2>3. ASSUME NEW j \in Beyond'
        PROVE  /\ \A k \in InTree : minv'[j] <= R(p[k], j)
               /\ NewWay[j] \in InTree /\ R(p[NewWay[j]], j) = minv'[j]
    <3>1. j \in Beyond /\ j \in Cols /\ j \notin InTree /\ j \in Cols0
      BY <1>3, <1>4, Sides DEF Beyond
    <3>2. minv'[j] = NewSlack[j] - Delta
      BY <1>1, <3>1
    <3>3. \A k \in InTree : R(p[k], j) = Reduced(p[k], j) - Delta
      BY <1>10, <3>1
    <3>4. \A k \in InTree : Reduced(p[k], j) \in Int
      BY <1>1, <3>1, <1>3, TreeRows, ReducedIsInt
    <3> HIDE DEF R
    <3>5. /\ NewSlack[j] \in Nat /\ Delta \in Nat
          /\ \A k \in InTree : NewSlack[j] <= Reduced(p[k], j)
          /\ NewWay[j] \in InTree /\ Reduced(p[NewWay[j]], j) = NewSlack[j]
      BY <1>2, <3>1
    <3>6. \A k \in InTree : minv'[j] <= R(p[k], j)
      <4> TAKE k \in InTree
      <4>1. PICK a \in Int, b \in Int, c \in Nat :
              a = Reduced(p[k], j) /\ b = NewSlack[j] /\ c = Delta
        BY <3>4, <3>5
      <4>2. b <= a /\ R(p[k], j) = a - c /\ minv'[j] = b - c
        BY <3>2, <3>3, <3>5, <4>1
      <4> QED BY <4>1, <4>2
    <3> QED BY <3>2, <3>3, <3>5, <3>6
  <2>4. p' = p /\ InTree' = used' \cup {col'}
    BY <1>1 DEF InTree
  <2>5. \A j \in Beyond' :
          /\ \A k \in used' : minv'[j] <= Reduced(p[k], j)'
          /\ way'[j] \in used' /\ Reduced(p[way[j]], j)' = minv'[j]
    <3>1. \A j, k : R(p[k], j) = Reduced(p[k], j)'
      BY <2>4 DEF Reduced
    <3>2. used' = InTree /\ \A j \in Beyond' : way'[j] = NewWay[j]
      BY <1>1, <1>4 DEF Beyond
    <3> QED BY <2>3, <2>4, <3>1, <3>2
  <2>6. p'[0] # 0 /\ \A k \in InTree' : p'[k] # 0
    BY <1>1, <1>4, <2>1, <2>4
  <2> QED
    BY <2>2, <2>5, <2>6 DEF Tree
<1>12. Path'
  <2>1. PICK rank \in [Cols0 -> Nat] : /\ \A j \in used : rank[j] < rank[col]
                                       /\ Back(rank, InTree)
    BY <1>1, <1>3 DEF Path
  <2> DEFINE grown == [rank EXCEPT ![Nearest] = rank[col] + 1]
  <2>2. /\ grown \in [Cols0 -> Nat] /\ \A j \in InTree : grown[j] = rank[j]
        /\ grown[Nearest] = rank[col] + 1
    <3>1. col \in Cols0
      BY <1>3 DEF CallTyped
    <3> QED BY <1>4, <2>1, <3>1
  <2>3. \A j \in InTree : rank[j] <= rank[col]
    BY <2>1, <1>4 DEF InTree
  <2>4. \A j \in InTree : grown[j] < grown[Nearest]
    <3> TAKE j \in InTree
    <3>1. PICK a \in Nat, b \in Nat : a = rank[j] /\ b = rank[col]
      BY <1>4, <2>1, <1>3 DEF CallTyped
    <3> QED BY <2>2, <2>3, <3>1
  <2>5. PICK new \in [Cols0 -> Nat] : new = grown
    BY <2>2
  <2> HIDE DEF grown
  <2>6. ASSUME NEW j \in InTree \cup {Nearest}, j # 0
        PROVE  /\ NewWay[j] \in InTree /\ new[NewWay[j]] < new[j]
               /\ p[NewWay[j]] # 0 /\ R(p[NewWay[j]], j) = 0
    <3>1. \A k \in InTree : p[k] # 0
      BY <1>1, <1>3 DEF Tree
    <3>2. CASE j = Nearest
      <4>1. R(p[NewWay[j]], j) = Reduced(p[NewWay[j]], j) - Delta
        BY <1>2, <1>4, <1>10, <3>2
      <4> HIDE DEF R
      <4> QED BY <1>2, <2>4, <2>5, <3>1, <3>2, <4>1
    <3>3. CASE j \in InTree
      <4>1. /\ way[j] \in used /\ rank[way[j]] < rank[j]
            /\ Reduced(p[way[j]], j) = 0
        BY <2>1, <2>6, <3>3 DEF Back
      <4>2. way[j] \in InTree /\ NewWay[j] = way[j] /\ j \in Cols
        BY <1>5, <2>6, <3>3, <4>1 DEF InTree
      <4>3. R(p[way[j]], j) = 0
        BY <1>10, <3>3, <4>1, <4>2
      <4> HIDE DEF R
      <4> QED BY <2>2, <2>5, <3>1, <3>3, <4>1, <4>2, <4>3
    <3> QED BY <3>2, <3>3
  <2>7. ASSUME NEW CONSTANT S, S \subseteq InTree \cup {Nearest}
        PROVE  Back(new, S)'
    <3> SUFFICES ASSUME NEW CONSTANT j \in S \ {0}
                 PROVE  /\ way'[j] \in used' /\ new[way'[j]] < new[j]
                        /\ p'[way'[j]] # 0 /\ Reduced(p[way[j]], j)' = 0
      BY DEF Back
    <3> QED BY <1>1, <2>6, <2>7, ZenonT(60) DEF Reduced
  <2>8. \A j \in used' : new[j] < new[col']
    BY <1>1, <2>4, <2>5
  <2>9. Back(new, InTree)'
    <3>1. PICK S : S = InTree'
      OBVIOUS
    <3> QED BY <1>4, <2>7, <3>1 DEF Back
  <2>10. Back(new, {j \in InTree : new[j] <= new[col]})'
    BY <2>9 DEF Back
  <2> QED
    BY <1>4, <2>8, <2>9, <2>10 DEF Path
<1> QED
  BY <1>6, <1>7, <1>8, <1>9, <1>11, <1>12 DEF CallInv

(* The next row enters in column 0, with an empty tree.                    *)
LEMMA EnterRowKeeps ==
  ASSUME CallInv, EnterRow
  PROVE  CallInv'
<1>1. /\ apc = "row" /\ row <= size /\ apc' = "scan"
      /\ p' = [p EXCEPT ![0] = row] /\ col' = 0 /\ used' = {}
      /\ minv' = [j \in Cols0 |-> Infinity]
      /\ size' = size /\ cost' = cost /\ u' = u /\ v' = v /\ way' = way /\ row' = row
  BY DEF EnterRow
<1>2. /\ CallTyped /\ OneToOne /\ Tight /\ DualFeasible
      /\ size \in Nat \ {0} /\ InForce = Cols /\ Top = row - 1
      /\ p \in [Cols0 -> Cols0] /\ row \in 1..size /\ row \in Rows /\ row \in Cols0
      /\ Cols' = Cols /\ Rows' = Rows /\ Cols0' = Cols0
      /\ InForce' = Cols0 /\ Top' = row /\ InTree' = {0} /\ Infinity \in Int
      /\ Infinity' = Infinity
  <2>1. CallTyped /\ OneToOne /\ Tight /\ DualFeasible
    BY DEF CallInv
  <2>2. /\ size \in Nat \ {0} /\ p \in [Cols0 -> Cols0]
        /\ row \in 1..size /\ row \in Rows /\ row \in Cols0
    <3>1. size \in Nat \ {0} /\ p \in [Cols0 -> Cols0] /\ row \in 1..(size + 1)
      BY <2>1 DEF CallTyped
    <3> QED BY <1>1, <3>1, SMTT(30) DEF Rows, Cols0
  <2>3. InForce = Cols /\ Top = row - 1
    BY <1>1 DEF InForce, Top
  <2>4. Cols' = Cols /\ Rows' = Rows /\ Cols0' = Cols0
    BY <1>1 DEF Cols, Rows, Cols0
  <2>5. InForce' = Cols0 /\ Top' = row /\ InTree' = {0}
    BY <1>1, <2>4 DEF InForce, Top, InTree
  <2>6. Infinity \in Int /\ Infinity' = Infinity
    BY AssignmentAssumption DEF Infinity
  <2> QED BY <2>1, <2>2, <2>3, <2>4, <2>5, <2>6
<1>3. p'[0] = row /\ \A j \in Cols : p'[j] = p[j]
  BY <1>1, <1>2, Sides
<1>4. CallTyped'
  BY <1>1, <1>2, Sides DEF CallTyped
<1>5. OneToOne'
  <2>1. /\ \A j \in Cols : p[j] <= row - 1
        /\ \A j, k \in Cols : p[j] = p[k] /\ p[j] # 0 => j = k
        /\ \A i \in 1..(row - 1) : \E j \in Cols : p[j] = i
    BY <1>2 DEF OneToOne
  <2>2. \A j \in Cols0 : j = 0 \/ j \in Cols
    BY <1>2, Sides
  <2>3. \A j \in Cols : p[j] \in Nat /\ row \in Nat
    BY <1>2, Sides
  <2>4. \A j \in Cols0 : p'[j] <= row
    <3>1. row <= row /\ \A j \in Cols : p[j] <= row
      BY <1>2, <2>1, <2>3
    <3> QED BY <1>3, <2>2, <3>1
  <2>5. \A j, k \in Cols0 : p'[j] = p'[k] /\ p'[j] # 0 => j = k
    BY <1>3, <2>1, <2>2, <2>3
  <2>6. \A i \in 1..row : \E j \in Cols0 : p'[j] = i
    <3> TAKE i \in 1..row
    <3>1. CASE i = row
      BY <1>2, <1>3, <3>1, Sides
    <3>2. CASE i # row
      <4>1. PICK j \in Cols : p[j] = i
        BY <1>2, <2>1, <3>2
      <4> QED BY <1>2, <1>3, <4>1, Sides
    <3> QED BY <3>1, <3>2
  <2> QED BY <1>2, <2>4, <2>5, <2>6 DEF OneToOne
<1>6. DualFeasible'
  BY <1>1, <1>2 DEF DualFeasible
<1>7. Tight'
  <2> SUFFICES ASSUME NEW j \in Cols
               PROVE  IF p'[j] = 0 THEN v'[j] = 0 ELSE Reduced(p[j], j)' = 0
    BY <1>2, Sides DEF Tight
  <2>1. IF p[j] = 0 THEN v[j] = 0 ELSE Reduced(p[j], j) = 0
    BY <1>2, Sides DEF Tight
  <2> QED BY <1>1, <1>3, <2>1 DEF Reduced
<1>8. Tree'
  <2>1. p'[0] # 0
    BY <1>2, <1>3
  <2>2. \A j \in Cols : minv'[j] = Infinity'
    BY <1>1, <1>2, Sides
  <2>3. \A k \in InTree' : p'[k] # 0
    BY <1>2, <2>1
  <2>4. col' \notin used' /\ col' = 0
    BY <1>1
  <2> QED BY <1>1, <1>2, <2>1, <2>2, <2>3, <2>4 DEF Tree
<1>9. Path'
  <2> DEFINE rank == [j \in Cols0 |-> 0]
  <2>1. PICK r \in [Cols0 -> Nat] : r = rank
    OBVIOUS
  <2>2. Back(r, InTree)'
    BY <1>2 DEF Back
  <2> QED BY <1>1, <1>2, <2>2 DEF Path
<1> QED
  BY <1>4, <1>5, <1>6, <1>7, <1>8, <1>9 DEF CallInv

(* The hole moves one edge back along the path, and its row with it.       *)
LEMMA AugmentKeeps ==
  ASSUME CallInv, Augment
  PROVE  CallInv'
<1> DEFINE from == way[col]
<1>1. /\ apc = "augment" /\ p' = [p EXCEPT ![col] = p[from]] /\ col' = from
      /\ IF from = 0 THEN apc' = "row" /\ row' = row + 1
                     ELSE apc' = apc /\ row' = row
      /\ size' = size /\ cost' = cost /\ u' = u /\ v' = v /\ way' = way
      /\ minv' = minv /\ used' = used
  BY DEF Augment
<1>2. /\ CallTyped /\ OneToOne /\ Tight /\ DualFeasible
      /\ size \in Nat \ {0} /\ InForce = Cols0 \ {col} /\ Top = row
      /\ p \in [Cols0 -> Cols0] /\ row \in 1..size /\ col \in Cols
      /\ col \in Cols0 /\ from \in Cols0 /\ col # 0
      /\ Cols' = Cols /\ Rows' = Rows /\ Cols0' = Cols0
      /\ used \subseteq Cols0 /\ InTree = used \cup {col}
  <2>1. CallTyped /\ OneToOne /\ Tight /\ DualFeasible
    BY DEF CallInv
  <2>2. /\ size \in Nat \ {0} /\ p \in [Cols0 -> Cols0] /\ row \in 1..size
        /\ col \in Cols0 /\ col # 0 /\ used \subseteq Cols0 /\ way \in [Cols0 -> Cols0]
    BY <1>1, <2>1 DEF CallTyped, Rows
  <2>3. col \in Cols /\ from \in Cols0
    BY <2>2, Sides
  <2>4. InForce = Cols0 \ {col} /\ Top = row /\ InTree = used \cup {col}
    BY <1>1 DEF InForce, Top, InTree
  <2>5. Cols' = Cols /\ Rows' = Rows /\ Cols0' = Cols0
    BY <1>1 DEF Cols, Rows, Cols0
  <2> QED BY <2>1, <2>2, <2>3, <2>4, <2>5
<1>3. PICK rank \in [Cols0 -> Nat] : Back(rank, {j \in InTree : rank[j] <= rank[col]})
  BY <1>1 DEF CallInv, Path
<1>4. /\ from \in used /\ rank[from] < rank[col] /\ p[from] # 0 /\ from # col
      /\ Reduced(p[from], col) = 0
  <2>1. rank[col] \in Nat
    BY <1>2, <1>3
  <2>2. col \in {j \in InTree : rank[j] <= rank[col]} \ {0}
    BY <1>2, <2>1
  <2>3. /\ from \in used /\ rank[from] < rank[col] /\ p[from] # 0
        /\ Reduced(p[from], col) = 0
    BY <1>3, <2>2 DEF Back
  <2> QED BY <2>1, <2>3
<1>5. p'[col] = p[from] /\ \A j \in Cols0 \ {col} : p'[j] = p[j]
  BY <1>1, <1>2
<1>6. InForce' = Cols0 \ {from} /\ Top' = row
  <2>1. CASE from = 0
    <3>1. apc' = "row" /\ row' = row + 1
      BY <1>1, <2>1
    <3> QED BY <1>2, <2>1, <3>1, Sides DEF InForce, Top
  <2>2. CASE from # 0
    <3>1. apc' = "augment" /\ row' = row
      BY <1>1, <2>2
    <3> QED BY <1>1, <1>2, <2>2, <3>1 DEF InForce, Top
  <2> QED BY <2>1, <2>2
<1> HIDE DEF from
<1>7. CallTyped'
  <2>1. p' \in [Cols0 -> Cols0]
    BY <1>1, <1>2
  <2>2. row' \in 1..(size + 1) /\ apc' \in {"row", "augment"} /\ (apc' # "row" => row' \in Rows)
        /\ (apc' = "augment" => from # 0)
    BY <1>1, <1>2 DEF Rows
  <2>3. /\ cost \in [Rows -> [Cols -> 0..PaddingCost]]
        /\ u \in [Cols0 -> Nat] /\ v \in [Cols0 -> Int]
        /\ way \in [Cols0 -> Cols0] /\ minv \in [Cols0 -> Int]
    BY <1>2 DEF CallTyped
  <2> QED BY <1>1, <1>2, <2>1, <2>2, <2>3 DEF CallTyped
<1>8. OneToOne'
  <2>1. /\ \A j \in Cols0 \ {col} : p[j] <= row
        /\ \A j, k \in Cols0 \ {col} : p[j] = p[k] /\ p[j] # 0 => j = k
        /\ \A i \in 1..row : \E j \in Cols0 \ {col} : p[j] = i
    BY <1>2 DEF OneToOne
  <2>2. \A j \in Cols0 \ {from} : p'[j] <= row
    BY <1>2, <1>4, <1>5, <2>1
  <2>3. \A j, k \in Cols0 \ {from} : p'[j] = p'[k] /\ p'[j] # 0 => j = k
    BY <1>2, <1>4, <1>5, <2>1
  <2>4. \A i \in 1..row : \E j \in Cols0 \ {from} : p'[j] = i
    <3> TAKE i \in 1..row
    <3>1. PICK j \in Cols0 \ {col} : p[j] = i
      BY <2>1
    <3>2. CASE j = from
      BY <1>2, <1>4, <1>5, <3>1, <3>2
    <3>3. CASE j # from
      BY <1>5, <3>1, <3>3
    <3> QED BY <3>2, <3>3
  <2> QED BY <1>6, <2>2, <2>3, <2>4 DEF OneToOne
<1>9. DualFeasible'
  BY <1>1, <1>2 DEF DualFeasible
<1>10. Tight'
  <2> SUFFICES ASSUME NEW j \in Cols0 \ {from, 0}
               PROVE  IF p'[j] = 0 THEN v'[j] = 0 ELSE Reduced(p[j], j)' = 0
    BY <1>6 DEF Tight
  <2>1. CASE j = col
    <3>1. Reduced(p[j], j)' = Reduced(p[from], col)
      BY <1>1, <1>5, <2>1 DEF Reduced
    <3> QED BY <1>4, <1>5, <2>1, <3>1
  <2>2. CASE j # col
    <3>1. IF p[j] = 0 THEN v[j] = 0 ELSE Reduced(p[j], j) = 0
      BY <1>2, <2>2 DEF Tight
    <3> QED BY <1>1, <1>5, <2>2, <3>1 DEF Reduced
  <2> QED BY <2>1, <2>2
<1>11. Tree'
  BY <1>1 DEF Tree
<1>12. Path'
  <2>1. ASSUME NEW j \in used \ {0}, rank[j] <= rank[from]
        PROVE  /\ way[j] \in used /\ rank[way[j]] < rank[j]
               /\ p'[way[j]] # 0 /\ cost[p'[way[j]]][j] - u[p'[way[j]]] - v[j] = 0
    <3>1. rank[j] \in Nat /\ rank[from] \in Nat /\ rank[col] \in Nat
      BY <1>2, <1>3
    <3>2. j \in {k \in InTree : rank[k] <= rank[col]} \ {0}
      BY <1>2, <1>4, <2>1, <3>1
    <3>3. /\ way[j] \in used /\ rank[way[j]] < rank[j]
          /\ p[way[j]] # 0 /\ Reduced(p[way[j]], j) = 0
      BY <1>3, <3>2 DEF Back
    <3>4. way[j] # col /\ way[j] \in Cols0
      BY <1>2, <1>3, <1>4, <2>1, <3>1, <3>3
    <3>5. p'[way[j]] = p[way[j]]
      BY <1>5, <3>4
    <3> QED BY <3>3, <3>5 DEF Reduced
  <2>2. InTree' = used
    BY <1>1, <1>4 DEF InTree
  <2>3. PICK S : S = {j \in used : rank[j] <= rank[from]}
    OBVIOUS
  <2>4. Back(rank, S)'
    <3> SUFFICES ASSUME NEW CONSTANT j \in S \ {0}
                 PROVE  /\ way'[j] \in used' /\ rank[way'[j]] < rank[j]
                        /\ p'[way'[j]] # 0 /\ Reduced(p[way[j]], j)' = 0
      BY DEF Back
    <3> QED BY <1>1, <2>1, <2>3 DEF Reduced
  <2>5. Back(rank, {j \in InTree : rank[j] <= rank[col]})'
    BY <1>1, <2>2, <2>3, <2>4 DEF Back
  <2> QED BY <1>1, <1>2, <2>5 DEF Path
<1> QED
  BY <1>7, <1>8, <1>9, <1>10, <1>11, <1>12 DEF CallInv

(* A call begins with every row and column free.                           *)
LEMMA SolveStarts ==
  ASSUME NEW n \in Nat, NEW m \in Nat \ {0}, NEW c \in [1..n -> [1..m -> 0..MaxCost]],
         Solve(n, m, c)
  PROVE  CallInv'
<1> DEFINE s == IF n > m THEN n ELSE m
<1>1. /\ apc' = "row" /\ size' = s
      /\ cost' = [i \in 1..s |-> [j \in 1..s |->
                    IF i <= n /\ j <= m THEN c[i][j] ELSE PaddingCost]]
      /\ u' = [i \in 0..s |-> 0] /\ v' = [j \in 0..s |-> 0]
      /\ p' = [j \in 0..s |-> 0] /\ way' = [j \in 0..s |-> 0]
      /\ row' = 1 /\ col' = 0 /\ used' = {}
      /\ minv' = [j \in 0..s |-> Infinity]
  BY DEF Solve
<1>2. /\ s \in Nat \ {0} /\ n <= s /\ m <= s
  OBVIOUS
<1> HIDE DEF s
<1>3. /\ Rows' = 1..s /\ Cols' = 1..s /\ Cols0' = 0..s /\ InForce' = 1..s /\ Top' = 0
  BY <1>1, <1>2 DEF Rows, Cols, Cols0, InForce, Top
<1>4. cost' \in [1..s -> [1..s -> 0..PaddingCost]]
  <2>1. ASSUME NEW i \in 1..s, NEW j \in 1..s
        PROVE  (IF i <= n /\ j <= m THEN c[i][j] ELSE PaddingCost) \in 0..PaddingCost
    <3>1. CASE i <= n /\ j <= m
      <4>1. i \in 1..n /\ j \in 1..m
        BY <1>2, <3>1
      <4>2. c[i][j] \in 0..MaxCost
        BY <4>1
      <4> QED BY <3>1, <4>2, AssignmentAssumption, SMTT(30)
    <3>2. CASE ~(i <= n /\ j <= m)
      BY <3>2, AssignmentAssumption
    <3> QED BY <3>1, <3>2
  <2> QED BY <1>1, <2>1
<1>5. CallTyped'
  <2>1. Infinity \in Int
    BY AssignmentAssumption DEF Infinity
  <2> QED BY <1>1, <1>2, <1>3, <1>4, <2>1 DEF CallTyped
<1>6. OneToOne'
  BY <1>1, <1>2, <1>3 DEF OneToOne
<1>7. DualFeasible'
  <2>1. ASSUME NEW i \in 1..s, NEW j \in 1..s
        PROVE  u'[i] + v'[j] <= cost'[i][j]
    <3>1. cost'[i][j] \in 0..PaddingCost
      BY <1>4
    <3> QED BY <1>1, <1>2, <3>1, AssignmentAssumption, SMTT(30)
  <2> QED BY <1>3, <2>1 DEF DualFeasible
<1>8. Tight'
  BY <1>1, <1>2, <1>3 DEF Tight
<1>9. Tree' /\ Path'
  BY <1>1 DEF Tree, Path
<1> QED
  BY <1>5, <1>6, <1>7, <1>8, <1>9 DEF CallInv

-----------------------------------------------------------------------------
(* What the invariant says of the search: the three parts of SearchExact   *)
(* that every pass keeps.                                                  *)
LEMMA TightMatching ==
  ASSUME CallInv
  PROVE  MatchedTight
<1>1. CallTyped /\ OneToOne /\ Tight /\ size \in Nat \ {0}
  BY DEF CallInv, CallTyped
<1>2. ASSUME apc # "augment", NEW j \in Cols, p[j] # 0
      PROVE  Reduced(p[j], j) = 0
  <2>1. j \in InForce \ {0}
    BY <1>1, <1>2, Sides DEF CallTyped, InForce
  <2> QED BY <1>1, <1>2, <2>1 DEF Tight
<1>3. ASSUME apc = "row", NEW i \in Rows
      PROVE  Cardinality({j \in Cols : p[j] = i}) = IF i < row THEN 1 ELSE 0
  <2>1. /\ InForce = Cols /\ Top = row - 1 /\ row \in Nat /\ i \in Nat /\ i # 0
        /\ p \in [Cols0 -> Cols0]
    BY <1>1, <1>3, Sides DEF InForce, Top, CallTyped
  <2>2. CASE i < row
    <3>1. i \in 1..Top
      BY <2>1, <2>2
    <3>2. PICK k \in Cols : p[k] = i
      BY <1>1, <2>1, <3>1 DEF OneToOne
    <3>3. {j \in Cols : p[j] = i} = {k}
      BY <1>1, <2>1, <3>2 DEF OneToOne
    <3> QED BY <2>2, <3>3, FS_Singleton
  <2>3. CASE ~(i < row)
    <3>1. \A j \in Cols : p[j] \in Nat /\ p[j] <= row - 1
      BY <1>1, <2>1, Sides DEF OneToOne
    <3>2. {j \in Cols : p[j] = i} = {}
      BY <2>1, <2>3, <3>1
    <3> QED BY <2>3, <3>2, FS_EmptySet
  <2> QED BY <2>2, <2>3
<1> QED
  BY <1>2, <1>3 DEF MatchedTight

LEMMA SlacksOfTheTree ==
  ASSUME CallInv
  PROVE  SlackExact
<1> SUFFICES ASSUME apc = "scan", used # {}, NEW j \in Beyond
             PROVE  /\ minv[j] = Min({Reduced(p[k], j) : k \in used})
                    /\ way[j] \in used /\ Reduced(p[way[j]], j) = minv[j]
  BY DEF SlackExact, Beyond, InTree
<1>1. /\ \A k \in used : minv[j] <= Reduced(p[k], j)
      /\ way[j] \in used /\ Reduced(p[way[j]], j) = minv[j]
  BY DEF CallInv, Tree
<1>2. j \in Cols /\ used \subseteq InTree
  BY DEF Beyond, InTree
<1>3. \A k \in used : Reduced(p[k], j) \in Nat
  BY <1>2, TreeRows, Bounded
<1> DEFINE S == {Reduced(p[k], j) : k \in used}
<1>4. S \subseteq Nat /\ minv[j] \in S /\ \A x \in S : minv[j] <= x
  BY <1>1, <1>3
<1>5. Min(S) \in S /\ Min(S) <= minv[j]
  BY <1>4, LeastOf
<1>6. minv[j] = Min(S)
  BY <1>4, <1>5, SMTT(30)
<1> QED
  BY <1>1, <1>6

LEMMA SearchSays ==
  ASSUME SearchInv
  PROVE  DualFeasible /\ MatchedTight /\ SlackExact
<1>1. CASE apc = "idle"
  <2>1. Rows = {} /\ Cols = {}
    BY <1>1 DEF SearchInv, Rows, Cols
  <2> QED BY <1>1, <2>1 DEF DualFeasible, MatchedTight, SlackExact
<1>2. CASE apc # "idle"
  BY <1>2, TightMatching, SlacksOfTheTree DEF SearchInv, CallInv
<1> QED
  BY <1>1, <1>2

-----------------------------------------------------------------------------
(* Sums over a finite set. Induction over the natural numbers, and over    *)
(* the subsets of a finite set, with a set in place of the predicate.      *)
LEMMA CountUp ==
  ASSUME NEW Good, 0 \in Good, \A n \in Nat : n \in Good => n + 1 \in Good
  PROVE  Nat \subseteq Good
<1> DEFINE bad == Nat \ Good
<1> SUFFICES ASSUME bad # {} PROVE FALSE
  OBVIOUS
<1>1. PICK m \in Nat : m \notin Good /\ \A n \in bad : m <= n
  <2>1. Min(bad) \in bad /\ \A n \in bad : Min(bad) <= n
    BY LeastOf
  <2> QED BY <2>1
<1>2. m - 1 \in Nat /\ m - 1 \notin bad
  BY <1>1
<1> QED BY <1>1, <1>2

LEMMA GrowUp ==
  ASSUME NEW S, IsFiniteSet(S), NEW Good,
         \A T \in SUBSET S : (\A x \in T : T \ {x} \in Good) => T \in Good
  PROVE  SUBSET S \subseteq Good
<1> DEFINE Reached == {n \in Nat : \A T \in SUBSET S : Cardinality(T) = n => T \in Good}
<1>1. \A T \in SUBSET S : IsFiniteSet(T) /\ Cardinality(T) \in Nat
  BY FS_Subset, FS_CardinalityType
<1>2. 0 \in Reached
  <2> SUFFICES ASSUME NEW T \in SUBSET S, Cardinality(T) = 0
               PROVE  T \in Good
    OBVIOUS
  <2>1. T = {}
    BY <1>1, FS_EmptySet
  <2> QED BY <2>1
<1>3. ASSUME NEW n \in Nat, n \in Reached
      PROVE  n + 1 \in Reached
  <2> SUFFICES ASSUME NEW T \in SUBSET S, Cardinality(T) = n + 1
               PROVE  T \in Good
    OBVIOUS
  <2>1. ASSUME NEW x \in T
        PROVE  T \ {x} \in Good
    <3>1. Cardinality(T \ {x}) = n
      BY <1>1, FS_RemoveElement
    <3>2. T \ {x} \in SUBSET S
      OBVIOUS
    <3> QED BY <1>3, <3>1, <3>2
  <2> QED BY <2>1
<1>4. Nat \subseteq Reached
  <2> HIDE DEF Reached
  <2> QED BY <1>2, <1>3, CountUp
<1> QED BY <1>1, <1>4

OneOf(T) == CHOOSE x \in T : TRUE
Part(f, g, T) == IF T = {} THEN 0 ELSE f[OneOf(T)] + g[T \ {OneOf(T)}]

(* The sums over all parts of S, as the fold of Functions adds them up.    *)
SumsOf(S, f) == CHOOSE g : g = [T \in SUBSET S |-> Part(f, g, T)]
SumOver(S, f, T) == SumsOf(S, f)[T]

LEMMA TotalIsSum ==
  ASSUME NEW f
  PROVE  Total(f) = SumOver(Rows, f, Rows)
BY Zenon DEF Total, SumFunctionOnSet, FoldFunctionOnSet, MapThenFoldSet,
         SumOver, SumsOf, Part, OneOf

LEMMA SumsExist ==
  ASSUME NEW S, IsFiniteSet(S), NEW f
  PROVE  \A T \in SUBSET S : SumOver(S, f, T) = Part(f, SumsOf(S, f), T)
<1> DEFINE upTo(n) == {T \in SUBSET S : Cardinality(T) <= n}
           Good == {n \in Nat : \E g : g = [T \in upTo(n) |-> Part(f, g, T)]}
<1>1. \A T \in SUBSET S : IsFiniteSet(T) /\ Cardinality(T) \in Nat
  BY FS_Subset, FS_CardinalityType
<1>2. 0 \in Good
  <2>1. \A T \in upTo(0) : T = {}
    BY <1>1, FS_EmptySet
  <2> DEFINE g == [T \in upTo(0) |-> 0]
  <2>2. g = [T \in upTo(0) |-> Part(f, g, T)]
    BY <2>1 DEF Part
  <2> QED BY <2>2
<1>3. ASSUME NEW n \in Nat, n \in Good
      PROVE  n + 1 \in Good
  <2>1. PICK g : g = [T \in upTo(n) |-> Part(f, g, T)]
    BY <1>3
  <2> DEFINE h == [T \in upTo(n + 1) |-> Part(f, g, T)]
  <2>2. ASSUME NEW T \in upTo(n)
        PROVE  h[T] = g[T]
    <3>1. T \in upTo(n + 1)
      BY <1>1
    <3>2. h[T] = Part(f, g, T)
      BY <3>1
    <3>3. g[T] = Part(f, g, T)
      BY <2>1
    <3> QED BY <3>2, <3>3
  <2>3. ASSUME NEW T \in upTo(n + 1)
        PROVE  Part(f, g, T) = Part(f, h, T)
    <3>1. CASE T = {}
      BY <3>1 DEF Part
    <3>2. CASE T # {}
      <4>1. OneOf(T) \in T
        BY <3>2 DEF OneOf
      <4>2. Cardinality(T \ {OneOf(T)}) = Cardinality(T) - 1
        BY <1>1, <4>1, FS_RemoveElement
      <4>3. T \ {OneOf(T)} \in upTo(n)
        BY <1>1, <4>2
      <4>4. h[T \ {OneOf(T)}] = g[T \ {OneOf(T)}]
        BY <2>2, <4>3
      <4> HIDE DEF h
      <4> QED BY <4>4 DEF Part
    <3> QED BY <3>1, <3>2
  <2>4. h = [T \in upTo(n + 1) |-> Part(f, h, T)]
    BY <2>3
  <2> HIDE DEF h
  <2> QED BY <2>4
<1>4. Nat \subseteq Good
  <2> HIDE DEF Good
  <2> QED BY <1>2, <1>3, CountUp
<1>5. PICK n \in Nat : n = Cardinality(S) /\ upTo(n) = SUBSET S
  <2>1. Cardinality(S) \in Nat
    BY FS_CardinalityType
  <2>2. \A T \in SUBSET S : Cardinality(T) <= Cardinality(S)
    BY FS_Subset
  <2> QED BY <2>1, <2>2
<1>6. \E g : g = [T \in SUBSET S |-> Part(f, g, T)]
  BY <1>4, <1>5
<1>7. SumsOf(S, f) = [T \in SUBSET S |-> Part(f, SumsOf(S, f), T)]
  BY <1>6 DEF SumsOf
<1> DEFINE g == SumsOf(S, f)
<1> HIDE DEF g
<1>8. \A T \in SUBSET S : g[T] = Part(f, g, T)
  BY <1>7 DEF g
<1> QED BY <1>8 DEF g, SumOver

LEMMA SumAt ==
  ASSUME NEW S, IsFiniteSet(S), NEW f, NEW T \in SUBSET S
  PROVE  /\ T = {} => SumOver(S, f, T) = 0
         /\ T # {} => /\ OneOf(T) \in T
                      /\ SumOver(S, f, T) = f[OneOf(T)] + SumOver(S, f, T \ {OneOf(T)})
<1> DEFINE g == SumsOf(S, f)
<1>1. SumOver(S, f, T) = Part(f, g, T)
  BY SumsExist
<1>2. g[T] = Part(f, g, T)
  BY <1>1 DEF SumOver
<1>3. T # {} => OneOf(T) \in T
  BY DEF OneOf
<1> QED BY <1>2, <1>3 DEF g, SumOver, Part

LEMMA SumIsInt ==
  ASSUME NEW S, IsFiniteSet(S), NEW f \in [S -> Int], NEW T \in SUBSET S
  PROVE  SumOver(S, f, T) \in Int
<1> DEFINE Good == {X \in SUBSET S : SumOver(S, f, X) \in Int}
<1>1. ASSUME NEW X \in SUBSET S, \A x \in X : X \ {x} \in Good
      PROVE  X \in Good
  <2>1. CASE X = {}
    BY <2>1, SumAt, SMTT(30)
  <2>2. CASE X # {}
    <3>1. /\ OneOf(X) \in X
          /\ SumOver(S, f, X) = f[OneOf(X)] + SumOver(S, f, X \ {OneOf(X)})
      BY <2>2, SumAt
    <3>2. SumOver(S, f, X \ {OneOf(X)}) \in Int /\ f[OneOf(X)] \in Int
      BY <1>1, <3>1
    <3> QED BY <3>1, <3>2
  <2> QED BY <2>1, <2>2
<1>2. SUBSET S \subseteq Good
  <2> HIDE DEF Good
  <2> QED BY <1>1, GrowUp
<1> QED BY <1>2

(* Whichever element is taken out of a set, the sum is the same.           *)
LEMMA SumLess ==
  ASSUME NEW S, IsFiniteSet(S), NEW f \in [S -> Int],
         NEW T \in SUBSET S, NEW e \in T
  PROVE  SumOver(S, f, T) = f[e] + SumOver(S, f, T \ {e})
<1> DEFINE Good == {X \in SUBSET S :
                      \A x \in X : SumOver(S, f, X) = f[x] + SumOver(S, f, X \ {x})}
<1>1. ASSUME NEW X \in SUBSET S, \A x \in X : X \ {x} \in Good
      PROVE  X \in Good
  <2> SUFFICES ASSUME NEW x \in X
               PROVE  SumOver(S, f, X) = f[x] + SumOver(S, f, X \ {x})
    OBVIOUS
  <2>1. PICK y \in X : SumOver(S, f, X) = f[y] + SumOver(S, f, X \ {y})
    <3>1. X # {} /\ OneOf(X) \in X
      BY DEF OneOf
    <3> QED BY <3>1, SumAt
  <2>2. CASE x = y
    BY <2>1, <2>2
  <2>3. CASE x # y
    <3>1. SumOver(S, f, X \ {y}) = f[x] + SumOver(S, f, (X \ {y}) \ {x})
      BY <1>1, <2>3
    <3>2. SumOver(S, f, X \ {x}) = f[y] + SumOver(S, f, (X \ {x}) \ {y})
      BY <1>1, <2>3
    <3>3. PICK rest \in SUBSET S : /\ rest = (X \ {x}) \ {y}
                                  /\ rest = (X \ {y}) \ {x}
      OBVIOUS
    <3>4. /\ SumOver(S, f, rest) \in Int
          /\ f[x] \in Int /\ f[y] \in Int
      BY SumIsInt
    <3>5. /\ SumOver(S, f, X \ {y}) = f[x] + SumOver(S, f, rest)
          /\ SumOver(S, f, X \ {x}) = f[y] + SumOver(S, f, rest)
      BY <3>1, <3>2, <3>3, Zenon
    <3>6. SumOver(S, f, X) = f[y] + (f[x] + SumOver(S, f, rest))
      BY <2>1, <3>5, Zenon
    <3> QED BY <3>4, <3>5, <3>6
  <2> QED BY <2>2, <2>3
<1>2. SUBSET S \subseteq Good
  <2> HIDE DEF Good
  <2> QED BY <1>1, GrowUp
<1> QED BY <1>2

(* What holds element by element holds of the sums.                        *)
LEMMA SumsCompare ==
  ASSUME NEW S, IsFiniteSet(S), NEW f \in [S -> Int],
         NEW g \in [S -> Int], NEW h \in [S -> Int],
         \A i \in S : g[i] + h[i] <= f[i]
  PROVE  /\ SumOver(S, g, S) + SumOver(S, h, S) <= SumOver(S, f, S)
         /\ (\A i \in S : g[i] + h[i] = f[i]) =>
              SumOver(S, g, S) + SumOver(S, h, S) = SumOver(S, f, S)
<1> DEFINE exact == \A i \in S : g[i] + h[i] = f[i]
           Good == {X \in SUBSET S :
             /\ SumOver(S, g, X) + SumOver(S, h, X) <= SumOver(S, f, X)
             /\ exact => SumOver(S, g, X) + SumOver(S, h, X) = SumOver(S, f, X)}
<1>1. ASSUME NEW X \in SUBSET S, \A x \in X : X \ {x} \in Good
      PROVE  X \in Good
  <2>1. CASE X = {}
    <3>1. /\ SumOver(S, f, X) = 0 /\ SumOver(S, g, X) = 0
          /\ SumOver(S, h, X) = 0
      BY <2>1, SumAt
    <3> QED BY <3>1
  <2>2. CASE X # {}
    <3>1. PICK x \in X : TRUE
      BY <2>2
    <3>2. /\ SumOver(S, f, X) = f[x] + SumOver(S, f, X \ {x})
          /\ SumOver(S, g, X) = g[x] + SumOver(S, g, X \ {x})
          /\ SumOver(S, h, X) = h[x] + SumOver(S, h, X \ {x})
      BY SumLess
    <3>3. /\ SumOver(S, f, X \ {x}) \in Int /\ f[x] \in Int
          /\ SumOver(S, g, X \ {x}) \in Int /\ g[x] \in Int
          /\ SumOver(S, h, X \ {x}) \in Int /\ h[x] \in Int
      BY SumIsInt
    <3>4. g[x] + h[x] <= f[x] /\ (exact => g[x] + h[x] = f[x])
      OBVIOUS
    <3>5. /\ SumOver(S, g, X \ {x}) + SumOver(S, h, X \ {x})
               <= SumOver(S, f, X \ {x})
          /\ exact => SumOver(S, g, X \ {x}) + SumOver(S, h, X \ {x})
                        = SumOver(S, f, X \ {x})
      BY <1>1
    <3> HIDE DEF exact
    <3> QED BY <3>2, <3>3, <3>4, <3>5
  <2> QED BY <2>1, <2>2
<1>2. SUBSET S \subseteq Good
  <2> HIDE DEF Good
  <2> QED BY <1>1, GrowUp
<1> QED BY <1>2

(* A sum is the same in whatever order, and by whatever name, its terms    *)
(* are counted.                                                            *)
LEMMA SumMoved ==
  ASSUME NEW S, IsFiniteSet(S), NEW R, IsFiniteSet(R),
         NEW f \in [R -> Int], NEW pi \in [S -> R],
         \A i, j \in S : pi[i] = pi[j] => i = j,
         \A j \in R : \E i \in S : pi[i] = j
  PROVE  SumOver(S, [i \in S |-> f[pi[i]]], S) = SumOver(R, f, R)
<1> DEFINE h == [i \in S |-> f[pi[i]]]
           image(X) == {pi[i] : i \in X}
           Good == {X \in SUBSET S : SumOver(S, h, X) = SumOver(R, f, image(X))}
<1>0. h \in [S -> Int] /\ \A i \in S : h[i] = f[pi[i]]
  OBVIOUS
<1>1. ASSUME NEW X \in SUBSET S, \A x \in X : X \ {x} \in Good
      PROVE  X \in Good
  <2>1. CASE X = {}
    <3>1. image(X) = {} /\ X \in SUBSET S /\ {} \in SUBSET R
      BY <2>1
    <3>2. SumOver(S, h, X) = 0 /\ SumOver(R, f, {}) = 0
      BY <2>1, <3>1, SumAt
    <3> QED BY <3>1, <3>2
  <2>2. CASE X # {}
    <3>1. PICK x \in X : TRUE
      BY <2>2
    <3>2. SumOver(S, h, X) = h[x] + SumOver(S, h, X \ {x})
      <4> HIDE DEF h
      <4> QED BY <1>0, SumLess
    <3>3. pi[x] \in image(X) /\ image(X) \in SUBSET R
      OBVIOUS
    <3>4. SumOver(R, f, image(X)) = f[pi[x]] + SumOver(R, f, image(X) \ {pi[x]})
      <4> HIDE DEF image
      <4> QED BY <3>3, SumLess
    <3>5. image(X \ {x}) = image(X) \ {pi[x]}
      OBVIOUS
    <3>6. SumOver(S, h, X \ {x}) = SumOver(R, f, image(X \ {x}))
      BY <1>1
    <3> HIDE DEF h, image
    <3> QED BY <1>0, <3>2, <3>4, <3>5, <3>6
  <2> QED BY <2>1, <2>2
<1>2. SUBSET S \subseteq Good
  <2> HIDE DEF Good
  <2> QED BY <1>1, GrowUp
<1>3. image(S) = R
  OBVIOUS
<1> QED BY <1>2, <1>3

(* A sum over a set to which others add one value each.                    *)
LEMMA SumWithin ==
  ASSUME NEW S, IsFiniteSet(S), NEW D \in SUBSET S,
         NEW f \in [S -> Int], NEW g \in [D -> Int], NEW K \in Int,
         \A x \in S : f[x] = IF x \in D THEN g[x] ELSE K
  PROVE  /\ SumOver(S, f, S) \in Int /\ SumOver(D, g, D) \in Int
         /\ SumOver(S, f, S)
              = SumOver(D, g, D) + K * (Cardinality(S) - Cardinality(D))
<1> DEFINE others(X) == Cardinality(X) - Cardinality(X \cap D)
           Good == {X \in SUBSET S :
             SumOver(S, f, X) = SumOver(D, g, X \cap D) + K * others(X)}
<1>1. IsFiniteSet(D)
  BY FS_Subset
<1>2. \A X \in SUBSET S : /\ IsFiniteSet(X) /\ IsFiniteSet(X \cap D)
                          /\ X \cap D \in SUBSET D
                          /\ Cardinality(X) \in Nat /\ Cardinality(X \cap D) \in Nat
                          /\ SumOver(S, f, X) \in Int
                          /\ SumOver(D, g, X \cap D) \in Int
  <2> TAKE X \in SUBSET S
  <2>1. X \cap D \in SUBSET D
    OBVIOUS
  <2>2. IsFiniteSet(X) /\ IsFiniteSet(X \cap D)
    BY <1>1, <2>1, FS_Subset
  <2>3. Cardinality(X) \in Nat /\ Cardinality(X \cap D) \in Nat
    BY <2>2, FS_CardinalityType
  <2>4. SumOver(S, f, X) \in Int
    BY SumIsInt
  <2>5. SumOver(D, g, X \cap D) \in Int
    BY <1>1, <2>1, SumIsInt
  <2> QED BY <2>1, <2>2, <2>3, <2>4, <2>5
<1>3. ASSUME NEW X \in SUBSET S, \A x \in X : X \ {x} \in Good
      PROVE  X \in Good
  <2>1. CASE X = {}
    <3>1. X \cap D = {} /\ {} \in SUBSET D /\ {} \in SUBSET S
      BY <2>1
    <3>2. SumOver(S, f, {}) = 0 /\ SumOver(D, g, {}) = 0
      BY <1>1, <3>1, SumAt
    <3>3. others(X) = 0
      BY <2>1, <3>1, FS_EmptySet
    <3>4. K * 0 = 0
      OBVIOUS
    <3> QED BY <2>1, <3>1, <3>2, <3>3, <3>4
  <2>2. CASE X # {}
    <3>1. PICK x \in X : TRUE
      BY <2>2
    <3> DEFINE Y == X \ {x}
    <3>2. Y \in SUBSET S /\ Y \in Good /\ x \in S
      BY <1>3
    <3>3. SumOver(S, f, X) = f[x] + SumOver(S, f, Y)
      BY SumLess
    <3>4. Cardinality(Y) = Cardinality(X) - 1
      BY <1>2, FS_RemoveElement
    <3>5. SumOver(S, f, Y) = SumOver(D, g, Y \cap D)
                               + K * (Cardinality(Y) - Cardinality(Y \cap D))
      BY <3>2
    <3>6. PICK a \in Int, b \in Int, c \in Int, n \in Nat, m \in Nat :
            /\ a = SumOver(S, f, Y) /\ b = SumOver(D, g, Y \cap D) /\ c = f[x]
            /\ n = Cardinality(X) /\ m = Cardinality(X \cap D)
      <4>1. f[x] \in Int
        BY <3>2
      <4> QED BY <1>2, <3>2, <4>1
    <3>7. CASE x \in D
      <4>1. x \in X \cap D /\ X \cap D \in SUBSET D /\ Y \cap D = (X \cap D) \ {x}
        BY <3>7
      <4>2. SumOver(D, g, X \cap D) = g[x] + SumOver(D, g, Y \cap D)
        BY <1>1, <4>1, SumLess
      <4>3. Cardinality(Y \cap D) = Cardinality(X \cap D) - 1
        <5>1. Cardinality((X \cap D) \ {x}) = Cardinality(X \cap D) - 1
          BY <1>2, <4>1, FS_RemoveElement
        <5> QED BY <4>1, <5>1, Zenon
      <4>4. g[x] = c
        BY <3>2, <3>6, <3>7
      <4>5. a = b + K * ((n - 1) - (m - 1))
        BY <3>4, <3>5, <3>6, <4>3, Zenon
      <4>6. /\ SumOver(S, f, X) = c + a
            /\ SumOver(D, g, X \cap D) = c + b
        BY <3>3, <3>6, <4>2, <4>4, Zenon
      <4>7. c + a = (c + b) + K * (n - m)
        <5>1. (n - 1) - (m - 1) = n - m
          OBVIOUS
        <5>2. PICK k \in Int : k = K * (n - m)
          OBVIOUS
        <5>3. a = b + k
          BY <4>5, <5>1, <5>2, Zenon
        <5>4. c + a = (c + b) + k
          BY <5>3
        <5> QED BY <5>2, <5>4, Zenon
      <4>8. others(X) = n - m
        BY <3>6
      <4> HIDE DEF others
      <4> QED BY <4>6, <4>7, <4>8, Zenon
    <3>8. CASE x \notin D
      <4>1. Y \cap D = X \cap D
        BY <3>8
      <4>2. c = K
        BY <3>2, <3>6, <3>8
      <4>3. a = b + K * ((n - 1) - m)
        BY <3>4, <3>5, <3>6, <4>1, Zenon
      <4>4. SumOver(S, f, X) = K + a /\ SumOver(D, g, X \cap D) = b
        BY <3>3, <3>6, <4>1, <4>2, Zenon
      <4>5. K + a = b + K * (n - m)
        <5>1. K * (n - m) = K * ((n - 1) - m) + K
          OBVIOUS
        <5>2. PICK k \in Int : k = K * ((n - 1) - m)
          OBVIOUS
        <5>3. a = b + k /\ K * (n - m) = k + K
          BY <4>3, <5>1, <5>2, Zenon
        <5>4. K + a = b + (k + K)
          BY <5>3
        <5> QED BY <5>3, <5>4, Zenon
      <4>6. others(X) = n - m
        BY <3>6
      <4> HIDE DEF others
      <4> QED BY <4>4, <4>5, <4>6, Zenon
    <3> QED BY <3>7, <3>8
  <2> QED BY <2>1, <2>2
<1>4. SUBSET S \subseteq Good
  <2> HIDE DEF Good
  <2> QED BY <1>3, GrowUp
<1>5. S \in Good /\ S \cap D = D
  BY <1>4
<1> QED BY <1>2, <1>5

-----------------------------------------------------------------------------
(* Why the answer is the least: whatever the assignment, its cost is at    *)
(* least the sum of all the duals, and the matching of a finished call,    *)
(* whose edges are tight, costs just that.                                 *)
Duals == SumOver(Rows, [i \in Rows |-> u[i]], Rows)
           + SumOver(Rows, [j \in Rows |-> v[j]], Rows)
CostOf(pi) == [i \in Rows |-> cost[i][pi[i]]]

LEMMA CostsAtLeastDuals ==
  ASSUME CallInv, NEW pi \in Bijection(Rows, Cols)
  PROVE  /\ Total(CostOf(pi)) \in Int /\ Duals \in Int
         /\ Duals <= Total(CostOf(pi))
         /\ (\A i \in Rows : Reduced(i, pi[i]) = 0) => Total(CostOf(pi)) = Duals
<1> DEFINE U == [i \in Rows |-> u[i]]
           V == [j \in Rows |-> v[j]]
           W == [i \in Rows |-> V[pi[i]]]
<1>1. /\ CallTyped /\ DualFeasible /\ size \in Nat \ {0}
      /\ Rows = Cols /\ IsFiniteSet(Rows)
  <2>1. CallTyped /\ DualFeasible /\ size \in Nat \ {0}
    BY DEF CallInv, CallTyped
  <2> QED BY <2>1, Sides, FS_Interval DEF Rows
<1>2. /\ pi \in [Rows -> Rows]
      /\ \A i, j \in Rows : pi[i] = pi[j] => i = j
      /\ \A j \in Rows : \E i \in Rows : pi[i] = j
  BY <1>1 DEF Bijection, Injection, Surjection, IsInjective
<1>3. \A i \in Rows : /\ Reduced(i, pi[i]) = cost[i][pi[i]] - u[i] - v[pi[i]]
                      /\ cost[i][pi[i]] \in Int /\ u[i] \in Int /\ v[pi[i]] \in Int
                      /\ v[i] \in Int
                      /\ u[i] + v[pi[i]] <= cost[i][pi[i]]
  <2> TAKE i \in Rows
  <2>1. pi[i] \in Cols /\ i \in Cols
    BY <1>1, <1>2
  <2> QED BY <1>1, <2>1, ReducedIsInt, AssignmentAssumption DEF DualFeasible
<1>4. /\ U \in [Rows -> Int] /\ V \in [Rows -> Int] /\ W \in [Rows -> Int]
      /\ CostOf(pi) \in [Rows -> Int]
  BY <1>2, <1>3 DEF CostOf
<1>5. \A i \in Rows : /\ U[i] + W[i] <= CostOf(pi)[i]
                      /\ Reduced(i, pi[i]) = 0 => U[i] + W[i] = CostOf(pi)[i]
  <2> TAKE i \in Rows
  <2>1. U[i] = u[i] /\ CostOf(pi)[i] = cost[i][pi[i]]
    BY DEF CostOf
  <2>2. W[i] = v[pi[i]]
    BY <1>2
  <2> HIDE DEF U, W
  <2>3. PICK a \in Int, b \in Int, c \in Int :
          /\ a = u[i] /\ b = v[pi[i]] /\ c = cost[i][pi[i]]
    BY <1>3
  <2>4. /\ a + b <= c
        /\ Reduced(i, pi[i]) = 0 => a + b = c
    <3>1. Reduced(i, pi[i]) = c - a - b /\ a + b <= c
      BY Zenon, <1>3, <2>3
    <3> QED BY <3>1
  <2>5. U[i] = a /\ W[i] = b /\ CostOf(pi)[i] = c
    BY <2>1, <2>2, <2>3, Zenon
  <2> QED BY <2>4, <2>5
<1>6. SumOver(Rows, W, Rows) = SumOver(Rows, V, Rows)
  <2> HIDE DEF V
  <2> QED BY <1>1, <1>2, <1>4, SumMoved, SMTT(30)
<1>7. Duals = SumOver(Rows, U, Rows) + SumOver(Rows, V, Rows)
  BY DEF Duals
<1> HIDE DEF U, V, W
<1>8. /\ SumOver(Rows, U, Rows) \in Int /\ SumOver(Rows, V, Rows) \in Int
      /\ SumOver(Rows, CostOf(pi), Rows) \in Int
  BY <1>1, <1>4, SumIsInt
<1>9. /\ SumOver(Rows, U, Rows) + SumOver(Rows, W, Rows)
           <= SumOver(Rows, CostOf(pi), Rows)
      /\ (\A i \in Rows : U[i] + W[i] = CostOf(pi)[i]) =>
           SumOver(Rows, U, Rows) + SumOver(Rows, W, Rows)
             = SumOver(Rows, CostOf(pi), Rows)
  BY <1>1, <1>4, <1>5, SumsCompare
<1>10. Total(CostOf(pi)) = SumOver(Rows, CostOf(pi), Rows)
  BY TotalIsSum
<1> QED BY <1>5, <1>6, <1>7, <1>8, <1>9, <1>10

(* The matching of a finished call is one to one and tight.                *)
LEMMA MatchingIsTight ==
  ASSUME CallInv, Solved
  PROVE  LET pi == [i \in Rows |-> ColumnOf(i)] IN
         /\ pi \in Bijection(Rows, Cols)
         /\ \A i \in Rows : Reduced(i, pi[i]) = 0
<1> DEFINE pi == [i \in Rows |-> ColumnOf(i)]
<1>1. /\ CallTyped /\ OneToOne /\ Tight /\ size \in Nat \ {0}
      /\ InForce = Cols /\ Top = size /\ 0 \notin Cols
      /\ Rows = Cols /\ IsFiniteSet(Rows)
  <2>1. CallTyped /\ OneToOne /\ Tight /\ size \in Nat \ {0}
    BY DEF CallInv, CallTyped
  <2>2. Top = size /\ InForce = Cols
    BY <2>1 DEF Solved, Top, InForce, CallTyped
  <2> QED BY <2>1, <2>2, Sides, FS_Interval DEF Rows
<1>2. \A i \in Rows : ColumnOf(i) \in Cols /\ p[ColumnOf(i)] = i
  <2> TAKE i \in Rows
  <2>1. \E j \in Cols : p[j] = i
    BY <1>1 DEF OneToOne, Rows
  <2> QED BY <2>1 DEF ColumnOf
<1>3. pi \in Injection(Rows, Rows)
  BY <1>1, <1>2 DEF Injection, IsInjective
<1>4. pi \in Bijection(Rows, Cols)
  <2> HIDE DEF pi
  <2>1. pi \in Surjection(Rows, Rows)
    BY <1>1, <1>3, FS_Injection
  <2> QED BY <1>1, <1>3, <2>1 DEF Bijection
<1>5. ASSUME NEW i \in Rows
      PROVE  Reduced(i, pi[i]) = 0
  <2>1. pi[i] \in InForce \ {0} /\ p[pi[i]] = i /\ i # 0
    BY <1>1, <1>2 DEF Rows
  <2> QED BY <1>1, <2>1 DEF Tight
<1> QED BY <1>4, <1>5

LEMMA SolvedIsLeast ==
  ASSUME CallInv
  PROVE  SolvedOptimal
<1> SUFFICES ASSUME Solved
             PROVE  Total([i \in Rows |-> cost[i][ColumnOf(i)]]) = Least
  BY DEF SolvedOptimal
<1> DEFINE pi == [i \in Rows |-> ColumnOf(i)]
           S  == {Total(CostOf(f)) : f \in Bijection(Rows, Cols)}
<1>1. pi \in Bijection(Rows, Cols) /\ \A i \in Rows : Reduced(i, pi[i]) = 0
  BY MatchingIsTight
<1>2. CostOf(pi) = [i \in Rows |-> cost[i][ColumnOf(i)]]
  BY DEF CostOf
<1> HIDE DEF pi
<1>3. Total(CostOf(pi)) = Duals /\ Duals \in Int
  BY <1>1, CostsAtLeastDuals
<1>4. Duals \in S /\ \A x \in S : x \in Int /\ Duals <= x
  BY <1>1, <1>3, CostsAtLeastDuals
<1>5. Least = Min(S)
  BY Zenon DEF Least, CostOf
<1> HIDE DEF S
<1>6. Min(S) \in S /\ Min(S) <= Duals
  BY <1>4, Zenon DEF Min
<1>7. Min(S) = Duals
  <2>1. PICK m : m = Min(S)
    OBVIOUS
  <2>2. m \in Int /\ Duals <= m /\ m <= Duals
    BY <1>4, <1>6, <2>1
  <2> QED BY <1>3, <2>1, <2>2
<1> QED BY <1>2, <1>3, <1>5, <1>7

-----------------------------------------------------------------------------
(* The table. Ids are those given out so far, and not more tracks are kept *)
(* than the cap allows: without that, the room for new ones would be       *)
(* negative.                                                               *)
Entry == [missed : Nat, count : Nat]
Table(t, next) == /\ t \in [DOMAIN t -> Entry]
                  /\ DOMAIN t \subseteq 1..(next - 1)
                  /\ Cardinality(DOMAIN t) <= MaxTracks

TableInv ==
  /\ nextId \in Nat \ {0} /\ dets \in Nat
  /\ Table(tracks, nextId)
  /\ tpc = "solve" => \E n \in Nat : DOMAIN order = 1..n /\ n <= size
  /\ tpc \in {"wait", "solve", "publish"}
  /\ SearchInv

LEMMA TableFinite ==
  ASSUME NEW t, NEW next \in Nat, Table(t, next)
  PROVE  IsFiniteSet(DOMAIN t) /\ Cardinality(DOMAIN t) \in 0..MaxTracks
<1>1. IsFiniteSet(1..(next - 1))
  BY FS_Interval
<1>2. IsFiniteSet(DOMAIN t)
  BY <1>1, FS_Subset DEF Table
<1>3. Cardinality(DOMAIN t) \in Nat
  BY <1>2, FS_CardinalityType
<1> QED
  BY <1>2, <1>3, TableAssumption DEF Table

LEMMA Smaller ==
  ASSUME NEW t, NEW next \in Nat, Table(t, next), NEW S \in SUBSET DOMAIN t
  PROVE  Table(Restrict(t, S), next)
<1>1. DOMAIN Restrict(t, S) = S /\ Restrict(t, S) \in [S -> Entry]
  BY DEF Restrict, Table
<1>2. Cardinality(S) <= Cardinality(DOMAIN t) /\ Cardinality(S) \in Nat
  BY TableFinite, FS_Subset, FS_CardinalityType
<1>3. Cardinality(S) <= MaxTracks
  BY <1>2, TableFinite, TableAssumption
<1> QED
  BY <1>1, <1>3 DEF Table

LEMMA NewIds ==
  ASSUME NEW next \in Nat, NEW k \in Nat
  PROVE  /\ IsFiniteSet(next..(next + k - 1))
         /\ Cardinality(next..(next + k - 1)) = k
<1>1. PICK b \in Int : b = next + k - 1
  OBVIOUS
<1>2. /\ IsFiniteSet(next..b)
      /\ Cardinality(next..b) = IF next > b THEN 0 ELSE b - next + 1
  BY FS_Interval
<1> QED
  BY <1>1, <1>2

LEMMA Larger ==
  ASSUME TableInv, NEW t \in [Ids -> Entry], NEW k \in Nat,
         Cardinality(Ids) + k <= MaxTracks
  PROVE  /\ Table(WithNew(t, k), nextId + k) /\ nextId + k \in Nat \ {0}
         /\ DOMAIN WithNew(t, k) = Ids \cup nextId..(nextId + k - 1)
<1> DEFINE new == nextId..(nextId + k - 1)
<1>1. /\ nextId \in Nat \ {0} /\ Ids \subseteq 1..(nextId - 1)
      /\ IsFiniteSet(Ids) /\ Cardinality(Ids) \in Nat
  BY TableFinite, FS_CardinalityType DEF TableInv, Table, Ids
<1>2. DOMAIN t = Ids
  OBVIOUS
<1>3. DOMAIN WithNew(t, k) = Ids \cup new
  BY <1>2 DEF WithNew
<1>4. WithNew(t, k) \in [Ids \cup new -> Entry]
  <2>1. Seen \in Entry
    BY DEF Seen, Entry
  <2> QED BY <1>2, <2>1 DEF WithNew
<1>5. IsFiniteSet(new) /\ Cardinality(new) = k
  BY <1>1, NewIds
<1>6. Cardinality(Ids \cup new) <= MaxTracks
  <2>1. Cardinality(Ids \cap new) \in Nat
    BY <1>1, FS_Intersection, FS_CardinalityType
  <2>2. Cardinality(Ids \cup new) = Cardinality(Ids) + Cardinality(new) - Cardinality(Ids \cap new)
    BY <1>1, <1>5, FS_Union
  <2> QED BY <1>1, <1>5, <2>1, <2>2, TableAssumption
<1>7. Ids \cup new \subseteq 1..(nextId + k - 1)
  BY <1>1
<1> QED
  BY <1>1, <1>3, <1>4, <1>6, <1>7 DEF Table

(* There is room for some of the detections that found no track.           *)
LEMMA RoomIsThere ==
  ASSUME NEW n \in 0..MaxTracks, NEW found \in Nat, NEW matched \in 0..found
  PROVE  /\ RoomFor(n, found, matched) \in 0..(found - matched)
         /\ n + RoomFor(n, found, matched) <= MaxTracks
BY TableAssumption DEF RoomFor

(* A finished search gives each row a column of its own, so that no two    *)
(* tracks are matched with the same detection.                             *)
LEMMA MatchesAddUp ==
  ASSUME TableInv, tpc = "solve", Solved
  PROVE  /\ DOMAIN order \subseteq Rows
         /\ IsFiniteSet(MatchedRows) /\ Cardinality(MatchedRows) \in 0..dets
         /\ IsFiniteSet({order[i] : i \in MatchedRows})
         /\ Cardinality({order[i] : i \in MatchedRows}) \in 0..Cardinality(MatchedRows)
<1>1. /\ CallTyped /\ OneToOne /\ size \in Nat \ {0} /\ dets \in Nat
      /\ apc = "row" /\ row = size + 1 /\ Top = size /\ InForce = Cols
      /\ p \in [Cols0 -> Cols0]
  <2>1. apc = "row" /\ row > size
    BY DEF Solved
  <2>2. CallInv /\ dets \in Nat
    BY <2>1 DEF TableInv, SearchInv
  <2>3. CallTyped /\ OneToOne /\ size \in Nat \ {0} /\ p \in [Cols0 -> Cols0]
        /\ row \in 1..(size + 1)
    BY <2>2 DEF CallInv, CallTyped
  <2>4. row = size + 1
    BY <2>1, <2>3
  <2> QED BY <2>1, <2>2, <2>3, <2>4 DEF Top, InForce
<1>2. DOMAIN order \subseteq Rows
  BY <1>1 DEF TableInv, Rows
<1>3. \A i \in Rows : ColumnOf(i) \in Cols /\ p[ColumnOf(i)] = i
  <2> TAKE i \in Rows
  <2>1. \E j \in Cols : p[j] = i
    BY <1>1 DEF OneToOne, Rows
  <2> QED BY <2>1 DEF ColumnOf
<1> DEFINE column == [i \in MatchedRows |-> ColumnOf(i)]
<1>4. column \in Injection(MatchedRows, 1..dets)
  <2>1. \A i \in MatchedRows : i \in Rows /\ ColumnOf(i) <= dets
    BY <1>2 DEF MatchedRows
  <2>2. \A i \in MatchedRows : ColumnOf(i) \in 1..dets
    BY <1>1, <1>3, <2>1 DEF Cols
  <2>3. \A i, k \in MatchedRows : ColumnOf(i) = ColumnOf(k) => i = k
    BY <1>3, <2>1
  <2> QED BY <2>2, <2>3 DEF Injection, IsInjective
<1>5. IsFiniteSet(1..dets) /\ Cardinality(1..dets) = dets
  BY <1>1, FS_Interval
<1>6. IsFiniteSet(MatchedRows) /\ Cardinality(MatchedRows) <= dets
  BY <1>4, <1>5, FS_Injection
<1>7. Cardinality(MatchedRows) \in 0..dets
  BY <1>1, <1>6, FS_CardinalityType
<1> DEFINE M  == {order[i] : i \in MatchedRows}
           id == [i \in MatchedRows |-> order[i]]
<1>8. id \in Surjection(MatchedRows, M)
  BY DEF Surjection
<1>9. IsFiniteSet(M) /\ Cardinality(M) <= Cardinality(MatchedRows)
  BY <1>6, <1>8, FS_Surjection
<1>10. Cardinality(M) \in 0..Cardinality(MatchedRows)
  BY <1>6, <1>9, FS_CardinalityType
<1> QED
  BY <1>2, <1>6, <1>7, <1>9, <1>10

(* After the matches are applied, the tracks just seen are those matched   *)
(* and those opened for what was left.                                     *)
LEMMA ApplyKeeps ==
  ASSUME TableInv, Apply
  PROVE  TableInv' /\ SightingsAddUp'
<1> DEFINE matched == {order[i] : i \in MatchedRows}
           aged    == [id \in Ids |-> IF id \in matched THEN Match(tracks[id])
                                      ELSE Predict(tracks[id])]
           n       == Cardinality(Ids)
           k       == RoomFor(n, dets, Cardinality(MatchedRows))
           new     == nextId..(nextId + k - 1)
<1>1. /\ tpc = "solve" /\ tpc' = "publish" /\ Solved /\ Forget
      /\ nextId' = nextId + k /\ order' = <<>> /\ dets' = dets
  BY DEF Apply
<1>2. PICK tooOld \in SUBSET (Ids \ matched) :
        tracks' = Survivors(WithNew(aged, k), tooOld)
  BY DEF Apply
<1>3. /\ nextId \in Nat \ {0} /\ dets \in Nat /\ Table(tracks, nextId)
      /\ tracks \in [Ids -> Entry] /\ IsFiniteSet(Ids) /\ n \in 0..MaxTracks
  BY TableFinite DEF TableInv, Table, Ids
<1>4. /\ Cardinality(MatchedRows) \in 0..dets
      /\ IsFiniteSet(matched) /\ Cardinality(matched) \in 0..Cardinality(MatchedRows)
  BY <1>1, MatchesAddUp
<1>5. /\ k \in 0..(dets - Cardinality(MatchedRows)) /\ n + k <= MaxTracks /\ k \in Nat
  BY <1>3, <1>4, RoomIsThere
<1>6. aged \in [Ids -> Entry]
  <2>1. \A id \in Ids : Match(tracks[id]) \in Entry /\ Predict(tracks[id]) \in Entry
    <3> TAKE id \in Ids
    <3>1. tracks[id] \in Entry
      BY <1>3
    <3> QED BY <3>1, TableAssumption DEF Match, Predict, Entry
  <2> QED BY <2>1
<1> HIDE DEF k
<1>7. /\ Table(WithNew(aged, k), nextId + k) /\ nextId + k \in Nat \ {0}
      /\ DOMAIN WithNew(aged, k) = Ids \cup new
  BY <1>5, <1>6, Larger
<1>8. /\ DOMAIN tracks' \subseteq Ids \cup new
      /\ \A id \in DOMAIN tracks' : tracks'[id] = WithNew(aged, k)[id]
      /\ Table(tracks', nextId')
  <2> DEFINE kept == {id \in DOMAIN WithNew(aged, k) :
                         ~IsLost(WithNew(aged, k)[id]) /\ id \notin tooOld}
  <2>1. tracks' = Restrict(WithNew(aged, k), kept)
    BY <1>2 DEF Survivors
  <2>2. kept \in SUBSET DOMAIN WithNew(aged, k)
    OBVIOUS
  <2> HIDE DEF kept, aged
  <2>3. Table(tracks', nextId + k)
    BY <1>7, <2>1, <2>2, Smaller
  <2>4. DOMAIN tracks' = kept /\ \A id \in kept : tracks'[id] = WithNew(aged, k)[id]
    BY <2>1 DEF Restrict
  <2> QED BY <1>1, <1>7, <2>2, <2>3, <2>4
<1>9. TableInv'
  <2>1. SearchInv'
    BY <1>1 DEF Forget, SearchInv
  <2> QED BY <1>1, <1>3, <1>7, <1>8, <2>1 DEF TableInv
<1> DEFINE seen == {id \in DOMAIN tracks' : tracks'[id].missed = 0}
<1>10. seen \subseteq matched \cup new
  <2> SUFFICES ASSUME NEW id \in seen, id \notin new PROVE id \in matched
    OBVIOUS
  <2>1. id \in Ids /\ tracks'[id] = aged[id]
    BY <1>6, <1>8 DEF WithNew
  <2>2. tracks[id].missed \in Nat /\ tracks[id] \in Entry
    BY <1>3, <2>1 DEF Entry
  <2>3. Predict(tracks[id]).missed = tracks[id].missed + 1
    BY <2>2 DEF Predict, Entry
  <2>4. CASE id \notin matched
    BY <2>1, <2>2, <2>3, <2>4
  <2> QED BY <2>4
<1>11. IsFiniteSet(new) /\ Cardinality(new) = k
  BY <1>3, <1>5, NewIds
<1>12. IsFiniteSet(matched \cup new) /\ Cardinality(matched \cup new) <= dets
  <2> HIDE DEF matched, new
  <2>1. Cardinality(matched \cap new) \in Nat
    BY <1>4, FS_Intersection, FS_CardinalityType
  <2>2. /\ IsFiniteSet(matched \cup new)
        /\ Cardinality(matched \cup new)
             = Cardinality(matched) + Cardinality(new) - Cardinality(matched \cap new)
    BY <1>4, <1>11, FS_Union
  <2> QED BY <1>3, <1>4, <1>5, <1>11, <2>1, <2>2
<1>13. Cardinality(seen) <= dets
  <2>1. IsFiniteSet(seen) /\ Cardinality(seen) <= Cardinality(matched \cup new)
    BY <1>10, <1>12, FS_Subset
  <2> HIDE DEF seen, matched, new
  <2>2. Cardinality(seen) \in Nat /\ Cardinality(matched \cup new) \in Nat
    BY <1>12, <2>1, FS_CardinalityType
  <2> QED BY <1>3, <1>12, <2>1, <2>2
<1>14. SightingsAddUp'
  BY <1>1, <1>13 DEF SightingsAddUp, Ids
<1> QED
  BY <1>9, <1>14

LEMMA SearchSame ==
  ASSUME SearchInv, UNCHANGED assignVars
  PROVE  SearchInv'
<1>1. /\ size' = size /\ cost' = cost /\ u' = u /\ v' = v /\ p' = p /\ way' = way
      /\ row' = row /\ col' = col /\ minv' = minv /\ used' = used /\ apc' = apc
  BY DEF assignVars, dualVars, scanVars
<1>2. /\ Rows' = Rows /\ Cols' = Cols /\ Cols0' = Cols0 /\ InForce' = InForce
      /\ Top' = Top /\ InTree' = InTree /\ Beyond' = Beyond /\ Infinity' = Infinity
  BY <1>1 DEF Rows, Cols, Cols0, InForce, Top, InTree, Beyond, Infinity
<1>3. CASE apc = "idle"
  BY <1>1, <1>3 DEF SearchInv
<1>4. CASE apc # "idle"
  <2>1. CallTyped /\ OneToOne /\ DualFeasible /\ Tight /\ Tree /\ Path
    BY <1>4 DEF SearchInv, CallInv
  <2>2. CallTyped'
    BY <1>1, <1>2, <2>1 DEF CallTyped
  <2>3. OneToOne'
    BY <1>1, <1>2, <2>1 DEF OneToOne
  <2>4. DualFeasible'
    BY <1>1, <1>2, <2>1 DEF DualFeasible
  <2>5. Tight'
    BY <1>1, <1>2, <2>1 DEF Tight, Reduced
  <2>6. Tree'
    BY <1>1, <1>2, <2>1 DEF Tree, Reduced
  <2>7. Path'
    BY <1>1, <1>2, <2>1 DEF Path, Back, Reduced
  <2> QED
    BY <1>1, <1>4, <2>2, <2>3, <2>4, <2>5, <2>6, <2>7 DEF SearchInv, CallInv
<1> QED
  BY <1>3, <1>4

LEMMA TableSame ==
  ASSUME TableInv, SightingsAddUp, UNCHANGED updateVars
  PROVE  TableInv' /\ SightingsAddUp'
<1>1. /\ UNCHANGED assignVars /\ tracks' = tracks /\ nextId' = nextId /\ dets' = dets
      /\ order' = order /\ published' = published /\ tpc' = tpc /\ size' = size
  BY DEF updateVars, assignVars, tableVars
<1>2. SearchInv'
  BY <1>1, SearchSame DEF TableInv
<1> QED
  BY <1>1, <1>2 DEF TableInv, SightingsAddUp, Ids

(* The first detections, up to the cap, each open a track.                 *)
LEMMA BootstrapKeeps ==
  ASSUME TableInv, NEW m \in 0..MaxDets, Bootstrap(m)
  PROVE  TableInv' /\ SightingsAddUp'
<1> DEFINE k   == RoomFor(0, m, 0)
           new == nextId..(nextId + k - 1)
<1>1. /\ dets' = m /\ tracks = <<>> /\ tracks' = WithNew(tracks, k)
      /\ nextId' = nextId + k /\ tpc' = "publish" /\ UNCHANGED assignVars
  BY DEF Bootstrap, Frame
<1>2. m \in Nat /\ k \in 0..m /\ k <= MaxTracks
  <2>1. m \in Nat
    BY TableAssumption
  <2> QED BY <2>1, RoomIsThere, TableAssumption
<1> HIDE DEF k
<1>3. nextId \in Nat \ {0} /\ Table(tracks, nextId) /\ tracks \in [Ids -> Entry]
  BY DEF TableInv, Table, Ids
<1>4. Ids = {} /\ Cardinality(Ids) = 0
  BY <1>1, FS_EmptySet DEF Ids
<1>5. /\ Table(tracks', nextId') /\ nextId' \in Nat \ {0} /\ DOMAIN tracks' = new
  <2>1. k \in Nat /\ Cardinality(Ids) + k <= MaxTracks
    BY <1>2, <1>4
  <2>2. /\ Table(WithNew(tracks, k), nextId + k) /\ nextId + k \in Nat \ {0}
        /\ DOMAIN WithNew(tracks, k) = Ids \cup new
    BY <1>3, <2>1, Larger
  <2> QED BY <1>1, <1>4, <2>2
<1>6. TableInv'
  <2>1. SearchInv'
    BY <1>1, SearchSame DEF TableInv
  <2> QED BY <1>1, <1>2, <1>5, <2>1 DEF TableInv
<1>7. IsFiniteSet(new) /\ Cardinality(new) = k
  BY <1>2, <1>3, NewIds
<1> DEFINE seen == {id \in DOMAIN tracks' : tracks'[id].missed = 0}
<1>8. seen \in SUBSET new
  BY <1>5
<1>9. Cardinality(seen) <= k /\ Cardinality(seen) \in Nat
  <2> HIDE DEF seen, new
  <2> QED BY <1>7, <1>8, FS_Subset, FS_CardinalityType
<1>10. SightingsAddUp'
  BY <1>1, <1>2, <1>9 DEF SightingsAddUp, Ids
<1> QED
  BY <1>6, <1>10

(* Without detections every track misses one more.                         *)
LEMMA AgeAllKeeps ==
  ASSUME TableInv, AgeAll
  PROVE  TableInv' /\ SightingsAddUp'
<1> DEFINE aged == [id \in Ids |-> Predict(tracks[id])]
<1>1. dets' = 0 /\ tpc' = "publish" /\ UNCHANGED <<assignVars, nextId>>
  BY DEF AgeAll, Frame
<1>2. PICK tooOld \in SUBSET Ids : tracks' = Survivors(aged, tooOld)
  BY DEF AgeAll
<1>3. /\ nextId \in Nat \ {0} /\ Table(tracks, nextId) /\ tracks \in [Ids -> Entry]
  BY DEF TableInv, Table, Ids
<1>4. /\ aged \in [Ids -> Entry] /\ \A id \in Ids : aged[id].missed > 0
  <2> SUFFICES ASSUME NEW id \in Ids
               PROVE  Predict(tracks[id]) \in Entry /\ Predict(tracks[id]).missed > 0
    OBVIOUS
  <2>1. tracks[id] \in Entry
    BY <1>3
  <2> QED BY <2>1 DEF Predict, Entry
<1>5. Table(aged, nextId) /\ DOMAIN aged = Ids
  BY <1>3, <1>4 DEF Table, Ids
<1> DEFINE kept == {id \in DOMAIN aged : ~IsLost(aged[id]) /\ id \notin tooOld}
<1>6. tracks' = Restrict(aged, kept) /\ kept \in SUBSET DOMAIN aged
  BY <1>2 DEF Survivors
<1> HIDE DEF kept, aged
<1>7. Table(tracks', nextId)
  BY <1>3, <1>5, <1>6, Smaller
<1>8. TableInv'
  <2>1. SearchInv'
    BY <1>1, SearchSame DEF TableInv
  <2> QED BY <1>1, <1>3, <1>7, <2>1 DEF TableInv
<1>9. {id \in DOMAIN tracks' : tracks'[id].missed = 0} = {}
  <2>1. DOMAIN tracks' = kept /\ \A id \in kept : id \in Ids /\ tracks'[id] = aged[id]
    BY <1>5, <1>6 DEF Restrict
  <2>2. \A id \in Ids : aged[id].missed # 0
    BY <1>4 DEF Entry
  <2> QED BY <2>1, <2>2
<1>10. SightingsAddUp'
  BY <1>1, <1>9, FS_EmptySet DEF SightingsAddUp, Ids
<1> QED
  BY <1>8, <1>10

(* The matrix has a row for each track and a column for each detection.    *)
LEMMA StartUpdateKeeps ==
  ASSUME TableInv, NEW m \in 0..MaxDets, StartUpdate(m)
  PROVE  TableInv' /\ SightingsAddUp'
<1> DEFINE n == Cardinality(Ids)
<1>1. /\ dets' = m /\ m > 0 /\ order' \in Bijection(1..n, Ids)
      /\ \E c \in [1..n -> [1..m -> 0..MaxCost]] : Solve(n, m, c)
      /\ tpc' = "solve" /\ UNCHANGED <<tracks, nextId>>
  BY DEF StartUpdate, Frame
<1>2. n \in Nat /\ m \in Nat \ {0}
  <2>1. n \in Nat
    BY TableFinite, TableAssumption DEF TableInv, Ids
  <2> QED BY <1>1, <2>1, TableAssumption
<1> HIDE DEF n
<1>3. PICK c \in [1..n -> [1..m -> 0..MaxCost]] : Solve(n, m, c)
  BY <1>1
<1>4. SearchInv'
  <2>1. CallInv' /\ apc' = "row"
    BY <1>2, <1>3, SolveStarts DEF Solve
  <2> QED BY <2>1 DEF SearchInv
<1>5. DOMAIN order' = 1..n
  BY <1>1 DEF Bijection, Injection
<1>6. n <= size'
  BY <1>2, <1>3 DEF Solve
<1> QED
  BY <1>1, <1>2, <1>4, <1>5, <1>6 DEF TableInv, SightingsAddUp

(* A step of the search leaves the table alone.                            *)
LEMMA SolveStepKeeps ==
  ASSUME TableInv, SolveStep
  PROVE  TableInv' /\ SightingsAddUp'
<1>1. /\ tpc = "solve" /\ AssignStep /\ tracks' = tracks /\ nextId' = nextId
      /\ dets' = dets /\ order' = order /\ tpc' = tpc
  BY DEF SolveStep, tableVars
<1>2. CallInv
  BY <1>1 DEF AssignStep, EnterRow, Scan, Augment, TableInv, SearchInv
<1>3. CallInv' /\ size' = size /\ apc' # "idle"
  <2>1. CASE EnterRow
    BY <1>2, <2>1, EnterRowKeeps DEF EnterRow
  <2>2. CASE Scan
    BY <1>2, <2>2, ScanKeeps DEF Scan
  <2>3. CASE Augment
    BY <1>2, <2>3, AugmentKeeps DEF Augment
  <2> QED BY <1>1, <2>1, <2>2, <2>3 DEF AssignStep
<1> QED
  BY <1>1, <1>3 DEF TableInv, SearchInv, SightingsAddUp

(* Tracks taken out between two frames.                                    *)
LEMMA DropKeeps ==
  ASSUME TableInv, NEW gone, Drop(gone)
  PROVE  TableInv' /\ SightingsAddUp'
<1>1. /\ tpc = "wait" /\ tracks' = Restrict(tracks, Ids \ gone)
      /\ UNCHANGED <<assignVars, nextId, dets, order, published, tpc>>
  BY DEF Drop
<1>2. Table(tracks', nextId)
  BY <1>1, Smaller DEF TableInv, Ids
<1>3. SearchInv'
  BY <1>1, SearchSame DEF TableInv
<1> QED
  BY <1>1, <1>2, <1>3 DEF TableInv, SightingsAddUp

(* The table is empty at the start and after a restart.                    *)
LEMMA EmptyTable ==
  Table(<<>>, 1)
<1>1. DOMAIN <<>> = {}
  OBVIOUS
<1>2. <<>> \in [DOMAIN <<>> -> Entry]
  BY <1>1
<1> QED
  BY <1>1, <1>2, FS_EmptySet, TableAssumption DEF Table

-----------------------------------------------------------------------------
(* The table's invariant, for any number of tracks and any costs.          *)
THEOREM TableInvariant ==
  TableSpec => [](TableInv /\ SightingsAddUp)
<1>1. TableInit => TableInv /\ SightingsAddUp
  <2> SUFFICES ASSUME TableInit PROVE TableInv /\ SightingsAddUp
    OBVIOUS
  <2>1. Table(tracks, nextId) /\ nextId = 1 /\ dets = 0 /\ tpc = "wait"
    BY EmptyTable DEF TableInit
  <2>2. SearchInv
    BY DEF TableInit, Idle, SearchInv
  <2> QED BY <2>1, <2>2 DEF TableInv, SightingsAddUp
<1>2. TableInv /\ SightingsAddUp /\ [TableNext]_updateVars => (TableInv /\ SightingsAddUp)'
  <2> SUFFICES ASSUME TableInv, SightingsAddUp, [TableNext]_updateVars
               PROVE  TableInv' /\ SightingsAddUp'
    OBVIOUS
  <2>1. CASE AgeAll
    BY <2>1, AgeAllKeeps
  <2>2. CASE SolveStep
    BY <2>2, SolveStepKeeps
  <2>3. CASE Apply
    BY <2>3, ApplyKeeps
  <2>4. CASE PublishTracks
    <3>1. /\ tpc' = "wait" /\ dets' = 0
          /\ UNCHANGED <<assignVars, tracks, nextId, order>>
      BY <2>4 DEF PublishTracks
    <3>2. SearchInv'
      BY <3>1, SearchSame DEF TableInv
    <3> QED BY <3>1, <3>2 DEF TableInv, SightingsAddUp
  <2>5. CASE Restart
    <3>1. Forget /\ tpc' = "wait" /\ tracks' = <<>> /\ nextId' = 1 /\ dets' = 0
      BY <2>5 DEF Restart
    <3>2. SearchInv'
      BY <3>1 DEF Forget, SearchInv
    <3> QED BY <3>1, <3>2, EmptyTable DEF TableInv, SightingsAddUp
  <2>6. CASE Clear
    BY <2>6, DropKeeps DEF Clear
  <2>7. CASE \E id \in Ids : RemoveTrack(id)
    <3>1. PICK id \in Ids : Drop({id})
      BY <2>7 DEF RemoveTrack
    <3> QED BY <3>1, DropKeeps
  <2>8. CASE \E m \in 0..MaxDets : Bootstrap(m) \/ StartUpdate(m)
    BY <2>8, BootstrapKeeps, StartUpdateKeeps
  <2>9. CASE UNCHANGED updateVars
    BY <2>9, TableSame
  <2> QED
    BY <2>1, <2>2, <2>3, <2>4, <2>5, <2>6, <2>7, <2>8, <2>9 DEF TableNext, TableStep
<1> QED
  BY <1>1, <1>2, PTL DEF TableSpec

(* No detection serves two tracks.                                         *)
THEOREM DetectionsServeOnce ==
  TableSpec => []SightingsAddUp
BY TableInvariant, PTL

(* Throughout the search the duals are feasible, the matches tight and the *)
(* slacks those of the tree.                                               *)
THEOREM SearchIsExact ==
  TableSpec => []SearchExact
<1>1. TableInv => SearchExact
  BY SearchSays DEF TableInv, SearchExact
<1> QED
  BY <1>1, TableInvariant, PTL

(* Whatever the matrix, no other assignment of detections to tracks would  *)
(* have cost less than the one solve returns.                              *)
THEOREM AssignmentIsLeast ==
  TableSpec => []SolvedOptimal
<1>1. TableInv => SolvedOptimal
  BY SolvedIsLeast DEF TableInv, SearchInv, SolvedOptimal, Solved
<1> QED
  BY <1>1, TableInvariant, PTL
-----------------------------------------------------------------------------
(* The tracker keeps the promise of Tracking. A matching of the padded     *)
(* square is a pairing of tracks with detections and as much padding as    *)
(* any other has, so that the cheapest of the one kind is the cheapest of  *)
(* the other.                                                              *)

(* The matrix of a frame: a row for each track, in some order, a column    *)
(* for each detection, and padding around them.                            *)
MatrixInv ==
  tpc = "solve" =>
    /\ order \in Bijection(1..Cardinality(Ids), Ids)
    /\ size = IF Cardinality(Ids) > dets THEN Cardinality(Ids) ELSE dets
    /\ \A i \in Rows, j \in Cols :
         IF i <= Cardinality(Ids) /\ j <= dets THEN cost[i][j] \in 0..MaxCost
         ELSE cost[i][j] = PaddingCost

(* solve pads the costs of the frame: tracks by detections.                *)
LEMMA StartUpdateFrames ==
  ASSUME TableInv, NEW m \in 0..MaxDets, StartUpdate(m)
  PROVE  MatrixInv'
<1> DEFINE n == Cardinality(Ids)
<1>1. /\ dets' = m /\ order' \in Bijection(1..n, Ids) /\ tracks' = tracks
      /\ \E c \in [1..n -> [1..m -> 0..MaxCost]] : Solve(n, m, c)
  BY DEF StartUpdate, Frame
<1>2. n \in Nat /\ m \in Nat
  <2>1. n \in Nat
    BY TableFinite, TableAssumption DEF TableInv, Ids
  <2> QED BY <2>1, TableAssumption
<1>3. Ids' = Ids
  BY <1>1 DEF Ids
<1> HIDE DEF n
<1>4. PICK c \in [1..n -> [1..m -> 0..MaxCost]] : Solve(n, m, c)
  BY <1>1
<1>5. /\ size' = IF n > m THEN n ELSE m
      /\ \A i \in 1..size', j \in 1..size' :
           cost'[i][j] = IF i <= n /\ j <= m THEN c[i][j] ELSE PaddingCost
  <2>1. /\ size' = IF n > m THEN n ELSE m
        /\ cost' = [i \in 1..size' |-> [j \in 1..size' |->
                      IF i <= n /\ j <= m THEN c[i][j] ELSE PaddingCost]]
    BY <1>4 DEF Solve
  <2> QED BY <2>1
<1>6. ASSUME NEW i \in 1..size', NEW j \in 1..size'
      PROVE  IF i <= n /\ j <= m THEN cost'[i][j] \in 0..MaxCost
             ELSE cost'[i][j] = PaddingCost
  <2>1. CASE i <= n /\ j <= m
    <3>1. i \in 1..n /\ j \in 1..m
      BY <2>1
    <3>2. c[i][j] \in 0..MaxCost
      BY <1>4, <3>1
    <3> QED BY <1>5, <2>1, <3>2
  <2>2. CASE ~(i <= n /\ j <= m)
    BY <1>5, <2>2
  <2> QED BY <2>1, <2>2
<1>7. n = Cardinality(Ids) /\ Rows' = 1..size' /\ Cols' = 1..size'
  BY DEF n, Rows, Cols
<1>8. Cardinality(Ids)' = n
  BY <1>3, <1>7
<1>9. \A i \in Rows', j \in Cols' :
        IF i <= n /\ j <= m THEN cost'[i][j] \in 0..MaxCost
        ELSE cost'[i][j] = PaddingCost
  BY <1>6, <1>7
<1> QED
  BY <1>1, <1>3, <1>5, <1>8, <1>9, <1>7 DEF MatrixInv

(* The search moves through the matrix and does not touch it.              *)
LEMMA MatrixSame ==
  ASSUME MatrixInv, UNCHANGED <<tracks, order, dets, size, cost, tpc>>
  PROVE  MatrixInv'
<1>1. Ids' = Ids /\ Rows' = Rows /\ Cols' = Cols
  BY DEF Ids, Rows, Cols
<1>2. Cardinality(Ids)' = Cardinality(Ids)
  BY <1>1
<1> QED
  BY <1>1, <1>2 DEF MatrixInv

(* Only StartUpdate makes a matrix, and only for the update it begins.     *)
LEMMA MatrixKept ==
  ASSUME TableInv, MatrixInv, [TableNext]_updateVars
  PROVE  MatrixInv'
<1>1. CASE tpc' # "solve"
  BY <1>1 DEF MatrixInv
<1>2. CASE SolveStep
  <2>1. UNCHANGED <<tracks, order, dets, tpc>> /\ UNCHANGED <<size, cost>>
    BY <1>2 DEF SolveStep, tableVars, AssignStep, EnterRow, Scan, Augment
  <2> QED BY <2>1, MatrixSame
<1>3. CASE UNCHANGED updateVars
  <2>1. UNCHANGED <<tracks, order, dets, tpc>> /\ UNCHANGED <<size, cost>>
    BY <1>3 DEF updateVars, tableVars, assignVars
  <2> QED BY <2>1, MatrixSame
<1>4. CASE \E m \in 0..MaxDets : Bootstrap(m) \/ StartUpdate(m)
  <2>1. PICK m \in 0..MaxDets : Bootstrap(m) \/ StartUpdate(m)
    BY <1>4
  <2>2. CASE Bootstrap(m)
    BY <1>1, <2>2 DEF Bootstrap
  <2>3. CASE StartUpdate(m)
    BY <2>3, StartUpdateFrames
  <2> QED BY <2>1, <2>2, <2>3
<1>5. CASE AgeAll \/ Apply \/ PublishTracks \/ Restart
  BY <1>1, <1>5 DEF AgeAll, Apply, PublishTracks, Restart
<1>6. CASE Clear \/ \E id \in Ids : RemoveTrack(id)
  <2>1. PICK gone : Drop(gone)
    BY <1>6, Zenon DEF Clear, RemoveTrack
  <2> QED BY <1>1, <2>1 DEF Drop
<1> QED
  BY <1>2, <1>3, <1>4, <1>5, <1>6 DEF TableNext, TableStep

-----------------------------------------------------------------------------
(* What the abstract tracker pays for a pairing is the cost of its cells.  *)
Priced(f) == [t \in DOMAIN f |-> Costs[t][f[t]]]

(* A price is a sum over the tracks that are paired.                       *)
LEMMA PriceIsSum ==
  ASSUME NEW f
  PROVE  Promise!Price(f) = SumOver(DOMAIN f, Priced(f), DOMAIN f)
BY Zenon DEF Promise!Price, Promise!SumFunctionOnSet, Promise!FoldFunctionOnSet,
         Promise!MapThenFoldSet, SumFunctionOnSet, FoldFunctionOnSet, MapThenFoldSet,
         SumOver, SumsOf, Part, OneOf, Priced

(* How many tracks and detections are paired.                              *)
Fewer == IF Cardinality(Ids) <= dets THEN Cardinality(Ids) ELSE dets

(* The instance counts as its user does.                                   *)
LEMMA SameSize ==
  ASSUME NEW S
  PROVE  Promise!Cardinality(S) = Cardinality(S)
BY Zenon DEF Promise!Cardinality, Cardinality

(* A pairing, without the set of all of them.                              *)
LEMMA PairingsAre ==
  ASSUME NEW f
  PROVE  f \in Promise!Pairings <=>
           /\ f \in [DOMAIN f -> 1..dets] /\ DOMAIN f \subseteq Ids
           /\ \A s, t \in DOMAIN f : f[s] = f[t] => s = t
           /\ Cardinality(DOMAIN f) = Fewer
<1>1. Promise!Live = Ids
  BY DEF Promise!Live, Counts
<1>2. f \in UNION {[D -> 1..dets] : D \in SUBSET Ids} <=>
        f \in [DOMAIN f -> 1..dets] /\ DOMAIN f \subseteq Ids
  OBVIOUS
<1>3. /\ Cardinality(DOMAIN f) = Promise!Cardinality(DOMAIN f)
      /\ Cardinality(Ids) = Promise!Cardinality(Ids)
  BY SameSize
<1> QED
  BY <1>1, <1>2, <1>3, Zenon DEF Promise!Pairings, Promise!IsInjective, IsInjective,
                           Promise!Smaller, Fewer

(* Each track has its row, and each of the first rows its track.           *)
LEMMA RowsOfTracks ==
  ASSUME TableInv, MatrixInv, tpc = "solve"
  PROVE  LET n == Cardinality(Ids) IN
         /\ IsFiniteSet(Ids) /\ n \in Nat /\ dets \in Nat /\ size \in Nat
         /\ size = IF n > dets THEN n ELSE dets
         /\ IsFiniteSet(Rows) /\ Cardinality(Rows) = size /\ Rows = Cols
         /\ Rows = 1..size /\ 1..n \subseteq Rows /\ 1..dets \subseteq Rows
         /\ DOMAIN order = 1..n
         /\ \A i \in 1..n : order[i] \in Ids /\ RowOf(order[i]) = i
         /\ \A t \in Ids : RowOf(t) \in 1..n /\ order[RowOf(t)] = t
<1> DEFINE n == Cardinality(Ids)
<1>1. IsFiniteSet(Ids) /\ n \in Nat /\ dets \in Nat
  BY TableFinite, TableAssumption DEF TableInv, Ids
<1> HIDE DEF n
<1>2. /\ order \in Bijection(1..n, Ids) /\ size = IF n > dets THEN n ELSE dets
  BY DEF MatrixInv, n
<1>3. size \in Nat /\ n <= size /\ dets <= size
  BY <1>1, <1>2
<1>4. /\ Rows = 1..size /\ Rows = Cols /\ 1..n \subseteq Rows /\ 1..dets \subseteq Rows
  BY <1>1, <1>3 DEF Rows, Cols
<1>5. IsFiniteSet(Rows) /\ Cardinality(Rows) = size
  BY <1>3, <1>4, FS_Interval
<1>6. /\ order \in [1..n -> Ids]
      /\ \A i, k \in 1..n : order[i] = order[k] => i = k
      /\ \A t \in Ids : \E i \in 1..n : order[i] = t
  BY <1>2, Zenon DEF Bijection, Injection, Surjection, IsInjective
<1>7. DOMAIN order = 1..n /\ \A i \in 1..n : order[i] \in Ids
  BY <1>6
<1>8. ASSUME NEW t \in Ids
      PROVE  RowOf(t) \in 1..n /\ order[RowOf(t)] = t
  <2>1. \E i \in DOMAIN order : order[i] = t
    BY <1>6, <1>7
  <2> QED BY <1>7, <2>1, Zenon DEF RowOf
<1>9. ASSUME NEW i \in 1..n
      PROVE  RowOf(order[i]) = i
  BY <1>6, <1>7, <1>8, Zenon
<1> QED
  BY <1>1, <1>2, <1>3, <1>4, <1>5, <1>7, <1>8, <1>9 DEF n

(* The costs the abstract tracker sees are the real cells.                 *)
LEMMA CostsAre ==
  ASSUME TableInv, MatrixInv, tpc = "solve"
  PROVE  \A t \in Ids, d \in 1..dets : /\ Costs[t][d] = cost[RowOf(t)][d]
                                       /\ Costs[t][d] \in 0..MaxCost
<1> SUFFICES ASSUME NEW t \in Ids, NEW d \in 1..dets
             PROVE  /\ Costs[t][d] = cost[RowOf(t)][d]
                    /\ Costs[t][d] \in 0..MaxCost
  OBVIOUS
<1>1. Costs[t][d] = cost[RowOf(t)][d]
  BY DEF Costs
<1>2. /\ RowOf(t) \in Rows /\ d \in Cols /\ RowOf(t) \in 1..Cardinality(Ids)
      /\ Cardinality(Ids) \in Nat /\ dets \in Nat
  BY RowsOfTracks
<1>3. RowOf(t) <= Cardinality(Ids) /\ d <= dets
  BY <1>2
<1>4. cost[RowOf(t)][d] \in 0..MaxCost
  BY <1>2, <1>3, Zenon DEF MatrixInv
<1> QED
  BY <1>1, <1>4

(* An assignment of all rows that extends a pairing of tracks with         *)
(* detections by cells of the padding.                                     *)
PairedRows(f) == {RowOf(t) : t \in DOMAIN f}
Extends(pi, f) == /\ pi \in Bijection(Rows, Cols)
                  /\ \A t \in DOMAIN f : pi[RowOf(t)] = f[t]
                  /\ \A i \in Rows \ PairedRows(f) : cost[i][pi[i]] = PaddingCost

(* It costs more by the padding, which is as much for every pairing.       *)
LEMMA PaddedPrice ==
  ASSUME TableInv, MatrixInv, tpc = "solve",
         NEW f \in Promise!Pairings, NEW pi, Extends(pi, f)
  PROVE  /\ Promise!Price(f) \in Int
         /\ Total(CostOf(pi)) = Promise!Price(f) + PaddingCost * (size - Fewer)
<1> DEFINE D == DOMAIN f
           B == PairedRows(f)
           r == [t \in D |-> RowOf(t)]
           g == [i \in B |-> cost[i][pi[i]]]
<1>1. /\ IsFiniteSet(Ids) /\ IsFiniteSet(Rows) /\ Cardinality(Rows) = size
      /\ \A t \in Ids : RowOf(t) \in Rows /\ order[RowOf(t)] = t
  BY RowsOfTracks
<1>2. /\ f \in [D -> 1..dets] /\ D \subseteq Ids /\ Cardinality(D) = Fewer
  BY PairingsAre
<1>3. IsFiniteSet(D)
  BY <1>1, <1>2, FS_Subset
<1>4. /\ r \in [D -> B] /\ B \in SUBSET Rows
      /\ \A t \in D : r[t] = RowOf(t)
      /\ \A s, t \in D : r[s] = r[t] => s = t
      /\ \A i \in B : \E t \in D : r[t] = i
  <2>1. B = {RowOf(t) : t \in D}
    BY DEF PairedRows
  <2>2. \A t \in D : RowOf(t) \in Rows /\ order[RowOf(t)] = t
    BY <1>1, <1>2
  <2> HIDE DEF D, B
  <2> QED BY <2>1, <2>2
<1>5. IsFiniteSet(B) /\ Cardinality(B) = Fewer
  <2>1. r \in Bijection(D, B)
    <3> HIDE DEF r, D, B
    <3> QED BY <1>4 DEF Bijection, Injection, Surjection, IsInjective
  <2>2. ExistsBijection(D, B)
    <3> HIDE DEF r, D, B
    <3> QED BY <2>1 DEF ExistsBijection
  <2> HIDE DEF D, B
  <2> QED BY <1>2, <1>3, <2>2, FS_Bijection
<1>6. \A t \in D : g[r[t]] = Priced(f)[t] /\ g[r[t]] \in Int
  <2> TAKE t \in D
  <2>1. r[t] = RowOf(t) /\ RowOf(t) \in B /\ t \in Ids /\ f[t] \in 1..dets
    BY <1>2, <1>4
  <2>2. pi[RowOf(t)] = f[t]
    BY DEF Extends
  <2>3. g[r[t]] = cost[RowOf(t)][f[t]]
    BY <2>1, <2>2
  <2>4. Priced(f)[t] = Costs[t][f[t]]
    BY DEF Priced
  <2>5. Costs[t][f[t]] = cost[RowOf(t)][f[t]] /\ Costs[t][f[t]] \in Int
    <3>1. \A x \in 0..MaxCost : x \in Int
      BY AssignmentAssumption
    <3> QED BY <2>1, <3>1, CostsAre
  <2> HIDE DEF g, r
  <2> QED BY <2>3, <2>4, <2>5
<1>7. g \in [B -> Int]
  <2> SUFFICES ASSUME NEW i \in B PROVE g[i] \in Int
    OBVIOUS
  <2>1. PICK t \in D : r[t] = i
    BY <1>4
  <2> HIDE DEF g, r
  <2> QED BY <1>6, <2>1
<1>8. /\ CostOf(pi) \in [Rows -> Int]
      /\ \A i \in Rows : CostOf(pi)[i] = IF i \in B THEN g[i] ELSE PaddingCost
  <2>1. \A i \in Rows : CostOf(pi)[i] = cost[i][pi[i]]
    BY DEF CostOf
  <2>2. \A i \in B : g[i] = cost[i][pi[i]]
    OBVIOUS
  <2>3. \A i \in Rows \ B : cost[i][pi[i]] = PaddingCost
    BY DEF Extends
  <2>4. PaddingCost \in Int
    BY AssignmentAssumption
  <2> HIDE DEF g, B
  <2>5. \A i \in Rows : CostOf(pi)[i] = IF i \in B THEN g[i] ELSE PaddingCost
    BY <2>1, <2>2, <2>3
  <2>6. CostOf(pi) = [i \in Rows |-> CostOf(pi)[i]]
    BY DEF CostOf
  <2>7. \A i \in Rows : CostOf(pi)[i] \in Int
    BY <1>7, <2>4, <2>5
  <2> QED BY <2>5, <2>6, <2>7
<1>9. SumOver(D, Priced(f), D) = SumOver(B, g, B)
  <2>1. Priced(f) = [t \in D |-> g[r[t]]]
    <3>1. Priced(f) = [t \in D |-> Priced(f)[t]]
      BY DEF Priced
    <3> HIDE DEF D, g, r
    <3> QED BY <1>6, <3>1
  <2> HIDE DEF D, B, g, r
  <2>2. SumOver(D, [t \in D |-> g[r[t]]], D) = SumOver(B, g, B)
    BY <1>3, <1>4, <1>5, <1>7, SumMoved
  <2> QED BY <2>1, <2>2
<1>10. /\ SumOver(B, g, B) \in Int
       /\ SumOver(Rows, CostOf(pi), Rows)
            = SumOver(B, g, B) + PaddingCost * (Cardinality(Rows) - Cardinality(B))
  <2>1. PaddingCost \in Int
    BY AssignmentAssumption
  <2> HIDE DEF B, g
  <2> QED BY <1>1, <1>4, <1>7, <1>8, <2>1, SumWithin
<1>11. Promise!Price(f) = SumOver(B, g, B)
  BY <1>9, PriceIsSum
<1>12. Total(CostOf(pi)) = SumOver(Rows, CostOf(pi), Rows)
  BY TotalIsSum
<1> HIDE DEF B, g
<1> QED
  BY <1>1, <1>5, <1>10, <1>11, <1>12

(* Every pairing extends to an assignment of all rows: what it leaves of   *)
(* the rows and of the columns are as many, and where they meet is padding.*)
LEMMA PairingExtends ==
  ASSUME TableInv, MatrixInv, tpc = "solve", NEW f \in Promise!Pairings
  PROVE  \E pi : Extends(pi, f)
<1> DEFINE D == DOMAIN f
           n == Cardinality(Ids)
           B == PairedRows(f)
           J == {f[t] : t \in D}
           r == [t \in D |-> RowOf(t)]
<1>1. /\ IsFiniteSet(Ids) /\ n \in Nat /\ dets \in Nat /\ size \in Nat
      /\ size = IF n > dets THEN n ELSE dets
      /\ IsFiniteSet(Rows) /\ Cardinality(Rows) = size /\ Rows = Cols
      /\ Rows = 1..size /\ 1..n \subseteq Rows /\ 1..dets \subseteq Rows
      /\ \A i \in 1..n : order[i] \in Ids /\ RowOf(order[i]) = i
      /\ \A t \in Ids : RowOf(t) \in 1..n /\ order[RowOf(t)] = t
  BY RowsOfTracks
<1>2. /\ f \in [D -> 1..dets] /\ D \subseteq Ids /\ Cardinality(D) = Fewer
      /\ \A s, t \in D : f[s] = f[t] => s = t
  BY PairingsAre
<1>3. IsFiniteSet(D)
  BY <1>1, <1>2, FS_Subset
<1> HIDE DEF n
<1>4. /\ r \in Bijection(D, B) /\ B \in SUBSET Rows
      /\ \A i \in B : \E t \in D : RowOf(t) = i
      /\ \A t \in D : RowOf(t) \in B
  <2>1. B = {RowOf(t) : t \in D}
    BY DEF PairedRows
  <2>2. \A t \in D : RowOf(t) \in Rows /\ order[RowOf(t)] = t
    BY <1>1, <1>2
  <2> HIDE DEF D, B
  <2>3. /\ r \in [D -> B] /\ B \in SUBSET Rows
        /\ \A s, t \in D : r[s] = r[t] => s = t
        /\ \A i \in B : \E t \in D : r[t] = i /\ RowOf(t) = i
        /\ \A t \in D : RowOf(t) \in B
    BY <2>1, <2>2
  <2> HIDE DEF r
  <2> QED BY <2>3 DEF Bijection, Injection, Surjection, IsInjective
<1>5. f \in Bijection(D, J) /\ J \in SUBSET (1..dets)
  <2>1. /\ f \in [D -> J] /\ J \in SUBSET (1..dets)
        /\ \A j \in J : \E t \in D : f[t] = j
    BY <1>2
  <2> HIDE DEF D, J
  <2> QED BY <1>2, <2>1 DEF Bijection, Injection, Surjection, IsInjective
<1>6. /\ IsFiniteSet(B) /\ Cardinality(B) = Fewer
      /\ IsFiniteSet(J) /\ Cardinality(J) = Fewer
  <2>1. ExistsBijection(D, B) /\ ExistsBijection(D, J)
    <3> HIDE DEF D, B, J, r
    <3> QED BY <1>4, <1>5 DEF ExistsBijection
  <2> HIDE DEF D, B, J
  <2> QED BY <1>2, <1>3, <2>1, FS_Bijection
<1>7. PICK h : h \in Bijection(Rows \ B, Cols \ J)
  <2>1. J \in SUBSET Cols
    BY <1>1, <1>5
  <2> HIDE DEF B, J
  <2>2. /\ IsFiniteSet(Rows \ B) /\ IsFiniteSet(Cols \ J)
        /\ Cardinality(Rows \ B) = Cardinality(Rows) - Cardinality(Rows \cap B)
        /\ Cardinality(Cols \ J) = Cardinality(Cols) - Cardinality(Cols \cap J)
    BY <1>1, FS_Difference
  <2>3. Rows \cap B = B /\ Cols \cap J = J
    BY <1>4, <2>1
  <2>4. Cardinality(Rows \ B) = Cardinality(Cols \ J)
    BY <1>1, <1>6, <2>2, <2>3
  <2>5. ExistsBijection(Rows \ B, Cols \ J)
    BY <2>2, <2>4, FS_SameCardinalityBij
  <2> QED BY <2>5 DEF ExistsBijection
<1> DEFINE pi == [i \in Rows |-> IF i \in B THEN f[order[i]] ELSE h[i]]
<1>8. /\ \A t \in D : /\ RowOf(t) \in B /\ RowOf(t) \in Rows
                      /\ order[RowOf(t)] = t /\ pi[RowOf(t)] = f[t]
      /\ \A i \in B : /\ order[i] \in D /\ pi[i] = f[order[i]]
                      /\ RowOf(order[i]) = i
      /\ \A i \in Rows \ B : pi[i] = h[i]
  <2>1. \A t \in D : /\ RowOf(t) \in B /\ RowOf(t) \in Rows /\ order[RowOf(t)] = t
    BY <1>1, <1>2, <1>4
  <2>2. \A i \in B : order[i] \in D /\ RowOf(order[i]) = i
    <3> TAKE i \in B
    <3>1. PICK t \in D : RowOf(t) = i
      BY <1>4
    <3> QED BY <2>1, <3>1
  <2>3. \A i \in B : i \in Rows
    BY <1>4
  <2> HIDE DEF B
  <2> QED BY <2>1, <2>2, <2>3
<1> HIDE DEF pi
<1>9. /\ \A i \in Rows \ B : h[i] \in Cols \ J
      /\ \A i, k \in Rows \ B : h[i] = h[k] => i = k
      /\ \A j \in Cols \ J : \E i \in Rows \ B : h[i] = j
  BY <1>7, Zenon DEF Bijection, Injection, Surjection, IsInjective
<1>10. /\ \A t \in D : f[t] \in J /\ f[t] \in Cols
       /\ \A j \in J : \E t \in D : f[t] = j
  BY <1>1, <1>2
<1> HIDE DEF B, J, D
<1>11. pi \in Bijection(Rows, Cols)
  <2>1. \A i \in Rows : pi[i] \in Cols
    BY <1>8, <1>9, <1>10
  <2>2. \A i, k \in Rows : pi[i] = pi[k] => i = k
    <3> SUFFICES ASSUME NEW i \in Rows, NEW k \in Rows, pi[i] = pi[k]
                 PROVE  i = k
      OBVIOUS
    <3>1. CASE i \in B /\ k \in B
      <4>1. order[i] = order[k]
        BY <1>2, <1>8, <3>1
      <4> QED BY <1>8, <3>1, <4>1
    <3>2. CASE i \notin B /\ k \notin B
      BY <1>8, <1>9, <3>2
    <3>3. CASE ~(i \in B <=> k \in B)
      <4>1. (pi[i] \in J) # (pi[k] \in J)
        BY <1>8, <1>9, <1>10, <3>3
      <4> QED BY <4>1
    <3> QED BY <3>1, <3>2, <3>3
  <2>3. \A j \in Cols : \E i \in Rows : pi[i] = j
    <3> TAKE j \in Cols
    <3>1. CASE j \in J
      <4>1. PICK t \in D : f[t] = j
        BY <1>10, <3>1
      <4> QED BY <1>8, <4>1
    <3>2. CASE j \notin J
      <4>1. PICK i \in Rows \ B : h[i] = j
        BY <1>9, <3>2
      <4> QED BY <1>8, <4>1
    <3> QED BY <3>1, <3>2
  <2>4. pi = [i \in Rows |-> pi[i]]
    BY DEF pi
  <2>5. pi \in [Rows -> Cols]
    BY <2>1, <2>4
  <2> QED
    BY <2>2, <2>3, <2>5, Zenon DEF Bijection, Injection, Surjection, IsInjective
<1>12. ASSUME NEW i \in Rows \ B
       PROVE  cost[i][pi[i]] = PaddingCost
  <2>1. pi[i] \in Cols \ J /\ pi[i] \in 1..size /\ i \in 1..size
    BY <1>1, <1>8, <1>9
  <2>2. CASE n <= dets
    <3>1. D = Ids
      <4>1. Cardinality(D) = Cardinality(Ids)
        BY <1>2, <2>2 DEF Fewer, n
      <4> QED BY <1>1, <1>2, <4>1, FS_Subset
    <3>2. i \notin 1..n
      BY <1>1, <1>8, <3>1
    <3>3. ~(i <= n)
      BY <1>1, <2>1, <3>2
    <3> QED BY <1>1, <2>1, <3>3 DEF MatrixInv, n
  <2>3. CASE dets < n
    <3>1. J = 1..dets
      <4>1. Cardinality(J) = dets
        BY <1>1, <1>6, <2>3 DEF Fewer, n
      <4>2. IsFiniteSet(1..dets) /\ Cardinality(1..dets) = dets
        BY <1>1, FS_Interval
      <4> QED BY <1>5, <4>1, <4>2, FS_Subset
    <3>2. ~(pi[i] <= dets)
      BY <1>1, <2>1, <3>1
    <3> QED BY <1>1, <2>1, <3>2 DEF MatrixInv, n
  <2> QED BY <1>1, <2>2, <2>3
<1>13. \A t \in DOMAIN f : pi[RowOf(t)] = f[t]
  BY <1>8 DEF D
<1>14. Extends(pi, f)
  BY <1>11, <1>12, <1>13 DEF Extends, B
<1> QED BY <1>14

(* The other way round: an assignment of all rows, without the padding, is *)
(* a pairing, and no longer one exists.                                    *)
RealPart(pi) == [t \in {s \in Ids : pi[RowOf(s)] <= dets} |-> pi[RowOf(t)]]

(* Leaving out the padding leaves a pairing that is as long as any.        *)
LEMMA RealPartPairs ==
  ASSUME TableInv, MatrixInv, tpc = "solve", NEW pi \in Bijection(Rows, Cols)
  PROVE  RealPart(pi) \in Promise!Pairings /\ Extends(pi, RealPart(pi))
<1> DEFINE n == Cardinality(Ids)
           f == RealPart(pi)
           D == {s \in Ids : pi[RowOf(s)] <= dets}
<1>1. /\ IsFiniteSet(Ids) /\ n \in Nat /\ dets \in Nat /\ size \in Nat
      /\ size = IF n > dets THEN n ELSE dets
      /\ IsFiniteSet(Rows) /\ Cardinality(Rows) = size /\ Rows = Cols
      /\ Rows = 1..size /\ 1..n \subseteq Rows /\ 1..dets \subseteq Rows
      /\ \A i \in 1..n : order[i] \in Ids /\ RowOf(order[i]) = i
      /\ \A t \in Ids : RowOf(t) \in 1..n /\ order[RowOf(t)] = t
  BY RowsOfTracks
<1> HIDE DEF n
<1>2. /\ pi \in [Rows -> Cols]
      /\ \A i, k \in Rows : pi[i] = pi[k] => i = k
      /\ \A j \in Cols : \E i \in Rows : pi[i] = j
  BY Zenon DEF Bijection, Injection, Surjection, IsInjective
<1>3. \A t \in Ids : RowOf(t) \in Rows /\ pi[RowOf(t)] \in 1..size
  BY <1>1, <1>2
<1>4. /\ DOMAIN f = D /\ D \subseteq Ids
      /\ \A t \in D : f[t] = pi[RowOf(t)] /\ f[t] \in 1..dets
  <2>1. DOMAIN f = D /\ \A t \in D : f[t] = pi[RowOf(t)]
    BY DEF RealPart
  <2>2. \A t \in D : t \in Ids /\ pi[RowOf(t)] <= dets
    OBVIOUS
  <2>3. \A t \in D : pi[RowOf(t)] \in 1..dets
    <3> TAKE t \in D
    <3> HIDE DEF D
    <3> QED BY <1>1, <1>3, <2>2
  <2> QED BY <2>1, <2>2, <2>3
<1>5. f = [t \in D |-> f[t]]
  BY DEF RealPart
<1>6. \A t \in Ids : t \notin D => ~(pi[RowOf(t)] <= dets)
  OBVIOUS
<1> HIDE DEF f, D
<1>7. f \in [D -> 1..dets]
  BY <1>4, <1>5
<1>8. \A s, t \in D : f[s] = f[t] => s = t
  <2> SUFFICES ASSUME NEW s \in D, NEW t \in D, f[s] = f[t]
               PROVE  s = t
    OBVIOUS
  <2>1. s \in Ids /\ t \in Ids /\ pi[RowOf(s)] = pi[RowOf(t)]
    BY <1>4
  <2>2. RowOf(s) = RowOf(t)
    BY <1>2, <1>3, <2>1
  <2>3. order[RowOf(s)] = s /\ order[RowOf(t)] = t
    BY <1>1, <2>1
  <2> QED BY <2>2, <2>3
<1>9. Cardinality(D) = Fewer
  <2>1. CASE n < dets
    <3>1. size = dets
      BY <1>1, <2>1
    <3>2. \A t \in Ids : pi[RowOf(t)] <= dets
      BY <1>1, <1>3, <3>1
    <3>3. D = Ids
      BY <1>4, <1>6, <3>2
    <3> QED BY <1>1, <2>1, <3>3 DEF Fewer, n
  <2>2. CASE dets <= n
    <3>1. size = n /\ 1..n = Rows
      BY <1>1, <2>2
    <3>2. \A j \in 1..dets : \E t \in D : f[t] = j
      <4> TAKE j \in 1..dets
      <4>1. j \in Cols /\ j <= dets
        BY <1>1
      <4>2. PICK i \in Rows : pi[i] = j
        BY <1>2, <4>1
      <4>3. order[i] \in Ids /\ RowOf(order[i]) = i
        BY <1>1, <3>1
      <4>4. order[i] \in D
        BY <1>6, <4>1, <4>2, <4>3
      <4> QED BY <1>4, <4>2, <4>3, <4>4
    <3>3. f \in Bijection(D, 1..dets)
      BY <1>7, <1>8, <3>2 DEF Bijection, Injection, Surjection, IsInjective
    <3>4. IsFiniteSet(D)
      BY <1>1, <1>4, FS_Subset
    <3>5. Cardinality(1..dets) = Cardinality(D)
      <4>1. ExistsBijection(D, 1..dets)
        BY <3>3 DEF ExistsBijection
      <4> QED BY <3>4, <4>1, FS_Bijection
    <3>6. Cardinality(1..dets) = dets
      BY <1>1, FS_Interval
    <3>7. Fewer = dets
      BY <1>1, <2>2 DEF Fewer, n
    <3> QED BY <3>5, <3>6, <3>7
  <2> QED BY <1>1, <2>1, <2>2
<1>10. f \in Promise!Pairings
  BY <1>4, <1>7, <1>8, <1>9, PairingsAre
<1>11. ASSUME NEW i \in Rows \ PairedRows(f)
       PROVE  cost[i][pi[i]] = PaddingCost
  <2>1. i \in 1..size /\ pi[i] \in 1..size /\ i \in Rows /\ pi[i] \in Cols
    BY <1>1, <1>2
  <2>2. CASE i <= n
    <3>1. i \in 1..n
      BY <1>1, <2>1, <2>2
    <3>2. order[i] \in Ids /\ RowOf(order[i]) = i
      BY <1>1, <3>1
    <3>3. order[i] \notin D
      BY <1>4, <3>2 DEF PairedRows
    <3>4. ~(pi[i] <= dets)
      BY <1>6, <3>2, <3>3
    <3> QED BY <1>1, <2>1, <3>4 DEF MatrixInv, n
  <2>3. CASE ~(i <= n)
    BY <1>1, <2>1, <2>3 DEF MatrixInv, n
  <2> QED BY <2>2, <2>3
<1>12. Extends(pi, f)
  BY <1>4, <1>11 DEF Extends
<1> QED
  BY <1>10, <1>12 DEF f

-----------------------------------------------------------------------------
(* The pairing a finished search stands for, and that none is cheaper.     *)
Found == RealPart([i \in Rows |-> ColumnOf(i)])

(* The matching has the least total of all, so its real part has, too.     *)
LEMMA FoundIsCheapest ==
  ASSUME TableInv, MatrixInv, tpc = "solve", Solved
  PROVE  Promise!Cheapest(Found) /\ Found \in Promise!Pairings
<1> DEFINE pi == [i \in Rows |-> ColumnOf(i)]
           P == PaddingCost * (size - Fewer)
<1>1. CallInv
  BY DEF TableInv, SearchInv, Solved
<1>2. pi \in Bijection(Rows, Cols) /\ \A i \in Rows : Reduced(i, pi[i]) = 0
  BY <1>1, MatchingIsTight
<1>3. Found = RealPart(pi)
  BY DEF Found
<1> HIDE DEF pi
<1>4. Found \in Promise!Pairings /\ Extends(pi, Found)
  BY <1>2, <1>3, RealPartPairs
<1>5. /\ Promise!Price(Found) \in Int
      /\ Total(CostOf(pi)) = Promise!Price(Found) + P
  BY <1>4, PaddedPrice
<1>6. P \in Int
  <2>1. size \in Nat /\ Fewer \in Int
    BY RowsOfTracks DEF Fewer
  <2> QED BY <2>1, AssignmentAssumption
<1> HIDE DEF P
<1>7. ASSUME NEW g \in Promise!Pairings
      PROVE  Promise!Price(Found) <= Promise!Price(g)
  <2>1. PICK rho : Extends(rho, g)
    BY PairingExtends
  <2>2. /\ Promise!Price(g) \in Int
        /\ Total(CostOf(rho)) = Promise!Price(g) + P
    BY <2>1, PaddedPrice DEF P
  <2>3. rho \in Bijection(Rows, Cols)
    BY <2>1 DEF Extends
  <2>4. /\ Total(CostOf(pi)) = Duals /\ Duals \in Int
        /\ Duals <= Total(CostOf(rho))
    BY <1>1, <1>2, <2>3, CostsAtLeastDuals
  <2> QED BY <1>5, <1>6, <2>2, <2>4
<1> QED
  BY <1>4, <1>7, Zenon DEF Promise!Cheapest

(* Its sightings are the tracks of the rows whose detection overlaps enough.*)
LEMMA SightingsAreMatches ==
  ASSUME TableInv, MatrixInv, tpc = "solve", Solved
  PROVE  /\ Promise!Sightings(Found) = {order[i] : i \in MatchedRows}
         /\ Promise!Opened(Found)
              = RoomFor(Cardinality(Ids), dets, Cardinality(MatchedRows))
         /\ {order[i] : i \in MatchedRows} \subseteq Ids
<1> DEFINE n == Cardinality(Ids)
           M == {order[i] : i \in MatchedRows}
           D == {s \in Ids : ColumnOf(RowOf(s)) <= dets}
<1>1. /\ n \in Nat /\ dets \in Nat /\ 1..n \subseteq Rows
      /\ DOMAIN order = 1..n
      /\ \A i \in 1..n : order[i] \in Ids /\ RowOf(order[i]) = i
      /\ \A t \in Ids : RowOf(t) \in 1..n /\ order[RowOf(t)] = t
  BY RowsOfTracks
<1> HIDE DEF n
<1>2. /\ DOMAIN Found = D
      /\ \A t \in D : Found[t] = ColumnOf(RowOf(t))
  <2> DEFINE pi == [i \in Rows |-> ColumnOf(i)]
  <2>1. Found = RealPart(pi)
    BY DEF Found
  <2>2. \A t \in Ids : pi[RowOf(t)] = ColumnOf(RowOf(t))
    BY <1>1
  <2> HIDE DEF pi
  <2>3. D = {s \in Ids : pi[RowOf(s)] <= dets}
    BY <2>2
  <2> HIDE DEF D
  <2>4. DOMAIN Found = D /\ \A t \in D : Found[t] = pi[RowOf(t)]
    BY <2>1, <2>3 DEF RealPart
  <2>5. \A t \in D : t \in Ids
    BY <2>3
  <2> QED BY <2>2, <2>4, <2>5
<1>3. \A t \in D : Costs[t][Found[t]] = cost[RowOf(t)][ColumnOf(RowOf(t))]
  <2> TAKE t \in D
  <2>1. Found \in [DOMAIN Found -> 1..dets]
    BY FoundIsCheapest, PairingsAre
  <2>2. t \in Ids /\ Found[t] \in 1..dets
    BY <1>2, <2>1
  <2> QED BY <1>2, <2>2, CostsAre
<1>4. \A i \in 1..n : i \in MatchedRows <=>
        order[i] \in D /\ Costs[order[i]][Found[order[i]]] <= AcceptCost
  <2> TAKE i \in 1..n
  <2>1. order[i] \in Ids /\ RowOf(order[i]) = i
    BY <1>1
  <2>2. order[i] \in D <=> ColumnOf(i) <= dets
    BY <2>1
  <2>3. i \in MatchedRows <=> ColumnOf(i) <= dets /\ cost[i][ColumnOf(i)] <= AcceptCost
    BY <1>1 DEF MatchedRows
  <2> HIDE DEF D
  <2> QED BY <1>3, <2>1, <2>2, <2>3
<1>5. MatchedRows \subseteq 1..n /\ D \subseteq Ids
  BY <1>1 DEF MatchedRows
<1>6. Promise!Sightings(Found) = {t \in D : Costs[t][Found[t]] <= AcceptCost}
  BY <1>2, Zenon DEF Promise!Sightings
<1> HIDE DEF D
<1>7. {t \in D : Costs[t][Found[t]] <= AcceptCost} = M
  <2>1. ASSUME NEW t \in D, Costs[t][Found[t]] <= AcceptCost
        PROVE  t \in M
    <3>1. RowOf(t) \in 1..n /\ order[RowOf(t)] = t
      BY <1>1, <1>5
    <3>2. RowOf(t) \in MatchedRows
      BY <1>4, <2>1, <3>1
    <3> QED BY <3>1, <3>2
  <2>2. ASSUME NEW i \in MatchedRows
        PROVE  order[i] \in D /\ Costs[order[i]][Found[order[i]]] <= AcceptCost
    BY <1>4, <1>5
  <2> QED BY <2>1, <2>2
<1>8. M \subseteq Ids
  BY <1>5, <1>6, <1>7
<1>9. Cardinality(M) = Cardinality(MatchedRows)
  <2> DEFINE e == [i \in MatchedRows |-> order[i]]
  <2>1. \A i, k \in MatchedRows : order[i] = order[k] => i = k
    BY <1>1, <1>5
  <2>2. e \in Bijection(MatchedRows, M)
    <3>1. e \in [MatchedRows -> M] /\ \A x \in M : \E i \in MatchedRows : e[i] = x
      OBVIOUS
    <3>2. \A i, k \in MatchedRows : e[i] = e[k] => i = k
      BY <2>1
    <3> HIDE DEF e, M
    <3> QED BY <3>1, <3>2 DEF Bijection, Injection, Surjection, IsInjective
  <2> HIDE DEF e, M
  <2>3. ExistsBijection(MatchedRows, M)
    BY <2>2 DEF ExistsBijection
  <2>4. IsFiniteSet(MatchedRows)
    BY MatchesAddUp
  <2> QED BY <2>3, <2>4, FS_Bijection
<1>10. Promise!Opened(Found) = RoomFor(n, dets, Cardinality(MatchedRows))
  <2>1. Promise!Live = Ids
    BY DEF Promise!Live, Counts
  <2>2. /\ Promise!Cardinality(Promise!Sightings(Found)) = Cardinality(MatchedRows)
        /\ Promise!Cardinality(Promise!Live) = n
    BY <1>6, <1>7, <1>9, <2>1, SameSize, Zenon DEF n
  <2> QED BY <2>2, Zenon DEF Promise!Opened, Promise!Smaller, RoomFor
<1> QED
  BY <1>6, <1>7, <1>8, <1>10 DEF n

(* Its live tracks are those of the table.                                 *)
LEMMA LiveIsIds ==
  Promise!Live = Ids
BY DEF Promise!Live, Counts

(* Ids are given out one after the other.                                  *)
LEMMA NewAreNext ==
  ASSUME TableInv, NEW k \in Nat
  PROVE  /\ Promise!New(k) = nextId..(nextId + k - 1)
         /\ Given + k = (nextId + k) - 1
<1>1. nextId \in Nat
  BY DEF TableInv
<1>2. /\ (nextId - 1) + 1 = nextId /\ (nextId - 1) + k = nextId + k - 1
      /\ (nextId - 1) + k = (nextId + k) - 1
  BY <1>1
<1> QED
  BY <1>2, Zenon DEF Promise!New, Given

(* The view of an empty table.                                             *)
LEMMA NothingKept ==
  tracks = <<>> => Ids = {} /\ Counts = <<>> /\ Fresh = {}
BY DEF Ids, Counts, Fresh

(* What the abstract tracker sees of the table.                            *)
LEMMA ViewOf ==
  /\ Counts = [t \in Ids |-> tracks[t].count] /\ DOMAIN Counts = Ids
  /\ Fresh = {t \in Ids : tracks[t].missed = 0}
  /\ tpc # "solve" => Costs = <<>>
BY DEF Counts, Fresh, Costs

(* The same of the table after a step.                                     *)
LEMMA ViewThen ==
  /\ Counts' = [t \in Ids' |-> tracks'[t].count] /\ DOMAIN Counts' = Ids'
  /\ Fresh' = {t \in Ids' : tracks'[t].missed = 0}
  /\ Ids' = DOMAIN tracks' /\ Given' = nextId' - 1
  /\ tpc' # "solve" => Costs' = <<>>
BY DEF Counts, Fresh, Costs, Ids, Given

(* No cost is negative.                                                    *)
LEMMA CostsTyped ==
  TableInv /\ MatrixInv => (tpc = "solve" => Costs \in [Ids -> [1..dets -> Nat]])
<1> SUFFICES ASSUME TableInv, MatrixInv, tpc = "solve"
             PROVE  Costs \in [Ids -> [1..dets -> Nat]]
  OBVIOUS
<1>1. Costs = [t \in Ids |-> [d \in 1..dets |-> cost[RowOf(t)][d]]]
  BY DEF Costs
<1>2. \A t \in Ids, d \in 1..dets : cost[RowOf(t)][d] \in Nat
  <2>1. \A x \in 0..MaxCost : x \in Nat
    BY AssignmentAssumption
  <2> QED BY <2>1, CostsAre
<1> QED
  BY <1>1, <1>2

(* Nor after a step.                                                       *)
LEMMA CostsTypedThen ==
  (TableInv /\ MatrixInv => (tpc = "solve" => Costs \in [Ids -> [1..dets -> Nat]]))'
BY CostsTyped, PTL

-----------------------------------------------------------------------------
(* Each step of the table is one of the abstract tracker.                  *)
LEMMA InitOpensNothing ==
  ASSUME TableInit PROVE Promise!TrackingInit
<1>1. /\ tracks = <<>> /\ nextId = 1 /\ dets = 0 /\ published = {} /\ tpc = "wait"
  BY DEF TableInit
<1>2. Counts = <<>> /\ Fresh = {} /\ Costs = <<>> /\ Given = 0
  BY <1>1, NothingKept, ViewOf DEF Given
<1> QED
  BY <1>1, <1>2, Zenon DEF Promise!TrackingInit

(* Without tracks every detection opens one, while there is room.          *)
LEMMA BootstrapOpens ==
  ASSUME TableInv, NEW m \in 0..MaxDets, Bootstrap(m)
  PROVE  Promise!Open
<1> DEFINE k   == RoomFor(0, m, 0)
           new == nextId..(nextId + k - 1)
<1>1. /\ tpc = "wait" /\ tpc' = "publish" /\ dets' = m /\ tracks = <<>>
      /\ tracks' = WithNew(tracks, k) /\ nextId' = nextId + k
      /\ published' = published
  BY DEF Bootstrap, Frame
<1>2. m \in Nat /\ k \in Nat /\ k = IF m <= MaxTracks THEN m ELSE MaxTracks
  <2>1. m \in Nat
    BY TableAssumption
  <2> QED BY <2>1, TableAssumption DEF RoomFor
<1> HIDE DEF k
<1>3. Ids = {}
  BY <1>1, NothingKept
<1>4. DOMAIN tracks' = new /\ \A t \in new : tracks'[t] = Seen
  BY <1>1, <1>3 DEF WithNew, Ids
<1>5. Ids' = new
  BY <1>4, ViewThen
<1>6. /\ Counts' = [t \in new |-> 1] /\ Fresh' = new
  <2>1. \A t \in new : tracks'[t].count = 1 /\ tracks'[t].missed = 0
    BY <1>4 DEF Seen
  <2> HIDE DEF new
  <2> QED BY <1>5, <2>1, ViewThen
<1>7. new = Promise!New(k) /\ Given' = Given + k
  BY <1>1, <1>2, NewAreNext, ViewThen
<1>8. Promise!Smaller(dets', MaxTracks) = k
  BY <1>1, <1>2 DEF Promise!Smaller
<1>9. Costs' = Costs /\ Promise!Live = {} /\ dets' \in Nat
  <2>1. tpc # "solve" /\ tpc' # "solve"
    BY <1>1
  <2> QED BY <1>1, <1>2, <1>3, <2>1, ViewOf, ViewThen, LiveIsIds
<1> HIDE DEF new
<1> QED
  BY <1>1, <1>6, <1>7, <1>8, <1>9, Zenon DEF Promise!Open

(* Without detections no track is sighted.                                 *)
LEMMA AgeAllMisses ==
  ASSUME TableInv, AgeAll
  PROVE  Promise!Miss
<1> DEFINE aged == [id \in Ids |-> Predict(tracks[id])]
<1>1. /\ tpc = "wait" /\ tpc' = "publish" /\ dets' = 0
      /\ nextId' = nextId /\ published' = published
  BY DEF AgeAll, Frame
<1>2. PICK tooOld \in SUBSET Ids : tracks' = Survivors(aged, tooOld)
  BY DEF AgeAll
<1> DEFINE kept == {id \in DOMAIN aged : ~IsLost(aged[id]) /\ id \notin tooOld}
<1>3. tracks' = Restrict(aged, kept) /\ kept \in SUBSET Ids
  BY <1>2 DEF Survivors
<1>4. \A t \in Ids : aged[t].count = tracks[t].count /\ aged[t].missed # 0
  <2> TAKE t \in Ids
  <2>1. tracks[t] \in Entry
    BY DEF TableInv, Table, Ids
  <2> QED BY <2>1 DEF Predict, Entry
<1> HIDE DEF kept, aged
<1>5. DOMAIN tracks' = kept /\ \A t \in kept : tracks'[t] = aged[t]
  BY <1>3 DEF Restrict
<1>6. Ids' = kept
  BY <1>5, ViewThen
<1>7. Fresh' = {}
  <2>1. \A t \in kept : tracks'[t].missed # 0
    BY <1>3, <1>4, <1>5
  <2> QED BY <1>6, <2>1, ViewThen
<1>8. Counts' = Promise!Restrict(Counts, kept)
  <2>1. \A t \in kept : tracks'[t].count = Counts[t]
    BY <1>3, <1>4, <1>5, ViewOf
  <2>2. Counts' = [t \in kept |-> Counts[t]]
    BY <1>6, <2>1, ViewThen
  <2> QED BY <2>2 DEF Promise!Restrict
<1>9. /\ Costs' = Costs /\ Given' = Given /\ kept \in SUBSET Promise!Live
  <2>1. tpc # "solve" /\ tpc' # "solve"
    BY <1>1
  <2> QED BY <1>1, <1>3, <2>1, ViewOf, ViewThen, LiveIsIds DEF Given
<1> QED
  BY <1>1, <1>7, <1>8, <1>9, Zenon DEF Promise!Miss

(* A matrix of costs is taken in.                                          *)
LEMMA StartUpdateTakes ==
  ASSUME TableInv, TableInv', MatrixInv', NEW m \in 0..MaxDets, StartUpdate(m)
  PROVE  Promise!Take
<1>1. /\ tpc = "wait" /\ tpc' = "solve" /\ dets' = m /\ m > 0
      /\ tracks' = tracks /\ nextId' = nextId /\ published' = published
  BY DEF StartUpdate, Frame
<1>2. Ids' = Ids /\ Counts' = Counts /\ Fresh' = Fresh /\ Given' = Given
  BY <1>1 DEF Ids, Counts, Fresh, Given
<1>3. dets' \in Nat \ {0}
  BY <1>1, TableAssumption
<1>4. Costs' \in [Promise!Live -> [1..dets' -> Nat]]
  BY <1>1, <1>2, CostsTypedThen, LiveIsIds
<1> QED
  BY <1>1, <1>2, <1>3, <1>4, Zenon DEF Promise!Take

(* The matches of the search are the sightings of a cheapest pairing; the  *)
(* tracks dropped are among those not sighted.                             *)
LEMMA ApplyUpdates ==
  ASSUME TableInv, MatrixInv, Apply
  PROVE  Promise!Update
<1> DEFINE matched == {order[i] : i \in MatchedRows}
           aged    == [id \in Ids |-> IF id \in matched THEN Match(tracks[id])
                                      ELSE Predict(tracks[id])]
           k       == RoomFor(Cardinality(Ids), dets, Cardinality(MatchedRows))
           new     == nextId..(nextId + k - 1)
           grown   == WithNew(aged, k)
           lost    == Ids \ DOMAIN tracks'
<1>1. /\ tpc = "solve" /\ tpc' = "publish" /\ Solved
      /\ nextId' = nextId + k /\ dets' = dets /\ published' = published
  BY DEF Apply
<1>2. PICK tooOld \in SUBSET (Ids \ matched) : tracks' = Survivors(grown, tooOld)
  BY DEF Apply
<1>3. /\ Promise!Cheapest(Found) /\ Found \in Promise!Pairings
      /\ Promise!Sightings(Found) = matched /\ Promise!Opened(Found) = k
      /\ matched \subseteq Ids
  BY <1>1, FoundIsCheapest, SightingsAreMatches
<1>4. k \in Nat
  <2>1. Cardinality(MatchedRows) \in 0..dets
    BY <1>1, MatchesAddUp
  <2>2. Cardinality(Ids) \in 0..MaxTracks /\ dets \in Nat
    BY TableFinite DEF TableInv, Ids
  <2> QED BY <2>1, <2>2, RoomIsThere
<1> HIDE DEF k
<1>5. \A t \in Ids : t \notin new
  <2>1. Ids \subseteq 1..(nextId - 1) /\ nextId \in Nat
    BY DEF TableInv, Table, Ids
  <2> QED BY <1>4, <2>1
<1>6. \A t \in Ids : /\ tracks[t] \in Entry /\ Counts[t] = tracks[t].count
                     /\ Counts[t] \in Nat
  <2> TAKE t \in Ids
  <2>1. tracks[t] \in Entry
    BY DEF TableInv, Table, Ids
  <2> QED BY <2>1, ViewOf DEF Entry
<1>7. \A t \in Ids :
        /\ t \in matched => /\ aged[t].missed = 0
                            /\ aged[t].count = Promise!More(Counts[t])
        /\ t \notin matched => aged[t].missed # 0 /\ aged[t].count = Counts[t]
  <2> TAKE t \in Ids
  <2>1. CASE t \in matched
    <3>1. aged[t] = Match(tracks[t])
      BY <2>1
    <3> HIDE DEF aged, matched
    <3>2. /\ aged[t].missed = 0
          /\ aged[t].count = IF tracks[t].count < LockFrames
                             THEN tracks[t].count + 1 ELSE tracks[t].count
      BY <3>1 DEF Match
    <3> QED BY <1>6, <2>1, <3>2, Zenon DEF Promise!More
  <2>2. CASE t \notin matched
    <3>1. aged[t] = Predict(tracks[t])
      BY <2>2
    <3> HIDE DEF aged, matched
    <3> QED BY <1>6, <2>2, <3>1 DEF Predict, Entry
  <2> HIDE DEF aged, matched
  <2> QED BY <2>1, <2>2
<1>8. DOMAIN aged = Ids
  OBVIOUS
<1> HIDE DEF aged, matched
<1>9. /\ DOMAIN grown = Ids \cup new
      /\ \A t \in Ids : grown[t] = aged[t]
      /\ \A t \in new : grown[t] = Seen
  <2> HIDE DEF new
  <2>1. grown = [t \in Ids \cup new |-> IF t \in Ids THEN aged[t] ELSE Seen]
    BY <1>8 DEF WithNew, new
  <2> HIDE DEF grown
  <2> QED BY <1>5, <2>1
<1> DEFINE kept == {t \in DOMAIN grown : ~IsLost(grown[t]) /\ t \notin tooOld}
<1>10. tracks' = Restrict(grown, kept)
  BY <1>2 DEF Survivors
<1> HIDE DEF grown, new
<1>11. /\ kept \subseteq Ids \cup new /\ matched \subseteq kept /\ new \subseteq kept
  <2>1. \A e : e.missed = 0 => ~IsLost(e)
    BY TableAssumption DEF IsLost
  <2>2. \A t \in matched : t \in Ids /\ grown[t].missed = 0 /\ t \notin tooOld
    BY <1>2, <1>3, <1>7, <1>9
  <2>3. \A t \in new : grown[t].missed = 0 /\ t \notin tooOld
    BY <1>2, <1>5, <1>9 DEF Seen
  <2> QED BY <1>9, <2>1, <2>2, <2>3
<1> HIDE DEF kept
<1>12. DOMAIN tracks' = kept /\ \A t \in kept : tracks'[t] = grown[t]
  BY <1>10 DEF Restrict
<1>13. Ids' = kept /\ kept = (Ids \ lost) \cup new
  <2>1. Ids' = kept
    BY <1>12, ViewThen
  <2>2. kept = (Ids \ lost) \cup new
    BY <1>5, <1>11, <1>12
  <2> QED BY <2>1, <2>2
<1>14. lost \in SUBSET Ids /\ matched \cap lost = {}
  BY <1>11, <1>12
<1> HIDE DEF lost
<1>15. Fresh' = matched \cup new
  <2>1. \A t \in kept : tracks'[t].missed = 0 <=> t \in matched \cup new
    <3> TAKE t \in kept
    <3>1. CASE t \in Ids
      BY <1>5, <1>7, <1>9, <1>12, <3>1
    <3>2. CASE t \notin Ids
      <4>1. t \in new /\ grown[t] = Seen
        BY <1>9, <1>11, <3>2
      <4> QED BY <1>12, <4>1 DEF Seen
    <3> QED BY <3>1, <3>2
  <2>2. Fresh' = {t \in kept : tracks'[t].missed = 0}
    BY <1>13, ViewThen
  <2> QED BY <1>11, <2>1, <2>2
<1>16. Counts' = [t \in (Ids \ lost) \cup new |->
                    IF t \notin Ids THEN 1
                    ELSE IF t \in matched THEN Promise!More(Counts[t])
                    ELSE Counts[t]]
  <2>1. Counts' = [t \in kept |-> tracks'[t].count]
    BY <1>13, ViewThen
  <2>2. ASSUME NEW t \in kept
        PROVE  tracks'[t].count = IF t \notin Ids THEN 1
                                  ELSE IF t \in matched THEN Promise!More(Counts[t])
                                  ELSE Counts[t]
    <3>1. CASE t \in Ids
      BY <1>7, <1>9, <1>12, <3>1
    <3>2. CASE t \notin Ids
      <4>1. t \in new /\ grown[t] = Seen
        BY <1>9, <1>11, <3>2
      <4> QED BY <1>12, <3>2, <4>1 DEF Seen
    <3> QED BY <3>1, <3>2
  <2> QED BY <1>13, <2>1, <2>2
<1>17. new = Promise!New(k) /\ Given' = Given + k /\ Costs' = <<>>
  <2>1. tpc' # "solve"
    BY <1>1
  <2> QED BY <1>1, <1>4, <2>1, NewAreNext, ViewThen DEF new
<1>18. /\ Found \in Promise!Pairings /\ lost \in SUBSET Promise!Live
       /\ LET seen == Promise!Sightings(Found)
              q    == Promise!Opened(Found)
          IN  /\ Promise!Cheapest(Found)
              /\ seen \cap lost = {}
              /\ Counts' = [t \in (Promise!Live \ lost) \cup Promise!New(q) |->
                              IF t \notin Promise!Live THEN 1
                              ELSE IF t \in seen THEN Promise!More(Counts[t])
                              ELSE Counts[t]]
              /\ Fresh' = seen \cup Promise!New(q)
              /\ Given' = Given + q
  BY <1>3, <1>14, <1>15, <1>16, <1>17, LiveIsIds, Zenon
<1> QED
  BY <1>1, <1>17, <1>18, Zenon DEF Promise!Update

(* The tracks go out, or those locked.                                     *)
LEMMA PublishTells ==
  ASSUME PublishTracks
  PROVE  Promise!Tell
<1>1. /\ tpc = "publish" /\ tpc' = "wait" /\ dets' = 0
      /\ tracks' = tracks /\ nextId' = nextId
      /\ published' = {id \in Ids : LockedOnly => tracks[id].count >= LockFrames}
  BY DEF PublishTracks
<1>2. Ids' = Ids /\ Counts' = Counts /\ Fresh' = Fresh /\ Given' = Given
  BY <1>1 DEF Ids, Counts, Fresh, Given
<1>3. Costs' = Costs
  <2>1. tpc # "solve" /\ tpc' # "solve"
    BY <1>1
  <2> QED BY <2>1, ViewOf, ViewThen
<1>4. published' = {t \in Promise!Live : LockedOnly => Counts[t] >= LockFrames}
  <2>1. \A t \in Ids : Counts[t] = tracks[t].count
    BY ViewOf
  <2> QED BY <1>1, <2>1, LiveIsIds
<1> QED
  BY <1>1, <1>2, <1>3, <1>4, Zenon DEF Promise!Tell

(* Removed tracks are gone from the view.                                  *)
LEMMA DropTakesOut ==
  ASSUME NEW gone \in SUBSET Ids, Drop(gone)
  PROVE  Promise!TakeOut
<1>1. /\ tpc = "wait" /\ tpc' = tpc /\ tracks' = Restrict(tracks, Ids \ gone)
      /\ nextId' = nextId /\ dets' = dets /\ published' = published
  BY DEF Drop
<1>2. DOMAIN tracks' = Ids \ gone /\ \A t \in Ids \ gone : tracks'[t] = tracks[t]
  BY <1>1 DEF Restrict
<1>3. Ids' = Ids \ gone
  BY <1>2, ViewThen
<1>4. Counts' = Promise!Restrict(Counts, Ids \ gone)
  <2>1. \A t \in Ids \ gone : tracks'[t].count = Counts[t]
    BY <1>2, ViewOf
  <2>2. Counts' = [t \in Ids \ gone |-> Counts[t]]
    BY <1>3, <2>1, ViewThen
  <2> QED BY <2>2 DEF Promise!Restrict
<1>5. Fresh' = Fresh \ gone
  BY <1>2, <1>3, ViewOf, ViewThen
<1>6. Costs' = Costs /\ Given' = Given
  <2>1. tpc # "solve" /\ tpc' # "solve"
    BY <1>1
  <2> QED BY <1>1, <2>1, ViewOf, ViewThen DEF Given
<1> QED
  BY <1>1, <1>4, <1>5, <1>6, LiveIsIds, Zenon DEF Promise!TakeOut

(* After a restart ids are given out from 1 again.                         *)
LEMMA RestartStartsAnew ==
  ASSUME Restart
  PROVE  Promise!StartAnew
<1>1. /\ tpc' = "wait" /\ tracks' = <<>> /\ nextId' = 1 /\ dets' = 0
      /\ published' = published
  BY DEF Restart
<1>2. DOMAIN tracks' = {}
  BY <1>1
<1>3. Ids' = {} /\ Given' = 0
  BY <1>1, <1>2, ViewThen
<1>4. Counts' = <<>> /\ Fresh' = {} /\ Costs' = <<>>
  BY <1>1, <1>3, ViewThen
<1> QED
  BY <1>1, <1>3, <1>4, Zenon DEF Promise!StartAnew

(* What the abstract tracker does not see: the passes of the search.       *)
LEMMA SearchIsUnseen ==
  ASSUME SolveStep \/ UNCHANGED updateVars
  PROVE  UNCHANGED Promise!trackingVars
<1>1. /\ UNCHANGED <<tracks, nextId, dets, order, published, tpc>> /\ cost' = cost
  BY DEF SolveStep, tableVars, AssignStep, EnterRow, Scan, Augment, updateVars, assignVars
<1>2. Ids' = Ids /\ Counts' = Counts /\ Fresh' = Fresh /\ Given' = Given
  BY <1>1 DEF Ids, Counts, Fresh, Given
<1>3. Costs' = Costs
  <2>1. \A t : RowOf(t)' = RowOf(t)
    BY <1>1 DEF RowOf
  <2> QED BY <1>1, <1>2, <2>1 DEF Costs
<1> QED
  BY <1>1, <1>2, <1>3, Zenon DEF Promise!trackingVars

(* The whole of the tracker - the search with its passes, the misses, the  *)
(* cap and the restarts - implements the tracker that pairs as many tracks *)
(* as it can with a detection each at the least cost, whatever the number  *)
(* of tracks and detections, the costs and the thresholds.                 *)
THEOREM TrackerImplementsTracking ==
  TableSpec => ImplementsTracking
<1>1. TableInit => MatrixInv
  BY DEF TableInit, MatrixInv
<1>2. TableInv /\ MatrixInv /\ [TableNext]_updateVars => MatrixInv'
  BY MatrixKept
<1>3. ASSUME TableInv, TableInv', MatrixInv, MatrixInv', [TableNext]_updateVars
      PROVE  [Promise!TrackingNext]_(Promise!trackingVars)
  <2>1. CASE AgeAll
    BY <1>3, <2>1, AgeAllMisses DEF Promise!TrackingNext
  <2>2. CASE SolveStep \/ UNCHANGED updateVars
    BY <2>2, SearchIsUnseen
  <2>3. CASE Apply
    BY <1>3, <2>3, ApplyUpdates DEF Promise!TrackingNext
  <2>4. CASE PublishTracks
    BY <2>4, PublishTells DEF Promise!TrackingNext
  <2>5. CASE Restart
    BY <2>5, RestartStartsAnew DEF Promise!TrackingNext
  <2>6. CASE Clear \/ \E id \in Ids : RemoveTrack(id)
    <3>1. PICK gone \in SUBSET Ids : Drop(gone)
      BY <2>6, Zenon DEF Clear, RemoveTrack
    <3> QED BY <3>1, DropTakesOut DEF Promise!TrackingNext
  <2>7. CASE \E m \in 0..MaxDets : Bootstrap(m) \/ StartUpdate(m)
    <3>1. PICK m \in 0..MaxDets : Bootstrap(m) \/ StartUpdate(m)
      BY <2>7
    <3>2. Promise!Open \/ Promise!Take
      BY <1>3, <3>1, BootstrapOpens, StartUpdateTakes
    <3> QED BY <3>2 DEF Promise!TrackingNext
  <2> QED
    BY <1>3, <2>1, <2>2, <2>3, <2>4, <2>5, <2>6, <2>7 DEF TableNext, TableStep
<1>4. TableInit => Promise!TrackingInit
  BY InitOpensNothing
<1>5. TableSpec => []TableInv
  BY TableInvariant, PTL
<1> QED
  BY <1>1, <1>2, <1>3, <1>4, <1>5, PTL
     DEF TableSpec, ImplementsTracking, Promise!TrackingSpec
=============================================================================
