------------------------------ MODULE Assignment ------------------------------
(***************************************************************************)
(* The assignment of detections to tracks: solve() and hungarian() of      *)
(* target-tracker/src/hungarian.rs. One row at a time enters the matching; *)
(* a pass of the inner loop (Scan) lowers the duals of the alternating     *)
(* tree and adds the nearest column to it, until a free column is reached  *)
(* and the path behind it is flipped (Augment).                            *)
(*                                                                         *)
(* Costs are the integers 0..MaxCost in place of the floats 1 - IoU, so    *)
(* that no rounding occurs.                                                *)
(***************************************************************************)
EXTENDS Integers, FiniteSets, Functions, FiniteSetsExt

CONSTANTS
  MaxCost,     \* the largest cost of a real cell
  PaddingCost  \* large_cost, the cost of a padding cell

ASSUME AssignmentAssumption == /\ MaxCost \in Nat
                               /\ PaddingCost \in Nat /\ MaxCost < PaddingCost

VARIABLES
  size,  \* side of the square matrix; 0 when no call is under way
  cost,  \* the padded matrix
  u,     \* dual of each row
  v,     \* dual of each column
  p,     \* p[j]: row assigned to column j; p[0]: the row being entered
  way,   \* way[j]: column before j on the alternating path
  row,   \* i of the outer loop
  col,   \* j0
  minv,  \* slack of each column outside the tree
  used,  \* columns of the tree
  apc    \* where the call is

dualVars   == <<u, v, p, way>>
scanVars   == <<col, minv, used>>
assignVars == <<size, cost, dualVars, row, scanVars, apc>>

Rows     == 1..size
Cols     == 1..size
Cols0    == 0..size
Infinity == 4 * PaddingCost

\* No call is under way.
Idle == /\ size = 0 /\ row = 0 /\ col = 0 /\ apc = "idle"
        /\ cost = <<>> /\ used = {}
        /\ u = [i \in {0} |-> 0] /\ v = [j \in {0} |-> 0]
        /\ p = [j \in {0} |-> 0] /\ way = [j \in {0} |-> 0]
        /\ minv = [j \in {0} |-> 0]

\* solve: pad the n x m matrix c to a square one.
Solve(n, m, c) ==
  LET s == IF n > m THEN n ELSE m IN
  /\ apc = "idle" /\ apc' = "row"
  /\ size' = s
  /\ cost' = [i \in 1..s |-> [j \in 1..s |->
                IF i <= n /\ j <= m THEN c[i][j] ELSE PaddingCost]]
  /\ u' = [i \in 0..s |-> 0] /\ v' = [j \in 0..s |-> 0]
  /\ p' = [j \in 0..s |-> 0] /\ way' = [j \in 0..s |-> 0]
  /\ row' = 1 /\ col' = 0 /\ used' = {}
  /\ minv' = [j \in 0..s |-> Infinity]

\* Mutant: the slacks of the previous row are kept.
EnterRowStaleSlack ==
  /\ apc = "row" /\ row <= size
  /\ apc' = "scan"
  /\ p' = [p EXCEPT ![0] = row]
  /\ col' = 0 /\ used' = {}
  /\ UNCHANGED <<size, cost, u, v, way, row, minv>>

EnterRow ==
  /\ apc = "row" /\ row <= size
  /\ apc' = "scan"
  /\ p' = [p EXCEPT ![0] = row]
  /\ col' = 0 /\ used' = {}
  /\ minv' = [j \in Cols0 |-> Infinity]
  /\ UNCHANGED <<size, cost, u, v, way, row>>

Reduced(i, j) == cost[i][j] - u[i] - v[j]

\* One pass of the inner loop: relax the columns outside the tree from the
\* row of the column just added, and shift the duals by the least slack.
Scan ==
  LET tree   == used \cup {col}
      free   == Cols \ tree
      cur(j) == Reduced(p[col], j)
      slack  == [j \in Cols0 |-> IF j \in free /\ cur(j) < minv[j]
                                 THEN cur(j) ELSE minv[j]]
      delta  == Min({slack[j] : j \in free})
      next   == Min({j \in free : slack[j] = delta})
  IN
  /\ apc = "scan"
  /\ used' = tree
  /\ way' = [j \in Cols0 |-> IF j \in free /\ cur(j) < minv[j]
                             THEN col ELSE way[j]]
  /\ u' = [i \in Cols0 |-> IF \E j \in tree : p[j] = i
                           THEN u[i] + delta ELSE u[i]]
  /\ v' = [j \in Cols0 |-> IF j \in tree THEN v[j] - delta ELSE v[j]]
  /\ minv' = [j \in Cols0 |-> IF j \in tree THEN slack[j] ELSE slack[j] - delta]
  /\ col' = next
  /\ apc' = IF p[next] = 0 THEN "augment" ELSE "scan"
  /\ UNCHANGED <<size, cost, p, row>>

\* Mutant: way is followed in the matching but not by j0.
AugmentStays ==
  /\ apc = "augment"
  /\ p' = [p EXCEPT ![col] = p[way[col]]]
  /\ UNCHANGED <<size, cost, u, v, way, row, col, minv, used, apc>>

\* Flip one edge of the path back to column 0; there, the next row follows.
Augment ==
  /\ apc = "augment"
  /\ p' = [p EXCEPT ![col] = p[way[col]]]
  /\ col' = way[col]
  /\ IF way[col] = 0 THEN apc' = "row" /\ row' = row + 1
                     ELSE UNCHANGED <<apc, row>>
  /\ UNCHANGED <<size, cost, u, v, way, minv, used>>

Solved == apc = "row" /\ row > size

\* The vectors of the call are gone.
Forget == /\ size' = 0 /\ row' = 0 /\ col' = 0 /\ apc' = "idle"
          /\ cost' = <<>> /\ used' = {}
          /\ u' = [i \in {0} |-> 0] /\ v' = [j \in {0} |-> 0]
          /\ p' = [j \in {0} |-> 0] /\ way' = [j \in {0} |-> 0]
          /\ minv' = [j \in {0} |-> 0]

\* The column of row i; a column past the real ones is None for solve.
ColumnOf(i) == CHOOSE j \in Cols : p[j] = i

AssignStep == EnterRow \/ Scan \/ Augment

-----------------------------------------------------------------------------
(* Properties.                                                             *)

\* The duals never exceed a cost: no shift by delta overshoots an edge
\* outside the tree.
DualFeasible == \A i \in Rows, j \in Cols : u[i] + v[j] <= cost[i][j]

\* Matched edges are tight, also those the path is being flipped over, and
\* no row is matched twice once the path is flipped.
MatchedTight ==
  /\ apc # "augment" =>
       \A j \in Cols : p[j] # 0 => Reduced(p[j], j) = 0
  /\ apc = "row" =>
       \A i \in Rows : Cardinality({j \in Cols : p[j] = i}) = IF i < row THEN 1 ELSE 0

\* minv and way describe the tree: a column outside it is as far from it as
\* its best edge, and that edge starts at way[j].
SlackExact ==
  apc = "scan" /\ used # {} =>
    \A j \in Cols \ (used \cup {col}) :
      /\ minv[j] = Min({Reduced(p[k], j) : k \in used})
      /\ way[j] \in used /\ Reduced(p[way[j]], j) = minv[j]

\* What every pass of the search keeps: feasible duals, tight matches, and
\* slacks that are those of the tree.
SearchExact == DualFeasible /\ MatchedTight /\ SlackExact

\* The reference: the least total cost over all one-to-one assignments.
Total(f) == SumFunctionOnSet(f, Rows)
Least == Min({Total([i \in Rows |-> cost[i][pi[i]]]) : pi \in Bijection(Rows, Cols)})

\* What solve returns costs no more than any other assignment would.
SolvedOptimal ==
  Solved /\ size > 0 => Total([i \in Rows |-> cost[i][ColumnOf(i)]]) = Least
=============================================================================
