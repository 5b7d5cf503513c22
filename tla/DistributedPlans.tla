--------------------------- MODULE DistributedPlans ---------------------------
(***************************************************************************)
(* The plans of a fingerprint query on a Greenplum-family cluster, and the *)
(* three validators that read them before the query runs: of the Greengage *)
(* endpoint (greengage_endpoint_sql.py) and of the two canonical           *)
(* fingerprints (greenplum_sql.py).  EXPLAIN prints the tree in preorder,  *)
(* one line per node, the depth as indentation: plan is that sequence.     *)
(* A fingerprint is only trusted when rows are hashed and summed on the    *)
(* segment that holds them, below every Motion.  The validators search     *)
(* lines, compare indentations and cut subtrees; AggregatedBelowMotion     *)
(* says the same of the tree.  Init is a plan the planner makes; each step *)
(* is one way another planner version could differ.                        *)
(***************************************************************************)
EXTENDS Naturals, Sequences, FiniteSets, FiniteSetsExt, SequencesExt

CONSTANTS
    Ranges,     \* ranges in one query of the Greengage endpoint
    MaxChanges  \* bound: changes of the plan

DistributedPlansAssumption == Ranges \in Nat \ {0} /\ MaxChanges \in Nat

VARIABLES
    validator,  \* "endpoint", "greengage" or "original"
    plan,       \* <<[depth, kind, exact, sums], ...>>
    changes

vars == <<validator, plan, changes>>

Motions == {"gather", "redistribute", "broadcast"}
Aggregates == {"finalize", "partial"}
Kinds == Motions \cup Aggregates \cup {"append", "scan", "gp_id", "loop", "values", "subquery"}

\* exact: the segment counts of a Motion, the keys of an aggregate or redistribution, the relation
\* of a scan and the row estimate of Values and Nested Loop are the ones the query asks for.
\* sums: the limb sums over the row hash are in the text of this node.
Node(depth, kind) == [depth |-> depth, kind |-> kind, exact |-> TRUE, sums |-> FALSE]
Summing(node) == [node EXCEPT !.sums = TRUE]

Depths(kinds) == [i \in 1..Len(kinds) |-> Node(i - 1, kinds[i])]

\* The plan of build_greengage_range_fingerprint_query; one range needs no Values.
EndpointPlan ==
    LET upper == Depths(<<"gather", "finalize", "redistribute", "partial", "finalize",
                          "redistribute", "partial", "append", "scan">>)
        seed == IF Ranges = 1 THEN <<Node(8, "gp_id")>>
                ELSE <<Node(8, "loop"), Node(9, "gp_id"), Node(9, "values")>>
    IN  [upper EXCEPT ![7] = Summing(@)] \o seed

\* The plan of _build_greenplum_fingerprint_query on Greengage and on the original Greenplum.
CanonicalPlan ==
    LET upper == Depths(<<"finalize", "gather", "subquery", "finalize", "redistribute", "partial",
                          "subquery", "append", "scan">>)
    IN  [upper EXCEPT ![6] = Summing(@)] \o <<Node(8, "subquery"), Node(9, "gp_id")>>

Init ==
    /\ validator \in {"endpoint", "greengage", "original"}
    /\ plan = IF validator = "endpoint" THEN EndpointPlan ELSE CanonicalPlan
    /\ changes = 0

-----------------------------------------------------------------------------
(* The tree the text stands for.                                           *)

Lines == 1..Len(plan)
Is(i, kinds) == plan[i].kind \in kinds
Indent(i) == plan[i].depth

\* _human_subtree_end: the first later node that is not deeper.
SubtreeEnd(i) ==
    Min({j \in Lines : j > i /\ Indent(j) <= Indent(i)} \cup {Len(plan) + 1})

Parent(i) == Max({j \in Lines : j < i /\ Indent(j) < Indent(i)} \cup {0})

Above(i, j) == i < j /\ \A k \in (i + 1)..j : Indent(k) > Indent(i)

-----------------------------------------------------------------------------
(* How another plan may differ.                                            *)

Change(new) == plan' = new /\ changes' = changes + 1 /\ UNCHANGED validator

Shift(i, by(_)) ==
    [j \in Lines |-> IF j = i \/ Above(i, j) THEN [plan[j] EXCEPT !.depth = by(@)] ELSE plan[j]]

Deeper(d) == d + 1
Shallower(d) == d - 1

\* A node over the subtree of i; the sums may be computed in it instead.
Wrap(i, kind) == Change(InsertAt(Shift(i, Deeper), i, Node(Indent(i), kind)))
AddChild(i, kind) == Change(InsertAt(plan, i + 1, Node(Indent(i) + 1, kind)))
Splice(i) == i > 1 /\ Change(RemoveAt(Shift(i, Shallower), i))
Rename(i, kind) == kind # plan[i].kind /\ Change([plan EXCEPT ![i].kind = kind])
Rehang(i) == Indent(i) > 1 /\ Change(Shift(i, Shallower))
Blur(i) == plan[i].exact /\ Change([plan EXCEPT ![i].exact = FALSE])
SumsMove(i, j) ==
    plan[i].sums /\ i # j /\ Change([plan EXCEPT ![i].sums = FALSE, ![j].sums = TRUE])

Next ==
    /\ changes < MaxChanges
    /\ \E i \in Lines :
         \/ \E kind \in Kinds : Wrap(i, kind) \/ AddChild(i, kind) \/ Rename(i, kind)
         \/ Splice(i) \/ Rehang(i) \/ Blur(i)
         \/ \E j \in Lines : SumsMove(i, j)

Spec == Init /\ [][Next]_vars

-----------------------------------------------------------------------------
(* validate_greengage_range_fingerprint_plan                               *)

\* Lines in the order of the text.
InOrder(lines) ==
    [k \in 1..Cardinality(lines) |->
        CHOOSE i \in lines : Cardinality({j \in lines : j <= i}) = k]
Found(kinds) == InOrder({i \in Lines : Is(i, kinds)})

\* _parse_motion_header and the cardinalities in _range_fingerprint_stage_indexes: every Motion of
\* the plan is a gather or a redistribution between all primaries.
MotionsExpected ==
    \A i \in Lines : Is(i, Motions) => Is(i, {"gather", "redistribute"}) /\ plan[i].exact

\* _range_fingerprint_stage_indexes: the eight stages of the plan in the order they must nest, or
\* no sequence.
StageIndexes ==
    LET gathers == Found({"gather"})
        redistributes == Found({"redistribute"})
        finalizes == Found({"finalize"})
        partials == Found({"partial"})
        appends == Found({"append"})
    IN  IF /\ Len(gathers) = 1 /\ Len(redistributes) = 2 /\ Len(finalizes) = 2
           /\ Len(partials) = 2 /\ Len(appends) = 1
        THEN <<gathers[1], finalizes[1], redistributes[1], partials[1], finalizes[2],
               redistributes[2], partials[2], appends[1]>>
        ELSE <<>>

\* pairwise(hierarchy): sorted, the gather is the root, each stage inside the one before.
StagesNest(stages) ==
    /\ stages[1] = 1
    /\ \A k \in 1..7 : /\ stages[k] < stages[k + 1]
                       /\ stages[k + 1] < SubtreeEnd(stages[k])
                       /\ Indent(stages[k + 1]) > Indent(stages[k])

\* _first_child_plan_node
HasChild(i) == i + 1 < SubtreeEnd(i)

\* _require_plan_key for the finalize, redistribution and partial nodes of both stages.
PlanKeysExact(stages) == \A k \in 2..7 : HasChild(stages[k]) /\ plan[stages[k]].exact

\* The nodes of least indentation in a subtree (branch_indent, branch_roots; child_roots).
BranchRoots(i, end) ==
    LET inside == (i + 1)..(end - 1)
    IN  InOrder({j \in inside : \A k \in inside : Indent(j) <= Indent(k)})

\* _require_target_scan_identity, _parse_plan_scan_identity, _parse_plan_scan_relation
TargetScan(i) == Is(i, {"scan"}) /\ plan[i].exact

\* _require_topology_scan_identity
TopologyScan(i) == Is(i, {"gp_id"}) /\ plan[i].exact

\* _require_range_values_scan, _plan_node_estimated_rows
RangeValuesScan(i) == Is(i, {"values"}) /\ plan[i].exact

\* _require_topology_branch
TopologyBranch(i, appendEnd) ==
    \/ Ranges = 1 /\ TopologyScan(i)
    \/ /\ Is(i, {"loop"}) /\ plan[i].exact
       /\ LET roots == BranchRoots(i, Min({SubtreeEnd(i), appendEnd}))
          IN  /\ Len(roots) = 2
              /\ TopologyScan(roots[1]) /\ RangeValuesScan(roots[2])

\* The append has a relation branch and then a topology branch, with no Motion below the innermost
\* partial aggregate.
SourceBranches(partial, append) ==
    LET end == SubtreeEnd(append)
        roots == BranchRoots(append, end)
    IN  /\ Len(roots) = 2
        /\ TargetScan(roots[1]) /\ TopologyBranch(roots[2], end)
        /\ roots[2] >= SubtreeEnd(roots[1])
        /\ ~ \E i \in (partial + 1)..(SubtreeEnd(partial) - 1) : Is(i, Motions)

\* _validate_lowest_partial_expressions over the partial aggregate's own lines (_sum_expressions,
\* _get_byte_calls, _require_exact_limb_expression, _is_canonical_row_hash).
LowestPartialSums(partial) == plan[partial].sums

EndpointAccepts ==
    LET stages == StageIndexes
    IN  /\ MotionsExpected /\ stages # <<>>
        /\ StagesNest(stages) /\ PlanKeysExact(stages)
        /\ SourceBranches(stages[7], stages[8])
        /\ LowestPartialSums(stages[7])

-----------------------------------------------------------------------------
(* _parse_greenplum_fingerprint_plan_shape and its two callers.            *)

\* _find_human_node: the first node of these kinds after a line, 0 when there is none.  A Motion is
\* recognised by its kind and segment count.
FindNode(kinds, after) ==
    LET found == {i \in Lines : i > after /\ after > 0 /\ Is(i, kinds)
                                /\ (kinds \subseteq Motions => plan[i].exact)}
    IN  IF found = {} THEN 0 ELSE Min(found)

\* The six stages, found in the order of the lines; missing ones are 0.
HumanStages ==
    LET outer == IF \E i \in Lines : Is(i, Aggregates) THEN Found(Aggregates)[1] ELSE 0
        gather == FindNode({"gather"}, outer)
        final == FindNode(Aggregates, gather)
        redistribute == FindNode({"redistribute"}, final)
        partial == FindNode(Aggregates, redistribute)
        append == FindNode({"append"}, partial)
    IN  [outer |-> outer, gather |-> gather, final |-> final, redistribute |-> redistribute,
         partial |-> partial, append |-> append]

\* Each stage is deeper than the one before and inside its subtree.
ShapeNests_IndentOnly(stage) ==
    /\ Indent(stage.gather) > Indent(stage.outer)
    /\ \A pair \in {<<stage.gather, stage.final>>, <<stage.final, stage.redistribute>>,
                    <<stage.redistribute, stage.partial>>, <<stage.partial, stage.append>>} :
         Indent(pair[2]) > Indent(pair[1])
ShapeNests(stage) ==
    /\ Indent(stage.gather) > Indent(stage.outer)
    /\ \A pair \in {<<stage.gather, stage.final>>, <<stage.final, stage.redistribute>>,
                    <<stage.redistribute, stage.partial>>, <<stage.partial, stage.append>>} :
         Indent(pair[2]) > Indent(pair[1]) /\ pair[2] < SubtreeEnd(pair[1])

\* One scan that names the relation and, after its subtree, one gp_id scan in the append; no Motion
\* between the partial aggregate and the append's end; no other append.
SourceSiblings(stage) ==
    LET end == SubtreeEnd(stage.append)
        scans(kind) == {i \in (stage.append + 1)..(end - 1) :
                            Is(i, {kind}) /\ (kind = "scan" => plan[i].exact)}
    IN  /\ Cardinality(scans("scan")) = 1 /\ Cardinality(scans("gp_id")) = 1
        /\ \A s \in scans("scan"), g \in scans("gp_id") :
             /\ Indent(s) > Indent(stage.append) /\ Indent(g) > Indent(stage.append)
             /\ g >= SubtreeEnd(s)
        /\ ~ \E i \in (stage.partial + 1)..(end - 1) : Is(i, Motions)
        /\ \A i \in (stage.partial + 1)..(SubtreeEnd(stage.partial) - 1) :
             Is(i, {"append"}) => i = stage.append

FingerprintShape(stage) == stage.append # 0 /\ ShapeNests(stage) /\ SourceSiblings(stage)

\* _greengage_limb_sum_expressions over the text of the partial aggregate's subtree.
GreengageAccepts ==
    LET stage == HumanStages
    IN  /\ FingerprintShape(stage)
        /\ \E i \in stage.partial..(SubtreeEnd(stage.partial) - 1) : plan[i].sums

\* _find_serialized_plan_node: by node type alone.
FindSerialized(kinds, after) ==
    LET found == {i \in Lines : i > after /\ Is(i, kinds)}
    IN  IF found = {} THEN 0 ELSE Min(found)

\* parse_original_greenplum_fingerprint_plan: the serialized plan carries node and parent ids; the
\* stages found in it are each the direct child of the one before.
SerializedChain ==
    LET gather == FindSerialized(Motions, 0)
        member == FindSerialized({"subquery"}, gather)
        aggregate == FindSerialized(Aggregates, member)
        redistribute == FindSerialized(Motions, aggregate)
        partial == FindSerialized(Aggregates, redistribute)
        row == FindSerialized({"subquery"}, partial)
        append == FindSerialized({"append"}, row)
    IN  IF 0 \in {gather, member, aggregate, redistribute, partial, row, append} THEN <<>>
        ELSE <<gather, member, aggregate, redistribute, partial, row, append>>

SerializedParents(chain) ==
    LET row == chain[6]
        append == chain[7]
        source == {i \in (row + 1)..(append - 1) : Is(i, {"subquery"})}
        scan == FindSerialized({"scan", "gp_id"}, append)
        seed == FindSerialized({"subquery"}, scan)
        gpid == FindSerialized({"scan", "gp_id"}, seed)
    IN  /\ \A k \in 1..5 : Parent(chain[k + 1]) = chain[k]
        /\ Cardinality(source) <= 1
        /\ \A i \in source : Parent(i) = row
        /\ Parent(append) = IF source = {} THEN row ELSE CHOOSE i \in source : TRUE
        /\ 0 \notin {scan, seed, gpid}
        /\ Parent(scan) = append /\ Parent(seed) = append /\ Parent(gpid) = seed

\* The limb sums and the one hash expression lie between the partial aggregate and the scan.
SerializedSums(chain) ==
    \E i \in chain[5]..(FindSerialized({"scan", "gp_id"}, chain[7]) - 1) : plan[i].sums

OriginalAccepts ==
    LET stage == HumanStages
        chain == SerializedChain
    IN  /\ FingerprintShape(stage)
        /\ chain # <<>> /\ SerializedParents(chain) /\ SerializedSums(chain)

Accepted ==
    CASE validator = "endpoint" -> EndpointAccepts
      [] validator = "greengage" -> GreengageAccepts
      [] OTHER -> OriginalAccepts

-----------------------------------------------------------------------------
MotionBetween(i, j) == \E m \in Lines : Is(m, Motions) /\ Above(i, m) /\ Above(m, j)

\* The limb sums are computed in the aggregate or below it.
Sums(q) == \E i \in Lines : plan[i].sums /\ (i = q \/ Above(q, i))

\* What the serialized plan says of the tree: an aggregate below a Motion sums what lies in an
\* append of two scans, with no Motion on the way to either.
SummedBelowMotion ==
    \E m, q \in Lines :
      /\ Is(m, Motions) /\ Is(q, Aggregates) /\ Above(m, q) /\ Sums(q)
      /\ \E a \in Lines :
           /\ Is(a, {"append"}) /\ Above(q, a)
           /\ \E s, t \in Lines :
                /\ Is(s, {"scan", "gp_id"}) /\ Is(t, {"scan", "gp_id"}) /\ s < t /\ ~Above(s, t)
                /\ Above(a, s) /\ Above(a, t) /\ ~MotionBetween(q, s) /\ ~MotionBetween(q, t)

\* The tree says so: a gather over an aggregate over a redistribution between all primaries over an
\* aggregate over the append of the relation asked for and the topology seed, and no Motion below that lowest
\* aggregate on the way to either.  The endpoint's stages are also exact, and its sums are in the
\* lowest aggregate; Greengage's are in it or below it.  The original Greenplum's are found in the
\* serialized plan by node type alone, so they belong to an aggregate of the same place in the
\* tree, which need not be this one.
DistributedTree ==
    /\ \E a, p \in Lines :
         /\ Is(a, {"append"}) /\ Is(p, Aggregates) /\ Above(p, a)
         /\ validator = "endpoint" => plan[p].sums
         /\ validator = "greengage" => Sums(p)
         /\ \E r \in Lines :
              /\ Is(r, {"redistribute"}) /\ plan[r].exact /\ Above(r, p)
              /\ \E f, g \in Lines :
                   /\ Is(f, Aggregates) /\ Above(f, r)
                   /\ Is(g, {"gather"}) /\ plan[g].exact /\ Above(g, f)
                   /\ validator = "endpoint" => Parent(g) = 0 /\ plan[f].exact /\ plan[p].exact
         /\ \E s, t \in Lines :
              /\ Is(s, {"scan"}) /\ plan[s].exact /\ Is(t, {"gp_id"})
              /\ Above(a, s) /\ Above(a, t)
              /\ ~Above(s, t) /\ ~Above(t, s)
              /\ ~MotionBetween(p, s) /\ ~MotionBetween(p, t)
              /\ validator = "endpoint" =>
                   /\ plan[t].exact /\ Parent(s) = a
                   /\ \A m \in Lines : Is(m, Motions) /\ Above(m, s) => plan[m].exact
    /\ validator = "original" => SummedBelowMotion

\* A plan a validator accepts aggregates the rows of the relation and the topology seed on their
\* segments (greenplum_sql.py:753, greengage_endpoint_sql.py:462): whatever other nodes the planner
\* puts into the plan, moves, renames or leaves out, searching the lines and cutting subtrees by
\* indentation finds the tree's structure.  And the plans of the supported versions are accepted.
AggregatedBelowMotion ==
    /\ Accepted => DistributedTree
    /\ changes = 0 => Accepted

=============================================================================
