----------------------------- MODULE NodePairs -----------------------------
(***************************************************************************)
(* Pairing the nodes of two trees (apps/studio/src/dsl-preview.ts): nodes   *)
(* at the same place are compared, what is left over is matched by          *)
(* likeness, and the rest was removed or added.                             *)
(*                                                                          *)
(* A tree is its path map: from places to nodes, each with the labels of    *)
(* its children in order.  A place is the sequence of child positions from  *)
(* the root, <<0>> being the root.  A row keeps its type, its place and the  *)
(* ids of its nodes.                                                        *)
(***************************************************************************)
EXTENDS Integers, FiniteSets, SequencesExt

NoNode == 0

labelFor(node) == <<node.kind, node.name>>

parentPathFor(path) == Front(path)

\* The order of localeCompare on paths, numbers as numbers.
comesBefore(p, q) ==
  \/ IsStrictPrefix(p, q)
  \/ \E k \in DOMAIN p \cap DOMAIN q :
       p[k] < q[k] /\ SubSeq(p, 1, k - 1) = SubSeq(q, 1, k - 1)

-----------------------------------------------------------------------------

Occurrences(s, x) == Cardinality({i \in DOMAIN s : s[i] = x})

\* sameSet: the same labels, each as often.
sameSet(left, right) ==
  Len(left) = Len(right) /\ \A i \in DOMAIN left : Occurrences(left, left[i]) = Occurrences(right, left[i])

hasSameChildrenInDifferentOrder(before, after) ==
  /\ Len(before.children) > 1
  /\ before.children # after.children
  /\ sameSet(before.children, after.children)

\* Faulty variant: two children are too few to be reordered.
hasLikelyReorderOfThree(before, after) ==
  Len(before.children) > 2 /\ hasSameChildrenInDifferentOrder(before, after)

hasLikelyChildReorder(before, after) ==
  \/ hasSameChildrenInDifferentOrder(before, after)
  \/ /\ Len(before.children) = Len(after.children)
     /\ Len(before.children) > 1
     /\ \E i \in DOMAIN before.children :
          /\ before.children[i] \in ToSet(after.children)
          /\ after.children[i] # before.children[i]

rowOf(type, before, after) ==
  [type |-> type, path |-> after.path, before |-> before.id, after |-> after.id]

\* A node found at the same place in both trees.
rowForSamePath(before, after) ==
  LET row(type, applies) == IF applies THEN {rowOf(type, before, after)} ELSE {}
  IN  row("renamed", before.kind = after.kind /\ before.name # after.name)
      \cup row("changed", before.kind # after.kind)
      \cup row("reordered", hasLikelyChildReorder(before, after))

similarityScore(before, after) ==
  LET points(n, applies) == IF applies THEN n ELSE 0
  IN  points(4, before.kind = after.kind)
      + points(3, before.name = after.name)
      + points(2, parentPathFor(before.path) = parentPathFor(after.path))
      + points(2, sameSet(before.children, after.children))

\* The pair matchUnpairedNodes takes before another.
betterPair(p, q) ==
  \/ similarityScore(p[1], p[2]) > similarityScore(q[1], q[2])
  \/ /\ similarityScore(p[1], p[2]) = similarityScore(q[1], q[2])
     /\ \/ comesBefore(p[1].path, q[1].path)
        \/ p[1].path = q[1].path /\ comesBefore(p[2].path, q[2].path)

\* Faulty variant: a node of the preview may be matched several times.
withoutFirst(pairs, taken) == {p \in pairs : p[1].path # taken[1].path}

\* usedBefore, usedAfter: the pairs that do not share a node with a taken one.
without(pairs, taken) == {p \in pairs : p[1].path # taken[1].path /\ p[2].path # taken[2].path}

bestPair(pairs) == CHOOSE p \in pairs : \A q \in pairs \ {p} : betterPair(p, q)

\* Greedily, the best pair first; each node is matched once.
bestPairs(pairs) ==
  LET take[left \in SUBSET pairs] ==
        IF left = {} THEN {}
        ELSE LET best == bestPair(left) IN {best} \cup take[without(left, best)]
  IN  take[pairs]

matchUnpairedNodes(beforeNodes, afterNodes) ==
  bestPairs({p \in beforeNodes \X afterNodes : similarityScore(p[1], p[2]) >= 6})

-----------------------------------------------------------------------------

\* A row for each matched pair that differs in kind, name or children.
rowsOfMatches(matched) ==
  LET differ(m) == m[1].kind # m[2].kind \/ m[1].name # m[2].name \/ m[1].children # m[2].children
      type(m) == IF m[1].kind = m[2].kind /\ m[1].name # m[2].name THEN "renamed" ELSE "changed"
  IN  {rowOf(type(m), m[1], m[2]) : m \in {n \in matched : differ(n)}}

\* The nodes at places of one tree only: matched by likeness, or gone, or new.
rowsOfUnpaired(was, now, matched) ==
  LET removed == {n \in was : \A m \in matched : m[1].path # n.path}
      added == {n \in now : \A m \in matched : m[2].path # n.path}
  IN  rowsOfMatches(matched)
      \cup {[type |-> "removed", path |-> n.path, before |-> n.id, after |-> NoNode] : n \in removed}
      \cup {[type |-> "added", path |-> n.path, before |-> NoNode, after |-> n.id] : n \in added}

\* The nodes at the places of both trees: below a parent whose children were
\* reordered, those that differ are matched with their siblings.
rowsOfPaired(was, now, same, reorderedParents) ==
  LET explained(path) == /\ parentPathFor(path) \in reorderedParents
                         /\ labelFor(was[path]) # labelFor(now[path])
      childNodesForParent(map, path) ==
        {map[p] : p \in {q \in DOMAIN map : parentPathFor(q) = path}}
      amongChildren == UNION {matchUnpairedNodes(childNodesForParent(was, path),
                                                 childNodesForParent(now, path)) :
                                path \in reorderedParents}
  IN  (UNION {rowForSamePath(was[path], now[path]) : path \in {p \in same : ~explained(p)}})
      \cup rowsOfMatches({m \in amongChildren : labelFor(m[1]) # labelFor(m[2])})

rowsBetween(was, now, same) ==
  LET only(map) == {map[p] : p \in DOMAIN map \ same}
  IN  rowsOfPaired(was, now, same, {path \in same : hasLikelyChildReorder(was[path], now[path])})
      \cup rowsOfUnpaired(only(was), only(now), matchUnpairedNodes(only(was), only(now)))

diffOfMaps(was, now) == rowsBetween(was, now, DOMAIN was \cap DOMAIN now)

-----------------------------------------------------------------------------
(* What path maps and their differences are *)

\* The children of a node are the nodes at the places right below it, in order,
\* and a place other than the root is right below a node.
IsPathMap(map) ==
  /\ IsFiniteSet(DOMAIN map)
  /\ \A q \in DOMAIN map :
       /\ q \in Seq(Nat) \ {<<>>} /\ map[q].path = q
       /\ map[q].children \in Seq({labelFor(map[r]) : r \in DOMAIN map})
       /\ \A i \in DOMAIN map[q].children :
            Append(q, i - 1) \in DOMAIN map /\ map[q].children[i] = labelFor(map[Append(q, i - 1)])
       /\ Len(q) > 1 => Front(q) \in DOMAIN map /\ Last(q) < Len(map[Front(q)].children)

placesUnder(map, p) == {q \in DOMAIN map : Len(q) > Len(p) /\ SubSeq(q, 1, Len(p)) = p}

\* The trees differ in the order of the children of one place, all leaves with
\* names of their own, and in nothing else.
LeavesReordered(was, now, p) ==
  /\ DOMAIN was = DOMAIN now
  /\ hasSameChildrenInDifferentOrder(was[p], now[p])
  /\ \A x, y \in DOMAIN was[p].children : x # y => was[p].children[x] # was[p].children[y]
  /\ \A q \in placesUnder(was, p) : was[q].children = <<>> /\ now[q].children = <<>>
  /\ \A q \in DOMAIN was \ placesUnder(was, p) : labelFor(was[q]) = labelFor(now[q])
  /\ \A q \in DOMAIN was \ (placesUnder(was, p) \cup {p}) : was[q].children = now[q].children
=============================================================================
