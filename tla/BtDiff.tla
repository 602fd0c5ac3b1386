------------------------------- MODULE BtDiff -------------------------------
(***************************************************************************)
(* The structural diff of two trees (apps/studio/src/dsl-preview.ts): each  *)
(* tree becomes a path map, and the maps are compared (NodePairs).  The     *)
(* edges of a tree lead from node to node and never around, and no two      *)
(* nodes have one id: the code skips an edge that leads nowhere, takes the  *)
(* last node with an id, and gives up in a circle.                          *)
(***************************************************************************)
EXTENDS NodePairs

nodeById(tree, id) == tree.nodes[CHOOSE i \in DOMAIN tree.nodes : tree.nodes[i].id = id]

\* Faulty variant: the index of an edge is not looked at.
earlierById(e, f) == e.child > f.child

\* The order of the edges of a node: by index, then by child.
earlier(e, f) == e.index < f.index \/ (e.index = f.index /\ e.child < f.child)

\* childrenByParent: the edges of a node in that order.
childEdges(tree, id) ==
  LET edges == {e \in ToSet(tree.edges) : e.parent = id}
  IN  [k \in 1 .. Cardinality(edges) |->
         CHOOSE e \in edges : Cardinality({f \in edges : earlier(f, e)}) = k - 1]

\* roots and orderedRoots: the nodes no edge leads to, or else the first one.
rootPositions(tree) ==
  LET roots == {i \in DOMAIN tree.nodes :
                  \A k \in DOMAIN tree.edges : tree.edges[k].child # tree.nodes[i].id}
  IN  IF roots = {} THEN {1} \cap DOMAIN tree.nodes ELSE roots

rootPlaces(tree) ==
  LET roots == rootPositions(tree)
  IN  {<< <<Cardinality({j \in roots : j < i})>>, tree.nodes[i].id>> : i \in roots}

\* The places right below some places, each with the id found there.
childPlaces(tree, places) ==
  UNION {{<<Append(p[1], i - 1), childEdges(tree, p[2])[i].child>> : i \in DOMAIN childEdges(tree, p[2])} :
           p \in places}

\* visit: from the roots, as far down as a tree of so many nodes can reach.
visitedPlaces(tree) ==
  LET visited[depth \in 0 .. Len(tree.nodes)] ==
        IF depth = 0 THEN rootPlaces(tree)
        ELSE rootPlaces(tree) \cup childPlaces(tree, visited[depth - 1])
  IN  visited[Len(tree.nodes)]

\* toPathMap: from places to nodes, with the labels of their children in order.
toPathMap(tree) ==
  LET places == visitedPlaces(tree)
      at(path) == nodeById(tree, (CHOOSE p \in places : p[1] = path)[2])
      labels(id) == [i \in DOMAIN childEdges(tree, id) |->
                       labelFor(nodeById(tree, childEdges(tree, id)[i].child))]
  IN  [path \in {p[1] : p \in places} |->
         [id |-> at(path).id, path |-> path, kind |-> at(path).kind, name |-> at(path).name,
          children |-> labels(at(path).id)]]

\* What compileBtDsl makes and the recorded runs of the repository hold: the ids
\* count the nodes in their order, and each node but the first has one parent,
\* which comes before it.
IsTree(tree) ==
  LET ids == DOMAIN tree.nodes
      edges == ToSet(tree.edges)
  IN  /\ tree.nodes \in Seq(ToSet(tree.nodes)) \ {<<>>} /\ tree.edges \in Seq(edges)
      /\ \A i \in ids : tree.nodes[i].id = i
      /\ \A e \in edges : e \in [parent : ids, child : ids, index : Nat] /\ e.parent < e.child
      /\ \A i \in ids \ {1} : \E e \in edges : e.child = i
      /\ \A e, f \in edges : e.child = f.child => e = f
=============================================================================
