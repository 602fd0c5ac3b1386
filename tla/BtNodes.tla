------------------------------ MODULE BtNodes ------------------------------
(***************************************************************************)
(* The second half of the tree source compiler of Studio                    *)
(* (apps/studio/src/dsl-compiler.ts): from the expression of a tree to its  *)
(* nodes and edges.  Positions serve messages and are left out; of a        *)
(* diagnostic its kind is kept.                                             *)
(***************************************************************************)
EXTENDS Integers, FiniteSets, SequencesExt

CONSTANTS Capabilities   \* the words that start with "cap."

Composites == {"seq", "sel"}              \* supportedComposites
Leaves == {"act", "cond", "dec"}          \* supportedLeaves
Heads == Composites \cup Leaves           \* supportedNodeHeads

\* SExpr.  A quoted word is the symbol between its quotes (asSymbol), so an atom
\* keeps that symbol; NoSymbol is the symbol of a list.
NoSymbol == ""
Atom(word) == [type |-> "atom", symbol |-> word, items |-> <<>>]
ListOf(items) == [type |-> "list", symbol |-> NoSymbol, items |-> items]
Nothing == ListOf(<<>>)

-----------------------------------------------------------------------------

\* displayName: a leaf is called by its second item when that is a symbol.
displayName(expr) ==
  LET kind == expr.items[1].symbol
  IN  IF kind \in Leaves /\ Len(expr.items) > 1 /\ expr.items[2].symbol # NoSymbol
      THEN expr.items[2].symbol ELSE kind

\* capabilityRequirementsForNode: words of a leaf that name a capability; the
\* keywords ":cap" and ":capability" need one behind them, which is such a word.
capabilityRequirementsForNode(expr) ==
  IF expr.items[1].symbol \in Leaves
  THEN {expr.items[i].symbol : i \in 3 .. Len(expr.items)} \cap Capabilities
  ELSE {}

\* childSignature: kind and name; the empty tuple for what has none.
childSignature(expr) ==
  IF expr.items = <<>> THEN <<>>
  ELSE IF expr.items[1].symbol = NoSymbol THEN <<>>
  ELSE <<expr.items[1].symbol, displayName(expr)>>

\* duplicateSiblingDiagnostics: one for each child whose signature was seen.
duplicateSiblingDiagnostics(expr) ==
  LET signature == [i \in 2 .. Len(expr.items) |-> childSignature(expr.items[i])]
  IN  Cardinality({i \in DOMAIN signature :
        signature[i] # <<>> /\ \E j \in 2 .. i - 1 : signature[j] = signature[i]})

\* Why visit rejects an expression, or "none".
NodeError(expr, isRoot) ==
  CASE expr.type = "atom" -> IF isRoot THEN "validation" ELSE "none"
    [] expr.items = <<>> -> "syntax"
    [] expr.items # <<>> /\ expr.items[1].symbol = NoSymbol -> "syntax"
    [] OTHER -> IF expr.items[1].symbol \in Heads THEN "none" ELSE "unsupported-form"

\* An expression to be visited, with its parent (0 for none) and its index there.
Pending(expr, parent, index) == [expr |-> expr, parent |-> parent, index |-> index]

\* Nothing is compiled yet: the nodes in the order of the text, where a node's id
\* is its place (nextId), the edges, what is to be reported, and in todo the calls
\* of visit that are still to come.
StartingWith(root) ==
  [nodes |-> <<>>, edges |-> <<>>, unstable |-> 0, required |-> {}, error |-> "none",
   todo |-> <<Pending(root, 0, 0)>>]

\* throwDiagnostic: nothing of what was compiled is left.
Rejected(error) ==
  [nodes |-> <<>>, edges |-> <<>>, unstable |-> 0, required |-> {}, error |-> error, todo |-> <<>>]

\* visit: the node of an expression and an edge from its parent; its children are
\* visited next, one by one, before what follows it.  An atom is a node of kind
\* "sym", and what a leaf holds behind its name is not visited.
visit(done) ==
  LET at == Head(done.todo)
      expr == at.expr
      id == Len(done.nodes) + 1
      isAtom == expr.type = "atom"
      kind == IF isAtom THEN "sym" ELSE expr.items[1].symbol
      name == IF isAtom THEN expr.symbol ELSE displayName(expr)
      isParent == ~isAtom /\ kind \in Composites
      edge == IF at.parent = 0 THEN <<>> ELSE <<[parent |-> at.parent, child |-> id, index |-> at.index]>>
      children == IF isParent
                  THEN [i \in 1 .. Len(expr.items) - 1 |-> Pending(expr.items[i + 1], id, i - 1)]
                  ELSE <<>>
      error == NodeError(expr, at.parent = 0)
  IN  IF error # "none" THEN Rejected(error)
      ELSE [nodes |-> Append(done.nodes, [id |-> id, kind |-> kind, name |-> name]),
            edges |-> done.edges \o edge,
            unstable |-> done.unstable + (IF isParent THEN duplicateSiblingDiagnostics(expr) ELSE 0),
            required |-> done.required \cup (IF isAtom THEN {} ELSE capabilityRequirementsForNode(expr)),
            error |-> "none",
            todo |-> children \o Tail(done.todo)]

\* compileBtDsl from its rootExpr on: visits as long as there is something to do,
\* and at most size times.
compileTree(root, size) ==
  LET compiled[n \in 0 .. size] ==
        IF n = 0 THEN StartingWith(root)
        ELSE LET done == compiled[n - 1] IN IF done.todo = <<>> THEN done ELSE visit(done)
  IN  compiled[size]
=============================================================================
