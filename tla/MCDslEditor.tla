---------------------------- MODULE MCDslEditor ----------------------------
(***************************************************************************)
(* Small trees, some texts that do not compile, and four runs: two with one *)
(* source and other trees, of which one is shorter than its source; one     *)
(* whose source does not compile beside two roots; and one without source.  *)
(***************************************************************************)
EXTENDS EditedTree, BtCapabilities

CONSTANTS r1, r2, r3, r4

Node(head, children) == <<"(", head>> \o FlattenSeq(children) \o <<")">>
Leaf(head, name) == Node(head, << <<name>> >>)
Bt(tree) == Node("bt", <<tree>>)

A == Leaf("act", "a")
B == Leaf("act", "b")
C == Leaf("cond", "a")
Seq2(x, y) == Node("seq", <<x, y>>)

\* Two parents, of which one holds a leaf.
MovedFrom == Bt(Seq2(Node("seq", <<A>>), Node("seq", <<>>)))
MovedTo == Bt(Seq2(Node("seq", <<>>), Node("seq", <<A>>)))
Twins == Bt(Seq2(Node("sel", <<A, C>>), B))

MCTrees ==
  {Bt(Node("seq", leaves)) : leaves \in {<<A, C, B>>, <<C, B, A>>, <<A, A, B>>}}
  \cup {MovedFrom, MovedTo, Twins,
        Bt(Seq2(Node("sel", <<C, A>>), B)),                        \* reordered below the root
        Bt(Seq2(B, Node("sel", <<A, C>>))),                        \* a composite moved
        Bt(Node("sel", <<A, Node("seq", <<A, B>>)>>)),             \* nested, of another kind
        Node("defbt", << <<"t">>, Node("seq", <<Node("cond", << <<"a">>, <<"cap">> >>), <<"x">> >>)>>)}

\* A comment hides a ")", the next one is cut off, one has too many, and so on.
MCRejected ==
  {<<>>, <<"(", "seq", ";", ")">>, <<"(", "seq", "quote", ")">>, <<"seq">>, <<"(", "bt", ")">>,
   <<"(", "par", ")">>, <<"(", ")">>, <<")">>}

MCQuoted == {<<"(", "seq", ";", ")", "newline", "(", "act", "quote", "a", "quote", ")", ")", "x">>}

MCDrafts == MCTrees \cup MCRejected \cup MCQuoted

N(id, kind, name) == [id |-> id, kind |-> kind, name |-> name]
E(parent, child, index) == [parent |-> parent, child |-> child, index |-> index]

MCSources == (r1 :> Twins) @@ (r2 :> Twins) @@ (r3 :> <<"(", "par", ")">>) @@ (r4 :> <<>>)

\* Composites have names of their own, which no source gives them.
MCRecorded ==
  (r1 :> [nodes |-> <<N(1, "seq", "main"), N(2, "sel", "x"), N(3, "act", "a"), N(4, "cond", "a"),
                      N(5, "act", "b")>>,
          edges |-> <<E(1, 2, 0), E(1, 5, 1), E(2, 3, 0), E(2, 4, 1)>>])
  @@ (r2 :> [nodes |-> <<N(1, "seq", "seq"), N(2, "act", "a"), N(3, "cond", "a"), N(4, "act", "b")>>,
             edges |-> <<E(1, 2, 0), E(1, 3, 1), E(1, 4, 2)>>])
  @@ (r3 :> [nodes |-> <<N(2, "seq", "seq"), N(1, "act", "a"), N(3, "act", "b")>>,
             edges |-> <<E(2, 1, 0)>>])
  @@ (r4 :> [nodes |-> <<>>, edges |-> <<>>])

MCHistory == (r1 :> {2, 3}) @@ (r2 :> {}) @@ (r3 :> {3}) @@ (r4 :> {})
MCMetadata ==
  (r1 :> Fields({[key |-> "bundles", value |-> Entries(<<Fields({[key |-> "id", value |-> Text("cap")]})>>)]}))
  @@ (r2 :> Fields({[key |-> "cap", value |-> Unset]})) @@ (r3 :> Fields({})) @@ (r4 :> Fields({}))
=============================================================================
