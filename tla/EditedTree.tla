----------------------------- MODULE EditedTree -----------------------------
(***************************************************************************)
(* The editor with the compiler it calls: what the trees it compiles are.   *)
(* Compile and MissingCapabilities stand for compileBtDsl and               *)
(* validateDslCapabilities here, as the runs assign them.                   *)
(***************************************************************************)
EXTENDS DslEditor, BtDsl

\* The compiler the editor calls, and texts that are sequences of lexemes.
ASSUME CompilesWithBtDsl == \A text \in Texts : Compile(text) = compileBtDsl(text)
ASSUME TextsAreLexemes == \A text \in Texts : text \in Seq(ToSet(text))

\* The word and the name of a form.
formLabel(expr) == IF expr.type = "atom" THEN <<"sym", expr.symbol>>
                   ELSE <<expr.items[1].symbol, displayName(expr)>>

\* The forms right below those at some places, each with its place.
formsBelow(forms) ==
  UNION {{<<Append(f[1], i - 2), f[2].items[i]>> : i \in 2 .. Len(f[2].items)} :
           f \in {g \in forms : g[2].type = "list" /\ g[2].items[1].symbol \in Composites}}

\* The forms in an expression, so many levels deep, by the shape of the expression
\* alone: the reference for compileTree and toPathMap.
formsIn(root, depth) ==
  LET found[d \in 0 .. depth] ==
        IF d = 0 THEN {<< <<0>>, root>>}
        ELSE LET above == found[d - 1] IN above \cup formsBelow(above)
  IN  found[depth]

\* The tree compiled from a draft has, at every place, the form written there,
\* and nothing else: ids, edges, child indexes and paths agree (compileBtDsl,
\* toPathMap).
CompileKeepsPlaces ==
  Compiles(draft) =>
    LET map == toPathMap(TreeOf(draft))
        forms == formsIn(rootOf(draft).expr, Len(tokenize(draft).tokens))
    IN  {<<path, labelFor(map[path])>> : path \in DOMAIN map} = {<<f[1], formLabel(f[2])>> : f \in forms}
=============================================================================
