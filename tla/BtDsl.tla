------------------------------- MODULE BtDsl -------------------------------
(***************************************************************************)
(* The tree source compiler of Studio (apps/studio/src/dsl-compiler.ts):    *)
(* from the text of a draft to the expression of a tree, and the nodes and  *)
(* edges of that (BtNodes).                                                 *)
(*                                                                          *)
(* A text is a sequence of lexemes: the characters the tokenizer treats on  *)
(* their own, and words.                                                    *)
(***************************************************************************)
EXTENDS BtNodes

-----------------------------------------------------------------------------
(* tokenize: ";" hides the rest of its line, a quote takes everything up to *)
(* the next one as one token: the word in it, or "text" for anything else.  *)
(* Spaces separate lexemes and are left out.                                *)

\* The token of a string literal.
literal(quoted) == IF Len(quoted) = 1 /\ quoted[1] \notin {"(", ")"} THEN quoted[1] ELSE "text"

\* What is made of the next lexeme, within a comment, a string literal or neither.
readLexeme(read, lexeme) ==
  CASE read.within = ";" -> IF lexeme = "newline" THEN [read EXCEPT !.within = "none"] ELSE read
    [] read.within = "quote" /\ lexeme # "quote" -> [read EXCEPT !.quoted = Append(@, lexeme)]
    [] read.within = "quote" /\ lexeme = "quote" ->
         [tokens |-> Append(read.tokens, literal(read.quoted)), within |-> "none", quoted |-> <<>>]
    [] read.within = "none" /\ lexeme \in {";", "quote"} -> [read EXCEPT !.within = lexeme]
    [] read.within = "none" /\ lexeme = "newline" -> read
    [] OTHER -> [read EXCEPT !.tokens = Append(@, lexeme)]

\* tokenize: the tokens of a text, or an error when a string literal is left open.
tokenize(text) ==
  LET read[n \in 0 .. Len(text)] ==
        IF n = 0 THEN [tokens |-> <<>>, within |-> "none", quoted |-> <<>>]
        ELSE LET before == read[n - 1] IN readLexeme(before, text[n])
      all == read[Len(text)]
  IN  IF all.within = "quote" THEN [tokens |-> <<>>, error |-> "syntax"]
      ELSE [tokens |-> all.tokens, error |-> "none"]

-----------------------------------------------------------------------------
(* parseSExpr *)

\* Expressions read, and the position of what follows them; or an error.
Read(exprs, next) == [exprs |-> exprs, next |-> next, error |-> "none"]
SyntaxError == [exprs |-> <<>>, next |-> 0, error |-> "syntax"]

\* One expression and those that follow it, or the first error.
andThen(one, more) ==
  CASE one.error # "none" -> one
    [] one.error = "none" /\ more.error # "none" -> more
    [] OTHER -> Read(one.exprs \o more.exprs, more.next)

\* Of the tokens from a position on: the expression there (parseOne), the items
\* before the ")" that closes their list, and the expressions up to the end.
parseSExpr(tokens) ==
  LET from[at \in 1 .. Len(tokens) + 1] ==
        LET isEnd == at = Len(tokens) + 1
            list == from[at + 1].items
            one == CASE isEnd \/ tokens[at] = ")" -> SyntaxError
                     [] ~isEnd /\ tokens[at] = "(" ->
                          IF list.error # "none" THEN list ELSE Read(<<ListOf(list.exprs)>>, list.next)
                     [] OTHER -> Read(<<Atom(tokens[at])>>, at + 1)
            rest == from[one.next]
        IN  [one |-> one,
             items |-> IF ~isEnd /\ tokens[at] = ")" THEN Read(<<>>, at + 1)
                       ELSE andThen(one, rest.items),
             all |-> IF isEnd THEN Read(<<>>, at) ELSE andThen(one, rest.all)]
  IN  from[1].all

\* resolveTreeRoot: the tree in the wrapper "bt" or "defbt", or the first
\* expression itself; what follows it is not looked at.
resolveTreeRoot(exprs) ==
  LET first == exprs[1]
      wrapped == CASE first.items[1].symbol = "defbt" -> 3
                   [] first.items[1].symbol = "bt" -> 2
                   [] OTHER -> 0
  IN  IF exprs = <<>> \/ (first.type = "list" /\ first.items = <<>>)
      THEN [expr |-> Nothing, error |-> "syntax"]
      ELSE IF first.type = "atom" \/ wrapped = 0 THEN [expr |-> first, error |-> "none"]
      ELSE IF Len(first.items) < wrapped THEN [expr |-> Nothing, error |-> "syntax"]
      ELSE [expr |-> first.items[wrapped], error |-> "none"]

-----------------------------------------------------------------------------

\* rootExpr, or the error of the first stage that finds one.
rootOf(text) ==
  LET lexed == tokenize(text)
      parsed == parseSExpr(lexed.tokens)
  IN  CASE lexed.error # "none" -> [expr |-> Nothing, error |-> lexed.error]
        [] lexed.error = "none" /\ parsed.error # "none" -> [expr |-> Nothing, error |-> parsed.error]
        [] OTHER -> resolveTreeRoot(parsed.exprs)

\* compileBtDsl: a text compiles, or is rejected with the first error.  There are
\* no more expressions in a text than tokens.
compileBtDsl(text) ==
  LET root == rootOf(text)
  IN  IF root.error # "none" THEN Rejected(root.error)
      ELSE compileTree(root.expr, Len(tokenize(text).tokens))
=============================================================================
