------------------------------- MODULE Parser -------------------------------
(***************************************************************************)
(* The recursive-descent parser of src/compiler/parser.c, on sequences of  *)
(* tokens <<type, text>>.  A parse function takes the tokens and the index *)
(* of the current one and returns a result [node, i, ok]: the node, the    *)
(* index of the token that is current afterwards, and ~had_error.  An      *)
(* error is sticky in the code (parser_error keeps the first one and every *)
(* loop and every caller stops on it), so nothing is parsed once ok is     *)
(* FALSE.  Line numbers, messages and memory are left out.                 *)
(*                                                                         *)
(* A node is a tuple that starts with its kind (ast.h).  A selector is the *)
(* sequence of its parts: <<"value">>, <<"+">>, <<"on:", "do:">>.          *)
(***************************************************************************)
EXTENDS Integers, Sequences

NoNode == <<"none">>
SelfNode == <<"self">>
NilNode == <<"nil">>
Bool(b) == <<"bool", b>>
Literal(type, text) == <<"lit", type, text>>
LitArray(elems) == <<"array", elems>>
Var(name) == <<"var", name>>
Assign(name, value) == <<"assign", name, value>>
Send(rcv, sel, args) == <<"send", rcv, sel, args>>
SuperSend(sel, args) == <<"super", Var("super"), sel, args>>
Cascade(rcv, msgs) == <<"cascade", rcv, msgs>>
Return(expr) == <<"return", expr>>
Block(args, temps, body) == <<"block", args, temps, body>>
Method(sel, args, temps, body) == <<"method", sel, args, temps, body>>

Kind(node) == node[1]

-----------------------------------------------------------------------------
(* Token helpers: current, check, and the results of a parse function.     *)

Current(ts, i) == IF i <= Len(ts) THEN ts[i] ELSE <<"EOF", "">>
Check(ts, i, types) == Current(ts, i)[1] \in types
Text(ts, i) == Current(ts, i)[2]

Ok(node, i) == [node |-> node, i |-> i, ok |-> TRUE]
Error(i) == [node |-> NoNode, i |-> i, ok |-> FALSE]

LiteralTokens == {"INTEGER", "FLOAT", "STRING", "SYMBOL", "CHAR"}
PseudoVariables == {"self", "super", "nil", "true", "false", "thisContext"}

(* What an identifier stands for as a primary. *)
IdentifierNode(text) ==
    CASE text = "self" -> SelfNode
      [] text = "nil" -> NilNode
      [] text \in {"true", "false"} -> Bool(text = "true")
      [] OTHER -> Var(text)

(* In a literal array an identifier is a constant or a symbol. *)
ArrayIdentifier(text) ==
    IF text \in {"nil", "true", "false"} THEN IdentifierNode(text)
                                         ELSE Literal("SYMBOL", text)

IsSuper(node) == Kind(node) = "var" /\ node[2] = "super"

MakeSend(rcv, sel, args) ==
    IF IsSuper(rcv) THEN SuperSend(sel, args) ELSE Send(rcv, sel, args)

(* The parse functions that call each other, by the name of the rule.      *)
RECURSIVE ParseRule(_, _, _), ParseLiteral(_, _)

-----------------------------------------------------------------------------
(* Literals. *)

(* The elements of an array written inside a literal array with bare       *)
(* parentheses: they go through ParseLiteral only, so an identifier there  *)
(* is an error although it is a symbol one level up.                       *)
RECURSIVE ParseNestedElements(_, _, _)
ParseNestedElements(ts, i, elems) ==
    IF Check(ts, i, LiteralTokens \cup {"#("})
    THEN LET e == ParseLiteral(ts, i)
         IN  IF e.ok THEN ParseNestedElements(ts, e.i, Append(elems, e.node)) ELSE e
    ELSE IF Check(ts, i, {")"}) THEN Ok(LitArray(elems), i + 1) ELSE Error(i)

ParseArrayElement(ts, i) ==
    CASE Check(ts, i, LiteralTokens \cup {"#("}) -> ParseLiteral(ts, i)
      [] Check(ts, i, {"IDENT"}) -> Ok(ArrayIdentifier(Text(ts, i)), i + 1)
      [] Check(ts, i, {"("}) -> ParseNestedElements(ts, i + 1, <<>>)
      [] Check(ts, i, {"BINARY"}) -> Ok(Literal("SYMBOL", Text(ts, i)), i + 1)
      [] OTHER -> Error(i)

(* The token #( is already consumed. *)
RECURSIVE ParseLiteralArray(_, _, _)
ParseLiteralArray(ts, i, elems) ==
    IF Check(ts, i, {")"}) THEN Ok(LitArray(elems), i + 1)
    ELSE LET e == ParseArrayElement(ts, i)
         IN  IF e.ok THEN ParseLiteralArray(ts, e.i, Append(elems, e.node)) ELSE e

(* The characters of a string from the n-th to the last but the given      *)
(* number, and the characters between quotes, where two quotes are one.    *)
Chars(s, n, but) == SubSeq(s, n, Len(s) - but)

RECURSIVE Unescape(_)
Unescape(s) ==
    IF Len(s) < 2 THEN s
    ELSE SubSeq(s, 1, 1) \o Unescape(Chars(s, IF SubSeq(s, 1, 2) = "''" THEN 3 ELSE 2, 0))

LiteralText(type, lexeme) ==
    CASE type = "STRING" -> Unescape(Chars(lexeme, 2, 1))
      [] type = "SYMBOL" -> IF SubSeq(lexeme, 2, 2) = "'" THEN Unescape(Chars(lexeme, 3, 1))
                                                         ELSE Chars(lexeme, 2, 0)
      [] type = "CHAR" -> Chars(lexeme, 2, 0)
      [] OTHER -> lexeme

ParseLiteral(ts, i) ==
    CASE Check(ts, i, LiteralTokens) ->
           Ok(Literal(Current(ts, i)[1], LiteralText(Current(ts, i)[1], Text(ts, i))), i + 1)
      [] Check(ts, i, {"#("}) -> ParseLiteralArray(ts, i + 1, <<>>)
      [] OTHER -> Error(i)

-----------------------------------------------------------------------------
(* Blocks. *)

RECURSIVE ParseBlockArgs(_, _, _)
ParseBlockArgs(ts, i, names) ==
    IF Check(ts, i, {":"})
    THEN IF Check(ts, i + 1, {"IDENT"})
         THEN ParseBlockArgs(ts, i + 2, Append(names, Text(ts, i + 1)))
         ELSE Error(i + 1)
    ELSE CASE names = <<>> -> Ok(names, i)
           [] Check(ts, i, {"|"}) -> Ok(names, i + 1)
           [] OTHER -> Error(i)

(* | t1 t2 |, of a method or of a block. *)
RECURSIVE ParseTempNames(_, _, _)
ParseTempNames(ts, i, names) ==
    CASE Check(ts, i, {"IDENT"}) -> ParseTempNames(ts, i + 1, Append(names, Text(ts, i)))
      [] Check(ts, i, {"|"}) -> Ok(names, i + 1)
      [] OTHER -> Error(i)

ParseTemps(ts, i) ==
    IF Check(ts, i, {"|"}) THEN ParseTempNames(ts, i + 1, <<>>) ELSE Ok(<<>>, i)

ParseStatement(ts, i) ==
    IF Check(ts, i, {"^"})
    THEN LET e == ParseRule("expression", ts, i + 1)
         IN  IF e.ok THEN Ok(Return(e.node), e.i) ELSE e
    ELSE ParseRule("expression", ts, i)

(* Statements up to one of the end tokens, or to a statement that no       *)
(* period follows; the caller looks at what comes next.                    *)
RECURSIVE ParseStatements(_, _, _, _)
ParseStatements(ts, i, ends, body) ==
    IF Check(ts, i, ends) THEN Ok(body, i)
    ELSE LET s == ParseStatement(ts, i)
         IN  CASE ~s.ok -> s
               [] Check(ts, s.i, {"."}) ->
                    ParseStatements(ts, s.i + 1, ends, Append(body, s.node))
               [] OTHER -> Ok(Append(body, s.node), s.i)

(* The token [ is already consumed. *)
ParseBlock(ts, i) ==
    LET args == ParseBlockArgs(ts, i, <<>>)
        temps == ParseTemps(ts, args.i)
        body == ParseStatements(ts, temps.i, {"]", "EOF"}, <<>>)
    IN  CASE ~args.ok -> args
          [] ~temps.ok -> temps
          [] ~body.ok -> body
          [] Check(ts, body.i, {"]"}) ->
               Ok(Block(args.node, temps.node, body.node), body.i + 1)
          [] OTHER -> Error(body.i)

-----------------------------------------------------------------------------
(* Expressions, in the order of Smalltalk's precedence. *)

ParsePrimary(ts, i) ==
    CASE Check(ts, i, {"IDENT"}) -> Ok(IdentifierNode(Text(ts, i)), i + 1)
      [] Check(ts, i, LiteralTokens \cup {"#("}) -> ParseLiteral(ts, i)
      [] Check(ts, i, {"["}) -> ParseBlock(ts, i + 1)
      [] Check(ts, i, {"("}) ->
           LET e == ParseRule("expression", ts, i + 1)
           IN  CASE ~e.ok -> e
                 [] Check(ts, e.i, {")"}) -> Ok(e.node, e.i + 1)
                 [] OTHER -> Error(e.i)
      [] OTHER -> Error(i)

RECURSIVE UnaryTail(_, _, _)
UnaryTail(ts, i, rcv) ==
    IF Check(ts, i, {"IDENT"}) /\ Text(ts, i) \notin PseudoVariables
    THEN UnaryTail(ts, i + 1, MakeSend(rcv, <<Text(ts, i)>>, <<>>))
    ELSE Ok(rcv, i)

ParseUnaryExpr(ts, i) ==
    LET r == ParsePrimary(ts, i) IN IF r.ok THEN UnaryTail(ts, r.i, r.node) ELSE r

RECURSIVE BinaryTail(_, _, _)

(* Mutant: the right operand swallows the binary messages after it. *)
BinaryTailRight(ts, i, left) ==
    IF Check(ts, i, {"BINARY", "|"})
    THEN LET right == ParseRule("binary", ts, i + 1)
         IN  IF right.ok THEN Ok(MakeSend(left, <<Text(ts, i)>>, <<right.node>>), right.i) ELSE right
    ELSE Ok(left, i)

BinaryTail(ts, i, left) ==
    IF Check(ts, i, {"BINARY", "|"})
    THEN LET right == ParseRule("unary", ts, i + 1)
         IN  IF right.ok
             THEN BinaryTail(ts, right.i, MakeSend(left, <<Text(ts, i)>>, <<right.node>>))
             ELSE right
    ELSE Ok(left, i)

ParseBinaryExpr(ts, i) ==
    LET l == ParseRule("unary", ts, i) IN IF l.ok THEN BinaryTail(ts, l.i, l.node) ELSE l

(* keyword: argument keyword: argument ..., collected as <<sel, args>>.    *)
RECURSIVE KeywordTail(_, _, _, _)
KeywordTail(ts, i, sel, args) ==
    IF Check(ts, i, {"KEYWORD"})
    THEN LET a == ParseRule("binary", ts, i + 1)
         IN  IF a.ok THEN KeywordTail(ts, a.i, Append(sel, Text(ts, i)), Append(args, a.node))
                     ELSE a
    ELSE Ok(<<sel, args>>, i)

ParseKeywordExpr(ts, i) ==
    LET r == ParseRule("binary", ts, i)
        k == KeywordTail(ts, r.i, <<>>, <<>>)
    IN  CASE ~r.ok -> r
          [] ~Check(ts, r.i, {"KEYWORD"}) -> r
          [] ~k.ok -> k
          [] OTHER -> Ok(MakeSend(r.node, k.node[1], k.node[2]), k.i)

(* One message after a semicolon.  A bar is not taken as a binary selector *)
(* here.                                                                   *)
ParseCascadeMessage(ts, i) ==
    CASE Check(ts, i, {"IDENT"}) -> Ok(<<<<Text(ts, i)>>, <<>>>>, i + 1)
      [] Check(ts, i, {"BINARY"}) ->
           LET a == ParseRule("unary", ts, i + 1)
           IN  IF a.ok THEN Ok(<<<<Text(ts, i)>>, <<a.node>>>>, a.i) ELSE a
      [] Check(ts, i, {"KEYWORD"}) -> KeywordTail(ts, i, <<>>, <<>>)
      [] OTHER -> Error(i)

RECURSIVE CascadeTail(_, _, _)
CascadeTail(ts, i, msgs) ==
    IF Check(ts, i, {";"})
    THEN LET m == ParseCascadeMessage(ts, i + 1)
         IN  IF m.ok THEN CascadeTail(ts, m.i, Append(msgs, m.node)) ELSE m
    ELSE Ok(msgs, i)

(* The first message is taken out of the send already parsed; what is kept *)
(* of a super send is its receiver, the variable super.                    *)
ParseCascadeOrExpr(ts, i) ==
    LET e == ParseRule("keyword", ts, i)
        c == CascadeTail(ts, e.i, <<<<e.node[3], e.node[4]>>>>)
    IN  CASE ~e.ok -> e
          [] ~Check(ts, e.i, {";"}) -> e
          [] Kind(e.node) \notin {"send", "super"} -> Error(e.i)
          [] ~c.ok -> c
          [] OTHER -> Ok(Cascade(e.node[2], c.node), c.i)

ParseExpression(ts, i) ==
    IF Check(ts, i, {"IDENT"}) /\ Check(ts, i + 1, {":="})
    THEN LET v == ParseRule("expression", ts, i + 2)
         IN  IF v.ok THEN Ok(Assign(Text(ts, i), v.node), v.i) ELSE v
    ELSE ParseCascadeOrExpr(ts, i)

ParseRule(rule, ts, i) ==
    CASE rule = "body" -> ParseStatements(ts, i, {"EOF"}, <<>>)
      [] rule = "unary" -> ParseUnaryExpr(ts, i)
      [] rule = "binary" -> ParseBinaryExpr(ts, i)
      [] rule = "keyword" -> ParseKeywordExpr(ts, i)
      [] rule = "expression" -> ParseExpression(ts, i)

-----------------------------------------------------------------------------
(* Methods. *)

RECURSIVE KeywordHeader(_, _, _, _)
KeywordHeader(ts, i, sel, args) ==
    IF Check(ts, i, {"KEYWORD"})
    THEN IF Check(ts, i + 1, {"IDENT"})
         THEN KeywordHeader(ts, i + 2, Append(sel, Text(ts, i)), Append(args, Text(ts, i + 1)))
         ELSE Error(i + 1)
    ELSE Ok(<<sel, args>>, i)

ParseMethodHeader(ts, i) ==
    CASE Check(ts, i, {"KEYWORD"}) -> KeywordHeader(ts, i, <<>>, <<>>)
      [] Check(ts, i, {"BINARY", "|"}) ->
           IF Check(ts, i + 1, {"IDENT"})
           THEN Ok(<<<<Text(ts, i)>>, <<Text(ts, i + 1)>>>>, i + 2) ELSE Error(i + 1)
      [] Check(ts, i, {"IDENT"}) -> Ok(<<<<Text(ts, i)>>, <<>>>>, i + 1)
      [] OTHER -> Error(i)

(* The body ends at the end of the text or at a statement that no period   *)
(* follows; the code does not look at the tokens that remain after it.     *)
ParseMethod(ts) ==
    LET h == ParseMethodHeader(ts, 1)
        t == ParseTemps(ts, h.i)
        b == ParseRule("body", ts, t.i)
    IN  CASE ~h.ok -> h
          [] ~t.ok -> t
          [] ~b.ok -> b
          [] OTHER -> Ok(Method(h.node[1], h.node[2], t.node, b.node), b.i)
=============================================================================
