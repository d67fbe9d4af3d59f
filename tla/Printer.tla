------------------------------- MODULE Printer -------------------------------
(***************************************************************************)
(* The text of a syntax tree, as a person would write it: the reference    *)
(* that Scanner and Parser are checked against.  Parentheses stand only    *)
(* where Smalltalk's precedence needs them.  gap is what is written        *)
(* between two tokens that would otherwise run together; a minus before a  *)
(* digit counts as such if gap.minus says so.                              *)
(***************************************************************************)
EXTENDS Integers, Sequences, SequencesExt, Parser, Scanner

Spell(text) == [k \in 1 .. Len(text) |-> SubSeq(text, k, k)]

(* Two texts side by side. *)
RunTogether(gap, a, b) ==
    \/ IsAlphaNum(a) /\ (IsAlphaNum(b) \/ b = ":")
    \/ a \in BinaryChars /\ b \in BinaryChars
    \/ a = "." /\ b \in Digits
    \/ a = "-" /\ b \in Digits /\ gap.minus
    \/ a = "|" /\ b = "|"
    \/ a = "'" /\ b = "'"

Join(gap, a, b) ==
    CASE a = <<>> -> b
      [] b = <<>> -> a
      [] gap.always \/ RunTogether(gap, Last(a), Head(b)) -> a \o gap.text \o b
      [] OTHER -> a \o b

JoinAll(gap, texts) == FoldLeft(LAMBDA a, b : Join(gap, a, b), <<>>, texts)

Quoted(text) ==
    <<"'">> \o FoldLeft(LAMBDA a, c : a \o (IF c = "'" THEN <<c, c>> ELSE <<c>>), <<>>, Spell(text))
            \o <<"'">>

(* Symbols are written with quotes unless their text scans as one. *)
LiteralSource(type, text) ==
    CASE type = "STRING" -> Quoted(text)
      [] type = "SYMBOL" -> IF Scan(<<"#">> \o Spell(text)) = <<<<"SYMBOL", "#" \o text>>>>
                            THEN <<"#">> \o Spell(text) ELSE <<"#">> \o Quoted(text)
      [] type = "CHAR" -> <<"$">> \o Spell(text)
      [] OTHER -> Spell(text)

IsBinary(sel) == SubSeq(sel[1], 1, 1) \in BinaryChars \cup {"|"}

(* 4 primary, 3 unary, 2 binary, 1 keyword, 0 cascade or assignment. *)
Precedence(node) ==
    CASE Kind(node) \in {"cascade", "assign"} -> 0
      [] Kind(node) \notin {"send", "super"} -> 4
      [] node[4] = <<>> -> 3
      [] IsBinary(node[3]) -> 2
      [] OTHER -> 1

RECURSIVE Source(_, _)

Operand(gap, node, least) ==
    IF Precedence(node) >= least THEN Source(gap, node)
    ELSE JoinAll(gap, <<<<"(">>, Source(gap, node), <<")">>>>)

MessageSource(gap, sel, args) ==
    CASE args = <<>> -> Spell(sel[1])
      [] OTHER -> JoinAll(gap, [k \in 1 .. 2 * Len(args) |->
                      IF k % 2 = 1 THEN Spell(sel[(k + 1) \div 2])
                      ELSE Operand(gap, args[k \div 2], IF IsBinary(sel) THEN 3 ELSE 2)])

ReceiverSource(gap, rcv, args) == Operand(gap, rcv, IF args = <<>> THEN 3 ELSE 2)

Declared(gap, names) ==
    IF names = <<>> THEN <<>>
    ELSE JoinAll(gap, <<<<"|">>>> \o [k \in DOMAIN names |-> Spell(names[k])] \o <<<<"|">>>>)

StatementsSource(gap, stmts) ==
    JoinAll(gap, [k \in 1 .. 2 * Len(stmts) - 1 |->
                    IF k % 2 = 0 THEN <<".">> ELSE Source(gap, stmts[(k + 1) \div 2])])

(* A cascade is written with its first message after the receiver. *)
CascadeSource(gap, node) ==
    JoinAll(gap, <<ReceiverSource(gap, node[2], node[3][1][2])>> \o
        [k \in 1 .. 2 * Len(node[3]) - 1 |->
            IF k % 2 = 0 THEN <<";">>
            ELSE MessageSource(gap, node[3][(k + 1) \div 2][1], node[3][(k + 1) \div 2][2])])

BlockSource(gap, args, temps, body) ==
    JoinAll(gap, <<<<"[">>>> \o [k \in DOMAIN args |-> <<":">> \o Spell(args[k])]
                 \o (IF args = <<>> THEN <<>> ELSE <<<<"|">>>>)
                 \o <<Declared(gap, temps), StatementsSource(gap, body), <<"]">>>>)

Source(gap, node) ==
    CASE Kind(node) \in {"self", "nil"} -> Spell(Kind(node))
      [] Kind(node) = "bool" -> Spell(IF node[2] THEN "true" ELSE "false")
      [] Kind(node) = "var" -> Spell(node[2])
      [] Kind(node) = "lit" -> LiteralSource(node[2], node[3])
      [] Kind(node) = "array" ->
           JoinAll(gap, <<<<"#", "(">>>> \o [k \in DOMAIN node[2] |-> Source(gap, node[2][k])]
                        \o <<<<")">>>>)
      [] Kind(node) = "assign" ->
           JoinAll(gap, <<Spell(node[2]), <<":", "=">>, Source(gap, node[3])>>)
      [] Kind(node) \in {"send", "super"} ->
           JoinAll(gap, <<ReceiverSource(gap, node[2], node[4]),
                          MessageSource(gap, node[3], node[4])>>)
      [] Kind(node) = "cascade" -> CascadeSource(gap, node)
      [] Kind(node) = "return" -> JoinAll(gap, <<<<"^">>, Source(gap, node[2])>>)
      [] Kind(node) = "block" -> BlockSource(gap, node[2], node[3], node[4])

BodySource(gap, temps, body) == Join(gap, Declared(gap, temps), StatementsSource(gap, body))

HeaderSource(gap, sel, args) ==
    MessageSource(gap, sel, [k \in DOMAIN args |-> Var(args[k])])

MethodSource(gap, m) == Join(gap, HeaderSource(gap, m[2], m[3]), BodySource(gap, m[4], m[5]))
=============================================================================
