------------------------------ MODULE Compiler ------------------------------
(***************************************************************************)
(* The code generator of src/compiler/codegen.c, from the trees of Parser  *)
(* to compiled methods.  A bytecode is a two-byte unit <<opcode, operand>>;*)
(* the program counter counts units, jump operands count bytes, as in the  *)
(* code.  Byte is the number of values of an operand byte (256).           *)
(*                                                                         *)
(* cg is the Codegen structure: code, literals, temp names in scope, their *)
(* peak, and ~had_error.  env is what does not change while a method is    *)
(* compiled (needs_context, instance variables, globals, owner class) and  *)
(* the block depth.  Memory management and its failures are left out.      *)
(***************************************************************************)
EXTENDS Integers, Sequences, SequencesExt, FiniteSetsExt, TLC, Parser

CONSTANTS Byte,        \* values of a byte, 256 in the code
          MaxLiteral   \* the integer literals that occur are within +-MaxLiteral

-----------------------------------------------------------------------------
(* Byte and literal buffers. *)

Emit(cg, op, n) == [cg EXCEPT !.code = Append(@, <<op, n>>)]

EmitWide(cg, op, n) ==
    IF n < Byte THEN Emit(cg, op, n)
                ELSE Emit(Emit(cg, "WIDE", n \div Byte), op, n % Byte)

(* A forward jump is emitted with operand 0 and always narrow; it is       *)
(* patched to land after the code emitted so far.                          *)
PatchJump(cg, at) == [cg EXCEPT !.code[at][2] = (2 * (Len(cg.code) - at)) % Byte]

(* The backward jump of a loop counts from the unit after a narrow jump.   *)
EmitJumpBack(cg, top) == EmitWide(cg, "JUMP_BACK", 2 * (Len(cg.code) + 1 - top))

LitIndex(cg, lit) ==
    IF \E i \in DOMAIN cg.lits : cg.lits[i] = lit
    THEN Min({i \in DOMAIN cg.lits : cg.lits[i] = lit}) - 1 ELSE Len(cg.lits)

(* lb_add shares an equal literal, lb_add_unique never does.  A string or  *)
(* an array is a new object at every occurrence and so is never shared.    *)
EmitLit(cg, op, lit) ==
    LET i == LitIndex(cg, lit)
    IN  EmitWide([cg EXCEPT !.lits = IF i < Len(@) THEN @ ELSE Append(@, lit)], op, i)

EmitUniqueLit(cg, op, lit) ==
    EmitWide([cg EXCEPT !.lits = Append(@, lit)], op, Len(cg.lits))

EmitSend(cg, op, sel) == EmitLit(cg, op, <<"sym", sel>>)

-----------------------------------------------------------------------------
(* Names. *)

AddTemps(cg, names) ==
    [cg EXCEPT !.temps = @ \o names,
               !.peak = Max({@, Len(cg.temps) + Len(names)})]

KeepTemps(cg, n) == [cg EXCEPT !.temps = SubSeq(@, 1, n)]

(* The first entry with the name, outer scopes before inner ones. *)
FindName(names, name) ==
    IF name \in Range(names) THEN Min({i \in DOMAIN names : names[i] = name}) - 1 ELSE -1

CgError(cg) == [cg EXCEPT !.ok = FALSE]

(* Where a name lives: a temp, an instance variable or a global, and the   *)
(* instruction that reaches it there.                                      *)
EmitAccess(env, cg, name, onTemp, onInstVar, onGlobal) ==
    CASE FindName(cg.temps, name) >= 0 -> EmitWide(cg, onTemp, FindName(cg.temps, name))
      [] FindName(env.ivars, name) >= 0 -> EmitWide(cg, onInstVar, FindName(env.ivars, name))
      [] name \in env.globals -> EmitLit(cg, onGlobal, <<"global", name>>)
      [] OTHER -> CgError(cg)

-----------------------------------------------------------------------------
(* Capture analysis.  Walk returns which of "capture" and "nlr" it finds;  *)
(* scope holds <<name, depth>> of the method's and the enclosing blocks'   *)
(* variables.                                                              *)

IfSelectors == {<<"ifTrue:">>, <<"ifFalse:">>}
IfElseSelectors == {<<"ifTrue:", "ifFalse:">>, <<"ifFalse:", "ifTrue:">>}
WhileSelectors == {<<"whileTrue:">>, <<"whileFalse:">>, <<"whileTrue">>, <<"whileFalse">>}
LogicSelectors == {<<"and:">>, <<"or:">>}
TimesSelectors == {<<"timesRepeat:">>}

IsInlinableSend(node) ==
    Kind(node) = "send" /\ node[3] \in IfSelectors \cup IfElseSelectors
                              \cup WhileSelectors \cup LogicSelectors \cup TimesSelectors

InScope(names, depth) == {<<name, depth>> : name \in Range(names)}

RECURSIVE CaptureWalk(_, _, _, _)
WalkAll(nodes, depth, scope, inlined) ==
    UNION {CaptureWalk(nodes[i], depth, scope, inlined) : i \in DOMAIN nodes}

CaptureWalk(node, depth, scope, inlined) ==
    CASE Kind(node) = "var" ->
           {x \in {"capture"} : \E e \in scope : e[1] = node[2] /\ e[2] < depth}
      [] Kind(node) = "assign" ->
           WalkAll(<<Var(node[2]), node[3]>>, depth, scope, FALSE)
      [] Kind(node) = "return" ->
           {x \in {"nlr"} : depth > 0} \cup CaptureWalk(node[2], depth, scope, FALSE)
      [] Kind(node) \in {"send", "super"} ->
           WalkAll(<<node[2]>> \o node[4], depth, scope, IsInlinableSend(node))
      [] Kind(node) = "cascade" ->
           CaptureWalk(node[2], depth, scope, FALSE) \cup
           UNION {WalkAll(node[3][i][2], depth, scope, FALSE) : i \in DOMAIN node[3]}
      [] Kind(node) = "block" ->
           IF inlined THEN WalkAll(node[4], depth, scope, FALSE)
           ELSE WalkAll(node[4], depth + 1,
                        scope \cup InScope(node[2] \o node[3], depth + 1), FALSE)
      [] OTHER -> {}

(* Mutant: a return inside a block does not ask for a context. *)
AnalyzeNames(method) ==
    WalkAll(method[5], 0, InScope(method[3] \o method[4], 0), FALSE) \cap {"capture"}

AnalyzeCaptures(method) ==
    WalkAll(method[5], 0, InScope(method[3] \o method[4], 0), FALSE)

-----------------------------------------------------------------------------
(* Control structures whose blocks are compiled in line. *)

RECURSIVE EmitNode(_, _, _, _)

EmitPop(cg, val) == IF val THEN cg ELSE Emit(cg, "POP", 0)
EmitNil(cg, val) == IF val THEN Emit(cg, "PUSH_NIL", 0) ELSE cg

(* Every statement but the last is evaluated for its effect; code after a  *)
(* return is not generated.                                                *)
RECURSIVE EmitStatements(_, _, _, _)
EmitStatements(env, cg, stmts, val) ==
    LET s == Head(stmts)
    IN  CASE stmts = <<>> -> EmitNil(cg, val)
          [] Kind(s) = "return" -> EmitNode(env, cg, s, TRUE)
          [] Len(stmts) = 1 -> EmitNode(env, cg, s, val)
          [] Kind(s) = "assign" ->
               EmitStatements(env, EmitNode(env, cg, s, FALSE), Tail(stmts), val)
          [] OTHER ->
               EmitStatements(env, Emit(EmitNode(env, cg, s, TRUE), "POP", 0), Tail(stmts), val)

EmitInline(env, cg, block, val) ==
    IF block[4] = <<>> THEN EmitNil(cg, val)
    ELSE KeepTemps(EmitStatements(env, AddTemps(cg, block[3]), block[4], val), Len(cg.temps))

(* if: the arm is skipped unless the condition is the one it is for; as a  *)
(* value, a skipped arm gives nil.                                         *)
EmitIf(env, cg, node, val) ==
    LET test == EmitNode(env, cg, node[2], TRUE)
        skip == Emit(test, IF node[3] = <<"ifTrue:">> THEN "JUMP_FALSE" ELSE "JUMP_TRUE", 0)
        arm == EmitInline(env, skip, node[4][1], val)
        over == Emit(arm, "JUMP", 0)
        none == Emit(PatchJump(over, Len(skip.code)), "PUSH_NIL", 0)
    IN  IF val THEN PatchJump(none, Len(over.code)) ELSE PatchJump(arm, Len(skip.code))

EmitIfElse(env, cg, node, val) ==
    LET true == IF node[3][1] = "ifTrue:" THEN 1 ELSE 2
        skip == Emit(EmitNode(env, cg, node[2], TRUE), "JUMP_FALSE", 0)
        over == Emit(EmitInline(env, skip, node[4][true], val), "JUMP", 0)
        else == EmitInline(env, PatchJump(over, Len(skip.code)), node[4][3 - true], val)
    IN  PatchJump(else, Len(over.code))

EmitWhile(env, cg, node, val) ==
    LET test == EmitInline(env, cg, node[2], TRUE)
        exit == Emit(test, IF node[3][1] \in {"whileTrue:", "whileTrue"}
                           THEN "JUMP_FALSE" ELSE "JUMP_TRUE", 0)
        body == IF node[4] = <<>> THEN exit ELSE EmitInline(env, exit, node[4][1], FALSE)
        loop == EmitJumpBack(body, Len(cg.code))
    IN  EmitNil(PatchJump(loop, Len(exit.code)), val)

EmitLogic(env, cg, node, val) ==
    LET and == node[3] = <<"and:">>
        test == EmitNode(env, cg, node[2], TRUE)
        skip == Emit(test, IF and THEN "JUMP_FALSE" ELSE "JUMP_TRUE", 0)
        over == Emit(EmitInline(env, skip, node[4][1], TRUE), "JUMP", 0)
        short == Emit(PatchJump(over, Len(skip.code)), IF and THEN "PUSH_FALSE" ELSE "PUSH_TRUE", 0)
    IN  EmitPop(PatchJump(short, Len(over.code)), val)

(* Two hidden temps hold the count and the index. *)
EmitTimesRepeat(env, cg, node, val) ==
    LET n == Len(cg.temps)
        c1 == AddTemps(EmitNode(env, cg, node[2], TRUE), <<"__tr_count", "__tr_i">>)
        c2 == Emit(EmitWide(c1, "POP_STORE_TEMP", n), "PUSH_ONE", 0)
        top == EmitWide(c2, "POP_STORE_TEMP", n + 1)
        c3 == EmitWide(EmitWide(top, "PUSH_TEMP", n + 1), "PUSH_TEMP", n)
        exit == Emit(EmitSend(c3, "SEND", <<"<=">>), "JUMP_FALSE", 0)
        body == EmitInline(env, exit, node[4][1], FALSE)
        c4 == Emit(EmitWide(body, "PUSH_TEMP", n + 1), "PUSH_ONE", 0)
        c5 == EmitWide(EmitSend(c4, "SEND", <<"+">>), "POP_STORE_TEMP", n + 1)
        loop == EmitJumpBack(c5, Len(top.code))
    IN  KeepTemps(EmitNil(PatchJump(loop, Len(exit.code)), val), n)

-----------------------------------------------------------------------------
(* Nodes. *)

IntegerValue(text) == CHOOSE n \in -MaxLiteral..MaxLiteral : ToString(n) = text

SmallConstants == (-1 :> "PUSH_MINUS_ONE" @@ 0 :> "PUSH_ZERO" @@ 1 :> "PUSH_ONE" @@ 2 :> "PUSH_TWO")

EmitInteger(cg, n) ==
    CASE n \in DOMAIN SmallConstants -> Emit(cg, SmallConstants[n], 0)
      [] n \in 3..(Byte * Byte - 1) -> EmitWide(cg, "PUSH_SMALLINT", n)
      [] OTHER -> EmitLit(cg, "PUSH_LIT", <<"int", n>>)

(* The element of a literal array; a string becomes a symbol and a nested  *)
(* array nil.                                                              *)
ArrayElement(e) ==
    CASE Kind(e) = "bool" -> e
      [] Kind(e) = "lit" /\ e[2] = "INTEGER" -> <<"int", IntegerValue(e[3])>>
      [] Kind(e) = "lit" /\ e[2] \in {"SYMBOL", "STRING"} -> <<"sym", <<e[3]>>>>
      [] Kind(e) = "lit" /\ e[2] = "CHAR" -> <<"char", e[3]>>
      [] OTHER -> <<"nil">>

EmitLiteral(cg, type, text) ==
    CASE type = "INTEGER" -> EmitInteger(cg, IntegerValue(text))
      [] type = "FLOAT" -> CgError(cg)
      [] type = "STRING" -> EmitUniqueLit(cg, "PUSH_LIT", <<"str", text>>)
      [] type = "SYMBOL" -> EmitLit(cg, "PUSH_LIT", <<"sym", <<text>>>>)
      [] type = "CHAR" -> EmitLit(cg, "PUSH_LIT", <<"char", text>>)

RECURSIVE EmitValues(_, _, _)
EmitValues(env, cg, nodes) ==
    IF nodes = <<>> THEN cg
    ELSE EmitValues(env, EmitNode(env, cg, Head(nodes), TRUE), Tail(nodes))

EmitPlainSend(env, cg, node, val) ==
    LET super == Kind(node) = "super"
        rcv == IF super THEN Emit(cg, "PUSH_RECEIVER", 0) ELSE EmitNode(env, cg, node[2], TRUE)
        args == EmitValues(env, rcv, node[4])
    IN  EmitPop(EmitSend(args, IF super THEN "SEND_SUPER" ELSE "SEND", node[3]), val)

IsBlock(node) == Kind(node) = "block"

EmitMessage(env, cg, node, val) ==
    LET blocks == \A i \in DOMAIN node[4] : IsBlock(node[4][i])
        inline == Kind(node) = "send" /\ blocks
    IN  CASE inline /\ node[3] \in IfSelectors -> EmitIf(env, cg, node, val)
          [] inline /\ node[3] \in IfElseSelectors -> EmitIfElse(env, cg, node, val)
          [] inline /\ node[3] \in WhileSelectors /\ IsBlock(node[2]) ->
               EmitWhile(env, cg, node, val)
          [] inline /\ node[3] \in LogicSelectors -> EmitLogic(env, cg, node, val)
          [] inline /\ node[3] \in TimesSelectors -> EmitTimesRepeat(env, cg, node, val)
          [] OTHER -> EmitPlainSend(env, cg, node, val)

(* The receiver is duplicated for every message but the last. *)
RECURSIVE EmitCascade(_, _, _, _)
EmitCascade(env, cg, msgs, val) ==
    LET last == Len(msgs) = 1
        args == EmitValues(env, IF last THEN cg ELSE Emit(cg, "DUP", 0), msgs[1][2])
        sent == EmitSend(args, "SEND", msgs[1][1])
    IN  IF last THEN EmitPop(sent, val)
                ELSE EmitCascade(env, Emit(sent, "POP", 0), Tail(msgs), val)

(* The body of a block is part of its method's code; the copy instruction  *)
(* skips it.  The descriptor's literal is reserved before the body is      *)
(* compiled: <<"block", start, length, number of arguments, temp offset>>. *)
EmitBlock(env, cg, node) ==
    LET lit == Len(cg.lits) + 1
        copy == EmitUniqueLit(cg, IF env.ctx THEN "CLOSURE_COPY" ELSE "BLOCK_COPY", <<"block">>)
        inner == [env EXCEPT !.depth = @ + 1]
        body == EmitStatements(inner, AddTemps(copy, node[2] \o node[3]), node[4], TRUE)
        done == KeepTemps(Emit(body, "RETURN_TOP", 0), Len(cg.temps))
    IN  [done EXCEPT !.lits[lit] = <<"block", Len(copy.code), Len(done.code) - Len(copy.code),
                                     Len(node[2]), Len(cg.temps)>>]

EmitReturn(env, cg, expr) ==
    CASE env.depth > 0 -> Emit(EmitNode(env, cg, expr, TRUE), "NON_LOCAL_RETURN", 0)
      [] expr = NilNode -> Emit(cg, "RETURN_NIL", 0)
      [] expr = Bool(TRUE) -> Emit(cg, "RETURN_TRUE", 0)
      [] expr = Bool(FALSE) -> Emit(cg, "RETURN_FALSE", 0)
      [] expr = SelfNode -> Emit(cg, "RETURN_SELF", 0)
      [] OTHER -> Emit(EmitNode(env, cg, expr, TRUE), "RETURN_TOP", 0)

(* Nodes without an effect generate nothing when their value is not used.  *)
EmitNode(env, cg, node, val) ==
    CASE ~cg.ok -> cg
      [] Kind(node) = "assign" ->
           LET v == EmitNode(env, cg, node[3], TRUE)
           IN  IF val THEN EmitAccess(env, v, node[2], "STORE_TEMP", "STORE_INSTVAR", "STORE_GLOBAL")
               ELSE EmitAccess(env, v, node[2], "POP_STORE_TEMP", "POP_STORE_INSTVAR", "POP_STORE_GLOBAL")
      [] Kind(node) \in {"send", "super"} -> EmitMessage(env, cg, node, val)
      [] Kind(node) = "cascade" ->
           EmitCascade(env, EmitNode(env, cg, node[2], TRUE), node[3], val)
      [] Kind(node) = "return" -> EmitReturn(env, cg, node[2])
      [] ~val -> cg
      [] Kind(node) = "self" -> Emit(cg, "PUSH_RECEIVER", 0)
      [] Kind(node) = "nil" -> Emit(cg, "PUSH_NIL", 0)
      [] Kind(node) = "bool" -> Emit(cg, IF node[2] THEN "PUSH_TRUE" ELSE "PUSH_FALSE", 0)
      [] Kind(node) = "lit" -> EmitLiteral(cg, node[2], node[3])
      [] Kind(node) = "array" ->
           EmitUniqueLit(cg, "PUSH_LIT", <<"array", [i \in DOMAIN node[2] |-> ArrayElement(node[2][i])]>>)
      [] Kind(node) = "var" ->
           EmitAccess(env, cg, node[2], "PUSH_TEMP", "PUSH_INSTVAR", "PUSH_GLOBAL")
      [] Kind(node) = "block" -> EmitBlock(env, cg, node)

-----------------------------------------------------------------------------
(* Methods.  The counts are stored in bytes of the method header, and the  *)
(* owner class is the last literal.                                        *)

NoMethod == [ok |-> FALSE, nargs |-> 0, ntemps |-> 0, lits |-> <<>>, code |-> <<>>,
             ctx |-> FALSE, prim |-> "none"]

CodegenMethod(method, owner, ivars, globals) ==
    LET ctx == AnalyzeCaptures(method) # {}
        env == [ctx |-> ctx, ivars |-> ivars, globals |-> globals, depth |-> 0]
        start == AddTemps([code |-> <<>>, lits |-> <<>>, temps |-> <<>>, peak |-> 0, ok |-> TRUE],
                          method[3] \o method[4])
        body == method[5]
        explicit == body # <<>> /\ Kind(Last(body)) = "return"
        cg == EmitStatements(env, start, body, ~explicit)
        done == CASE body = <<>> -> Emit(start, "RETURN_SELF", 0)
                  [] explicit -> cg
                  [] OTHER -> Emit(Emit(cg, "POP", 0), "RETURN_SELF", 0)
        lits == Append(done.lits, <<"class", owner>>)
    IN  IF ~done.ok THEN NoMethod
        ELSE [ok |-> TRUE, nargs |-> Len(method[3]), ntemps |-> done.peak % Byte,
              lits |-> SubSeq(lits, 1, Len(lits) % Byte), code |-> done.code,
              ctx |-> ctx, prim |-> "none"]
=============================================================================
