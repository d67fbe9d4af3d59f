------------------------------ MODULE Language ------------------------------
(***************************************************************************)
(* From source text to result: sta_compile_method, sta_compile_expression  *)
(* and sta_eval (compiler.c, eval.c) put the scanner, the parser and the   *)
(* code generator together, and the interpreter runs the method.  A        *)
(* program is run in one of the ways the code has: "method" by             *)
(* sta_interpret for a receiver, "actor" by sta_interpret_actor under the  *)
(* scheduler, "eval" as a doIt expression given to sta_eval; "message" is  *)
(* an installed method that the scheduler runs for a message.              *)
(*                                                                         *)
(* The programs are given as trees, whose text Printer writes and whose    *)
(* meaning Evaluator defines.                                              *)
(***************************************************************************)
EXTENDS Interpreter, Evaluator, Printer

CONSTANTS Programs,         \* records [mode, gap, tree]; an eval tree is named doIt
          Receiver,         \* of the program's method
          InitialIvars,     \* the receiver's instance variables
          InitialGlobals,   \* the SystemDictionary
          InitialFuture,    \* what Future>>wait finds
          Settlement        \* how a pending future is settled

VARIABLES prog,   \* the program
          ast     \* what the parser made of its text, until code is generated

vars == <<methods, vm, prog, ast>>

-----------------------------------------------------------------------------
(* The position of the last period outside strings and blocks; 0 if none.  *)
(* A doubled quote leaves a string and enters it again.                    *)
Before(src, i, c) == {j \in 1 .. i - 1 : src[j] = c}
InString(src, i) == Cardinality(Before(src, i, "'")) % 2 = 1
Outside(src, i, c) == Cardinality({j \in Before(src, i, c) : ~InString(src, j)})

LastDot(src) ==
    Max({0} \cup {i \in Before(src, Len(src) + 1, ".") :
                     ~InString(src, i) /\ Outside(src, i, "[") = Outside(src, i, "]")})

CutLast(text) ==
    LET n == Len(Last(text)) - 1
    IN  IF n = 0 THEN Front(text) ELSE Append(Front(text), SubSeq(Last(text), 1, n))

(* The expression as a method doIt that returns its last statement.  The   *)
(* buffer is a character short for a text whose last period no blank       *)
(* follows: snprintf then cuts the last character off.                     *)
WrapExpression(src) ==
    LET dot == LastDot(src)
        rest == Min({i \in dot + 1 .. Len(src) + 1 : CharAt(src, i) # " "})
        text == <<"doIt", " ">> \o SubSeq(src, 1, dot) \o <<" ", "^">> \o SubSeq(src, rest, Len(src))
    IN  CASE dot = 0 -> <<"doIt", " ", "^">> \o src
          [] rest > dot + 1 -> text
          [] OTHER -> CutLast(text)

-----------------------------------------------------------------------------
NoTree == Error(0)

(* The text of a program; that of an expression has no ^ before its last   *)
(* statement until it is wrapped.                                          *)
Unreturned(body) ==
    IF Kind(Last(body)) = "return" THEN Append(Front(body), Last(body)[2]) ELSE body

FullText(p) ==
    IF p.mode = "eval" THEN WrapExpression(BodySource(p.gap, p.tree[4], Unreturned(p.tree[5])))
                       ELSE MethodSource(p.gap, p.tree)

Init ==
    /\ prog \in Programs
    /\ ast = NoTree
    /\ methods = KernelMethods @@ CompiledMethods
    /\ vm = Idle("source", InitialIvars, InitialGlobals, InitialFuture)

(* sta_compile_method: the text is parsed, *)
Parse ==
    /\ vm.status = "source"
    /\ prog.mode # "message"
    /\ \E tokens \in {Scan(FullText(prog))} : ast' = ParseMethod(tokens)
    /\ vm' = Halt(vm, IF ast'.ok THEN "parsed" ELSE "rejected")
    /\ UNCHANGED <<methods, prog>>

(* and the tree made into a method and freed.  An expression is compiled   *)
(* for no class and sees no instance variables.                            *)
Generate ==
    /\ vm.status = "parsed"
    /\ methods' = methods @@ (MainMethod :>
          IF prog.mode = "eval" THEN CodegenMethod(ast.node, "none", <<>>, GlobalNames)
          ELSE CodegenMethod(ast.node, ClassOf(Receiver), UserIvars, GlobalNames))
    /\ ast' = NoTree
    /\ vm' = Halt(vm, IF methods'[MainMethod].ok THEN "compiled" ELSE "rejected")
    /\ UNCHANGED prog

(* A message is run by the method that actor_method_lookup finds for it.   *)
Dispatch ==
    /\ vm.status = "source"
    /\ prog.mode = "message"
    /\ methods' = methods @@ (MainMethod :>
          methods[MethodLookup(methods, ClassOf(Receiver), prog.tree[2])])
    /\ vm' = Halt(vm, "compiled")
    /\ UNCHANGED <<prog, ast>>

Start ==
    /\ vm.status = "compiled"
    /\ vm' = CASE prog.mode \in {"actor", "message"} -> StartActor(vm, MainMethod, Receiver)
               [] prog.mode = "method" -> StartRoot(vm, MainMethod, Receiver)
               [] prog.mode = "eval" -> StartRoot(vm, MainMethod, Nil)
    /\ UNCHANGED <<methods, prog, ast>>

Execute == Step /\ UNCHANGED <<methods, prog, ast>>

Done == Finished /\ UNCHANGED vars

Next == Parse \/ Generate \/ Dispatch \/ Start \/ Execute \/ Done

(* The interpreter runs on; an actor that was preempted is put back into   *)
(* the run queue by its worker and run again.                              *)
Spec == Init /\ [][Next]_vars /\ WF_vars(Start \/ Execute)

-----------------------------------------------------------------------------
(* The text of every program is scanned and parsed (scanner.c, parser.c)   *)
(* into the tree it was written from, to the last token: precedence,       *)
(* cascades, literals, blocks and comments lose nothing, nor does the doIt *)
(* wrapping of sta_compile_expression where a blank follows the last       *)
(* period of the expression.                                               *)
ReadsBack == ast # NoTree => ast = Ok(prog.tree, Len(Scan(FullText(prog))) + 1)

Show(v) == IF v[1] = "clo" THEN <<"clo">> ELSE v
ShowAll(f) == [x \in DOMAIN f |-> Show(f[x])]

(* How the run ended. *)
Outcome ==
    CASE Corrupt -> <<"corrupt">>
      [] vm.status = "done" -> <<"done", Show(vm.result), ShowAll(vm.ivars), ShowAll(vm.globals)>>
      [] vm.status = "exception" -> <<"exception", ShowAll(vm.ivars), ShowAll(vm.globals)>>
      [] OTHER -> <<vm.status>>

(* How the program ends by the reference semantics. *)
Meaning ==
    LET class == ClassOf(Receiver)
        future == IF InitialFuture[1] = "pending" THEN Settlement ELSE InitialFuture
        st == NewStore(InitialIvars, InitialGlobals, future)
        call == CASE prog.mode = "message" -> DeliverNode(class, Receiver, prog.tree[2], <<>>)
                  [] prog.mode = "eval" -> CallNode(<<"none", prog.tree>>, Nil, <<>>)
                  [] OTHER -> CallNode(<<class, prog.tree>>, Receiver, <<>>)
    IN  Evaluate(call, NoEnv, st)

(* An exception nobody handles ends an actor, and the process of anyone    *)
(* else.                                                                   *)
MeantOutcome(r) ==
    CASE r.k = "value" -> <<"done", Show(r.v), ShowAll(r.st.ivars), ShowAll(r.st.globals)>>
      [] prog.mode \in {"actor", "message"} ->
           <<"exception", ShowAll(r.st.ivars), ShowAll(r.st.globals)>>
      [] OTHER -> <<"abort">>

(* The compiled method does what the source text says: when the            *)
(* interpreter stops, the result, the instance variables and the globals   *)
(* are those of the reference semantics, whatever was inlined, captured in *)
(* a context, tail called, preempted and resumed, or unwound on the way;   *)
(* and no instruction is fetched from outside the code or finds too few    *)
(* values on the stack (codegen.c, interpret_loop_ex).                     *)
MeansWhatItSays ==
    Finished \/ Corrupt => \E r \in {Meaning} : Outcome = MeantOutcome(r)

(* Every entry of a handler chain lives in a C frame that is still there   *)
(* (prim_on_do, prim_ensure, sta_interpret_actor): a signal never jumps    *)
(* into a call that has ended, and entries are found innermost first.      *)
HandlersAlive ==
    \A who \in {"root", "actor"} :
       LET c == vm.chain[who]
       IN  /\ \A k \in DOMAIN c : c[k].depth < Len(vm.loops) \/ c[k].depth = 0
           /\ \A k \in DOMAIN c : k > 1 => c[k - 1].depth <= c[k].depth
           /\ vm.status \in {"done", "exception", "preempted", "waiting"} => c = <<>>

(* Every program that is compiled ends: a preempted actor takes up the     *)
(* send or the loop where it left it (interpret_loop_ex,                   *)
(* sta_interpret_resume).                                                  *)
EveryProgramEnds == vm.status = "compiled" ~> Finished

(* With a future that another actor settles while the program runs. *)
SettleFuture == Settle(Settlement) /\ UNCHANGED <<methods, prog, ast>>
SpecPending == Init /\ [][Next \/ SettleFuture]_vars
=============================================================================
