------------------------------ MODULE Evaluator ------------------------------
(***************************************************************************)
(* What a program means: an evaluator of syntax trees with the semantics   *)
(* of Smalltalk, the reference that the compiled code is checked against.  *)
(* It knows nothing of bytecodes, frames, inlined blocks, shared contexts, *)
(* tail calls, reductions or handler chains.  Every activation of a method *)
(* or a block has variables of its own, a conditional or a loop is a       *)
(* message to a Boolean or a block, and ^ leaves the method activation     *)
(* that the block was written in.                                          *)
(*                                                                         *)
(* st is the store: mem (the variables), instance variables, globals, the  *)
(* activations that can still be returned from, and the number of the next *)
(* one.  A result says how an evaluation ended: with a value, with a       *)
(* return from activation to, or with an exception.                        *)
(***************************************************************************)
EXTENDS Kernel

Ends(k, st, v, to) == [k |-> k, st |-> st, v |-> v, to |-> to]
Value(st, v) == Ends("value", st, v, 0)
Raise(st, class) == Ends("exception", st, Obj(class), 0)

(* New variables, holding the values and then nil. *)
Bind(env, st, names, vals) ==
    LET n == Len(st.mem)
        new == [i \in DOMAIN names |-> IF i <= Len(vals) THEN vals[i] ELSE Nil]
    IN  [env |-> [env EXCEPT !.vars = [x \in Range(names) |->
                     n + Max({i \in DOMAIN names : names[i] = x})] @@ @],
         st |-> [st EXCEPT !.mem = @ \o new]]

UserMethod(m) == CHOOSE u \in UserMethods : u[1] = m[1] /\ u[2][2] = m[2]
IsUserMethod(m) == \E u \in UserMethods : u[1] = m[1] /\ u[2][2] = m[2]

RECURSIVE Lookup(_, _)
Lookup(class, sel) ==
    CASE class = "none" -> <<>>
      [] IsUserMethod(<<class, sel>>) \/ <<class, sel>> \in DOMAIN KernelMethods -> <<class, sel>>
      [] OTHER -> Lookup(Superclass[class], sel)

RECURSIVE Evaluate(_, _, _)

(* Calls are nodes that no program has: a message to rcv looked up from a  *)
(* class, a block applied to arguments, a method <<class, tree>> run.      *)
DeliverNode(class, rcv, sel, args) == <<"deliver", class, rcv, sel, args>>
ApplyNode(clo, args) == <<"apply", clo, args>>
CallNode(u, rcv, args) == <<"call", u, rcv, args>>

NoEnv == [self |-> Nil, class |-> "none", act |-> 0, vars |-> [x \in {} |-> 0]]

Deliver(class, rcv, sel, args, st) == Evaluate(DeliverNode(class, rcv, sel, args), NoEnv, st)
CallBlock(clo, args, st) == Evaluate(ApplyNode(clo, args), clo[3], st)

(* Statements; the value of the last one, or v if there is none. *)
RECURSIVE EvalBody(_, _, _, _)
EvalBody(stmts, env, st, v) ==
    IF stmts = <<>> THEN Value(st, v)
    ELSE LET r == Evaluate(Head(stmts), env, st)
         IN  IF r.k = "value" THEN EvalBody(Tail(stmts), env, r.st, r.v) ELSE r

RECURSIVE EvalAll(_, _, _, _)
EvalAll(nodes, env, st, vals) ==
    IF nodes = <<>> THEN Value(st, vals)
    ELSE LET r == Evaluate(Head(nodes), env, st)
         IN  IF r.k = "value" THEN EvalAll(Tail(nodes), env, r.st, Append(vals, r.v)) ELSE r

Apply(node, args, env, st) ==
    LET b == Bind(env, st, node[2] \o node[3], args)
    IN  EvalBody(node[4], b.env, b.st, Nil)

CallMethodTree(u, rcv, args, st) ==
    LET id == st.next
        env == [NoEnv EXCEPT !.self = rcv, !.class = u[1], !.act = id]
        b == Bind(env, [st EXCEPT !.next = @ + 1, !.live = @ \cup {id}], u[2][3] \o u[2][4], args)
        r == EvalBody(u[2][5], b.env, b.st, Nil)
        st2 == [r.st EXCEPT !.live = @ \ {id}]
    IN  CASE r.k = "value" -> Value(st2, rcv)
          [] r.k = "return" /\ r.to = id -> Value(st2, r.v)
          [] OTHER -> [r EXCEPT !.st = st2]

RECURSIVE While(_, _, _, _)
While(test, body, until, st) ==
    LET t == CallBlock(test, <<>>, st)
        b == IF body = <<>> THEN t ELSE CallBlock(body[1], <<>>, t.st)
    IN  CASE t.k # "value" -> t
          [] t.v = until -> Value(t.st, Nil)
          [] b.k # "value" -> b
          [] OTHER -> While(test, body, until, b.st)

RECURSIVE Times(_, _, _)
Times(n, body, st) ==
    LET r == CallBlock(body, <<>>, st)
    IN  CASE n <= 0 -> Value(st, Nil)
          [] r.k # "value" -> r
          [] OTHER -> Times(n - 1, body, r.st)

(* A number outside the SmallIntegers cannot be the answer of a primitive; *)
(* a primitive that fails answers its receiver.                            *)
Exact(prim, a, b) ==
    LET n == CASE prim = "+" -> a + b [] prim = "-" -> a - b [] prim = "*" -> a * b [] OTHER -> 0
    IN  IF Wrap(n, SmallBits) = n THEN Arithmetic(prim, a, b) ELSE Fail

Primitive(prim, rcv, args) ==
    LET v == IF prim \in ArithmeticPrims /\ args[1][1] = "int"
             THEN Exact(prim, rcv[2], args[1][2]) ELSE SimplePrimitive(prim, rcv, args)
    IN  IF v = Fail THEN rcv ELSE v

OnDo(body, class, handler, st) ==
    LET r == CallBlock(body, <<>>, st)
    IN  IF r.k = "exception" /\ IsKindOf(r.v, class) THEN CallBlock(handler, <<r.v>>, r.st) ELSE r

Ensure(body, final, st) ==
    LET r == CallBlock(body, <<>>, st)
        e == CallBlock(final, <<>>, r.st)
    IN  IF e.k = "value" THEN [r EXCEPT !.st = e.st] ELSE e

Wait(fut, st) ==
    CASE st.future[1] = "resolved" -> Value([st EXCEPT !.future = <<"consumed">>], st.future[2])
      [] st.future[1] = "failed" -> Raise([st EXCEPT !.future = <<"consumed">>], "FutureFailure")
      [] OTHER -> Value(st, fut)

Conditional == IfSelectors \cup IfElseSelectors \cup LogicSelectors

(* The argument that a Boolean evaluates; 0 if none. *)
Chosen(b, sel) ==
    LET when == [i \in DOMAIN sel |-> sel[i] \in {"ifTrue:", "and:"}]
    IN  Max({0} \cup {i \in DOMAIN sel : when[i] = b})

DeliverMessage(class, rcv, sel, args, st) ==
    LET m == Lookup(class, sel)
        prim == KernelMethods[m].prim
        chosen == Chosen(rcv[2], sel)
    IN  CASE rcv[1] = "bool" /\ sel \in Conditional ->
               (CASE chosen # 0 -> Deliver(ClassOf(args[chosen]), args[chosen], <<"value">>, <<>>, st)
                  [] sel \in LogicSelectors -> Value(st, rcv)
                  [] OTHER -> Value(st, Nil))
          [] rcv[1] = "clo" /\ sel \in WhileSelectors ->
               While(rcv, args, Truth(sel[1] \in {"whileFalse:", "whileFalse"}), st)
          [] rcv[1] = "int" /\ sel \in TimesSelectors -> Times(rcv[2], args[1], st)
          [] m = <<>> -> Raise(st, "MessageNotUnderstood")
          [] IsUserMethod(m) -> Evaluate(CallNode(UserMethod(m), rcv, args), NoEnv, st)
          [] prim = "value" -> CallBlock(rcv, args, st)
          [] prim = "onDo" -> OnDo(rcv, args[1], args[2], st)
          [] prim = "ensure" -> Ensure(rcv, args[1], st)
          [] prim = "signal" -> Ends("exception", st, rcv, 0)
          [] prim = "wait" -> Wait(rcv, st)
          [] sel = <<"new">> ->
               LET obj == Obj(rcv[2]) IN Deliver(ClassOf(obj), obj, <<"initialize">>, <<>>, st)
          [] sel = <<"initialize">> -> Value(st, rcv)
          [] OTHER -> Value(st, Primitive(prim, rcv, args))

RECURSIVE DeliverEach(_, _, _, _)
DeliverEach(rcv, msgs, env, st) ==
    LET a == EvalAll(msgs[1][2], env, st, <<>>)
        r == Deliver(ClassOf(rcv), rcv, msgs[1][1], a.v, a.st)
    IN  CASE a.k # "value" -> a
          [] r.k # "value" \/ Len(msgs) = 1 -> r
          [] OTHER -> DeliverEach(rcv, Tail(msgs), env, r.st)

Fetch(name, env, st) ==
    CASE name \in DOMAIN env.vars -> st.mem[env.vars[name]]
      [] name \in Range(UserIvars) -> st.ivars[FindName(UserIvars, name) + 1]
      [] OTHER -> st.globals[name]

Assigned(name, env, st, v) ==
    CASE name \in DOMAIN env.vars -> [st EXCEPT !.mem[env.vars[name]] = v]
      [] name \in Range(UserIvars) -> [st EXCEPT !.ivars[FindName(UserIvars, name) + 1] = v]
      [] OTHER -> [st EXCEPT !.globals[name] = v]

LiteralValue(type, text) ==
    CASE type = "INTEGER" -> SmallInt(IntegerValue(text))
      [] type = "STRING" -> <<"str", text>>
      [] type = "SYMBOL" -> <<"sym", <<text>>>>
      [] type = "CHAR" -> <<"char", text>>

Constant(e) == IF Kind(e) = "lit" THEN LiteralValue(e[2], e[3]) ELSE e

Evaluate(node, env, st) ==
    CASE Kind(node) = "self" -> Value(st, env.self)
      [] Kind(node) \in {"nil", "bool"} -> Value(st, node)
      [] Kind(node) = "lit" -> Value(st, LiteralValue(node[2], node[3]))
      [] Kind(node) = "array" ->
           Value(st, <<"array", [i \in DOMAIN node[2] |-> Constant(node[2][i])]>>)
      [] Kind(node) = "var" -> Value(st, Fetch(node[2], env, st))
      [] Kind(node) = "block" -> Value(st, <<"clo", node, env>>)
      [] Kind(node) = "assign" ->
           LET r == Evaluate(node[3], env, st)
           IN  IF r.k = "value" THEN [r EXCEPT !.st = Assigned(node[2], env, r.st, r.v)] ELSE r
      [] Kind(node) = "return" ->
           LET r == Evaluate(node[2], env, st)
           IN  CASE r.k # "value" -> r
                 [] env.act \in r.st.live -> Ends("return", r.st, r.v, env.act)
                 [] OTHER -> Raise(r.st, "BlockCannotReturn")
      [] Kind(node) = "super" ->
           LET a == EvalAll(node[4], env, st, <<>>)
           IN  IF a.k = "value"
               THEN Deliver(Superclass[env.class], env.self, node[3], a.v, a.st) ELSE a
      [] Kind(node) = "send" ->
           LET r == EvalAll(<<node[2]>> \o node[4], env, st, <<>>)
           IN  IF r.k = "value"
               THEN Deliver(ClassOf(r.v[1]), r.v[1], node[3], Tail(r.v), r.st) ELSE r
      [] Kind(node) = "cascade" ->
           LET r == Evaluate(node[2], env, st)
           IN  IF r.k = "value" THEN DeliverEach(r.v, node[3], env, r.st) ELSE r
      [] Kind(node) = "deliver" -> DeliverMessage(node[2], node[3], node[4], node[5], st)
      [] Kind(node) = "apply" -> Apply(node[2][2], node[3], env, st)
      [] Kind(node) = "call" -> CallMethodTree(node[2], node[3], node[4], st)

NewStore(ivars, globals, future) ==
    [mem |-> <<>>, ivars |-> ivars, globals |-> globals, future |-> future, live |-> {}, next |-> 1]
=============================================================================
