----------------------------- MODULE MCLanguage -----------------------------
(* The programs.  R is the object they work on: self in a method, a global *)
(* in an expression given to sta_eval.                                     *)
EXTENDS Language

I(n) == Literal("INTEGER", ToString(n))
Str(text) == Literal("STRING", text)
Sym(text) == Literal("SYMBOL", text)
V(name) == Var(name)
Un(r, s) == Send(r, <<s>>, <<>>)
Bin(r, op, a) == Send(r, <<op>>, <<a>>)
Key(r, k, a) == Send(r, <<k>>, <<a>>)
Key2(r, k, a, l, b) == Send(r, <<k, l>>, <<a, b>>)
Do(body) == Block(<<>>, <<>>, body)
Fn(arg, body) == Block(<<arg>>, <<>>, body)
Note(r, n) == Key(r, "note:", I(n))
OnDoSend(body, class, handler) == Key2(Do(body), "on:", V(class), "do:", Fn("e", handler))
Raised(class) == Un(Un(V(class), "new"), "signal")

MCUserSuper == [Base |-> "Object", Sub |-> "Base"]
MCUserIvars == <<"v", "w">>
MCGlobals == [Obj |-> Obj("Sub"), Fut |-> Obj("Future"), G |-> Nil] @@
             [c \in {"Object", "Exception", "Error", "ZeroDivide", "MessageNotUnderstood",
                     "BlockCannotReturn", "FutureFailure", "Sub"} |-> <<"class", c>>]
MCGlobalNames == DOMAIN MCGlobals

(* note: k appends a digit to a log kept in v. *)
MCUserMethods ==
  { <<"Base", Method(<<"note:">>, <<"k">>, <<>>,
        <<Assign("v", Bin(Bin(V("v"), "*", I(4)), "+", V("k")))>>)>>,
    <<"Base", Method(<<"k">>, <<>>, <<>>, <<Return(I(1))>>)>>,
    <<"Sub", Method(<<"k">>, <<>>, <<>>, <<Return(Bin(SuperSend(<<"k">>, <<>>), "+", I(10)))>>)>>,
    <<"Base", Method(<<"call:">>, <<"b">>, <<>>, <<Return(Un(V("b"), "value"))>>)>>,
    <<"Base", Method(<<"pass:">>, <<"b">>, <<>>, <<Un(V("b"), "value"), Return(I(2))>>)>>,
    <<"Base", Method(<<"fwd:">>, <<"b">>, <<>>, <<Return(Key(SelfNode, "call:", V("b")))>>)>>,
    <<"Base", Method(<<"mk">>, <<>>, <<>>, <<Return(Do(<<Return(I(1))>>))>>)>>,
    <<"Base", Method(<<"adder:">>, <<"n">>, <<>>,
        <<Return(Fn("x", <<Bin(V("x"), "+", V("n"))>>))>>)>>,
    <<"Base", Method(<<"down:">>, <<"n">>, <<>>,
        <<Key(Bin(V("n"), "=", I(0)), "ifTrue:", Do(<<Return(I(0))>>)),
          Return(Key(SelfNode, "down:", Bin(V("n"), "-", I(1))))>>)>>,
    <<"Base", Method(<<"fact:">>, <<"n">>, <<>>,
        <<Return(Key2(Bin(V("n"), "<=", I(1)), "ifTrue:", Do(<<I(1)>>), "ifFalse:",
             Do(<<Bin(V("n"), "*", Key(SelfNode, "fact:", Bin(V("n"), "-", I(1))))>>)))>>)>>,
    <<"Base", Method(<<"leave:">>, <<"n">>, <<>>,
        <<Return(Key(SelfNode, "call:", Do(<<Return(V("n"))>>)))>>)>> }

-----------------------------------------------------------------------------
(* <<temps, statements>> *)

Expressions(R) == {
  <<<<>>, <<Return(Bin(Bin(I(3), "+", I(4)), "*", I(2)))>>>>,
  <<<<>>, <<Return(Bin(I(3), "+", Bin(I(4), "*", Un(I(-2), "yourself"))))>>>>,
  <<<<>>, <<Return(Bin(Bin(I(-7), "//", I(2)), "-", Bin(I(-7), "\\\\", I(4))))>>>>,
  <<<<>>, <<Return(Key(R, "adder:", Bin(Un(R, "k"), "-", I(1))))>>>>,
  <<<<>>, <<Return(Cascade(R, <<<<<<"note:">>, <<I(1)>>>>, <<<<"yourself">>, <<>>>>,
                               <<<<"==">>, <<R>>>>>>))>>>>,
  <<<<>>, <<Cascade(Un(R, "yourself"), <<<<<<"note:">>, <<Bin(I(1), "+", I(1))>>>>, <<<<"note:">>, <<I(3)>>>>>>),
            Return(Un(R, "k"))>>>>,
  <<<<"a", "b">>, <<Assign("a", Assign("b", I(300))), Return(Bin(V("a"), "+", V("b")))>>>>,
  <<<<>>, <<Assign("G", I(4)), Return(Bin(V("G"), "*", V("G")))>>>>,
  <<<<>>, <<Return(LitArray(<<I(1), Literal("CHAR", "a"), Sym("foo"), Sym("+"), NilNode, Bool(TRUE)>>))>>>>,
  <<<<"s">>, <<Assign("s", Str("it's")), Return(V("s"))>>>>,
  <<<<"s">>, <<Assign("s", Sym("at:put:")), Return(Bin(V("s"), "==", Sym("at:put:")))>>>>,
  <<<<>>, <<Return(Bin(Un(R, "class"), "==", V("Sub")))>>>>,
  <<<<>>, <<Return(Bin(I(7), "/", I(2)))>>>>,
  <<<<>>, <<Return(Bin(Un(V("Fut"), "wait"), "+", I(1)))>>>>,
  <<<<>>, <<Un(V("Fut"), "wait"), Return(Un(V("Fut"), "wait"))>>>> }

Control(R) == {
  <<<<"a">>, <<Assign("a", I(2)),
      Key2(Bin(V("a"), ">", I(1)), "ifTrue:", Do(<<Note(R, 1)>>), "ifFalse:", Do(<<Note(R, 2)>>)),
      Return(Key(Bin(V("a"), "=", I(2)), "ifTrue:", Do(<<I(5)>>)))>>>>,
  <<<<>>, <<Key(Bool(TRUE), "ifFalse:", Do(<<Note(R, 1)>>)),
            Return(Key(Bool(FALSE), "ifTrue:", Do(<<I(1)>>)))>>>>,
  <<<<"i">>, <<Assign("i", I(0)),
      Key(Do(<<Bin(V("i"), "<", I(3))>>), "whileTrue:",
          Do(<<Key(R, "note:", V("i")), Assign("i", Bin(V("i"), "+", I(1)))>>)),
      Return(V("i"))>>>>,
  <<<<"i">>, <<Assign("i", I(0)),
      Un(Do(<<Assign("i", Bin(V("i"), "+", I(1))), Bin(V("i"), ">=", I(2))>>), "whileFalse"),
      Return(V("i"))>>>>,
  <<<<>>, <<Key(I(2), "timesRepeat:", Do(<<Key(I(2), "timesRepeat:", Do(<<Note(R, 1)>>)), Note(R, 2)>>)),
            Return(Un(R, "k"))>>>>,
  <<<<>>, <<Return(Key(Key(Bool(TRUE), "and:", Do(<<Note(R, 1), Bool(FALSE)>>)), "or:",
                       Do(<<Note(R, 2), Bool(TRUE)>>)))>>>>,
  <<<<"b">>, <<Assign("b", Do(<<Note(R, 1), I(5)>>)), Return(Key(Bool(TRUE), "ifTrue:", V("b")))>>>>,
  <<<<>>, <<Return(Bin(I(3), "+", Key2(Bin(Un(R, "k"), ">", I(0)), "ifTrue:", Do(<<Return(I(4))>>),
                                       "ifFalse:", Do(<<I(5)>>))))>>>>,
  <<<<>>, <<Return(Key(R, "down:", I(3)))>>>>,
  <<<<>>, <<Return(Key(R, "fact:", I(3)))>>>> }

Blocks(R) == {
  <<<<"b", "n">>, <<Assign("n", I(1)),
      Assign("b", Fn("x", <<Assign("n", Bin(V("n"), "+", V("x")))>>)),
      Key(V("b"), "value:", I(2)), Key(V("b"), "value:", I(3)), Return(V("n"))>>>>,
  <<<<"f">>, <<Assign("f", Key(R, "adder:", I(5))), Return(Key(V("f"), "value:", I(3)))>>>>,
  <<<<>>, <<Return(Key2(Block(<<"x", "y">>, <<>>, <<Bin(V("x"), "-", V("y"))>>),
                        "value:", I(5), "value:", I(3)))>>>>,
  <<<<>>, <<Return(Key(Block(<<"x">>, <<"t">>, <<Assign("t", Bin(V("x"), "*", I(2))),
                                                 Bin(V("t"), "+", I(1))>>), "value:", I(4)))>>>>,
  <<<<"n">>, <<Assign("n", I(1)),
      Return(Key(Key(Fn("x", <<Fn("y", <<Bin(Bin(V("x"), "-", V("y")), "*", V("n"))>>)>>),
                     "value:", I(7)), "value:", I(3)))>>>>,
  <<<<>>, <<Return(Un(Do(<<>>), "value"))>>>>,
  <<<<>>, <<Key(R, "call:", Do(<<Return(I(7))>>)), Return(I(8))>>>>,
  <<<<>>, <<Key(R, "pass:", Do(<<Key(R, "pass:", Do(<<Note(R, 1), Return(I(7))>>)), Note(R, 2)>>)),
            Return(I(8))>>>>,
  <<<<>>, <<Return(Key(R, "fwd:", Do(<<Note(R, 1), I(6)>>)))>>>> }

Exceptions(R) == {
  <<<<"b">>, <<Assign("b", Un(R, "mk")),
      Return(OnDoSend(<<Un(V("b"), "value"), Note(R, 1)>>, "BlockCannotReturn", <<I(9)>>))>>>>,
  <<<<>>, <<Return(OnDoSend(<<Key(Do(<<Note(R, 1), Raised("Error"), Note(R, 2)>>), "ensure:",
                                  Do(<<Note(R, 3)>>))>>,
                            "Error", <<Note(R, 2), Un(V("e"), "class")>>))>>>>,
  <<<<>>, <<Return(OnDoSend(<<OnDoSend(<<Raised("Error")>>, "ZeroDivide", <<I(1)>>), Note(R, 1)>>,
                            "Exception", <<I(2)>>))>>>>,
  <<<<>>, <<Return(OnDoSend(<<OnDoSend(<<Raised("ZeroDivide")>>, "Error",
                                       <<Note(R, 1), Raised("Error"), Note(R, 2)>>)>>,
                            "Error", <<Note(R, 3), I(3)>>))>>>>,
  <<<<>>, <<Return(OnDoSend(<<Key(Do(<<Key(Do(<<Raised("Error")>>), "ensure:", Do(<<Note(R, 1)>>))>>),
                                  "ensure:", Do(<<Note(R, 2)>>))>>, "Error", <<I(4)>>))>>>>,
  <<<<>>, <<Return(OnDoSend(<<Key(Do(<<Raised("ZeroDivide")>>), "ensure:",
                                  Do(<<Note(R, 1), OnDoSend(<<Raised("Error")>>, "Error", <<Note(R, 2)>>)>>))>>,
                            "ZeroDivide", <<Note(R, 3), I(4)>>))>>>>,
  <<<<>>, <<Return(Bin(I(1), "+", OnDoSend(<<Key2(R, "foo:", I(1), "bar:", I(2))>>,
                                           "MessageNotUnderstood", <<I(3)>>)))>>>>,
  <<<<>>, <<Return(OnDoSend(<<Key(R, "pass:", Do(<<Raised("Error")>>))>>, "Error", <<V("e")>>))>>>> }

(* Under the scheduler too: nothing is signalled inside the blocks. *)
Guarded(R) == {
  <<<<>>, <<Return(Key(Do(<<Note(R, 1), I(4)>>), "ensure:", Do(<<Note(R, 2)>>)))>>>>,
  <<<<>>, <<Return(OnDoSend(<<Note(R, 1), I(4)>>, "Error", <<I(5)>>))>>>>,
  <<<<>>, <<Note(R, 1), Raised("Error"), Return(I(1))>>>>,
  <<<<>>, <<Note(R, 1), Return(Un(R, "unknown"))>>>> }

Tight == [always |-> FALSE, minus |-> TRUE, text |-> <<" ">>]
Wide == [always |-> TRUE, minus |-> TRUE, text |-> <<" ", "\n">>]
Commented == [always |-> TRUE, minus |-> TRUE, text |-> <<"\"", "note", "\"">>]

Runnable(mode, sel, bodies, gap) ==
    {[mode |-> mode, gap |-> gap, tree |-> Method(sel, <<>>, b[1], b[2])] : b \in bodies}

Common(R) == Expressions(R) \cup Control(R) \cup Blocks(R) \cup Guarded(R)

Sent(sel) == [mode |-> "message", gap |-> Tight, tree |-> Method(<<sel>>, <<>>, <<>>, <<>>)]

MCPrograms ==
    Runnable("method", <<"run">>, Common(SelfNode) \cup Exceptions(SelfNode), Tight) \cup
    Runnable("actor", <<"run">>, Common(SelfNode), Commented) \cup
    Runnable("eval", <<"doIt">>, Common(V("Obj")) \cup Exceptions(V("Obj")), Wide) \cup
    {Sent("yourself"), Sent("k")}

(* Programs that the code does not run as they are meant. *)

TailReturn ==
    Runnable("method", <<"run">>, {<<<<>>, <<Return(Bin(Key(SelfNode, "leave:", I(3)), "+", I(1)))>>>>}, Tight)

WaitsForAnswer ==
    Runnable("actor", <<"run">>, {<<<<>>, <<Return(Un(V("Fut"), "wait"))>>>>}, Tight)

ActorExceptions == Runnable("actor", <<"run">>, Exceptions(SelfNode), Tight)

TouchingMinus ==
    Runnable("method", <<"run">>, {<<<<"x">>, <<Assign("x", I(3)), Return(Bin(V("x"), "-", I(1)))>>>>},
             [Tight EXCEPT !.minus = FALSE])

NewLines ==
    Runnable("eval", <<"doIt">>, {<<<<"x">>, <<Assign("x", I(3)), Return(Bin(V("x"), "+", I(10)))>>>>},
             [Tight EXCEPT !.always = TRUE, !.text = <<"\n">>])

LargeSums == Runnable("method", <<"run">>, {<<<<>>, <<Return(Bin(I(400), "+", I(200)))>>>>}, Tight)

BlockRecursion ==
    Runnable("method", <<"run">>, {<<<<"f">>,
        <<Assign("f", Fn("n", <<Key2(Bin(V("n"), "=", I(0)), "ifTrue:", Do(<<I(0)>>), "ifFalse:",
                         Do(<<Bin(Key(V("f"), "value:", Bin(V("n"), "-", I(1))), "+", V("n"))>>))>>)),
          Return(Key(V("f"), "value:", I(2)))>>>>}, Tight)

ReturnThroughEnsure ==
    Runnable("method", <<"run">>,
             {<<<<>>, <<Key(Do(<<Return(I(1))>>), "ensure:", Do(<<Note(SelfNode, 1)>>)),
                        Return(I(2))>>>>}, Tight)

PrimitiveMessage == {Sent("class")}

MCReceiver == Obj("Sub")
MCIvars == <<SmallInt(0), Nil>>
Resolved == <<"resolved", SmallInt(5)>>
Pending == <<"pending">>
=============================================================================
