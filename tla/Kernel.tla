------------------------------- MODULE Kernel -------------------------------
(***************************************************************************)
(* What bootstrap.c installs for programs to run on: the class hierarchy   *)
(* as far as message sends need it, the methods of its kernel classes that *)
(* have a part in control flow or arithmetic, and the primitives of        *)
(* primitive_table.c behind them that neither allocate nor call back.      *)
(*                                                                         *)
(* A value is a tuple that starts with its kind: <<"int", n>>,             *)
(* <<"bool", b>>, <<"nil">>, <<"obj", class>>, <<"class", class>>,         *)
(* <<"clo", method, receiver, start, temp offset, context>>, and the       *)
(* literals of Compiler.  A method is named <<class, selector>>.           *)
(***************************************************************************)
EXTENDS Compiler

CONSTANTS UserSuper,     \* the superclass of every class of the program
          UserMethods,   \* <<class, method tree>> for every method of the program
          UserIvars,     \* the instance variables of the program's classes
          GlobalNames,   \* the names in the SystemDictionary
          SmallBits      \* bits of a SmallInteger, 63 in the code

Nil == <<"nil">>
True == <<"bool", TRUE>>
False == <<"bool", FALSE>>
SmallInt(n) == <<"int", n>>
Obj(class) == <<"obj", class>>

-----------------------------------------------------------------------------
(* Classes.  The metaclasses hold no method that is modelled and all lead  *)
(* to Class, so a class answers messages as an instance of Class.          *)

KernelSuper ==
    [Object |-> "none", Behavior |-> "Object", ClassDescription |-> "Behavior",
     Class |-> "ClassDescription", Magnitude |-> "Object", Number |-> "Magnitude",
     SmallInteger |-> "Number", Character |-> "Object", Collection |-> "Object",
     SequenceableCollection |-> "Collection",
     ArrayedCollection |-> "SequenceableCollection", Array |-> "ArrayedCollection",
     String |-> "ArrayedCollection", Symbol |-> "String", UndefinedObject |-> "Object",
     True |-> "Object", False |-> "Object", BlockClosure |-> "Object", Message |-> "Object",
     Exception |-> "Object", Error |-> "Exception", MessageNotUnderstood |-> "Error",
     BlockCannotReturn |-> "Error", FutureFailure |-> "Error", ArithmeticError |-> "Error",
     ZeroDivide |-> "ArithmeticError", Future |-> "Object"]

Superclass == KernelSuper @@ UserSuper

ClassOf(v) ==
    CASE v[1] = "obj" -> v[2]
      [] v[1] = "int" -> "SmallInteger"
      [] v[1] = "bool" -> IF v[2] THEN "True" ELSE "False"
      [] v[1] = "nil" -> "UndefinedObject"
      [] v[1] = "clo" -> "BlockClosure"
      [] v[1] = "class" -> "Class"
      [] v[1] = "msg" -> "Message"
      [] v[1] = "char" -> "Character"
      [] v[1] = "sym" -> "Symbol"
      [] v[1] = "str" -> "String"
      [] v[1] = "array" -> "Array"

RECURSIVE IsKindOfClass(_, _)
IsKindOfClass(class, target) ==
    class # "none" /\ (class = target \/ IsKindOfClass(Superclass[class], target))

IsKindOf(v, target) == target[1] = "class" /\ IsKindOfClass(ClassOf(v), target[2])

-----------------------------------------------------------------------------
(* SmallInteger primitives.  They compute in a machine word, one bit wider *)
(* than a SmallInteger, and fail when that overflows; tagging the result   *)
(* then drops the top bit.                                                 *)

Wrap(n, bits) == ((n + 2^(bits - 1)) % 2^bits) - 2^(bits - 1)

Fail == <<"fail">>
Word(n) == IF Wrap(n, SmallBits + 1) = n THEN SmallInt(Wrap(n, SmallBits)) ELSE Fail
Truth(b) == <<"bool", b>>

(* The quotient of C, towards zero, and its remainder. *)
Abs(n) == IF n < 0 THEN -n ELSE n
Quo(a, b) == IF (a < 0) = (b < 0) THEN Abs(a) \div Abs(b) ELSE -(Abs(a) \div Abs(b))
Rem(a, b) == a - b * Quo(a, b)

Arithmetic(op, a, b) ==
    CASE op = "+" -> Word(a + b)
      [] op = "-" -> Word(a - b)
      [] op = "*" -> Word(a * b)
      [] op = "<" -> Truth(a < b)
      [] op = ">" -> Truth(a > b)
      [] op = "<=" -> Truth(a <= b)
      [] op = ">=" -> Truth(a >= b)
      [] op = "=" -> Truth(a = b)
      [] op = "~=" -> Truth(a # b)
      [] b = 0 -> Fail
      [] op = "/" -> IF Rem(a, b) = 0 THEN Word(Quo(a, b)) ELSE Fail
      [] op = "quo:" -> Word(Quo(a, b))
      [] op = "//" -> Word(IF Rem(a, b) # 0 /\ (a < 0) # (b < 0) THEN Quo(a, b) - 1
                                                                  ELSE Quo(a, b))
      [] op = "\\\\" -> Word(IF Rem(a, b) # 0 /\ (Rem(a, b) < 0) # (b < 0)
                             THEN Rem(a, b) + b ELSE Rem(a, b))

ArithmeticPrims == {"+", "-", "*", "<", ">", "<=", ">=", "=", "~=", "/", "quo:", "//", "\\\\"}

(* Receivers are SmallIntegers: the methods are installed in their class.  *)
SimplePrimitive(prim, rcv, args) ==
    CASE prim \in ArithmeticPrims ->
           (CASE args[1][1] = "int" -> Arithmetic(prim, rcv[2], args[1][2])
              [] prim \in {"=", "~="} -> Truth(prim = "~=")
              [] OTHER -> Fail)
      [] prim = "==" -> Truth(rcv = args[1])
      [] prim = "class" -> <<"class", ClassOf(rcv)>>
      [] prim = "yourself" -> rcv
      [] prim = "basicNew" -> Obj(rcv[2])

SimplePrims == ArithmeticPrims \cup {"==", "class", "yourself", "basicNew"}

-----------------------------------------------------------------------------
(* Methods. *)

(* A primitive method: the primitive, then the code that runs if it fails; *)
(* one temp more than it has arguments, for the failure code.              *)
PrimMethod(prim, nargs) ==
    [ok |-> TRUE, nargs |-> nargs, ntemps |-> nargs + 1, lits |-> <<>>,
     code |-> <<<<"PRIMITIVE", prim>>, <<"RETURN_SELF", 0>>>>, ctx |-> FALSE, prim |-> prim]

BytecodeMethod(nargs, lits, code) ==
    [ok |-> TRUE, nargs |-> nargs, ntemps |-> nargs, lits |-> lits, code |-> code,
     ctx |-> FALSE, prim |-> "none"]

Installed(class, sels, nargs) ==
    [m \in {<<class, <<sel>>>> : sel \in sels} |-> PrimMethod(m[2][1], nargs)]

ObjectMethods ==
    Installed("Object", {"class", "yourself"}, 0) @@ Installed("Object", {"=="}, 1) @@
    (<<"Object", <<"initialize">>>> :> BytecodeMethod(0, <<>>, <<<<"RETURN_SELF", 0>>>>))

IntegerMethods == Installed("SmallInteger", ArithmeticPrims, 1)

BlockMethods ==
    (<<"BlockClosure", <<"value">>>> :> PrimMethod("value", 0)) @@
    (<<"BlockClosure", <<"value:">>>> :> PrimMethod("value", 1)) @@
    (<<"BlockClosure", <<"value:", "value:">>>> :> PrimMethod("value", 2))

(* new is self basicNew initialize. *)
BehaviorMethods ==
    Installed("Behavior", {"basicNew"}, 0) @@
    (<<"Behavior", <<"new">>>> :>
        BytecodeMethod(0, <<<<"sym", <<"basicNew">>>>, <<"sym", <<"initialize">>>>>>,
            <<<<"PUSH_RECEIVER", 0>>, <<"SEND", 0>>, <<"SEND", 1>>, <<"RETURN_TOP", 0>>>>))

(* The real methods behind conditionals that are not compiled in line: one *)
(* that evaluates its n-th argument, or nil.                               *)
Answers(nargs, n) ==
    BytecodeMethod(nargs, <<<<"sym", <<"value">>>>>>,
                   <<<<"PUSH_TEMP", n>>, <<"SEND", 0>>, <<"RETURN_TOP", 0>>>>)
AnswersNil(nargs) == BytecodeMethod(nargs, <<>>, <<<<"RETURN_NIL", 0>>>>)

BooleanMethods ==
    (<<"True", <<"ifTrue:">>>> :> Answers(1, 0)) @@
    (<<"True", <<"ifFalse:">>>> :> AnswersNil(1)) @@
    (<<"True", <<"ifTrue:", "ifFalse:">>>> :> Answers(2, 0)) @@
    (<<"False", <<"ifTrue:">>>> :> AnswersNil(1)) @@
    (<<"False", <<"ifFalse:">>>> :> Answers(1, 0)) @@
    (<<"False", <<"ifTrue:", "ifFalse:">>>> :> Answers(2, 1))

(* doesNotUnderstand: is compiled from source; the two sends that fill in  *)
(* the exception are left out.                                             *)
DnuSelector == <<"doesNotUnderstand:">>
DnuMethod ==
    Method(DnuSelector, <<"aMessage">>, <<"ex">>,
        <<Assign("ex", Send(Var("MessageNotUnderstood"), <<"new">>, <<>>)),
          Send(Var("ex"), <<"signal">>, <<>>)>>)

ExceptionMethods ==
    (<<"Exception", <<"signal">>>> :> PrimMethod("signal", 0)) @@
    (<<"BlockClosure", <<"on:", "do:">>>> :> PrimMethod("onDo", 2)) @@
    (<<"BlockClosure", <<"ensure:">>>> :> PrimMethod("ensure", 1)) @@
    (<<"Future", <<"wait">>>> :> PrimMethod("wait", 0))

KernelMethods == ObjectMethods @@ IntegerMethods @@ BlockMethods @@ BehaviorMethods
                 @@ BooleanMethods @@ ExceptionMethods

(* What is compiled from source: doesNotUnderstand: and the program's.     *)
CompiledMethods ==
    LET sources == {<<"Object", DnuMethod>>} \cup UserMethods
        ivars(class) == IF class \in DOMAIN UserSuper THEN UserIvars ELSE <<>>
    IN  [m \in {<<u[1], u[2][2]>> : u \in sources} |->
           LET u == CHOOSE x \in sources : x[1] = m[1] /\ x[2][2] = m[2]
           IN  CodegenMethod(u[2], u[1], ivars(u[1]), GlobalNames)]

(* The method found for a selector in the dictionaries of a class and the  *)
(* classes above it; <<>> is none.                                         *)
RECURSIVE MethodLookup(_, _, _)
MethodLookup(dict, class, sel) ==
    CASE class = "none" -> <<>>
      [] <<class, sel>> \in DOMAIN dict -> <<class, sel>>
      [] OTHER -> MethodLookup(dict, Superclass[class], sel)

(* Binary: 1; otherwise one argument for every keyword. *)
SelectorBinaryChars == {"+", "-", "*", "/", "<", ">", "=", "~", "@", "%", "&", "|", "!", "?", "\\", ","}
SelectorArity(sel) ==
    CASE SubSeq(sel[1], 1, 1) \in SelectorBinaryChars -> 1
      [] SubSeq(sel[1], Len(sel[1]), Len(sel[1])) = ":" -> Len(sel)
      [] OTHER -> 0
=============================================================================
