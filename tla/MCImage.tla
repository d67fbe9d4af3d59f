------------------------------ MODULE MCImage ------------------------------
(* A kernel of nine objects: nil, a symbol, the five classes, a method and   *)
(* the globals.  The symbol's hash looks like an address, the method's byte  *)
(* code like a reference in a file, and so does the SmallInteger 3.          *)
EXTENDS Image

Nil == Ptr(1)
Sym == Ptr(2)
MCKernel ==
  [up |-> FALSE, heapCap |-> HeapCap, symbols |-> (5 :> 2),
   mem |-> <<Obj(1, TRUE, <<>>),
             Obj(ClsSymbol, TRUE, <<16, 5>>),
             Obj(4, FALSE, <<1, Sym>>), Obj(4, FALSE, <<FmtBytes, Nil>>), Obj(4, FALSE, <<1, Nil>>),
             Obj(4, FALSE, <<1, Nil>>), Obj(4, FALSE, <<FmtMethod, Nil>>),
             Obj(5, FALSE, <<3, Sym, 35>>),
             Obj(ClsArray, FALSE, <<Ptr(8), Ptr(9)>>)>>,
   specials |-> <<Nil, Ptr(9), 0>>,
   classes |-> <<Ptr(3), Ptr(4), Ptr(5), Ptr(6), Ptr(7), 0>>]

MCImmediates == {7, 2}
MCNames == {5, 9}
Header(good) == <<<<"header", [good |-> good, objects |-> 0, names |-> 0, dataAt |-> 2, relocAt |-> 2, size |-> 1]>>>>
MCForeign == {Header(good) : good \in {"magic", "version", "endian", "ptrwidth"}}

\* The image of such a VM whose program has put a second symbol in the place of
\* the method: the root, the two tables, the globals, the new symbol, the five
\* classes, nil and the old symbol, as FileOf writes them.
Rec(id, class, imm, words) ==
  <<<<"record", id, class, imm, Len(words)>>>> \o [i \in DOMAIN words |-> <<"word", words[i]>>]
Data == Rec(0, 3, TRUE, <<7, 11, 15>>) \o Rec(1, 3, TRUE, <<43, 15, 0>>)
          \o Rec(2, 3, TRUE, <<23, 27, 31, 35, 39, 0>>) \o Rec(3, 3, FALSE, <<19, 15>>)
          \o Rec(4, 2, TRUE, <<16, 9>>) \o Rec(5, 4, FALSE, <<1, 47>>) \o Rec(6, 4, FALSE, <<3, 43>>)
          \o Rec(7, 4, FALSE, <<1, 43>>) \o Rec(8, 4, FALSE, <<1, 43>>) \o Rec(9, 4, FALSE, <<5, 43>>)
          \o Rec(10, 1, TRUE, <<>>) \o Rec(11, 2, TRUE, <<16, 5>>)
RefsOf == <<<<0, 1>>, <<0, 2>>, <<0, 3>>, <<1, 1>>, <<1, 2>>, <<2, 1>>, <<2, 2>>, <<2, 3>>, <<2, 4>>, <<2, 5>>,
            <<3, 1>>, <<3, 2>>, <<5, 2>>, <<6, 2>>, <<7, 2>>, <<8, 2>>, <<9, 2>>>>
MCElsewhere ==
  {<<<<"header", [good |-> "ok", objects |-> 12, names |-> 3, dataAt |-> 5, relocAt |-> 45, size |-> 61]>>,
     <<"name", 4>>, <<"name", 10>>, <<"name", 11>>>>
     \o Data \o [i \in DOMAIN RefsOf |-> <<"reloc", RefsOf[i][1], RefsOf[i][2]>>]}

\* Few operations are explored after a save that damaged the file.
Bound == Exists(file) /\ ~Complete(file) => ops <= 3
=============================================================================
