---------------------------- MODULE MCActorHeap ----------------------------
(* Two actors: w works and receives, s sends.  Object 1 of each heap is its *)
(* behaviour object.                                                        *)
EXTENDS ActorHeap

w == "w"
s == "s"
MCActors == {w, s}

P(a, k) == <<"ptr", <<a, 0>>, k>>
Pair(x, y) == Object("Pair", <<x, y>>)
Behavior == Object("Unit", <<>>)
Idle == [objs |-> <<Behavior>>, slots |-> <<>>, shared |-> <<>>]
Empty == [objs |-> <<Behavior>>, slots |-> <<Nil>>, shared |-> <<>>]

\* Argument graphs: a shared object, a cycle, bytes.
Shared == [objs |-> <<Behavior, Pair(P(s, 3), P(s, 3)), Fresh("Unit")>>, slots |-> <<P(s, 2)>>, shared |-> <<>>]
Cycle == [objs |-> <<Behavior, Pair(P(s, 3), Nil), Pair(P(s, 2), P(s, 3))>>, slots |-> <<P(s, 2)>>, shared |-> <<>>]
Raw == [objs |-> <<Behavior, Pair(P(s, 3), <<"int", 1>>), Object("Bytes", <<<<"raw", 7>>>>)>>,
        slots |-> <<P(s, 2), <<"int", 1>>>>, shared |-> <<>>]

Start(x, y) == [a \in MCActors |-> IF a = w THEN x ELSE y]
Scenario(start, cap, used, n) == [start |-> start, cap |-> cap, uses |-> used, ops |-> n]

\* The worker alone on a small heap: garbage, growth, nested sends, handlers.
Alone == {Scenario(Start(Empty, Idle), 5, {"temps", "new", "fields"}, 7),
          Scenario(Start(Empty, Idle), 4, {"temps", "new", "call", "become"}, 6),
          Scenario(Start(Empty, Idle), 5, {"new", "closure", "copy", "call"}, 6),
          Scenario(Start(Empty, Idle), 6, {"temps", "new", "handlers", "call"}, 6)}

\* The sender's arguments arrive in a heap with little room or enough of it.
Together == {Scenario(Start(Idle, y), 9, {"temps", "new", "send"}, 5) : y \in {Shared, Cycle, Raw}}

Busy == {Scenario(Start(Empty, Shared), cap, {"temps", "new", "send"}, 5) : cap \in {7, 9}}

MCScenarios == Alone \cup Together \cup Busy

\* Growth with a value of the calling frame on its expression stack.
Nested == {Scenario(Start(Empty, Idle), 4, {"temps", "new", "call"}, 6)}

\* A send to an actor whose heap has no room for the copy.
Crowded == {Scenario(Start(Empty, Cycle), 5, {"temps", "new", "send"}, 3)}

\* A collection while a message has been copied but not linked.
Unlinked == {Scenario(Start(Empty, Shared), 7, {"temps", "new", "send"}, 6)}

\* A collection in the body of on:do:, and one in a frame with a context.
InBody == {Scenario(Start(Empty, Idle), 6, {"new", "handlers"}, 5)}
InContext == {Scenario(Start(Empty, Idle), 6, {"temps", "new", "call"}, 6)}

\* A copy of an object that the collection moves, and a closure in a full heap.
Copying == {Scenario(Start(Empty, Idle), 5, {"temps", "new", "copy"}, 4)}
Full == {Scenario(Start(Empty, Idle), 4, {"new", "closure"}, 3)}

\* Two arguments that share an object, into room for one copy of it.
Twice == {Scenario(Start(Idle, Shared), 6, {"temps", "send"}, 3)}

\* A copy into the heap of an actor that allocates, with room for both.
Racing == {Scenario(Start(Empty, Shared), 12, {"temps", "new", "send"}, 3)}

\* The method dictionary of a class, on the heap the root actor collects.
Rooted == {Scenario(Start([Empty EXCEPT !.objs = Append(@, Pair(Nil, Nil)), !.shared = <<P(w, 2)>>], Idle),
                    5, {"new"}, 3)}
=============================================================================
