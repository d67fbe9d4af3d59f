------------------------------- MODULE Image -------------------------------
(***************************************************************************)
(* The image: saving the object graph to a file, loading it, and the       *)
(* startup that loads an image or bootstraps and saves one                 *)
(* (src/src/image/image.c, src/src/vm/vm.c).                               *)
(*                                                                         *)
(* A word is a number with the tags of the code: odd words are             *)
(* SmallIntegers, words that are 2 modulo 4 are Characters, 16 * k is the  *)
(* address of object k of the VM and 0 is a null pointer.  In the file a   *)
(* reference is 4 * id + 3, which is also the word of a SmallInteger: only *)
(* the relocation table tells the two apart.  Space is counted in objects. *)
(*                                                                         *)
(* The file is a sequence of units (header, name, record, word,            *)
(* relocation), each of which is written whole or not at all; what a crash *)
(* or a failed write leaves is a prefix.                                   *)
(***************************************************************************)
EXTENDS Integers, Sequences, SequencesExt, FiniteSets, FiniteSetsExt

CONSTANTS Bootstrapped,  \* the VM that sta_bootstrap and the kernel files make
          ClassSlots,    \* the capacity of the class table
          SpecialSlots,  \* the size of the special object table
          HeapCap,       \* initial_heap_bytes
          ImmCap,        \* the capacity of the immutable space
          Immediates,    \* the immediate values programs store
          Names,         \* the names of the symbols programs intern
          Slots,         \* the slots of the globals that programs use
          Foreign,       \* files other programs wrote
          Elsewhere,     \* images of other VMs, at paths of their own
          MaxOps         \* bound on the operations of the host and the program

VARIABLES vm,      \* the virtual machine
          file,    \* the units in the image file, or NoFile
          job,     \* the save in progress
          rc,      \* what the last call of the host returned
          saved,   \* ghost: the VM that the complete file is an image of
          raced,   \* ghost: its graph changed while it was saved
          merged,  \* ghost: an image was loaded into this VM while it ran
          ops      \* operations so far

vars == <<vm, file, job, rc, saved, raced, merged, ops>>

NoFile == <<<<"none">>>>
NoJob == [pc |-> "idle"]

\* Class indices and formats that the image code names.
ClsSymbol == 2
ClsArray == 3
FmtBytes == 3
FmtMethod == 5

IsInt(w) == w % 2 = 1
IsChar(w) == w % 4 = 2
IsPtr(w) == w % 4 = 0 /\ w # 0
Ptr(k) == 16 * k
At(k) == k \div 16

SnapEncode(id) == 4 * id + 3
SnapIsHeap(w) == w % 4 = 3
SnapGetId(w) == w \div 4

Fresh == [up |-> FALSE, mem |-> <<>>, heapCap |-> HeapCap, symbols |-> <<>>,
          specials |-> [i \in 1 .. SpecialSlots |-> 0], classes |-> [i \in 1 .. ClassSlots |-> 0]]

InImm(v) == {k \in DOMAIN v.mem : v.mem[k].imm}
InHeap(v) == {k \in DOMAIN v.mem : ~v.mem[k].imm}
Room(v, imm) == IF imm THEN Cardinality(InImm(v)) < ImmCap ELSE Cardinality(InHeap(v)) < v.heapCap

\* sta_immutable_alloc and sta_heap_alloc: the next object of the space.
Put(v, o) == [v EXCEPT !.mem = Append(@, o)]
Obj(class, imm, payload) == [class |-> class, imm |-> imm, payload |-> payload]

----------------------------------------------------------------------------
(* Reading objects.                                                        *)

\* How many words of the payload are OOPs: the class tells, through its format.
Scannable(v, o) ==
  LET cls == v.classes[o.class]
      fmt == v.mem[At(cls)].payload[1]
  IN IF cls = 0 THEN Len(o.payload)
     ELSE IF fmt = FmtBytes THEN 0
     ELSE IF fmt = FmtMethod THEN IF o.payload = <<>> THEN 0 ELSE 1 + o.payload[1] \div 2
     ELSE Len(o.payload)

\* The slots that hold references, in order.
RefSlots(v, k) ==
  LET o == v.mem[k]
  IN SetToSortSeq({s \in DOMAIN o.payload : s <= Scannable(v, o) /\ IsPtr(o.payload[s])}, <)

\* The graph walk: objects in the order they get their ids, the last one
\* found expanded first.
RECURSIVE Walk(_, _, _)
Walk(v, work, found) ==
  IF work = <<>> THEN found
  ELSE LET refs == [i \in DOMAIN RefSlots(v, Last(work)) |->
                      At(v.mem[Last(work)].payload[RefSlots(v, Last(work))[i]])]
           new == FoldLeft(LAMBDA acc, k : IF k \in ToSet(acc) \cup ToSet(found) THEN acc ELSE Append(acc, k),
                           <<>>, refs)
       IN Walk(v, Front(work) \o new, found \o new)

SymbolName(o) == o.payload[2]

\* The name entries: nil, true, false and the symbols of the immutable space.
NameEntries(v, objs) ==
  LET named == {i \in DOMAIN objs : /\ v.mem[objs[i]].imm
                                    /\ \/ Ptr(objs[i]) = v.specials[1]
                                       \/ v.mem[objs[i]].class = ClsSymbol}
  IN [i \in 1 .. Cardinality(named) |-> <<"name", SetToSortSeq(named, <)[i] - 1>>]

\* The last reference of every object forgotten.
RelocationsShort(v, objs) ==
  FlattenSeq([i \in DOMAIN objs |->
    [j \in 1 .. Len(RefSlots(v, objs[i])) - 1 |-> <<"reloc", i - 1, RefSlots(v, objs[i])[j]>>]])

\* One entry for each reference, by object and slot.
Relocations(v, objs) ==
  FlattenSeq([i \in DOMAIN objs |->
    [j \in DOMAIN RefSlots(v, objs[i]) |-> <<"reloc", i - 1, RefSlots(v, objs[i])[j]>>]])

\* encode_oop on the scannable words; an object without an id fails its assertion.
Encodable(v, objs) ==
  \A k \in ToSet(objs) : \A j \in DOMAIN RefSlots(v, k) :
    At(v.mem[k].payload[RefSlots(v, k)[j]]) \in ToSet(objs)

EncodeOop(objs, w) ==
  IF IsPtr(w) THEN SnapEncode((CHOOSE i \in DOMAIN objs : objs[i] = At(w)) - 1) ELSE w

Record(v, objs, i) ==
  LET o == v.mem[objs[i]]
  IN <<<<"record", i - 1, o.class, o.imm, Len(o.payload)>>>>
       \o [s \in DOMAIN o.payload |->
             <<"word", IF s <= Scannable(v, o) THEN EncodeOop(objs, o.payload[s]) ELSE o.payload[s]>>]

\* The whole file: header, names, records with their payload, relocations.
FileOf(v, objs, relocs) ==
  LET names == NameEntries(v, objs)
      data == FlattenSeq([i \in DOMAIN objs |-> Record(v, objs, i)])
      header == [good |-> "ok", objects |-> Len(objs), names |-> Len(names),
                 dataAt |-> 2 + Len(names), relocAt |-> 2 + Len(names) + Len(data),
                 size |-> 1 + Len(names) + Len(data) + Len(relocs)]
  IN <<<<"header", header>>>> \o names \o data \o relocs

----------------------------------------------------------------------------
(* Loading.                                                                *)

Result(code, v) == [rc |-> code, vm |-> v]

\* Pass 3 from the unit at: allocates object after object and notes where each
\* one is and where its words are; ends early when a unit or the room is missing.
RECURSIVE AllocateAll(_, _, _, _, _)
AllocateAll(v, f, at, left, placed) ==
  IF left = 0 THEN [rc |-> "ok", vm |-> v, placed |-> placed]
  ELSE IF at > Len(f) THEN [rc |-> "io", vm |-> v, placed |-> placed]
  ELSE IF ~Room(v, f[at][4]) THEN [rc |-> "oom", vm |-> v, placed |-> placed]
  ELSE AllocateAll(Put(v, Obj(f[at][3], f[at][4], [s \in 1 .. f[at][5] |-> 0])), f, at + 1 + f[at][5], left - 1,
                   Append(placed, [id |-> f[at][2], k |-> Len(v.mem) + 1, at |-> at, size |-> f[at][5]]))

\* Pass 4: the words as they stand in the file.
Fill(v, f, placed) ==
  [v EXCEPT !.mem = [k \in DOMAIN @ |->
     LET here == {i \in DOMAIN placed : placed[i].k = k}
     IN IF here = {} THEN @[k]
        ELSE [@[k] EXCEPT !.payload = [s \in DOMAIN @ |-> f[placed[CHOOSE i \in here : TRUE].at + s][2]]]]]

\* Pass 5: every relocated slot must hold a reference to an object that was
\* read, and becomes its address.
Relocate(v, placed, relocs) ==
  LET addr == [id \in {placed[i].id : i \in DOMAIN placed} |->
                 placed[CHOOSE i \in DOMAIN placed : placed[i].id = id].k]
      slots == {<<addr[relocs[i][2]], relocs[i][3]>> : i \in DOMAIN relocs}
      Sound(p) == LET w == v.mem[p[1]].payload[p[2]] IN SnapIsHeap(w) /\ SnapGetId(w) \in DOMAIN addr
  IN IF \E p \in slots : ~Sound(p) THEN Result("corrupt", v)
     ELSE Result("ok", [v EXCEPT !.mem = [k \in DOMAIN @ |->
            [@[k] EXCEPT !.payload = [s \in DOMAIN @ |->
               IF <<k, s>> \in slots THEN Ptr(addr[SnapGetId(@[s])]) ELSE @[s]]]]])

\* Pass 6: the special objects, the class table, the globals and the symbols.
Special == 2

RootSound(v, placed) ==
  LET root == v.mem[placed[1].k].payload IN Len(root) >= 3 /\ root[1] # 0 /\ root[2] # 0

Register(symbols, v, k) ==
  LET name == SymbolName(v.mem[k]) IN IF name \in DOMAIN symbols THEN symbols ELSE symbols @@ (name :> k)

\* How many of the image's symbols are new to the symbol table.
NewNames(v, placed) ==
  Cardinality({SymbolName(v.mem[placed[i].k]) : i \in {j \in DOMAIN placed : v.mem[placed[j].k].class = ClsSymbol}}
                \ DOMAIN v.symbols)

RegisterNone(v, placed, n) == v.symbols

\* Memory for the symbol table lasts for n more symbols (table_grow).
RegisterSymbols(v, placed, n) ==
  LET Full(acc) == Cardinality(DOMAIN acc) = Cardinality(DOMAIN v.symbols) + n
  IN FoldLeft(LAMBDA acc, p : IF v.mem[p.k].class = ClsSymbol /\ ~Full(acc) THEN Register(acc, v, p.k) ELSE acc,
              v.symbols, placed)

\* The symbols come last: if they cannot all be registered, the load fails
\* when the other tables are already those of the image.
RestoreTables(v, placed, n) ==
  LET root == v.mem[placed[1].k].payload
      spc == v.mem[At(root[1])].payload
      ct == v.mem[At(root[2])].payload
  IN Result(IF n = NewNames(v, placed) THEN "ok" ELSE "oom",
            [v EXCEPT !.specials = [[i \in 1 .. SpecialSlots |-> spc[i]] EXCEPT ![Special] = root[3]],
                      !.classes = [i \in DOMAIN @ |-> IF ct[i] # 0 THEN ct[i] ELSE @[i]],
                      !.symbols = RegisterSymbols(v, placed, n)])

\* Off by one: the last relocation may be missing.
LoadOffByOne(v, f) ==
  IF f = <<>> THEN {Result("io", v)}
  ELSE LET h == f[1][2] IN
    IF h.good # "ok" THEN {Result(h.good, v)}
    ELSE IF Len(f) < 1 + h.names THEN {Result("io", v)}
    ELSE LET a == AllocateAll(v, f, h.dataAt, h.objects, <<>>) IN
      IF a.rc # "ok" THEN {Result(a.rc, a.vm)}
      ELSE IF Len(f) < h.relocAt - 1 THEN {Result("io", a.vm)}
      ELSE LET filled == Fill(a.vm, f, a.placed) IN
        IF Len(f) < h.size - 1 THEN {Result("io", filled)}
        ELSE LET r == Relocate(filled, a.placed, SubSeq(f, h.relocAt, Len(f))) IN
          IF r.rc # "ok" THEN {r}
          ELSE IF ~RootSound(r.vm, a.placed) THEN {Result("corrupt", r.vm)}
          ELSE {RestoreTables(r.vm, a.placed, n) : n \in 0 .. NewNames(r.vm, a.placed)}

\* The special objects are reset before the file is known to be whole.
LoadEager(v, f) ==
  IF f = <<>> THEN {Result("io", v)}
  ELSE LET h == f[1][2] IN
    IF h.good # "ok" THEN {Result(h.good, v)}
    ELSE IF Len(f) < 1 + h.names THEN {Result("io", v)}
    ELSE LET a == AllocateAll(v, f, h.dataAt, h.objects, <<>>) IN
      IF a.rc # "ok" THEN {Result(a.rc, a.vm)}
      ELSE IF Len(f) < h.relocAt - 1 THEN {Result("io", a.vm)}
      ELSE LET filled == Fill(a.vm, f, a.placed) IN
        IF Len(f) < h.size THEN {Result("io", [filled EXCEPT !.specials = Fresh.specials])}
        ELSE LET r == Relocate(filled, a.placed, SubSeq(f, h.relocAt, h.size)) IN
          IF r.rc # "ok" THEN {r}
          ELSE IF ~RootSound(r.vm, a.placed) THEN {Result("corrupt", r.vm)}
          ELSE {RestoreTables(r.vm, a.placed, n) : n \in 0 .. NewNames(r.vm, a.placed)}

\* The outcomes of sta_image_load_from_file into the VM v, by the memory left for
\* the symbol table.  A failure to allocate the loader's own tables ends it as a
\* short read does.
Load(v, f) ==
  IF f = <<>> THEN {Result("io", v)}
  ELSE LET h == f[1][2] IN
    IF h.good # "ok" THEN {Result(h.good, v)}
    ELSE IF Len(f) < 1 + h.names THEN {Result("io", v)}
    ELSE LET a == AllocateAll(v, f, h.dataAt, h.objects, <<>>) IN
      IF a.rc # "ok" THEN {Result(a.rc, a.vm)}
      ELSE IF Len(f) < h.relocAt - 1 THEN {Result("io", a.vm)}
      ELSE LET filled == Fill(a.vm, f, a.placed) IN
        IF Len(f) < h.size THEN {Result("io", filled)}
        ELSE LET r == Relocate(filled, a.placed, SubSeq(f, h.relocAt, h.size)) IN
          IF r.rc # "ok" THEN {r}
          ELSE IF ~RootSound(r.vm, a.placed) THEN {Result("corrupt", r.vm)}
          ELSE {RestoreTables(r.vm, a.placed, n) : n \in 0 .. NewNames(r.vm, a.placed)}

----------------------------------------------------------------------------
(* The host: sta_vm_create, sta_vm_save_image, sta_vm_load_image.          *)

Init ==
  /\ vm = Fresh /\ job = NoJob /\ rc = "ok"
  /\ file \in {NoFile} \cup Foreign
  /\ saved = Fresh /\ raced = FALSE /\ merged = FALSE /\ ops = 0

Counted == ops < MaxOps /\ ops' = ops + 1
Exists(f) == f # NoFile

\* The image is there: load it, or give up.
CreateFromImage ==
  /\ ~vm.up /\ job = NoJob /\ Exists(file)
  /\ \E r \in Load(Fresh, file) :
       /\ rc' = r.rc
       /\ vm' = IF r.rc = "ok" THEN [r.vm EXCEPT !.up = TRUE] ELSE Fresh
  /\ merged' = FALSE /\ Counted
  /\ UNCHANGED <<file, job, saved, raced>>

\* The special objects, the class table and the root array, in that order.
SaveArrays(v) ==
  <<Obj(ClsArray, TRUE, v.specials), Obj(ClsArray, TRUE, v.classes),
    Obj(ClsArray, TRUE, <<Ptr(Len(v.mem) + 1), Ptr(Len(v.mem) + 2), v.specials[Special]>>)>>

\* Phase A for the VM v: the arrays, then the walk; without room for the
\* arrays the save fails, and with it the creation of a VM.
BeginSave(v, creating) ==
  LET room == ImmCap - Cardinality(InImm(v))
      full == [v EXCEPT !.mem = @ \o SubSeq(SaveArrays(v), 1, IF room < 3 THEN room ELSE 3)]
      root == Len(v.mem) + 3
  IN \/ /\ room >= 3
        /\ vm' = full
        /\ job' = [pc |-> "walked", creating |-> creating, snap |-> full, raced |-> FALSE,
                   objs |-> Walk(full, <<root>>, <<root>>)]
        /\ UNCHANGED rc
     \/ /\ room < 3
        /\ vm' = IF creating THEN Fresh ELSE full
        /\ rc' = "oom" /\ UNCHANGED job

CreateFromKernel ==
  /\ ~vm.up /\ job = NoJob /\ ~Exists(file)
  /\ BeginSave(Bootstrapped, TRUE)
  /\ merged' = FALSE /\ Counted
  /\ UNCHANGED <<file, saved, raced>>

SaveImage ==
  /\ vm.up /\ job = NoJob
  /\ BeginSave(vm, FALSE)
  /\ Counted
  /\ UNCHANGED <<file, saved, raced, merged>>

\* Phase B.
BuildRelocations ==
  /\ job.pc = "walked"
  /\ job' = [pc |-> "ready", creating |-> job.creating, snap |-> job.snap, raced |-> job.raced,
             objs |-> job.objs, relocs |-> Relocations(vm, job.objs)]
  /\ UNCHANGED <<vm, file, rc, saved, raced, merged, ops>>

\* The end of a save; a VM is up once its first image is saved.
EndSave(code) ==
  /\ rc' = code /\ job' = NoJob
  /\ vm' = IF ~job.creating THEN vm ELSE IF code = "ok" THEN [vm EXCEPT !.up = TRUE] ELSE Fresh
  /\ UNCHANGED <<merged, ops>>

OpenFails ==
  /\ job.pc = "ready"
  /\ EndSave("io")
  /\ UNCHANGED <<file, saved, raced>>

\* Phase D: the file is truncated and written; the first n units of out reach it.
Reach(n, out) ==
  /\ file' = SubSeq(out, 1, n)
  /\ saved' = IF n = Len(out) THEN job.snap ELSE Fresh
  /\ raced' = (n = Len(out) /\ job.raced)

WriteFile ==
  /\ job.pc = "ready" /\ Encodable(vm, job.objs)
  /\ \E out \in {FileOf(vm, job.objs, job.relocs)} : Reach(Len(out), out)
  /\ EndSave("ok")

\* fwrite reports an error: the rest is not written.
WriteFails ==
  /\ job.pc = "ready" /\ Encodable(vm, job.objs)
  /\ \E out \in {FileOf(vm, job.objs, job.relocs)} : \E n \in 0 .. Len(out) - 1 : Reach(n, out)
  /\ EndSave("io")

\* fclose cannot write what is still buffered; its result is not looked at.
CloseFails ==
  /\ job.pc = "ready" /\ Encodable(vm, job.objs)
  /\ \E out \in {FileOf(vm, job.objs, job.relocs)} : \E n \in 0 .. Len(out) - 1 : Reach(n, out)
  /\ EndSave("ok")

\* The process dies while it writes: killed, or by the assertion of encode_oop.
CrashWriting ==
  /\ job.pc = "ready"
  /\ \/ /\ Encodable(vm, job.objs)
        /\ \E out \in {FileOf(vm, job.objs, job.relocs)} : \E n \in 0 .. Len(out) : Reach(n, out)
     \/ /\ ~Encodable(vm, job.objs)
        /\ Reach(0, <<0>>)
  /\ vm' = Fresh /\ job' = NoJob
  /\ UNCHANGED <<rc, merged, ops>>

Tables(v) == <<v.specials, v.classes, v.symbols>>

\* sta_vm_load_image, of any file into the VM as it runs.
Loadable == Elsewhere \cup (IF Exists(file) THEN {file} ELSE {})

LoadImage ==
  /\ vm.up /\ job = NoJob
  /\ \E r \in UNION {Load(vm, f) : f \in Loadable} :
       /\ rc' = r.rc
       /\ vm' = r.vm
       /\ merged' = (merged \/ r.rc = "ok" \/ Tables(r.vm) # Tables(vm))
  /\ Counted
  /\ UNCHANGED <<file, job, saved, raced>>

\* sta_vm_destroy, or the end of the process between saves.
Stop ==
  /\ vm.up /\ job = NoJob
  /\ vm' = Fresh
  /\ UNCHANGED <<file, job, rc, saved, raced, merged, ops>>

----------------------------------------------------------------------------
(* The program: actors run it on the scheduler's threads, during a save    *)
(* too, since sta_vm_save_image stops no one.                              *)

Running == vm.up /\ Counted
Changing == job' = IF job = NoJob THEN NoJob ELSE [job EXCEPT !.raced = TRUE]

\* The objects reachable from the special objects and the class table.
RECURSIVE Closure(_, _)
Closure(v, ks) ==
  LET next == ks \cup UNION {{At(v.mem[k].payload[s]) : s \in ToSet(RefSlots(v, k))} : k \in ks}
  IN IF next = ks THEN ks ELSE Closure(v, next)

Roots(v) == {At(w) : w \in {x \in ToSet(v.specials) \cup ToSet(v.classes) : IsPtr(x)}}
Reachable(v) == Closure(v, Roots(v))

\* An assignment into the globals.
Assign(v, s, w) == [v EXCEPT !.mem[At(v.specials[Special])].payload[s] = w]

Store(s, w) ==
  /\ Running /\ Changing
  /\ vm' = Assign(vm, s, w)
  /\ UNCHANGED <<file, rc, saved, raced, merged>>

\* A new array; the heap grows when it is full (sta_heap_alloc_gc).
NewArray(s, w) ==
  /\ Running /\ Changing
  /\ vm' = LET grown == [vm EXCEPT !.heapCap = IF Room(vm, FALSE) THEN @ ELSE @ + 1]
           IN Assign(Put(grown, Obj(ClsArray, FALSE, <<w>>)), s, Ptr(Len(vm.mem) + 1))
  /\ UNCHANGED <<file, rc, saved, raced, merged>>

\* sta_symbol_intern: the symbol of that name, made when it is new.
Intern(s, name) ==
  /\ Running /\ Changing
  /\ \/ /\ name \in DOMAIN vm.symbols
        /\ vm' = Assign(vm, s, Ptr(vm.symbols[name]))
     \/ /\ name \notin DOMAIN vm.symbols /\ Room(vm, TRUE)
        /\ vm' = LET k == Len(vm.mem) + 1
                     made == Put(vm, Obj(ClsSymbol, TRUE, <<16, name>>))
                 IN Assign([made EXCEPT !.symbols = @ @@ (name :> k)], s, Ptr(k))
  /\ UNCHANGED <<file, rc, saved, raced, merged>>

Program ==
  \E s \in Slots :
    \/ \E w \in Immediates \cup {Ptr(k) : k \in Reachable(vm)} : Store(s, w)
    \/ NewArray(s, vm.specials[Special])
    \/ \E name \in Names : Intern(s, name)

Next ==
  \/ CreateFromImage \/ CreateFromKernel \/ SaveImage \/ BuildRelocations
  \/ OpenFails \/ WriteFile \/ WriteFails \/ CloseFails \/ CrashWriting
  \/ LoadImage \/ Stop
  \/ vm.up /\ Program

Spec == Init /\ [][Next]_vars

----------------------------------------------------------------------------
(* Properties.                                                             *)

\* The pairs of objects that the same paths from the roots lead to.
RECURSIVE Paired(_, _, _)
Paired(a, b, pairs) ==
  LET Down(p) == LET x == a.mem[p[1]].payload
                     y == b.mem[p[2]].payload
                 IN {<<At(x[s]), At(y[s])>> : s \in {i \in ToSet(RefSlots(a, p[1])) : i \in DOMAIN y /\ IsPtr(y[i])}}
      next == pairs \cup UNION {Down(p) : p \in pairs}
  IN IF next = pairs THEN pairs ELSE Paired(a, b, next)

SameWords(x, y, refs) == /\ DOMAIN x = DOMAIN y
                         /\ \A s \in DOMAIN x : IF s \in refs THEN IsPtr(y[s]) ELSE x[s] = y[s]

PtrsAt(x) == {s \in DOMAIN x : IsPtr(x[s])}

Isomorphic(a, b) ==
  LET x == a.specials \o a.classes
      y == b.specials \o b.classes
      pairs == Paired(a, b, {<<At(x[s]), At(y[s])>> : s \in PtrsAt(x) \cap PtrsAt(y)})
  IN /\ SameWords(x, y, PtrsAt(x))
     /\ \A p \in pairs : /\ a.mem[p[1]].class = b.mem[p[2]].class /\ a.mem[p[1]].imm = b.mem[p[2]].imm
                         /\ SameWords(a.mem[p[1]].payload, b.mem[p[2]].payload, ToSet(RefSlots(a, p[1])))
     /\ \A p, q \in pairs : p[1] = q[1] <=> p[2] = q[2]

Complete(f) == Exists(f) /\ f # <<>> /\ f[1][2].good = "ok" /\ Len(f) = f[1][2].size

\* A complete image loads into a new VM that has the memory, and what it makes there is the graph
\* that was saved: same classes, spaces, words and sharing, whatever the words
\* look like.  Excused: images of a graph that changed during the save and
\* those of a heap that had grown past the initial size of a new one
\* (sta_image_save_to_file, sta_image_load_from_file).
ImageReadsBack ==
  Complete(file) /\ ~raced /\ Cardinality(InHeap(saved)) <= HeapCap
    => \E r \in Load(Fresh, file) : r.rc = "ok" /\ Isomorphic(saved, r.vm)

\* No other file loads: neither a prefix that a crash or a failed write left
\* nor a file of another format (the checks of sta_image_load_from_file).
DamagedIsRejected ==
  Exists(file) /\ ~Complete(file) => \A r \in Load(Fresh, file) : r.rc # "ok"

\* Every symbol the program can reach is the one that interning its name
\* returns, so symbols can be compared by identity, in a VM that came from an
\* image too.  Excused: an image loaded over a running VM
\* (sta_symbol_table_register, sta_symbol_intern).
SymbolsInterned ==
  vm.up /\ ~merged =>
    \A k \in Reachable(vm) : vm.mem[k].class = ClsSymbol =>
      /\ SymbolName(vm.mem[k]) \in DOMAIN vm.symbols
      /\ vm.symbols[SymbolName(vm.mem[k])] = k

\* A load that fails leaves the objects of the running VM as they were, and its
\* tables too unless the file is sound and memory for symbols ran out: then the
\* special objects and the classes are those of the image, never a mixture, and
\* the symbols from before are still the interned ones (the order of the passes
\* of sta_image_load_from_file).
FailedLoadIsConfined ==
  [][vm.up /\ vm'.up /\ file' = file /\ rc' # "ok" /\ LoadImage =>
       /\ IsPrefix(vm.mem, vm'.mem)
       /\ \/ Tables(vm') = Tables(vm)
          \/ \E r \in UNION {Load(vm, f) : f \in Loadable} :
               /\ r.rc = "ok"
               /\ vm' = [r.vm EXCEPT !.symbols = vm'.symbols]
               /\ \A name \in DOMAIN vm.symbols : vm'.symbols[name] = vm.symbols[name]]_vars

\* A load that fails leaves the tables of the running VM as they were.
FailedLoadChangesNothing == [][LoadImage /\ rc' # "ok" => Tables(vm') = Tables(vm)]_vars

\* A save that returns STA_OK has written the image (image.h:128-130).
SavedIsComplete == [][(WriteFile \/ CloseFails) /\ rc' = "ok" => Complete(file')]_vars

\* Symbols stay unique when an image is loaded over a running VM.
SymbolsUnique ==
  vm.up => \A k \in Reachable(vm) :
    vm.mem[k].class = ClsSymbol /\ SymbolName(vm.mem[k]) \in DOMAIN vm.symbols
      => vm.symbols[SymbolName(vm.mem[k])] = k

\* The image is a snapshot, although nothing is quiesced while it is saved.
SnapshotReadsBack ==
  Complete(file) /\ Cardinality(InHeap(saved)) <= HeapCap
    => \E r \in Load(Fresh, file) : r.rc = "ok" /\ Isomorphic(saved, r.vm)

\* What was saved can be loaded by a new VM with the same configuration.
GrownReadsBack == Complete(file) => \E r \in Load(Fresh, file) : r.rc = "ok"

\* Once there is a complete image there is always one.
ImageSurvives == [][Complete(file) => Complete(file')]_vars
=============================================================================
