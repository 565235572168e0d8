------------------------------- MODULE Linker -------------------------------
(***************************************************************************)
(* From object files to an executable: Link of src/src/Assembly.cpp, and   *)
(* the binary literals the assembler provisions for it.                    *)
(*                                                                         *)
(* The segments are sequences of cells that remember where they come from, *)
(* a cell with a hole being as wide as the hole.  Link is a sequence of    *)
(* steps, one per file that it includes and one per loop over the included *)
(* files; what one loop does to several files is independent of their      *)
(* order in the table.                                                     *)
(***************************************************************************)
EXTENDS BinaryLiterals, Graphs

CONSTANTS
  W,              (* number of u64 values                                  *)
  Programs,       (* the lists of object files that are linked             *)
  Entries,        (* entry points asked for,                               *)
  IllegalNames,   (* those of them that are no legal symbol names          *)
  Values,         (* the binary literals that may be provisioned,          *)
  MaxLiterals,    (* bound on how many are, by the number of files         *)
  Junk            (* what is found past the end of a table                 *)

Stored == {"TEXT", "RODATA", "DATA"}
Segments == Stored \cup {"BSS"}

(* A symbol is a label, at an offset of a segment of its file or at its    *)
(* end, or another symbol; a hole is a place in a segment where a symbol's *)
(* value belongs.  No two are at one place.                                *)
Definition == ({"label"} \X Segments \X Nat) \cup ({"alias"} \X STRING)
IsObjectFile(f) ==
  /\ DOMAIN f = {"GlobalSymbols", "ExternalSymbols", "Symbols", "align", "size", "holes", "clean"}
  /\ f.GlobalSymbols \cup f.ExternalSymbols \cup DOMAIN f.Symbols \subseteq STRING
  /\ IsFiniteSet(f.ExternalSymbols) /\ IsFiniteSet(DOMAIN f.Symbols)
  /\ \A n \in DOMAIN f.Symbols : f.Symbols[n] \in Definition
  /\ f.align \in [Segments -> Nat \ {0}] /\ f.size \in [Segments -> Nat]
  /\ \A n \in DOMAIN f.Symbols : f.Symbols[n][1] = "label" => f.Symbols[n][3] <= f.size[f.Symbols[n][2]]
  /\ f.holes \subseteq Stored \X Nat \X STRING
  /\ \A h \in f.holes : h[2] < f.size[h[1]]
  /\ \A h, i \in f.holes : h[1] = i[1] /\ h[2] = i[2] => h = i
  /\ f.clean \in BOOLEAN

Reserved == {"__heap__"}

ASSUME LinkerAssumption ==
  /\ W \in Nat \ {0}
  /\ Values \subseteq Seq(Bytes) \ {<<>>}
  /\ \A p \in Programs : p \in Seq(ToSet(p)) /\ MaxLiterals[Len(p)] \in Nat
  /\ Junk \subseteq Nat
  /\ \A p \in Programs : \A f \in DOMAIN p : IsObjectFile(p[f])
  /\ IllegalNames \subseteq Entries /\ Entries \subseteq STRING

(* Alignments are powers of two, so that one of two divides the other.     *)
ASSUME AlignmentAssumption ==
  \A p \in Programs : \A f, g \in DOMAIN p, s \in Segments :
    p[f].align[s] % p[g].align[s] = 0 \/ p[g].align[s] % p[f].align[s] = 0

(* What some files of a program may take of the bss, with the padding      *)
(* before each.  Nothing in the code keeps the sum below W: theorems that  *)
(* need this name it.                                                      *)
BssRooms(p, some) ==
  LET room[n \in 0 .. Len(p)] ==
        IF n = 0 THEN 0
        ELSE room[n - 1] + IF n \in some THEN p[n].size["BSS"] + p[n].align["BSS"] - 1 ELSE 0
  IN room
BssRoom(p, some) == BssRooms(p, some)[Len(p)]
BssFits == \A p \in Programs : BssRoom(p, DOMAIN p) < W - 1

VARIABLES
  phase,              (* how far Link has come                             *)
  error,              (* the LinkError it ended with                       *)
  objs,               (* the object files,                                 *)
  collections,        (* their binary literals                             *)
  include_queue,
  included,           (* where the segments of a file begin in the total's *)
  segments, bsslen,
  total_literals,
  locations,          (* where a file's literals are in total_literals,    *)
  places,             (* and in the rodata segment                         *)
  origins,            (* where the segments begin, and the heap            *)
  externals,          (* values of the external symbols of a file          *)
  program, provided   (* history: the files and literals as assembled      *)

literalVars == <<collections, total_literals, locations, places>>
layoutVars == <<included, segments, bsslen, origins, externals>>
history == <<program, provided>>
vars == <<phase, error, objs, literalVars, include_queue, layoutVars, history>>

Files == DOMAIN objs
Included == DOMAIN included

-----------------------------------------------------------------------------

(* The object files as they are assembled or loaded, without literals yet. *)
Init ==
  /\ program \in Programs /\ objs = program
  /\ phase = "assembling" /\ error = "None"
  /\ collections = [f \in Files |-> NoLiterals] /\ provided = [f \in Files |-> <<>>]
  /\ include_queue = <<>> /\ included = <<>>
  /\ segments = [s \in Stored |-> <<>>] /\ bsslen = 0
  /\ total_literals = NoLiterals /\ locations = <<>> /\ places = <<>>
  /\ origins = <<>> /\ externals = <<>>

(* The assembler meets a binary literal in file f, whose token gets the    *)
(* index that add answers.                                                 *)
Provision(f, value) ==
  /\ phase = "assembling"
  /\ MapThenSumSet(LAMBDA g : Len(provided[g]), Files) < MaxLiterals[Len(objs)]
  /\ LET a == Added(collections[f], value)
     IN /\ collections' = [collections EXCEPT ![f] = a.c]
        /\ provided' = [provided EXCEPT ![f] = Append(@, [value |-> value, index |-> a.index])]
  /\ UNCHANGED <<phase, error, objs, total_literals, locations, places, include_queue,
                 layoutVars, program>>

-----------------------------------------------------------------------------
(* Link: arguments.                                                        *)

Fails(e) ==
  /\ phase' = "failed" /\ error' = e
  /\ UNCHANGED <<literalVars, include_queue, layoutVars, history>>
Goes(to) == phase' = to /\ UNCHANGED <<error, history>>

Renamed(f, from, to) ==
  LET Name(n) == IF n = from THEN to ELSE n
  IN [f EXCEPT !.ExternalSymbols = {Name(n) : n \in @},
               !.Symbols = [n \in DOMAIN @ |-> IF @[n][1] = "alias" THEN <<"alias", Name(@[n][2])>> ELSE @[n]],
               !.holes = {<<h[1], h[2], Name(h[3])>> : h \in @}]
CanRename(f, to) == to \notin DOMAIN f.Symbols \cup f.ExternalSymbols

StartFile == objs[1]
Refusal(entry_point) ==
  CASE entry_point \in IllegalNames -> "FormatError"
    [] entry_point \notin IllegalNames /\ objs = <<>> -> "EmptyResult"
    [] OTHER -> IF \E f \in Files : ~objs[f].clean THEN "DirtyError"
                ELSE IF "_start" \notin StartFile.ExternalSymbols THEN "FormatError"
                ELSE "None"

RefuseArguments(entry_point) ==
  /\ phase = "assembling" /\ Refusal(entry_point) # "None"
  /\ Fails(Refusal(entry_point)) /\ UNCHANGED objs

(* The _start file refers to the entry point as _start.                    *)
RenameStart(entry_point) ==
  /\ phase = "assembling" /\ Refusal(entry_point) = "None"
  /\ LET dirty == [StartFile EXCEPT !.clean = FALSE]
     IN IF CanRename(StartFile, entry_point)
        THEN /\ objs' = [objs EXCEPT ![1] = Renamed(dirty, "_start", entry_point)]
             /\ Goes("renamed") /\ UNCHANGED <<literalVars, include_queue, layoutVars>>
        ELSE objs' = [objs EXCEPT ![1] = dirty] /\ Fails("FormatError")

(* The first file with a bad global ends it; which of its bad globals is   *)
(* met first is open.                                                      *)
Undefined(f) == objs[f].GlobalSymbols \ DOMAIN objs[f].Symbols
Redefined(f) == objs[f].GlobalSymbols \cap UNION {objs[g].GlobalSymbols : g \in 1 .. (f - 1)}
BadGlobals == {f \in Files : Undefined(f) \cup Redefined(f) # {}}
DefinesReserved == \E f \in Files : Reserved \cap DOMAIN objs[f].Symbols # {}

CheckGlobals ==
  /\ phase = "renamed" /\ UNCHANGED objs
  /\ IF BadGlobals # {}
     THEN \/ Undefined(Min(BadGlobals)) # {} /\ Fails("MissingSymbol")
          \/ Redefined(Min(BadGlobals)) \ Undefined(Min(BadGlobals)) # {} /\ Fails("SymbolRedefinition")
     ELSE IF DefinesReserved THEN Fails("SymbolRedefinition")
     ELSE /\ include_queue' = <<1>> /\ Goes("merging")
          /\ UNCHANGED <<literalVars, layoutVars>>

-----------------------------------------------------------------------------
(* Link: merging.                                                          *)

\* Mutant: sums of lengths never wrap.
u64Unbounded(n) == n

u64(n) == n % W

AlignOffset(address, size) == (size - (address % size)) % size
Pad == <<"pad">>
Padded(s, count) == s \o [k \in 1 .. count |-> Pad]
Aligned(s, size) == Padded(s, AlignOffset(Len(s), size))

Cells(f, seg) == [k \in 1 .. objs[f].size[seg] |-> <<"cell", f, seg, k - 1, 0>>]

Exporters(name) == {f \in Files : name \in objs[f].GlobalSymbols}
Sources(f) == UNION {Exporters(x) : x \in objs[f].ExternalSymbols}
Missing(f) == \E x \in objs[f].ExternalSymbols : Exporters(x) = {}

(* A table of the included files with a line for f, unless it has one.     *)
Entered(table, f, line) ==
  [g \in DOMAIN table \cup {f} |-> IF g \in DOMAIN table THEN table[g] ELSE line]

(* The literals of a file: its top level literals are added one by one,    *)
(* what each became is put down, and the ranges are changed by that.       *)
MergedTops(total, tops) ==
  LET merged[n \in 0 .. Len(tops)] ==
        IF n = 0 THEN [c |-> total, fix |-> <<>>]
        ELSE LET a == Added(merged[n - 1].c, tops[n])
             IN [c |-> a.c, fix |-> Append(merged[n - 1].fix, a.c.literals[a.index])]
  IN merged[Len(tops)]
FixedRange(lit, fix) ==
  LET to == fix[lit.top_level_index] IN Shifted(lit, to.top_level_index, to.start)
MergedLiterals(total, own) ==
  LET tops == MergedTops(total, own.top_level_literals)
      merged[n \in 0 .. Len(own.literals)] ==
        IF n = 0 THEN [c |-> tops.c, at |-> <<>>]
        ELSE LET w == With(merged[n - 1].c, FixedRange(own.literals[n], tops.fix))
             IN [c |-> w.c, at |-> Append(merged[n - 1].at, w.index)]
  IN merged[Len(own.literals)]

MergeLiterals(f) ==
  LET m == MergedLiterals(total_literals, collections[f])
  IN /\ total_literals' = m.c
     /\ locations' = Entered(locations, f, m.at)
     /\ collections' = [collections EXCEPT ![f] = NoLiterals]
     /\ UNCHANGED places

Appended(f) ==
  LET start == [s \in Stored |-> Aligned(segments[s], objs[f].align[s])]
      bss == u64(bsslen + AlignOffset(bsslen, objs[f].align["BSS"]))
  IN /\ included' = Entered(included, f,
                            [s \in Segments |-> IF s = "BSS" THEN bss ELSE Len(start[s])])
     /\ segments' = [s \in Stored |-> start[s] \o Cells(f, s)]
     /\ bsslen' = u64(bss + objs[f].size["BSS"])

\* Mutant: the files in the queue are forgotten.
QueuedAlone(f, order) == order

(* The files that define the externals of f join the queue.                *)
Queued(f, order) == Tail(include_queue) \o order
Waiting(f) == Sources(f) \ (Included \cup {f} \cup ToSet(include_queue))

\* Mutant: only the _start file is marked dirty.
MadeDirtyStart(f) == UNCHANGED objs

MadeDirty(f) == objs' = [objs EXCEPT ![f].clean = FALSE]

IncludeFile ==
  /\ phase = "merging" /\ include_queue # <<>>
  /\ LET f == Head(include_queue)
     IN /\ MadeDirty(f)
        /\ IF Missing(f) THEN Fails("MissingSymbol")
           ELSE /\ \E order \in SetToSeqs(Waiting(f)) : include_queue' = Queued(f, order)
                /\ Appended(f) /\ MergeLiterals(f)
                /\ UNCHANGED <<phase, error, origins, externals, history>>

(* The top level literals go to the end of rodata, one after another, and  *)
(* every literal to where its range is there.                              *)
OffsetOf(top) ==
  Len(segments["RODATA"])
    + MapThenSumSet(LAMBDA k : Len(total_literals.top_level_literals[k]), 1 .. (top - 1))
LiteralCells ==
  FlattenSeq([k \in DOMAIN total_literals.top_level_literals |->
    [n \in DOMAIN total_literals.top_level_literals[k] |->
       <<"byte", total_literals.top_level_literals[k][n]>>]])
PlaceOf(lit, junk) ==
  lit.start + IF lit.top_level_index \in DOMAIN total_literals.top_level_literals
              THEN OffsetOf(lit.top_level_index) ELSE junk

PlaceLiterals ==
  /\ phase = "merging" /\ include_queue = <<>>
  /\ \E junk \in Junk :
       places' = [f \in Included |->
         [i \in DOMAIN locations[f] |-> PlaceOf(total_literals.literals[locations[f][i]], junk)]]
  /\ segments' = [segments EXCEPT !["RODATA"] = @ \o LiteralCells]
  /\ Goes("placed")
  /\ UNCHANGED <<objs, collections, total_literals, locations, include_queue,
                 included, bsslen, origins, externals>>

-----------------------------------------------------------------------------
(* Link: values.                                                           *)

Unknown == -1

(* The value of a symbol in file f; one that is defined by itself has none. *)
Place(f, label) == u64(origins[label[2]] + included[f][label[2]] + label[3])
Evaluate(f, name) ==
  LET symbols == objs[f].Symbols
      value[visited \in SUBSET DOMAIN symbols] ==
        [n \in STRING |->
           IF n \in Reserved THEN origins["heap"]
           ELSE IF n \in DOMAIN symbols \ visited
           THEN IF symbols[n][1] = "label" THEN Place(f, symbols[n])
                ELSE value[visited \cup {n}][symbols[n][2]]
           ELSE IF n \in DOMAIN externals[f] THEN externals[f][n]
           ELSE Unknown]
  IN value[{}][name]

\* Mutant: a segment is padded to its own alignment.
FollowingOwn(seg) == seg

(* A segment is padded so that the one after it begins aligned.            *)
Following(seg) == CASE seg = "TEXT" -> "RODATA" [] seg = "RODATA" -> "DATA" [] OTHER -> "BSS"
Alignment(seg) == Max({1} \cup {objs[f].align[seg] : f \in Included})

DefineOrigins ==
  LET t == Aligned(segments["TEXT"], Alignment(Following("TEXT")))
      rodata == Len(t)
      r == Padded(segments["RODATA"],
                  AlignOffset(rodata + Len(segments["RODATA"]), Alignment(Following("RODATA"))))
      data == rodata + Len(r)
      d == Padded(segments["DATA"],
                  AlignOffset(data + Len(segments["DATA"]), Alignment(Following("DATA"))))
      bss == data + Len(d)
      bytes == u64(bsslen + AlignOffset(u64(bss + bsslen), 2))
  IN /\ phase = "placed" /\ Goes("laid out")
     /\ segments' = [TEXT |-> t, RODATA |-> r, DATA |-> d] /\ bsslen' = bytes
     /\ origins' = [TEXT |-> 0, RODATA |-> rodata, DATA |-> data, BSS |-> bss,
                    heap |-> u64(bss + bytes)]
     /\ externals' = [f \in Included |-> <<>>]
     /\ UNCHANGED <<objs, literalVars, include_queue, included>>

(* Globals must have a value within their file, and externals none.        *)
EvaluateGlobals ==
  /\ phase = "laid out" /\ UNCHANGED objs
  /\ IF \E f \in Included : \E g \in objs[f].GlobalSymbols : Evaluate(f, g) = Unknown
     THEN Fails("MissingSymbol")
     ELSE Goes("evaluated") /\ UNCHANGED <<literalVars, include_queue, layoutVars>>

Exporter(name) == CHOOSE f \in Exporters(name) : TRUE
DefineExternals ==
  /\ phase = "evaluated" /\ UNCHANGED objs
  /\ IF \E f \in Included : objs[f].ExternalSymbols \cap DOMAIN objs[f].Symbols # {}
     THEN Fails("SymbolRedefinition")
     ELSE /\ externals' = [f \in Included |->
               [x \in objs[f].ExternalSymbols |-> Evaluate(Exporter(x), x)]]
          /\ Goes("defined")
          /\ UNCHANGED <<literalVars, include_queue, included, segments, bsslen, origins>>

(* Every hole gets the value of its symbol.                                *)
HoleAt(f, h) == included[f][h[1]] + h[2] + 1
Holes == UNION {{f} \X objs[f].holes : f \in Included}
Fillings(s, k) ==
  {Evaluate(p[1], p[2][3]) : p \in {q \in Holes : q[2][1] = s /\ HoleAt(q[1], q[2]) = k}}
Filled(s, k) ==
  IF Fillings(s, k) = {} THEN segments[s][k]
  ELSE [segments[s][k] EXCEPT ![5] = CHOOSE v \in Fillings(s, k) : TRUE]

FixAllHoles ==
  /\ phase = "defined" /\ UNCHANGED objs
  /\ IF \E p \in Holes : Evaluate(p[1], p[2][3]) = Unknown
     THEN Fails("MissingSymbol")
     ELSE /\ segments' = [s \in Stored |-> [k \in DOMAIN segments[s] |-> Filled(s, k)]]
          /\ Goes("patched")
          /\ UNCHANGED <<literalVars, include_queue, included, bsslen, origins, externals>>

(* The executable, unless the sum of its segments overflows.               *)
construct ==
  /\ phase = "patched" /\ UNCHANGED objs
  /\ IF origins["BSS"] + bsslen >= W THEN Fails("FormatError")
     ELSE Goes("linked") /\ UNCHANGED <<literalVars, include_queue, layoutVars>>

Link ==
  \/ \E e \in Entries : RefuseArguments(e) \/ RenameStart(e)
  \/ CheckGlobals \/ IncludeFile \/ PlaceLiterals
  \/ DefineOrigins \/ EvaluateGlobals \/ DefineExternals \/ FixAllHoles \/ construct

Next == (\E f \in Files, value \in Values : Provision(f, value)) \/ Link

Spec == Init /\ [][Next]_vars

-----------------------------------------------------------------------------
(* Properties.                                                             *)

Phases == {"assembling", "renamed", "merging", "placed", "laid out", "evaluated", "defined",
           "patched", "linked", "failed"}
Errors == {"None", "FormatError", "EmptyResult", "DirtyError", "MissingSymbol",
           "SymbolRedefinition"}

(* The types.  What Link adds up in 64 bits is a u64, and in an executable *)
(* every origin is.                                                        *)
TypeOK ==
  /\ phase \in Phases /\ error \in Errors /\ (phase = "failed" <=> error # "None")
  /\ \A f \in Files : IsObjectFile(objs[f]) /\ collections[f] \in Collection
  /\ total_literals \in Collection /\ bsslen \in 0 .. (W - 1)
  /\ ToSet(include_queue) \cup Included \subseteq Files
  /\ \A o \in DOMAIN origins : origins[o] \in Nat /\ (o = "heap" \/ phase = "linked" => origins[o] < W)
  /\ \A f \in Included : included[f] \in [Segments -> Nat] /\ included[f]["BSS"] < W

(* While files are assembled, the index that each literal of a file got,   *)
(* whatever was added after it, is that of a range with its bytes:         *)
(* BinaryLiteralCollection::add.                                           *)
LiteralsDenote ==
  phase = "assembling" =>
    \A f \in Files : \A k \in DOMAIN provided[f] :
      LET lit == collections[f].literals[provided[f][k].index]
      IN Proper(collections[f], lit) /\ Denoted(collections[f], lit) = provided[f][k].value

(* No top level literal could be shared with another ("stored in the most  *)
(* compact way possible with maximum sharing", Assembly.h:86), in a file   *)
(* or in the total of Link.                                                *)
MaximallyShared ==
  \A c \in {collections[f] : f \in Files} \cup {total_literals} :
    \A i, j \in DOMAIN c.top_level_literals :
      i # j => ~Within(c.top_level_literals[i], c.top_level_literals[j])

(* The nodes of a graph that one leads to, itself included.                *)
Reached(G, n) ==
  LET within[k \in 0 .. Cardinality(G.node)] ==
        IF k = 0 THEN {n} ELSE within[k - 1] \cup AllSuccessors(G, within[k - 1])
  IN within[Cardinality(G.node)]

(* What a symbol of a file stands for by its definitions: the closure of   *)
(* aliases within a file and of externals to the file that exports them.   *)
Names(f) == DOMAIN objs[f].Symbols \cup objs[f].ExternalSymbols \cup Reserved
IsLabel(n) == n[2] \in DOMAIN objs[n[1]].Symbols /\ objs[n[1]].Symbols[n[2]][1] = "label"
References ==
  [node |-> UNION {{f} \X Names(f) : f \in Files},
   edge |->
     (UNION {{<<<<f, n>>, <<f, objs[f].Symbols[n][2]>>>> :
                n \in {m \in DOMAIN objs[f].Symbols : ~IsLabel(<<f, m>>)}} : f \in Files})
     \cup (UNION {{<<<<f, x>>, <<g, x>>>> : x \in objs[f].ExternalSymbols \cap objs[g].GlobalSymbols} :
                    f \in Files, g \in Files})]

Image == segments["TEXT"] \o segments["RODATA"] \o segments["DATA"]
BssFrom(f) == origins["BSS"] + included[f]["BSS"]
BssOf(f) == BssFrom(f) .. (BssFrom(f) + objs[f].size["BSS"] - 1)
Holds(from, g, seg) ==
  /\ from % objs[g].align[seg] = 0
  /\ IF seg = "BSS" THEN from = BssFrom(g)
     ELSE \A k \in 0 .. (objs[g].size[seg] - 1) :
            SubSeq(Image[from + k + 1], 1, 4) = <<"cell", g, seg, k>>
Reaches(address, g, label) == Holds(address - label[3], g, label[2])

(* In an executable every hole holds the address of what its symbol labels *)
(* in the file that defines it, whose segment is there, aligned as that    *)
(* file asked, or of the heap; the bss of the files lies apart, after all  *)
(* that is stored, and the heap begins after it, on an even address: Link  *)
(* as a whole.                                                             *)
ReferencesResolve ==
  phase = "linked" =>
    /\ \A p \in Holes :
         LET address == segments[p[2][1]][HoleAt(p[1], p[2])][5]
         IN \E t \in Reached(References, <<p[1], p[2][3]>>) :
              IF t[2] \in Reserved THEN address = origins["heap"]
              ELSE IsLabel(t) /\ Reaches(address, t[1], objs[t[1]].Symbols[t[2]])
    /\ \A f \in Included : BssOf(f) \subseteq Len(Image) .. (origins["heap"] - 1)
    /\ \A f, g \in Included : f # g => BssOf(f) \cap BssOf(g) = {}
    /\ origins["heap"] % 2 = 0

(* Link includes the _start file and the files it needs, directly or not,  *)
(* and no other: the include queue.                                        *)
Needs ==
  [node |-> Files,
   edge |-> {e \in Files \X Files :
               objs[e[1]].ExternalSymbols \cap objs[e[2]].GlobalSymbols # {}}]
IncludedAsNeeded ==
  phase \in Phases \ {"assembling", "renamed", "merging", "failed"} =>
    Included = Reached(Needs, 1)

(* A file that Link leaves clean is as it was ("Any files that are still   *)
(* clean may be reused", Assembly.h:294).                                  *)
CleanUntouched ==
  [][phase # "assembling" \/ phase' # "assembling" =>
       \A f \in Files : objs'[f].clean =>
         objs[f].clean /\ objs'[f] = objs[f] /\ collections'[f] = collections[f]]_vars

(* In an executable the address of a literal is that of its bytes          *)
(* ("construct the expr to alias the correct location in the rodata        *)
(* segment", Assembly.cpp:948).                                            *)
LiteralsResolve ==
  phase = "linked" =>
    \A f \in Included : \A k \in DOMAIN provided[f] :
      LET from == origins["RODATA"] + places[f][provided[f][k].index]
      IN \A n \in DOMAIN provided[f][k].value :
           from + n \in DOMAIN Image /\ Image[from + n] = <<"byte", provided[f][k].value[n]>>

=============================================================================
