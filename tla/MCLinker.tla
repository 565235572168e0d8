------------------------------ MODULE MCLinker ------------------------------
(***************************************************************************)
(* Lists of up to three object files for Linker.  A _start file, whose     *)
(* text refers to _start, comes first.                                     *)
(***************************************************************************)
EXTENDS Linker, TLC

Sizes(text, rodata, data, bss) == [TEXT |-> text, RODATA |-> rodata, DATA |-> data, BSS |-> bss]
Label(seg, offset) == <<"label", seg, offset>>
Alias(name) == <<"alias", name>>
File(exports, imports, symbols, size, align, holes) ==
  [GlobalSymbols |-> exports, ExternalSymbols |-> imports, Symbols |-> symbols,
   size |-> size, align |-> align, holes |-> holes, clean |-> TRUE]

Unaligned == Sizes(1, 1, 1, 1)
Start == File({}, {"_start"}, <<>>, Sizes(2, 0, 0, 0), Unaligned, {<<"TEXT", 1, "_start">>})

(* Text that refers to a buffer of another file, which refers back, and to *)
(* the end of a table.                                                     *)
Main == File({"main"}, {"buf"}, "main" :> Label("TEXT", 1) @@ "tab" :> Label("RODATA", 3),
             Sizes(3, 3, 0, 1), Sizes(1, 2, 1, 1), {<<"TEXT", 0, "buf">>, <<"TEXT", 2, "tab">>})
Buf == File({"buf"}, {"main"}, "buf" :> Label("BSS", 4) @@ "top" :> Alias("__heap__"),
            Sizes(0, 1, 3, 5), Sizes(1, 1, 4, 4), {<<"DATA", 0, "main">>, <<"DATA", 2, "top">>})
(* An entry point that is another name of a datum.                         *)
AliasMain == File({"main"}, {}, "main" :> Alias("entry") @@ "entry" :> Label("DATA", 2),
                  Sizes(1, 1, 4, 0), Sizes(4, 1, 2, 1), {})
Spare == File({"spare"}, {}, "spare" :> Label("TEXT", 0), Sizes(1, 1, 1, 1), Unaligned, {})

Bare == File({}, {}, <<>>, Sizes(1, 0, 0, 0), Unaligned, {})
TextMain == [Bare EXCEPT !.GlobalSymbols = {"main"}, !.Symbols = "main" :> Label("TEXT", 0)]

Lists == {
  <<Start, Main, Buf>>, <<Start, Buf, Main>>, <<Start, AliasMain, Spare>>, <<Start, TextMain>>,
  <<[Start EXCEPT !.ExternalSymbols = @ \cup {"spare"}], TextMain, Spare>>,
  \* One file alone, and entry points that it has already.
  <<[Start EXCEPT !.GlobalSymbols = {"main"}, !.Symbols = "main" :> Label("TEXT", 0)]>>,
  \* Nothing, a file linked before, and one that does not import _start.
  <<>>, <<Start, [TextMain EXCEPT !.clean = FALSE]>>, <<Bare>>,
  \* An import that no file exports.
  <<Start, Main>>,
  \* Two exports of a name, one that is undefined, and a reserved name.
  <<Start, TextMain, TextMain>>, <<Start, [TextMain EXCEPT !.Symbols = <<>>]>>,
  <<Start, TextMain, [TextMain EXCEPT !.GlobalSymbols = {"main", "spare"}]>>,
  <<Start, [TextMain EXCEPT !.Symbols = @ @@ "__heap__" :> Label("TEXT", 0)]>>,
  \* An export by an import, one by itself, and an import defined within.
  <<Start, [TextMain EXCEPT !.ExternalSymbols = {"spare"}, !.Symbols = "main" :> Alias("spare")], Spare>>,
  <<Start, [TextMain EXCEPT !.Symbols = "main" :> Alias("main")]>>,
  <<Start, [TextMain EXCEPT !.ExternalSymbols = {"spare"}, !.Symbols = @ @@ "spare" :> Label("TEXT", 0)], Spare>>,
  \* A hole without a value, and more bss than there are addresses.
  <<Start, [TextMain EXCEPT !.holes = {<<"TEXT", 0, "none">>}]>>,
  <<Start, [TextMain EXCEPT !.size["BSS"] = W - 2]>>}

(* Two files, for the literals of several.                                 *)
Two == {<<Start, TextMain>>}

(* More literals where there are fewer files.                              *)
Few == [n \in 0 .. 3 |-> 5 - n]
Four == [n \in {2} |-> 4]

Parts == {<<1>>, <<2>>, <<3>>, <<1, 2>>, <<1, 2, 3>>}
Pairs == {<<1>>, <<2>>, <<3>>, <<1, 2>>}
=============================================================================
