----------------------------- MODULE MCNewClones -----------------------------
(* Instances of NewClones: pieces of code, files and trees.                 *)
EXTENDS NewClones

MCOrder == <<"a", "b", "c", "d d", "e'">>

Head4(name) == <<"void", name, "(", ")", "{">>
Call(name) == <<Indent, name, "(", ")", ";">>

\* Two functions that are small enough to be compared whole, one of them in
\* other layouts; one too large; one with literals and names of its own.
MCChunks ==
    [F |-> <<Head4("f"), Call("g"), Call("h"), <<"}">> >>,
     Flat |-> <<Head4("f"), <<"g", "(", ")", ";", "h", "(", ")", ";">>, <<"}">> >>,
     Edited |-> <<Head4("f"), Call("g"), Call("k"), Call("h"), <<"}">> >>,
     K |-> <<Head4("k"), Call("l"), Call("m"), <<"}">> >>,
     Large |-> <<Head4("l"), Call("m"), Call("g"), Call("h"), Call("l"), Call("k"), <<"}">> >>,
     Loop |-> << <<"void", "m", "(", ")", "const", "{">>, <<"for", "(", ";", ";", ")", "{">>,
                 <<"x", "=", "1", ";">>, <<"k", "(", "x", ")", ";">>, <<"}">>, <<"}">> >>,
     Patch |-> << <<"x", "=", "R(">>, <<"++ b/b">>, <<"-- a/a">>, <<"++x">>, <<"--x">>, <<")R", ";">> >>,
     Dead |-> << <<"#if 0">>, Head4("f"), Call("g"), <<"#if">>, <<Indent, "#endif">>, <<"#endif">>, Call("h"), <<"}">>, <<"#endif">> >>]

MCRewrites ==
    [c \in DOMAIN MCChunks |->
        CASE c = "F" -> {"Flat", "Edited"} [] c = "Flat" -> {"F"} [] c = "Loop" -> {"Loop"} [] OTHER -> {}]

MCTexts == UNION {Range(MCChunks[c]) : c \in DOMAIN MCChunks}
MCPlusPlus == {<<"++ b/b">>, <<"++x">>}
MCMinusMinus == {<<"-- a/a">>, <<"--x">>}
MCPosed == (<<"++ b/b">> :> "b") @@ (<<"-- a/a">> :> "a")
MCTabbed == "d d" :> "d d\t"

MCCode(sym) ==
    CASE sym = "g" -> 3 [] sym = "h" -> 5 [] sym = "k" -> 11 [] sym = "(" -> 17 [] sym = ")" -> 19
      [] sym = ";" -> 23 [] sym = "id" -> 29 [] sym = "l" -> 41 [] sym = "m" -> 43 [] OTHER -> 31

MCBaselines ==
    {[tree |-> [a |-> <<"F", "K">>, b |-> <<"F">>], edits |-> 2],
     [tree |-> [a |-> <<"F", "Large">>, b |-> <<"Loop">>], edits |-> 2],
     [tree |-> [a |-> <<"Patch", "F">>, b |-> <<"K">>], edits |-> 1],
     [tree |-> ("d d" :> <<"F">>) @@ [a |-> <<"K">>], edits |-> 1],
     [tree |-> ("e'" :> <<"F">>) @@ [a |-> <<"K", "Dead">>], edits |-> 1]}
=============================================================================
