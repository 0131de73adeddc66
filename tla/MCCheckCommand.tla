--------------------------- MODULE MCCheckCommand ---------------------------
(***************************************************************************)
(* Model checking of CheckCommand on four files in three modules.  Two sets *)
(* of projects: those with conditional #includes, in every order, are       *)
(* checked as they are; those without are also saved and edited.            *)
(***************************************************************************)
EXTENDS CheckCommand

CONSTANTS
    MaxConditional,     \* #includes of a project with conditional ones
    MaxIncludes         \* #includes of a project without

MCareaOf == [p \in Path |-> CASE p \in {1, 2} -> "x" [] p = 3 -> "y" [] p = 4 -> "z"]
MCInlineSplits == {{1, 2}}
MCIssue == {[rule |-> "CASE_MISMATCH_INCLUDE", file |-> 1, line |-> 1],
            [rule |-> "UNRESOLVED_LOCAL_INCLUDE", file |-> 1, line |-> 2]}

Pairs(S) == {e \in S \X S : e[1] # e[2]}
Orders(S) == {s \in SeqOf(S, Cardinality(S)) : Len(s) = Cardinality(S) /\ IsInjective(s)}
Out(edges, v) == {e[2] : e \in {x \in edges : x[1] = v}}

\* The projects of three files with MaxConditional #includes, in every order.
Ordered == UNION {{[nodes |-> 1 .. 3, successors |-> <<s1, s2, s3>>, conditional |-> c] :
                      c \in SUBSET edges, s1 \in Orders(Out(edges, 1)),
                      s2 \in Orders(Out(edges, 2)), s3 \in Orders(Out(edges, 3))} :
                  edges \in kSubset(MaxConditional, Pairs(1 .. 3))}
PlainOn(n) == {[nodes |-> n, conditional |-> {},
                successors |-> [v \in n |-> SetToSortSeq(Out(edges, v), <)]] :
                   edges \in {e \in SUBSET Pairs(n) : Cardinality(e) <= MaxIncludes}}
MCProjects == Ordered \cup PlainOn(1 .. 3) \cup PlainOn(2 .. 4)

\* The projects with conditional #includes are checked, and compared with what a
\* save left of their graph.  A project is edited only after a save: one that is
\* edited before it is another project.  One file is saved at a time.  There is a
\* second edit where a graph was cut off: the first removes an #include, which may
\* be one that the file lost, and the second adds a file to one in each module.
Explored ==
    /\ project.conditional # {} => run'.mode \in {"check", "save graph", "drift"}
    /\ edits' > edits => violationFile # NoFile \/ graphFile # NoFile
    /\ edits' > edits /\ edits > 0 =>
           /\ graphFile.status = "readable" /\ graphFile.content # graphFile.whole
           /\ Cardinality(EdgesOf(project)) < Len(graphFile.whole[2])
           /\ project.nodes = 2 .. 4 /\ project'.nodes = Path
    /\ run'.mode \in {"save", "save graph"} => violationFile = NoFile /\ graphFile = NoFile
=============================================================================
