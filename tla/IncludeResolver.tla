--------------------------- MODULE IncludeResolver ---------------------------
(***************************************************************************)
(* Which file an include means: the index of the project's paths            *)
(* (src/src/scan/project_files.cpp), its lookup (include_resolver.cpp) and  *)
(* the report of quoted includes that find nothing                          *)
(* (local_include_scan.cpp).  `files` is the set of the indexed paths; the  *)
(* code numbers them and looks a number up again.                           *)
(***************************************************************************)
EXTENDS Naturals, Sequences, FiniteSets, SequencesExt

CONSTANTS
    kMirrorPrefixes,    \* directories, as sequences of names, that hold copies of headers
    SystemHeaders,      \* names without extension, and those of kStdCHeaders
    ToLower,            \* name -> the name in lower case
    SortedPaths         \* every path there can be, in the order of their spelling

ASSUME SortedPathsAssumption == SortedPaths \in Seq(Seq(STRING))

\* The suffixes that add_suffixes indexes a path under.
PathSuffixes(path) == {SubSeq(path, i, Len(path)) : i \in DOMAIN path}
find_suffix(files, token) == {p \in files : token \in PathSuffixes(p)}

source_directory(path) == Front(path)

\* "." and ".." are resolved, except for ".." that leave the project.
normalize_relative(path) ==
    LET Step(acc, name) ==
            IF name = "." THEN acc
            ELSE IF name = ".." /\ acc # << >> /\ Last(acc) # ".." THEN Front(acc)
            ELSE Append(acc, name)
    IN FoldLeft(Step, << >>, path)

is_mirror_dir_path(path) ==
    \E prefix \in kMirrorPrefixes : \E i \in 1..(Len(path) - Len(prefix)) :
        SubSeq(path, i, i + Len(prefix) - 1) = prefix

is_system_header(token) == Len(token) = 1 /\ token[1] \in SystemHeaders

-----------------------------------------------------------------------------
\* What becomes of an include: a file of the project, several, or none.
Project(path) == [resolution |-> "Project", target |-> path]
Ambiguous == [resolution |-> "Ambiguous", target |-> << >>]
Tagged(miss) == [resolution |-> miss, target |-> << >>]
Miss(d) == IF d.kind = "Quote" THEN "Unresolved" ELSE "External"

TheOnly(S) == CHOOSE x \in S : TRUE

resolve_by_suffix(d, files) ==
    LET candidates == find_suffix(files, d.token)
        preferred == {p \in candidates : ~is_mirror_dir_path(p)}
    IN CASE candidates = {} -> Tagged(Miss(d))
         [] Cardinality(candidates) = 1 -> Project(TheOnly(candidates))
         [] Cardinality(candidates) > 1 /\ Cardinality(preferred) = 1 -> Project(TheOnly(preferred))
         [] OTHER -> Ambiguous

resolve_quote(d, source, files) ==
    LET relative == normalize_relative(source_directory(source) \o d.token)
    IN CASE relative \in files -> Project(relative)
         [] relative \notin files /\ d.token \in files -> Project(d.token)
         [] OTHER -> resolve_by_suffix(d, files)

resolve_angle(d, files) ==
    CASE is_system_header(d.token) -> Tagged("External")
      [] ~is_system_header(d.token) /\ d.token \in files -> Project(d.token)
      [] OTHER -> resolve_by_suffix(d, files)

\* A file never depends on itself.
resolveInclude(d, source, files) ==
    LET resolved == IF d.kind = "Quote" THEN resolve_quote(d, source, files)
                    ELSE resolve_angle(d, files)
    IN IF resolved.resolution = "Project" /\ resolved.target = source
       THEN Tagged(Miss(d)) ELSE resolved

-----------------------------------------------------------------------------
(* The report of quoted includes.  universe is NoUniverse, or the files of  *)
(* the enclosing repository and the place of the scanned directory in it.   *)

NoUniverse == [prefix |-> << >>, files |-> {}]

LowerPath(path) == [i \in DOMAIN path |-> ToLower[path[i]]]

\* The first path, in the order of spelling, that has the token as a suffix if
\* case is ignored; << >> if there is none.
ci_match(files, token) ==
    LET at == {i \in DOMAIN SortedPaths :
                  /\ SortedPaths[i] \in files
                  /\ LowerPath(token) \in PathSuffixes(LowerPath(SortedPaths[i]))}
    IN IF at = {} THEN << >> ELSE SortedPaths[Min(at)]

\* Mutant: the enclosing repository is not asked.
exact_case_existsHere(d, source, files, universe) == find_suffix(files, d.token) # {}

exact_case_exists(d, source, files, universe) ==
    \/ find_suffix(files, d.token) # {}
    \/ find_suffix(universe.files, d.token) # {}
    \/ normalize_relative(universe.prefix \o source_directory(source) \o d.token) \in universe.files

Silent == [kind |-> "Silent", match |-> << >>]

\* What is reported of one include: nothing, a case mismatch, or that it is
\* unresolved.
classify(d, source, files, universe) ==
    IF \/ d.kind # "Quote"
       \/ resolveInclude(d, source, files).resolution # "Unresolved"
       \/ exact_case_exists(d, source, files, universe)
    THEN Silent
    ELSE LET here == ci_match(files, d.token)
             match == IF here # << >> THEN here ELSE ci_match(universe.files, d.token)
         IN [kind |-> IF match # << >> THEN "CaseMismatch" ELSE "Unresolved", match |-> match]
=============================================================================
