---------------------------- MODULE MCSourceTree ----------------------------
(***************************************************************************)
(* Model checking of SourceTree on a repository called "fmt", a name of a   *)
(* curated library, with up to five of its files.                           *)
(***************************************************************************)
EXTENDS SourceTree

Names == {"src", "fmt", "test", "dist", "legacy", "archcheck-worktree", "a.h", "A.h", "c.h", "C.h",
          "main.cpp", "t.h", "cmake-build-x.h"}
MCNormalized == [n \in Names |-> IF n = "archcheck-worktree" THEN "archcheckworktree" ELSE n]
MCToLower == [n \in Names \cup {".."} |-> CASE n = "A.h" -> "a.h" [] n = "C.h" -> "c.h" [] OTHER -> n]

SrcA == <<"src", "a.h">>
SrcMain == <<"src", "main.cpp">>
FmtC == <<"fmt", "c.h">>
TestT == <<"test", "t.h">>
DistA == <<"dist", "a.h">>
CmakeX == <<"cmake-build-x.h">>

MCSortedPaths == <<<<"a.h">>, <<"c.h">>, CmakeX, DistA, FmtC, <<"main.cpp">>, SrcA, SrcMain, <<"t.h">>, TestT>>

Quote(token) == [kind |-> "Quote", token |-> token]
MCIncludes ==
    ("#include a.h" :> Quote(<<"a.h">>)) @@ ("#include A.h" :> Quote(<<"A.h">>))
    @@ ("#include ../fmt/c.h" :> Quote(<<"..", "fmt", "c.h">>)) @@ ("#include C.h" :> Quote(<<"C.h">>))
    @@ ("#include main.cpp" :> Quote(<<"src", "main.cpp">>))
    @@ ("#include <c.h>" :> [kind |-> "Angle", token |-> <<"c.h">>])

File(text, head) == [text |-> text, head |-> head, atGenerated |-> "none", size |-> 1, newlines |-> 0,
                     link |-> "none"]
MCContents ==
    (SrcA :> {File(<< >>, {}), File(<<<<"#ifndef G">>, <<"#define G">>>>, {"license"})})
    @@ (SrcMain :> {File(<<<<"#include a.h">>, <<"#if">>, <<"#include <c.h>">>>>, {"license"}),
                    File(<<<<"#include A.h">>, <<"#include C.h">>>>, {}),
                    [File(<<<<"#include ../fmt/c.h">>>>, {}) EXCEPT !.link = "inside"]})
    @@ (FmtC :> {File(<<<<"#include main.cpp">>>>, {}),
                 File(<<<<"#include main.cpp">>>>, {"license"}),
                 [File(<<<<"#include a.h">>>>, {"license"}) EXCEPT !.size = 9]})
    @@ (TestT :> {File(<<<<"#include a.h">>>>, {"license"})})
    @@ (DistA :> {File(<< >>, {}), [File(<< >>, {}) EXCEPT !.link = "outside"],
                  [File(<< >>, {"license"}) EXCEPT !.atGenerated = "tag at the top"]})
    @@ (CmakeX :> {File(<<<<"#include a.h">>>>, {})})

MCVersionStem == ("fmt-10.1" :> "fmt")
MCMirrorPrefixes == {<<"dist">>, <<"release", "include">>}

MCClassification == [extraVendoredDirs |-> {"legacy"}, extraTestDirs |-> {}, extraGeneratedMarkers |-> {}]

\* Lines of every kind, and those of which a reader makes something else than
\* they say, with lines to go with them.
MCLines ==
    {{<<"#ifndef G">>, <<"#define G">>, <<"#endif">>, <<"#if">>, <<"#include a.h">>,
      <<"//", "/*">>, <<"/*">>, <<"using namespace", "*/">>, <<"{">>, <<"using namespace", "}">>,
      <<"code", "\\">>, <<"R(">>},
     {<<"{">>, <<"}", "using namespace">>, <<"using x", "using namespace">>,
      <<"using namespace", "{">>, <<"using namespacex">>,
      <<"#ifndef G">>, <<"# ifndef G">>, <<"#define G">>, <<"# define G">>}}
=============================================================================
