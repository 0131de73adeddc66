------------------------- MODULE FileClassification -------------------------
(***************************************************************************)
(* Which files count as the project's own: include/archcheck/scan/          *)
(* file_classification.h and authored_scope.h.                              *)
(*                                                                         *)
(* A path is a non-empty sequence of names, the last of them the file's.    *)
(* The tables of the code are constants, as are the two spellings that the  *)
(* code computes from a name.  A `registry` stands for the two process-wide *)
(* variables of the code: selfProjectDirStorage and                         *)
(* classificationExtrasStorage.                                             *)
(***************************************************************************)
EXTENDS Naturals, Sequences, FiniteSets

CONSTANTS
    Normalized,         \* directory name -> normalizeDirSegment(name)
    VersionStem,        \* normalised name with a dotted version -> what is before its digits
    kVendoredDirNames, kVendoredLibDirs, kTestDirNames,     \* normalised names
    CamelCaseTests,     \* names hasCamelCaseTestSuffix accepts
    kExcludedDirNames,  \* the names isExcludedDirName accepts: build, cmake-build-...
    VendoredBasenames, TestBasenames,   \* file names isVendoredBasename, isTestBasename accept
    GeneratedNames,     \* names that hold one of the generated markers
    kMinBytes, kSample, kAvgLineLenLimit

Registry == [selfProjectDir : STRING, vendoredDirs : SUBSET STRING,
             testDirs : SUBSET STRING, generatedMarkers : SUBSET STRING]

baseName(path) == path[Len(path)]

\* The file's own name is never tested.
pathAnyDirSegment(path, Pred(_)) == \E i \in 1..(Len(path) - 1) : Pred(path[i])

isExcludedDirName(name) == name \in kExcludedDirNames
pathHasExcludedSegment(path) == \E i \in DOMAIN path : isExcludedDirName(path[i])

normalizeDirSegment(name) == Normalized[name]
isVendoredBasename(name) == name \in VendoredBasenames
isTestBasename(name) == name \in TestBasenames

-----------------------------------------------------------------------------
\* A curated library does not count as vendored in its own repository.
isVendoredLibDirName(reg, norm) == norm # reg.selfProjectDir /\ norm \in kVendoredLibDirs

isVendoredDirName(reg, name) ==
    LET norm == normalizeDirSegment(name)
    IN \/ norm \in kVendoredDirNames \cup reg.vendoredDirs
       \/ isVendoredLibDirName(reg, norm)
       \/ norm \in DOMAIN VersionStem /\ isVendoredLibDirName(reg, VersionStem[norm])

isTestDirName(reg, name) ==
    name \in CamelCaseTests \/ normalizeDirSegment(name) \in kTestDirNames \cup reg.testDirs

\* "/generated/" wants a directory above it, the other markers do not.
isGeneratedPath(reg, path) ==
    \/ \E i \in DOMAIN path : path[i] \in GeneratedNames \cup reg.generatedMarkers
    \/ \E i \in 2..(Len(path) - 1) : normalizeDirSegment(path[i]) = "generated"

pathExcluded(reg, path) ==
    \/ pathAnyDirSegment(path, LAMBDA name : isVendoredDirName(reg, name))
    \/ pathAnyDirSegment(path, LAMBDA name : isTestDirName(reg, name))
    \/ isTestBasename(baseName(path)) \/ isVendoredBasename(baseName(path))
    \/ isGeneratedPath(reg, path)

-----------------------------------------------------------------------------
\* The content of a file, as far as its classification goes: head, what its
\* first 2000 bytes mention; atGenerated, how "@generated" first occurs in
\* them; size and newlines, the latter of the sample.
hasVendorLicenseHeader(file) == "license" \in file.head

hasFlexGeneratedSignature(file) == {"#define flex_scanner", "yy_flex_major_version"} \subseteq file.head

\* An @generated near the top decides, whatever else the file mentions.
hasGeneratedHeader(file) ==
    \/ "generator banner" \in file.head
    \/ file.atGenerated = "tag at the top"
    \/ file.atGenerated # "identifier at the top" /\ hasFlexGeneratedSignature(file)

hasMinifiedContent(file) ==
    LET span == IF file.size < kSample THEN file.size ELSE kSample
    IN file.size >= kMinBytes /\ span \div (file.newlines + 1) > kAvgLineLenLimit

notOwn(reg, path, file) == pathExcluded(reg, path) \/ hasGeneratedHeader(file) \/ hasMinifiedContent(file)

\* Mutant: files that are excluded anyway have a vote on the licence.
fromFilesAll(reg, files) ==
    LET candidates == DOMAIN files
        banners == {p \in candidates : hasVendorLicenseHeader(files[p])}
    IN candidates # {} /\ Cardinality(banners) * 2 > Cardinality(candidates)

\* A licence text that most candidates carry is the project's own.
\* files: path -> file.
fromFiles(reg, files) ==
    LET candidates == {p \in DOMAIN files : ~notOwn(reg, p, files[p])}
        banners == {p \in candidates : hasVendorLicenseHeader(files[p])}
    IN candidates # {} /\ Cardinality(banners) * 2 > Cardinality(candidates)

excluded(reg, bannerIsProjectOwn, path, file) ==
    notOwn(reg, path, file) \/ (~bannerIsProjectOwn /\ hasVendorLicenseHeader(file))

\* SourceSnapshot::read: the paths of the files that are authored.
authoredPaths(reg, files) ==
    LET bannerIsProjectOwn == fromFiles(reg, files)
    IN {p \in DOMAIN files : ~excluded(reg, bannerIsProjectOwn, p, files[p])}
=============================================================================
