SPECIFICATION Spec
CONSTANTS
    Includes <- MCIncludes
    kScanLines = 3
    Normalized <- MCNormalized
    VersionStem <- MCVersionStem
    kVendoredDirNames = {"thirdparty"}
    kVendoredLibDirs = {"fmt"}
    kTestDirNames = {"test"}
    CamelCaseTests = {}
    kExcludedDirNames = {"build", "cmake-build-x.h"}
    VendoredBasenames = {}
    TestBasenames = {}
    GeneratedNames = {}
    kMinBytes = 8
    kSample = 16
    kAvgLineLenLimit = 4
    kMirrorPrefixes <- MCMirrorPrefixes
    SystemHeaders = {}
    ToLower <- MCToLower
    SortedPaths <- MCSortedPaths
    RepoName = "fmt"
    WorktreeName = "archcheck-worktree"
    Classification <- MCClassification
    SourceNames = {"a.h", "c.h", "main.cpp", "t.h", "cmake-build-x.h"}
    Contents <- MCContents
    Typed <- SrcA
    Lines <- MCLines
    MaxEdits = 1
    MaxTyped = 4
CHECK_DEADLOCK FALSE
INVARIANTS
    ConditionalIsConditional
    Sf7ReportsGlobalUsing
    GuardSeenByBoth
    FixedCaseIsSilent
    UnchangedFilesAgree
    UnauthoredFilesHaveNoSay
