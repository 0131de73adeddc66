SPECIFICATION MCSpec
INVARIANTS
    
    UnknownBaselineIsAnError
    DiskComparesTheRevisions
    WorktreesAreTemporary
