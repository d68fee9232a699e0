SPECIFICATION FairSpec
CONSTANTS
    NumNames = 4
    Backends = {"minio", "supabase"}
    delete = delete
    sweep = sweep
    Callers = {delete, sweep}
    PrefixOf <- TestAndRun
    EntryOf <- RunsAsFolder
    Nameless <- FolderNameless
    PageSize = 2
    BatchSize = 3
INVARIANT PrefixEmptied
PROPERTIES
    ImplementsObjectStore
    CallsReturn
