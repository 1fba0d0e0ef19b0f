SPECIFICATION Spec
CONSTANTS
    e1 = e1
    e2 = e2
    Entries = {e1, e2}
    Keysets = {k1, k2}
    Options = {plain, wide}
    DefaultOptions = plain
    Migrated <- MCMigrated
    None = None
    MaxUpdates = 2
INVARIANTS RunsItsConfig NoReferenceLeft
PROPERTIES TrackerShared NoReloadStorm TakesEffect
