SPECIFICATION FairSpec
CONSTANTS
    Procs = {p1, p2, p3}
    Tables <- MCTables
    Meta = "schema_meta"
    Indexes = {"ix_server_key"}
    Columns <- MCColumns
    HomeOf <- MCHomeOf
    MaxCrashes = 1
INVARIANTS TypeOK UpFindsTables IndexFollowsTable
PROPERTIES SomeoneServes RestartSafe
CHECK_DEADLOCK FALSE
