SPECIFICATION FairSpec
CONSTANTS
    Roster <- MCRoster
    Updates = {1, 5}
    MaxSends = 2
    None = None
INVARIANTS TypeOK AggregateExact
PROPERTIES RoundCloses
