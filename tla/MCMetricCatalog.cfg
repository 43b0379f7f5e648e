\* Two metrics of one or two services, a pool of two that others use as well.
CONSTANTS
    Names = {1, 2}
    Services = {1, 2}
    PoolSize = 2
    Nothing = Nothing
SPECIFICATION FairSpec
INVARIANTS
    TypeOK
    StableAreListed
    AnswerInOrder
    AllOrNothing
    EntriesWereThere
PROPERTIES
    ListingEnds
