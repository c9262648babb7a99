SPECIFICATION SearchSpec
CONSTANTS
    Ids = {2, 3}
    Values <- SomeValues
    Grams <- SomeGrams
    Inside <- SomeInside
    Queries <- SomeQueries
    Enough = 2
    MaxChanges = 1
    MaxResets = 1
    MaxRestarts = 1
    Orders <- SomeOrders
    NoRecord = NoRecord
CHECK_DEADLOCK FALSE
INVARIANTS ExistsIsWhole FindsIndexed NothingIsTrue
