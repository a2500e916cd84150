\* Three searches of every kind, with stops and kills by other threads.
SPECIFICATION FairSpec
CONSTANT MaxSearches = 3
INVARIANTS SearchIsForRequest TreeIsNotShared
PROPERTIES ImplementsSearchService CallsTakeEffect
\* The bot is deleted in the end.
CHECK_DEADLOCK FALSE
