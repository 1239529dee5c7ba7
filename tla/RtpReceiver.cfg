\* Two handlers tell the current one from the one before it.
SPECIFICATION FairSpec
CONSTANTS
    Handler = {h1, h2}
    NoHandler = NoHandler
    SpuriousReadiness = TRUE
    Size <- MCSize
    Version = {1, 2}
    CsrcCount = {0, 15}
    WordCount = {0, 2}
    LastByte = {0, 4, 255}
    SizeMod = 100000
INVARIANTS SpawnOnlyWhenJoined NoUseAfterClose BoundMeansListening ReadsInside
PROPERTIES AcceptsWellFormed ImplementsSubscription JoinReturns
