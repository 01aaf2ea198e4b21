CONSTANTS
    Token <- Tokens
    Fold <- Folds
    Sim <- Alike
    Chars <- Size
    Delta <- Braced
    Opens <- Opening
    Decl <- Named
    NoName = "none"
    Words <- Said
    Enough = 4
    AnchorWindow = 2
    Heads <- SomeHeads
    Wholes <- SomeWholes
    Blocks <- SomeBlocks
    Snippets <- SomeSnippets
    Plans <- SomePlans
    Method <- Methods
    WholeFileLimit = 3
    Attempts = 2
CHECK_DEADLOCK FALSE
SPECIFICATION Spec
INVARIANTS
    HeadNamesStay
    SavedParses
    PlanIsInItsPlace
    BlockHitsItsPlaces
