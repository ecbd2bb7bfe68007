SPECIFICATION FairSpec
CONSTANTS
    Trees <- AllTrees
    MethodsAreTopLevel = FALSE
    PropertyDecorator = {"property"}
INVARIANTS
    TypeOK
    Nesting
    SelfContained
    ReferencesOwned
    BodyCallsFound
    DecoratorsKept
PROPERTY WalkEnds
CHECK_DEADLOCK FALSE
