SPECIFICATION Spec
CONSTANTS
    Trees <- AllTrees
    MethodsAreTopLevel = FALSE
    PropertyDecorator = {"property"}
INVARIANT DecoratorsOwn
CHECK_DEADLOCK FALSE
