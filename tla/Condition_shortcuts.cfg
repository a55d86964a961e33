SPECIFICATION Spec
CONSTANTS
    FuncOrder <- ThreeIds
    Exprs <- ShortcutExprs
PROPERTY SimplifyReturnsCleanTree
CHECK_DEADLOCK FALSE
