SPECIFICATION Spec
CONSTANTS
    Primitive = 285
    FieldSize = 256
    GeneratorBase = 0
    Pictures <- MCPictures
    Kanji <- MCKanji
INVARIANTS RecoversText BlocksFitTheSymbol RepairsToNearestCodeword
CHECK_DEADLOCK FALSE
