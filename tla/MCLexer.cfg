CONSTANTS
    Texts <- CodeStringsComments
    Keywords <- InKeyword
    IntMax = 9
SPECIFICATION Spec
INVARIANTS LexesTheGrammar TokensKeepTheirText
PROPERTY LexingEnds
CHECK_DEADLOCK FALSE
