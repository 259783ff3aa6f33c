CONSTANTS
    Vocabularies <- AllVocabularies
    Programs <- EveryConstruct
SPECIFICATION Spec
INVARIANTS RecoveryMakesProgress AcceptsTheGrammar BrokenTreesAreReported
CHECK_DEADLOCK FALSE
