SPECIFICATION Spec
CONSTANT Inputs <- MCInputs
INVARIANTS TypeOK EveryLexemeOnce PrecedenceHolds AcceptsTheLanguage SpansAreTheText
PROPERTY EveryParseEnds
