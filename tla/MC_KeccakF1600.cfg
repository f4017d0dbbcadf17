CONSTANT InitStates <- MCInitStates
SPECIFICATION MCSpec
INVARIANT TypeOK
INVARIANT KnownAnswer
PROPERTY RefinesKeccakF
