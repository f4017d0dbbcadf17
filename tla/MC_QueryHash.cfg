CONSTANT Calls <- MCCalls
SPECIFICATION Spec
INVARIANT TypeOK
INVARIANT OutcomeAsSpecified
