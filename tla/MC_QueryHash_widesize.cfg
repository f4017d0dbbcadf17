CONSTANT Calls <- MCCallsWideSize
SPECIFICATION Spec
INVARIANT OutcomeAsSpecified
