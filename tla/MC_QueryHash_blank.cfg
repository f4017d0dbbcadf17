CONSTANT Calls <- MCCallsTrailingBlank
SPECIFICATION Spec
INVARIANT OutcomeAsSpecified
