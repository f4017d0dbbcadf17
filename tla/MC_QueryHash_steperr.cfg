CONSTANT Calls <- MCCallsStepError
SPECIFICATION Spec
INVARIANT OutcomeAsSpecified
