CONSTANT Errors = {"BUSY"}
CONSTANT Calls <- MCCalls
SPECIFICATION Spec
INVARIANT TypeOK
INVARIANT InitOutcome
INVARIANT LoadedCallsAsSpecified
