CONSTANT Calls <- MCCallsTransaction
SPECIFICATION Spec
INVARIANT ConnectionUnchanged
