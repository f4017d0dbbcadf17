CONSTANT Calls <- MCCallsAll
SPECIFICATION Spec
INVARIANT DigestDecodes
