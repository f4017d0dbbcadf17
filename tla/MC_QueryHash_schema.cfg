CONSTANT Calls <- MCCallsSchemaChange
SPECIFICATION Spec
INVARIANT DigestDecodes
