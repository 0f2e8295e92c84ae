CONSTANT Callers = {c1, c2, c3}
SPECIFICATION DispatchSpec
INVARIANT WritesAreExclusive
