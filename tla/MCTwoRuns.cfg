SPECIFICATION Spec
INVARIANT AtMostOneRun
