SPECIFICATION MCSpec
INVARIANT UnknownCurrentIsAnError
