\* Every environment, every outcome of every call, SIGTERM at any moment.
SPECIFICATION Spec
INVARIANTS TypeOK KeyFromFirstSource
PROPERTY StopsWhenTold
CHECK_DEADLOCK FALSE
