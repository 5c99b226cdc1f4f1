\* Up to six log events, any outcome of compressing each slice.
SPECIFICATION Spec
CONSTANT MaxEvents = 6
INVARIANTS SplitAsReference
CHECK_DEADLOCK FALSE
