\* One broker and one callback at a time are enough for a decision to be
\* applied late.
CONSTANTS
  Targets = 1
  Msgs = {m1}
  MaxCallbacks = 1
  MaxLen = 1
  MaxAge = 0
SPECIFICATION Spec
INVARIANT OpenOnlyWhenBoth
