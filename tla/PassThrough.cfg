CONSTANTS
  Thread = {t1, t2}
  Context = 3
SPECIFICATION Spec
INVARIANT CallbacksHaveCode
PROPERTY UnloadDrains
