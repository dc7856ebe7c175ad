CONSTANT
  Quota <- MCQuota
SPECIFICATION Spec
INVARIANTS
  HeldCanBeRecycled
CHECK_DEADLOCK FALSE
