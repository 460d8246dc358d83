SPECIFICATION ClientSpec
CONSTANTS
  MaxRev = 3
  Slots = {"a", "b"}
  MaxTokens = 4
  Accounts = {"ann", "bob"}
  Comments = {"c1"}
  Hooked = {"ha"}
  OwnerOf <- MCOwnerOf
  Viewers <- MCViewers
INVARIANTS ShowsOwnWrites SignedOutJustly ShownPagesAreAdmitted RedirectsEnd DeliveryKept
CHECK_DEADLOCK FALSE
