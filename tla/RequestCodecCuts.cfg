CONSTANTS
  SizeLimit = 64
  Sent <- AllSent
  Nonsense <- BadTails
SPECIFICATION Spec
INVARIANTS TypeOK RequestsFollowStream OnlyNonsenseThrows NonsenseThrows
CHECK_DEADLOCK FALSE
