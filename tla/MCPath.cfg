SPECIFICATION PathSpec
CONSTANTS
  Letters = {"a", "b"}
  Leftovers <- SomeLeftovers
  MaxLength = 5
  Operands <- SomeOperands
INVARIANTS
  NormalFormHolds
  PartsRejoin
