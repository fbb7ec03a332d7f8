SPECIFICATION Spec
CONSTANTS
  PriceDigits = {1, 2}
  BalanceDigits = {1, 6}
  MaxResets = 2
INVARIANTS TypeOK InStep ShowsScreen
