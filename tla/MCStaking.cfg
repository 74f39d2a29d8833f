\* A tax of one half, rounded down, and slashing of up to two coins at any time.
CONSTANTS
  Users = {owner, alice}
  Owner = owner
  MinWithdrawal = 1
  TaxNum = 1
  TaxDen = 2
  MaxNative = 8
  MaxSlash = 2
SPECIFICATION Spec
INVARIANTS
  SupplyIsSum
  BondedTracksDelegation
  ClaimsAreCovered
PROPERTIES
  PriceNeverFalls
