\* Half of the smallest amount that can be unbonded is below the minimum.
CONSTANTS
  Users = {owner, alice}
  Owner = owner
  MinWithdrawal = 2
  TaxNum = 1
  TaxDen = 2
  MaxNative = 3
  MaxSlash = 0
SPECIFICATION FairSpec
PROPERTIES
  ClaimsArePaid
