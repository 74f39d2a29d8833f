----------------------------- MODULE ContractProofs ----------------------------
(***************************************************************************)
(* The staking contract: the reserve for claims, the bonded coins, the     *)
(* price and the supply of the derivative token, for every number of       *)
(* users, tax, minimum and amount of coins.  The escrow contracts, for any *)
(* set of accounts, any amount of coins and any sequence of                *)
(* instantiations, migrations, releases and calls that run out of gas.     *)
(* The reflect contract, whose stored replies are the last ones.           *)
(***************************************************************************)
EXTENDS Staking, Hackatom, Reflect, Foundations

(* Integer division rounds down.                                             *)
LEMMA DivDown ==
  ASSUME NEW a \in Nat, NEW c \in Nat, c > 0
  PROVE  a \div c \in Nat /\ (a \div c) * c <= a
  OBVIOUS

(* A ratio that is not above 1 does not increase an amount.                  *)
LEMMA RatioBelowOne ==
  ASSUME NEW a \in Nat, NEW n \in Nat, NEW c \in Nat, c > 0, n <= c
  PROVE  MultiplyRatio(a, n, c) \in Nat /\ MultiplyRatio(a, n, c) <= a
<1>1. a * n \in Nat /\ a * n <= a * c
  OBVIOUS
<1>2. (a * n) \div c \in Nat /\ ((a * n) \div c) * c <= a * n
  BY Zenon, <1>1, DivDown
<1>3. ASSUME (a * n) \div c > a PROVE FALSE
  <2>1. ((a * n) \div c) * c >= (a + 1) * c
    BY <1>2, <1>3
  <2> QED
    BY <1>1, <1>2, <2>1
<1> QED
  BY <1>2, <1>3 DEF MultiplyRatio

(* multiply_ratio rounds down.                                               *)
LEMMA RatioDown ==
  ASSUME NEW a \in Nat, NEW n \in Nat, NEW c \in Nat, c > 0
  PROVE  MultiplyRatio(a, n, c) \in Nat /\ MultiplyRatio(a, n, c) * c <= a * n
<1>1. a * n \in Nat
  OBVIOUS
<1> QED
  BY Zenon, <1>1, DivDown DEF MultiplyRatio

(* What a message does to the supply and to the coins of the chain, in       *)
(* numbers; the users do not matter for it.                                  *)
SupplyTypes ==
  /\ supply \in [issued : Nat, bonded : Nat, claims : Nat]
  /\ delegated \in Nat /\ unbonding \in Nat /\ bank \in Nat /\ rewards \in Nat
  /\ slashed \in 0 .. MaxSlash /\ lost \in 0 .. MaxSlash

UserTypes == balances \in [Users -> Nat] /\ claims \in [Users -> Nat]

StakingInv == TypeOK /\ ClaimsAreCovered /\ BondedTracksDelegation

(* Minting: the new tokens are not worth more than the payment.              *)
LEMMA MintedBounds ==
  ASSUME TypeOK, NEW payment \in Nat
  PROVE  /\ Minted(payment) \in Nat
         /\ supply.issued > 0 /\ delegated > 0 =>
              Minted(payment) * delegated <= payment * supply.issued
<1>1. supply.issued \in Nat /\ delegated \in Nat
  BY Zenon DEF TypeOK
<1>2. CASE supply.issued = 0 \/ delegated = 0
  BY <1>1, <1>2 DEF Minted
<1>3. CASE ~(supply.issued = 0 \/ delegated = 0)
  <2>1. delegated > 0
    BY <1>1, <1>3
  <2>2. PICK i \in Nat, d \in Nat : i = supply.issued /\ d = delegated
    BY Zenon, <1>1
  <2>3. MultiplyRatio(payment, i, d) \in Nat /\ MultiplyRatio(payment, i, d) * d <= payment * i
    BY Zenon, <2>1, <2>2, RatioDown
  <2>4. Minted(payment) = MultiplyRatio(payment, i, d)
    BY Zenon, <1>3, <2>2 DEF Minted
  <2> QED
    BY Zenon, <2>2, <2>3, <2>4
<1> QED
  BY Zenon, <1>2, <1>3

(* Unbonding: the coins are not worth more than the tokens burnt.            *)
LEMMA UnbondedBounds ==
  ASSUME TypeOK, NEW amount \in Nat, supply.issued > 0
  PROVE  /\ Tax(amount) \in Nat /\ Tax(amount) <= amount
         /\ Unbonded(amount) \in Nat
         /\ Unbonded(amount) * supply.issued <= (amount - Tax(amount)) * delegated
<1>1. supply.issued \in Nat /\ delegated \in Nat
  BY Zenon DEF TypeOK
<1>2. Tax(amount) \in Nat /\ Tax(amount) <= amount
  BY StakingAssumption, RatioBelowOne DEF Tax
<1>3. amount - Tax(amount) \in Nat
  BY <1>2
<1>4. PICK i \in Nat, d \in Nat, r \in Nat :
        i = supply.issued /\ d = delegated /\ r = amount - Tax(amount)
  BY Zenon, <1>1, <1>3
<1>5. MultiplyRatio(r, d, i) \in Nat /\ MultiplyRatio(r, d, i) * i <= r * d
  BY Zenon, <1>4, RatioDown
<1>6. Unbonded(amount) = MultiplyRatio(r, d, i)
  BY Zenon, <1>4 DEF Unbonded
<1> QED
  BY Zenon, <1>2, <1>4, <1>5, <1>6

(* bond                                                                      *)
LEMMA BondStep ==
  ASSUME StakingInv, NEW sender \in Users, NEW payment \in 1 .. MaxNative, Bond(sender, payment)
  PROVE  /\ SupplyTypes' /\ UserTypes' /\ ClaimsAreCovered' /\ BondedTracksDelegation'
         /\ supply.issued > 0 =>
              supply'.bonded * supply.issued >= supply.bonded * supply'.issued
<1> USE DEF StakingInv
<1>1. payment \in Nat
  BY StakingAssumption
<1>2. /\ supply.issued \in Nat /\ supply.bonded \in Nat /\ supply.claims \in Nat
      /\ delegated \in Nat /\ unbonding \in Nat /\ bank \in Nat /\ rewards \in Nat
      /\ slashed \in Nat /\ lost \in Nat
  BY DEF TypeOK
<1>3. PICK m \in Nat : m = Minted(payment)
  BY Zenon, <1>1, MintedBounds
<1>4. /\ supply' = [issued |-> supply.issued + m, bonded |-> delegated + payment,
                    claims |-> supply.claims]
      /\ delegated' = delegated + payment /\ supply.bonded = delegated
      /\ UNCHANGED <<claims, unbonding, bank, rewards, slashed, lost>>
  BY Zenon, <1>3 DEF Bond, AssertBonds, TypeOK
<1>5. SupplyTypes'
  BY <1>1, <1>2, <1>4 DEF SupplyTypes, TypeOK
<1>6. UserTypes'
  BY <1>3, <1>4 DEF Bond, UserTypes, TypeOK
<1>7. ClaimsAreCovered' /\ BondedTracksDelegation'
  BY <1>2, <1>4 DEF ClaimsAreCovered, BondedTracksDelegation
<1>8. ASSUME supply.issued > 0
      PROVE  supply'.bonded * supply.issued >= supply.bonded * supply'.issued
  <2>1. PICK i \in Nat, d \in Nat : i = supply.issued /\ d = delegated
    BY Zenon, <1>2
  <2>2. d > 0 => m * d <= payment * i
    BY Zenon, <1>1, <1>3, <1>8, <2>1, MintedBounds
  <2>3. d = 0 => m * d <= payment * i
    BY <1>1
  <2>4. m * d <= payment * i
    BY <2>2, <2>3
  <2>5. (d + payment) * i = d * i + payment * i /\ d * (i + m) = d * i + m * d
    BY <1>1
  <2>6. d * i \in Nat /\ payment * i \in Nat /\ m * d \in Nat
    BY <1>1
  <2>7. (d + payment) * i >= d * (i + m)
    BY <2>4, <2>5, <2>6
  <2> QED
    BY Zenon, <1>4, <2>1, <2>7
<1> QED
  BY Zenon, <1>5, <1>6, <1>7, <1>8

(* unbond                                                                    *)
LEMMA UnbondStep ==
  ASSUME StakingInv, NEW sender \in Users, NEW amount \in 0 .. MaxNative, Unbond(sender, amount)
  PROVE  /\ SupplyTypes' /\ UserTypes' /\ ClaimsAreCovered' /\ BondedTracksDelegation'
         /\ supply.issued > 0 =>
              supply'.bonded * supply.issued >= supply.bonded * supply'.issued
<1> USE DEF StakingInv
<1>1. amount \in Nat
  BY StakingAssumption
<1>2. /\ supply.issued \in Nat /\ supply.bonded \in Nat /\ supply.claims \in Nat
      /\ delegated \in Nat /\ unbonding \in Nat /\ bank \in Nat /\ rewards \in Nat
      /\ slashed \in Nat /\ lost \in Nat
  BY DEF TypeOK
<1>3. supply.issued > 0
  BY Zenon DEF Unbond
<1>4. PICK t \in Nat, k \in Nat : t = Tax(amount) /\ k = Unbonded(amount)
  BY Zenon, <1>1, <1>3, UnbondedBounds
<1>5. t <= amount /\ k * supply.issued <= (amount - t) * delegated
  BY Zenon, <1>1, <1>3, <1>4, UnbondedBounds
<1>6. /\ k <= delegated /\ amount - t <= supply.issued /\ amount <= balances[sender]
      /\ supply' = [issued |-> supply.issued - (amount - t), bonded |-> delegated - k,
                    claims |-> supply.claims + k]
      /\ delegated' = delegated - k /\ unbonding' = unbonding + k
      /\ supply.bonded = delegated
      /\ UNCHANGED <<bank, rewards, slashed, lost>>
  BY Zenon, <1>4 DEF Unbond, AssertBonds
<1>7. /\ balances' = [[balances EXCEPT ![sender] = @ - amount] EXCEPT ![Owner] = @ + t]
      /\ claims' = [claims EXCEPT ![sender] = @ + k]
  BY Zenon, <1>4 DEF Unbond
<1>8. SupplyTypes'
  BY <1>1, <1>2, <1>5, <1>6 DEF SupplyTypes, TypeOK
<1>9. UserTypes'
  <2>1. [balances EXCEPT ![sender] = @ - amount] \in [Users -> Nat]
    BY <1>1, <1>6 DEF TypeOK
  <2>2. balances' \in [Users -> Nat]
    BY <1>7, <2>1, StakingAssumption
  <2>3. claims' \in [Users -> Nat]
    BY <1>7 DEF TypeOK
  <2> QED
    BY Zenon, <2>2, <2>3 DEF UserTypes
<1>10. ClaimsAreCovered' /\ BondedTracksDelegation'
  BY <1>2, <1>6 DEF ClaimsAreCovered, BondedTracksDelegation
<1>11. supply'.bonded * supply.issued >= supply.bonded * supply'.issued
  <2>1. PICK i \in Nat, d \in Nat, r \in Nat :
          i = supply.issued /\ d = delegated /\ r = amount - t
    BY <1>1, <1>2, <1>5
  <2>2. k * i <= r * d
    BY Zenon, <1>5, <2>1
  <2>3. (d - k) * i = d * i - k * i /\ d * (i - r) = d * i - r * d
    OBVIOUS
  <2>4. d * i \in Int /\ k * i \in Int /\ r * d \in Int
    OBVIOUS
  <2>5. (d - k) * i >= d * (i - r)
    BY <2>2, <2>3, <2>4
  <2> QED
    BY Zenon, <1>6, <2>1, <2>5
<1> QED
  BY Zenon, <1>8, <1>9, <1>10, <1>11

(* transfer, which also covers a transfer to oneself.                        *)
LEMMA TransferStep ==
  ASSUME StakingInv, NEW sender \in Users, NEW recipient \in Users,
         NEW amount \in 1 .. MaxNative, Transfer(sender, recipient, amount)
  PROVE  SupplyTypes' /\ UserTypes' /\ ClaimsAreCovered' /\ BondedTracksDelegation'
<1> USE DEF StakingInv
<1>1. amount \in Nat
  BY StakingAssumption
<1>2. UNCHANGED <<claims, supply, delegated, unbonding, bank, rewards, slashed, lost>>
  BY Zenon DEF Transfer, chainVars
<1>3. [balances EXCEPT ![sender] = @ - amount] \in [Users -> Nat]
  BY <1>1 DEF Transfer, TypeOK
<1>4. balances' \in [Users -> Nat]
  BY <1>1, <1>3 DEF Transfer
<1> QED
  BY Zenon, <1>2, <1>4 DEF TypeOK, SupplyTypes, UserTypes, ClaimsAreCovered, BondedTracksDelegation

(* claim                                                                     *)
LEMMA ClaimStep ==
  ASSUME StakingInv, NEW sender \in Users, Claim(sender)
  PROVE  /\ SupplyTypes' /\ UserTypes' /\ ClaimsAreCovered' /\ BondedTracksDelegation'
         /\ supply'.issued = supply.issued /\ supply'.bonded = supply.bonded
<1> USE DEF StakingInv
<1>1. /\ supply.issued \in Nat /\ supply.bonded \in Nat /\ supply.claims \in Nat
      /\ delegated \in Nat /\ unbonding \in Nat /\ bank \in Nat /\ rewards \in Nat
      /\ slashed \in Nat /\ lost \in Nat
      /\ claims[sender] \in Nat
  BY DEF TypeOK
<1>2. PICK n \in Nat : n = Smaller(bank, claims[sender])
  BY Zenon, <1>1 DEF Smaller
<1>3. n <= bank /\ n <= claims[sender]
  BY <1>1, <1>2 DEF Smaller
<1>4. /\ n <= supply.claims
      /\ supply' = [issued |-> supply.issued, bonded |-> supply.bonded,
                    claims |-> supply.claims - n]
      /\ bank' = bank - n /\ claims' = [claims EXCEPT ![sender] = @ - n]
      /\ UNCHANGED <<balances, delegated, unbonding, rewards, slashed, lost>>
  BY Zenon, <1>2 DEF Claim, TypeOK
<1>5. SupplyTypes'
  BY <1>1, <1>3, <1>4 DEF SupplyTypes, TypeOK
<1>6. UserTypes'
  BY <1>1, <1>3, <1>4 DEF UserTypes, TypeOK
<1>7. ClaimsAreCovered' /\ BondedTracksDelegation'
  BY <1>1, <1>3, <1>4 DEF ClaimsAreCovered, BondedTracksDelegation
<1> QED
  BY Zenon, <1>4, <1>5, <1>6, <1>7

(* reinvest, and with it _bond_all_tokens                                    *)
LEMMA ReinvestStep ==
  ASSUME StakingInv, Reinvest
  PROVE  /\ SupplyTypes' /\ UserTypes' /\ ClaimsAreCovered' /\ BondedTracksDelegation'
         /\ supply'.issued = supply.issued /\ supply'.bonded >= supply.bonded
<1> USE DEF StakingInv
<1>1. /\ supply.issued \in Nat /\ supply.bonded \in Nat /\ supply.claims \in Nat
      /\ delegated \in Nat /\ unbonding \in Nat /\ bank \in Nat /\ rewards \in Nat
      /\ slashed \in Nat /\ lost \in Nat
      /\ MinWithdrawal \in Nat
  BY StakingAssumption DEF TypeOK
<1>2. PICK n \in Nat : n = Reinvested(bank + rewards)
  BY <1>1 DEF Reinvested
<1>3. n <= bank + rewards /\ (n = 0 \/ n = bank + rewards - supply.claims)
  BY <1>1, <1>2 DEF Reinvested
<1>4. /\ supply' = [issued |-> supply.issued, bonded |-> supply.bonded + n,
                    claims |-> supply.claims]
      /\ bank' = bank + rewards - n /\ rewards' = 0 /\ delegated' = delegated + n
      /\ UNCHANGED <<balances, claims, unbonding, slashed, lost>>
  BY <1>2 DEF Reinvest, TypeOK
<1>5. SupplyTypes'
  BY <1>1, <1>3, <1>4 DEF SupplyTypes, TypeOK
<1>6. UserTypes'
  BY Zenon, <1>4 DEF UserTypes, TypeOK
<1>7. ClaimsAreCovered' /\ BondedTracksDelegation'
  BY <1>1, <1>3, <1>4 DEF ClaimsAreCovered, BondedTracksDelegation
<1> QED
  BY <1>1, <1>4, <1>5, <1>6, <1>7

(* The steps of the chain: none of them touches what the contract stores.    *)
ChainStep ==
  \/ \E n \in 1 .. MaxNative : Mature(n)
  \/ Reward
  \/ Receive
  \/ \E n \in 1 .. MaxNative : Slash(n)
  \/ \E n \in 1 .. MaxNative : SlashUnbonding(n)

LEMMA ChainSteps ==
  ASSUME StakingInv, ChainStep
  PROVE  /\ SupplyTypes' /\ UserTypes' /\ ClaimsAreCovered' /\ BondedTracksDelegation'
         /\ supply' = supply
<1> USE DEF StakingInv
<1>1. /\ supply.issued \in Nat /\ supply.bonded \in Nat /\ supply.claims \in Nat
      /\ delegated \in Nat /\ unbonding \in Nat /\ bank \in Nat /\ rewards \in Nat
      /\ slashed \in Nat /\ lost \in Nat
      /\ MaxSlash \in Nat /\ MaxNative \in Nat
  BY StakingAssumption DEF TypeOK
<1>2. CASE \E n \in 1 .. MaxNative : Mature(n)
  BY <1>1, <1>2 DEF Mature, TypeOK, SupplyTypes, UserTypes, ClaimsAreCovered,
                    BondedTracksDelegation
<1>3. CASE Reward
  BY <1>1, <1>3 DEF Reward, TypeOK, SupplyTypes, UserTypes, ClaimsAreCovered,
                    BondedTracksDelegation
<1>4. CASE Receive
  BY <1>1, <1>4 DEF Receive, TypeOK, SupplyTypes, UserTypes, ClaimsAreCovered,
                    BondedTracksDelegation
<1>5. CASE \E n \in 1 .. MaxNative : Slash(n)
  <2>1. PICK n \in 1 .. MaxNative : Slash(n)
    BY Zenon, <1>5
  <2>2. n \in Nat /\ n > 0
    BY <1>1
  <2> QED
    BY <1>1, <2>1, <2>2 DEF Slash, TypeOK, SupplyTypes, UserTypes, ClaimsAreCovered,
                            BondedTracksDelegation
<1>6. CASE \E n \in 1 .. MaxNative : SlashUnbonding(n)
  <2>1. PICK n \in 1 .. MaxNative : SlashUnbonding(n)
    BY Zenon, <1>6
  <2>2. n \in Nat
    BY <1>1
  <2> QED
    BY <1>1, <2>1, <2>2 DEF SlashUnbonding, TypeOK, SupplyTypes, UserTypes, ClaimsAreCovered,
                            BondedTracksDelegation
<1> QED
  BY Zenon, <1>2, <1>3, <1>4, <1>5, <1>6 DEF ChainStep

LEMMA TypesTogether ==
  ASSUME SupplyTypes', UserTypes'
  PROVE  TypeOK'
  BY Zenon DEF SupplyTypes, UserTypes, TypeOK

LEMMA NextCases ==
  ASSUME Next
  PROVE  \/ \E sender, recipient \in Users, n \in 1 .. MaxNative : Transfer(sender, recipient, n)
         \/ \E sender \in Users, n \in 1 .. MaxNative : Bond(sender, n)
         \/ \E sender \in Users, n \in 0 .. MaxNative : Unbond(sender, n)
         \/ \E sender \in Users : Claim(sender)
         \/ Reinvest
         \/ ChainStep
  BY Zenon DEF Next, ChainStep

(* The types, the reserve and the stored delegation together are inductive:  *)
(* every message of the contract and every step of the chain keeps them.     *)
THEOREM StakingInvariant == Spec => []StakingInv
<1>1. Init => StakingInv
  BY StakingAssumption
     DEF Init, StakingInv, TypeOK, ClaimsAreCovered, BondedTracksDelegation
<1>2. ASSUME StakingInv, [Next]_vars
      PROVE  StakingInv'
  <2>1. CASE UNCHANGED vars
    BY Zenon, <1>2, <2>1 DEF vars, chainVars, StakingInv, TypeOK, ClaimsAreCovered,
                      BondedTracksDelegation
  <2>2. CASE Next
    <3>1. SupplyTypes' /\ UserTypes' /\ ClaimsAreCovered' /\ BondedTracksDelegation'
      BY Zenon, <1>2, <2>2, NextCases, TransferStep, BondStep, UnbondStep, ClaimStep, ReinvestStep,
         ChainSteps
    <3> QED
      BY Zenon, <3>1, TypesTogether DEF StakingInv
  <2> QED
    BY Zenon, <1>2, <2>1, <2>2
<1> QED
  BY <1>1, <1>2, PTL DEF Spec

(* The numbers of the contract never become negative, whatever the order of  *)
(* transfers, bonds, unbonds, claims, reinvestments and slashing.            *)
THEOREM StakingTypeCorrect == Spec => []TypeOK
<1>1. StakingInv => TypeOK
  BY Zenon DEF StakingInv
<1> QED
  BY <1>1, StakingInvariant, PTL

(* reinvest never spends what is owed to those who unbonded, for every       *)
(* minimum, tax and amount of slashing.                                      *)
THEOREM ClaimsAreAlwaysCovered == Spec => []ClaimsAreCovered
<1>1. StakingInv => ClaimsAreCovered
  BY Zenon DEF StakingInv
<1> QED
  BY <1>1, StakingInvariant, PTL

(* The stored number of bonded coins differs from the delegation by exactly  *)
(* what was slashed of it: assert_bonds fails if and only if there was some. *)
THEOREM BondedAlwaysTracks == Spec => []BondedTracksDelegation
<1>1. StakingInv => BondedTracksDelegation
  BY Zenon DEF StakingInv
<1> QED
  BY <1>1, StakingInvariant, PTL

(* No message lowers the coins a token stands for: multiply_ratio rounds in  *)
(* favour of the holders both when tokens are minted and when coins leave.   *)
THEOREM PriceIsMonotone == Spec => PriceNeverFalls
<1>1. ASSUME StakingInv, [Next]_vars, supply.issued > 0
      PROVE  supply'.bonded * supply.issued >= supply.bonded * supply'.issued
  <2>1. PICK i \in Nat, b \in Nat : i = supply.issued /\ b = supply.bonded
    BY Zenon, <1>1 DEF StakingInv, TypeOK
  <2>2. ASSUME supply'.issued = supply.issued, supply'.bonded \in Nat,
               supply'.bonded >= supply.bonded
        PROVE  supply'.bonded * supply.issued >= supply.bonded * supply'.issued
    <3>1. PICK c \in Nat : c = supply'.bonded
      BY Zenon, <2>2
    <3>2. c >= b => c * i >= b * i
      OBVIOUS
    <3> QED
      BY Zenon, <2>1, <2>2, <3>1, <3>2
  <2>3. ASSUME supply' = supply
        PROVE  supply'.bonded * supply.issued >= supply.bonded * supply'.issued
    BY <2>1, <2>2, <2>3
  <2>4. CASE \E sender, recipient \in Users, n \in 1 .. MaxNative : Transfer(sender, recipient, n)
    BY Zenon, <2>3, <2>4 DEF Transfer
  <2>5. CASE \E sender \in Users, n \in 1 .. MaxNative : Bond(sender, n)
    BY Zenon, <1>1, <2>5, BondStep
  <2>6. CASE \E sender \in Users, n \in 0 .. MaxNative : Unbond(sender, n)
    BY Zenon, <1>1, <2>6, UnbondStep
  <2>7. CASE \E sender \in Users : Claim(sender)
    <3>1. supply'.issued = supply.issued /\ supply'.bonded = supply.bonded
      BY Zenon, <1>1, <2>7, ClaimStep
    <3> QED
      BY <2>1, <2>2, <3>1
  <2>8. CASE Reinvest
    <3>1. supply'.issued = supply.issued /\ supply'.bonded >= supply.bonded /\ SupplyTypes'
      BY Zenon, <1>1, <2>8, ReinvestStep
    <3>2. supply'.bonded \in Nat
      BY Zenon, <3>1 DEF SupplyTypes
    <3> QED
      BY Zenon, <2>2, <3>1, <3>2
  <2>9. CASE ChainStep
    BY Zenon, <1>1, <2>3, <2>9, ChainSteps
  <2>10. CASE UNCHANGED vars
    BY Zenon, <2>3, <2>10 DEF vars
  <2> QED
    BY Zenon, <1>1, <2>4, <2>5, <2>6, <2>7, <2>8, <2>9, <2>10, NextCases
<1>2. StakingInv /\ [Next]_vars =>
        [supply.issued > 0 /\ supply'.issued > 0 =>
           supply'.bonded * supply.issued >= supply.bonded * supply'.issued]_vars
  BY Zenon, <1>1
<1> QED
  BY <1>2, StakingInvariant, PTL DEF Spec, PriceNeverFalls

--------------------------------------------------------------------------------
(* The order in which SumOf adds.                                            *)
(* f[s] is the sum of the weights of s, taken in the order of pick.          *)
SetTotal(f, w, pick, S) ==
  /\ f \in [SUBSET S -> Nat] /\ f[{}] = 0
  /\ \A s \in SUBSET S : s # {} => f[s] = w[pick[s]] + f[s \ {pick[s]}]

Picks(pick, S) == \A s \in SUBSET S : s # {} => pick[s] \in s

LEMMA SetTotalExists ==
  ASSUME NEW S, IsFiniteSet(S), NEW w \in [S -> Nat], NEW pick, Picks(pick, S)
  PROVE  \E f : SetTotal(f, w, pick, S)
<1> DEFINE Small(n) == {s \in SUBSET S : Cardinality(s) <= n}
           Total(f, n) == /\ f \in [Small(n) -> Nat] /\ f[{}] = 0
                          /\ \A s \in Small(n) : s # {} => f[s] = w[pick[s]] + f[s \ {pick[s]}]
           T == {n \in Nat : \E f : Total(f, n)}
<1>1. /\ Cardinality({}) = 0
      /\ \A s \in SUBSET S : /\ IsFiniteSet(s) /\ Cardinality(s) \in Nat
                             /\ Cardinality(s) <= Cardinality(S)
                             /\ Cardinality(s) = 0 => s = {}
  BY Zenon, FS_Subset, FS_CardinalityType, FS_EmptySet
<1>2. \A s \in SUBSET S : s # {} =>
        /\ pick[s] \in s /\ w[pick[s]] \in Nat /\ s \ {pick[s]} \in SUBSET S
        /\ Cardinality(s \ {pick[s]}) = Cardinality(s) - 1
  <2> SUFFICES ASSUME NEW s \in SUBSET S, s # {}
               PROVE  /\ pick[s] \in s /\ w[pick[s]] \in Nat /\ s \ {pick[s]} \in SUBSET S
                      /\ Cardinality(s \ {pick[s]}) = Cardinality(s) - 1
    BY Zenon
  <2>1. pick[s] \in s
    BY Zenon DEF Picks
  <2>2. IsFiniteSet(s)
    BY Zenon, <1>1
  <2>3. Cardinality(s \ {pick[s]}) = Cardinality(s) - 1
    BY Zenon, <2>1, <2>2, FS_RemoveElement
  <2> QED
    BY Zenon, <2>1, <2>3
<1>3. 0 \in T
  <2> DEFINE g == [s \in Small(0) |-> 0]
  <2>1. \A s \in Small(0) : s = {}
    BY <1>1
  <2>2. {} \in Small(0)
    BY <1>1
  <2>3. Total(g, 0)
    BY Zenon, <2>1, <2>2
  <2> QED
    BY Zenon, <2>3
<1>4. ASSUME NEW n \in Nat, n \in T PROVE n + 1 \in T
  <2>1. PICK f : Total(f, n)
    BY Zenon, <1>4
  <2> DEFINE g == [s \in Small(n + 1) |->
                     IF s \in Small(n) THEN f[s] ELSE w[pick[s]] + f[s \ {pick[s]}]]
  <2>2. {} \in Small(n) /\ \A s \in Small(n) : s \in Small(n + 1)
    BY <1>1
  <2>3. \A s \in Small(n + 1) : s # {} => s \ {pick[s]} \in Small(n)
    BY <1>1, <1>2
  <2>4. \A s \in Small(n) : g[s] = f[s] /\ f[s] \in Nat
    BY Zenon, <2>1, <2>2
  <2>5. ASSUME NEW s \in Small(n + 1), s # {} PROVE g[s] = w[pick[s]] + f[s \ {pick[s]}]
    BY Zenon, <2>1, <2>5
  <2>6. ASSUME NEW s \in Small(n + 1) PROVE g[s] \in Nat
    <3>1. CASE s = {}
      BY Zenon, <2>2, <2>4, <3>1
    <3>2. CASE s # {}
      <4>1. w[pick[s]] \in Nat /\ f[s \ {pick[s]}] \in Nat
        BY Zenon, <1>2, <2>3, <2>4, <3>2
      <4>2. w[pick[s]] + f[s \ {pick[s]}] \in Nat
        BY <4>1
      <4> QED
        BY Zenon, <2>5, <3>2, <4>2
    <3> QED
      BY Zenon, <3>1, <3>2
  <2>7. g \in [Small(n + 1) -> Nat]
    <3>1. g = [s \in Small(n + 1) |-> g[s]]
      BY Zenon
    <3> HIDE DEF g
    <3> QED
      BY Zenon, <2>6, <3>1
  <2>8. g[{}] = 0
    BY Zenon, <2>1, <2>2, <2>4
  <2>9. \A s \in Small(n + 1) : s # {} => g[s] = w[pick[s]] + g[s \ {pick[s]}]
    BY Zenon, <2>3, <2>4, <2>5
  <2>10. Total(g, n + 1)
    BY Zenon, <2>7, <2>8, <2>9
  <2> HIDE DEF g, Total
  <2> QED
    BY <2>10
<1>5. Nat \subseteq T
  <2> HIDE DEF T
  <2> QED
    BY Zenon, <1>3, <1>4, NaturalInduction
<1>6. Cardinality(S) \in Nat
  BY Zenon, FS_CardinalityType
<1>7. PICK f : Total(f, Cardinality(S))
  BY Zenon, <1>5, <1>6
<1>8. Small(Cardinality(S)) = SUBSET S
  BY Zenon, <1>1
<1>9. SetTotal(f, w, pick, S)
  BY Zenon, <1>7, <1>8 DEF SetTotal
<1> QED
  BY Zenon, <1>9

(* Two weights that differ at a by as much as d.                             *)
LEMMA SetTotalChanges ==
  ASSUME NEW S, IsFiniteSet(S), NEW pick, Picks(pick, S),
         NEW v \in [S -> Nat], NEW w \in [S -> Nat], NEW f, NEW g,
         SetTotal(f, v, pick, S), SetTotal(g, w, pick, S),
         NEW a \in S, \A x \in S \ {a} : w[x] = v[x]
  PROVE  g[S] - f[S] = w[a] - v[a]
<1> DEFINE Good(s) == IF a \in s THEN g[s] - f[s] = w[a] - v[a] ELSE g[s] = f[s]
           T == {n \in Nat : \A s \in SUBSET S : Cardinality(s) = n => Good(s)}
<1>1. \A s \in SUBSET S : /\ IsFiniteSet(s) /\ Cardinality(s) \in Nat
                          /\ Cardinality(s) = 0 => s = {}
  BY Zenon, FS_Subset, FS_CardinalityType, FS_EmptySet
<1>2. /\ f[{}] = 0 /\ g[{}] = 0
      /\ \A s \in SUBSET S : /\ f[s] \in Nat /\ g[s] \in Nat
                             /\ s # {} => /\ f[s] = v[pick[s]] + f[s \ {pick[s]}]
                                          /\ g[s] = w[pick[s]] + g[s \ {pick[s]}]
  BY Zenon DEF SetTotal
<1>3. \A x \in S : v[x] \in Nat /\ w[x] \in Nat
  BY Zenon
<1>4. 0 \in T
  BY Zenon, <1>1, <1>2
<1>5. ASSUME NEW n \in Nat, n \in T PROVE n + 1 \in T
  <2> SUFFICES ASSUME NEW s \in SUBSET S, Cardinality(s) = n + 1 PROVE Good(s)
    <3> HIDE DEF Good
    <3> QED
      OBVIOUS
  <2>1. s # {}
    <3>1. Cardinality(s) # 0
      OBVIOUS
    <3> QED
      BY Zenon, <3>1, FS_EmptySet
  <2> DEFINE x == pick[s]
             r == s \ {x}
  <2>2. x \in s
    BY Zenon, <2>1 DEF Picks
  <2>3. r \in SUBSET S /\ Cardinality(r) = Cardinality(s) - 1
    BY Zenon, <1>1, <2>2, FS_RemoveElement
  <2>4. Cardinality(r) = n
    BY <2>3
  <2>5. Good(r)
    BY Zenon, <1>5, <2>3, <2>4
  <2>6. /\ f[s] = v[x] + f[r] /\ g[s] = w[x] + g[r]
        /\ f[r] \in Nat /\ g[r] \in Nat /\ v[x] \in Nat /\ w[x] \in Nat
        /\ v[a] \in Nat /\ w[a] \in Nat
    BY Zenon, <1>2, <1>3, <2>1, <2>2, <2>3
  <2>7. CASE x = a
    <3>1. g[r] = f[r]
      BY Zenon, <2>5, <2>7
    <3>2. g[s] - f[s] = w[a] - v[a]
      BY <2>6, <2>7, <3>1
    <3> QED
      BY Zenon, <2>2, <2>7, <3>2
  <2>8. CASE x # a
    <3>1. w[x] = v[x]
      BY Zenon, <2>2, <2>8
    <3>2. a \in r <=> a \in s
      BY Zenon, <2>8
    <3>3. CASE a \in s
      <4>1. g[r] - f[r] = w[a] - v[a]
        BY Zenon, <2>5, <3>2, <3>3
      <4>2. g[s] - f[s] = w[a] - v[a]
        BY <2>6, <3>1, <4>1
      <4> QED
        BY Zenon, <3>3, <4>2
    <3>4. CASE a \notin s
      BY Zenon, <2>5, <2>6, <3>1, <3>2, <3>4
    <3> QED
      BY Zenon, <3>3, <3>4
  <2> QED
    BY Zenon, <2>7, <2>8
<1>6. Nat \subseteq T
  <2> HIDE DEF T
  <2> QED
    BY Zenon, <1>4, <1>5, NaturalInduction
<1>7. S \in SUBSET S /\ Cardinality(S) \in Nat
  BY Zenon, FS_CardinalityType
<1> QED
  BY Zenon, <1>6, <1>7

Pick == [s \in SUBSET Users |-> CHOOSE x \in s : TRUE]

LEMMA PickPicks == Picks(Pick, Users)
BY Zenon DEF Pick, Picks

(* SumOf adds the numbers of all users, one by one.                          *)
LEMMA SumIsTotal ==
  ASSUME IsFiniteSet(Users), NEW w \in [Users -> Nat]
  PROVE  \E f : SetTotal(f, w, Pick, Users) /\ SumOf(w) = f[Users]
<1> DEFINE P(g) == g = [s \in SUBSET Users |->
                          IF s = {} THEN 0
                          ELSE w[CHOOSE x \in s : TRUE] + g[s \ {CHOOSE x \in s : TRUE}]]
           sum == CHOOSE g : P(g)
<1>1. DOMAIN w = Users
  BY Zenon
<1>2. SumOf(w) = sum[Users]
  BY Zenon, <1>1 DEF SumOf, FoldFunction, FoldFunctionOnSet, MapThenFoldSet
<1>3. PICK f : SetTotal(f, w, Pick, Users)
  BY Zenon, PickPicks, SetTotalExists
<1>4. \A s \in SUBSET Users : s # {} =>
        Pick[s] = (CHOOSE x \in s : TRUE) /\ s \ {Pick[s]} \in SUBSET Users
  BY Zenon DEF Pick
<1>5. /\ f \in [SUBSET Users -> Nat] /\ f[{}] = 0
      /\ \A s \in SUBSET Users : s # {} =>
           f[s] = w[CHOOSE x \in s : TRUE] + f[s \ {CHOOSE x \in s : TRUE}]
  BY Zenon, <1>3, <1>4 DEF SetTotal
<1>6. P(f)
  BY Zenon, <1>5
<1>7. P(sum)
  BY Zenon, <1>6
<1> HIDE DEF sum
<1>8. /\ sum[{}] = 0
      /\ \A s \in SUBSET Users : s # {} =>
           sum[s] = w[CHOOSE x \in s : TRUE] + sum[s \ {CHOOSE x \in s : TRUE}]
  BY Zenon, <1>7
<1> DEFINE T == {n \in Nat : \A s \in SUBSET Users : Cardinality(s) = n => sum[s] = f[s]}
<1>9. \A s \in SUBSET Users : /\ IsFiniteSet(s) /\ Cardinality(s) \in Nat
                              /\ Cardinality(s) = 0 => s = {}
  BY Zenon, FS_Subset, FS_CardinalityType, FS_EmptySet
<1>10. 0 \in T
  BY Zenon, <1>5, <1>8, <1>9
<1>11. ASSUME NEW n \in Nat, n \in T PROVE n + 1 \in T
  <2> SUFFICES ASSUME NEW s \in SUBSET Users, Cardinality(s) = n + 1 PROVE sum[s] = f[s]
    OBVIOUS
  <2>1. s # {}
    <3>1. Cardinality(s) # 0
      OBVIOUS
    <3> QED
      BY Zenon, <3>1, FS_EmptySet
  <2>2. PICK x \in s : x = CHOOSE y \in s : TRUE
    BY Zenon, <2>1
  <2>3. s \ {x} \in SUBSET Users /\ Cardinality(s \ {x}) = Cardinality(s) - 1
    BY Zenon, <1>9, <2>2, FS_RemoveElement
  <2>4. Cardinality(s \ {x}) = n
    BY <2>3
  <2>5. sum[s \ {x}] = f[s \ {x}]
    BY Zenon, <1>11, <2>3, <2>4
  <2>6. sum[s] = w[x] + sum[s \ {x}]
    BY Zenon, <1>8, <2>1, <2>2
  <2>7. f[s] = w[x] + f[s \ {x}]
    BY Zenon, <1>5, <2>1, <2>2
  <2> QED
    BY Zenon, <2>5, <2>6, <2>7
<1>12. Nat \subseteq T
  <2> HIDE DEF T
  <2> QED
    BY Zenon, <1>10, <1>11, NaturalInduction
<1>13. sum[Users] = f[Users]
  BY Zenon, <1>9, <1>12
<1> QED
  BY Zenon, <1>2, <1>3, <1>13

(* The sum of nothing, and of one number changed.                            *)
LEMMA SumOfNothing ==
  ASSUME IsFiniteSet(Users)
  PROVE  SumOf([u \in Users |-> 0]) = 0
<1> DEFINE w == [u \in Users |-> 0]
<1>1. w \in [Users -> Nat] /\ \A u \in Users : w[u] = 0
  OBVIOUS
<1> HIDE DEF w
<1>2. PICK f : SetTotal(f, w, Pick, Users) /\ SumOf(w) = f[Users]
  BY Zenon, <1>1, SumIsTotal
<1> DEFINE T == {n \in Nat : \A s \in SUBSET Users : Cardinality(s) = n => f[s] = 0}
<1>3. \A s \in SUBSET Users : /\ IsFiniteSet(s) /\ Cardinality(s) \in Nat
                              /\ Cardinality(s) = 0 => s = {}
  BY Zenon, FS_Subset, FS_CardinalityType, FS_EmptySet
<1>4. f[{}] = 0 /\ \A s \in SUBSET Users : s # {} => f[s] = w[Pick[s]] + f[s \ {Pick[s]}]
  BY Zenon, <1>2 DEF SetTotal
<1>5. 0 \in T
  BY Zenon, <1>3, <1>4
<1>6. ASSUME NEW n \in Nat, n \in T PROVE n + 1 \in T
  <2> SUFFICES ASSUME NEW s \in SUBSET Users, Cardinality(s) = n + 1 PROVE f[s] = 0
    OBVIOUS
  <2>1. s # {}
    <3>1. Cardinality(s) # 0
      OBVIOUS
    <3> QED
      BY Zenon, <3>1, FS_EmptySet
  <2>2. PICK x \in s : x = Pick[s]
    BY Zenon, <2>1, PickPicks DEF Picks
  <2>3. s \ {x} \in SUBSET Users /\ Cardinality(s \ {x}) = Cardinality(s) - 1
    BY Zenon, <1>3, <2>2, FS_RemoveElement
  <2>4. Cardinality(s \ {x}) = n
    BY <2>3
  <2>5. f[s \ {x}] = 0 /\ w[x] = 0
    BY Zenon, <1>1, <1>6, <2>3, <2>4
  <2>6. f[s] = w[x] + f[s \ {x}]
    BY Zenon, <1>4, <2>1, <2>2
  <2> QED
    BY <2>5, <2>6
<1>7. Nat \subseteq T
  <2> HIDE DEF T
  <2> QED
    BY Zenon, <1>5, <1>6, NaturalInduction
<1>8. f[Users] = 0
  BY Zenon, <1>3, <1>7
<1> QED
  BY Zenon, <1>2, <1>8 DEF w

(* The number of at most one user is another one.                            *)
DiffersAt(v, w, a) ==
  /\ v \in [Users -> Nat] /\ w \in [Users -> Nat] /\ a \in Users
  /\ \A x \in Users \ {a} : w[x] = v[x]

LEMMA SumOfDifference ==
  ASSUME IsFiniteSet(Users), NEW v, NEW w, NEW a, DiffersAt(v, w, a)
  PROVE  /\ SumOf(v) \in Nat /\ SumOf(w) \in Nat /\ v[a] \in Nat /\ w[a] \in Nat
         /\ SumOf(w) = SumOf(v) + (w[a] - v[a])
<1>1. /\ v \in [Users -> Nat] /\ w \in [Users -> Nat] /\ a \in Users
      /\ \A x \in Users \ {a} : w[x] = v[x]
  BY Zenon DEF DiffersAt
<1>2. PICK f : SetTotal(f, v, Pick, Users) /\ SumOf(v) = f[Users]
  BY Zenon, <1>1, SumIsTotal
<1>3. PICK g : SetTotal(g, w, Pick, Users) /\ SumOf(w) = g[Users]
  BY Zenon, <1>1, SumIsTotal
<1>4. g[Users] - f[Users] = w[a] - v[a]
  BY <1>1, <1>2, <1>3, PickPicks, SetTotalChanges
<1>5. f[Users] \in Nat /\ g[Users] \in Nat /\ v[a] \in Nat /\ w[a] \in Nat
  BY Zenon, <1>1, <1>2, <1>3 DEF SetTotal
<1>6. g[Users] = f[Users] + (w[a] - v[a])
  BY <1>4, <1>5
<1> QED
  BY Zenon, <1>2, <1>3, <1>5, <1>6

(* Every message changes the totals by as much as the users' numbers.        *)
LEMMA SumStep ==
  ASSUME IsFiniteSet(Users), StakingInv, SupplyIsSum, [Next]_vars
  PROVE  SupplyIsSum'
<1> USE DEF StakingInv
<1>1. /\ balances \in [Users -> Nat] /\ claims \in [Users -> Nat]
      /\ supply \in [issued : Nat, bonded : Nat, claims : Nat]
      /\ supply.issued \in Nat /\ supply.claims \in Nat
  BY DEF TypeOK
<1>2. supply.issued = SumOf(balances) /\ supply.claims = SumOf(claims)
  BY Zenon DEF SupplyIsSum
<1>3. Owner \in Users /\ MaxNative \in Nat
  BY Zenon, StakingAssumption
<1>4. CASE \E sender, recipient \in Users, n \in 1 .. MaxNative : Transfer(sender, recipient, n)
  <2>1. PICK sender \in Users, recipient \in Users, n \in 1 .. MaxNative :
             Transfer(sender, recipient, n)
    BY Zenon, <1>4
  <2>2. n \in Nat
    BY <1>3
  <2>3. PICK debited : debited = [balances EXCEPT ![sender] = @ - n]
    BY Zenon
  <2>4. /\ n <= balances[sender] /\ balances' = [debited EXCEPT ![recipient] = @ + n]
        /\ claims' = claims /\ supply' = supply
    BY Zenon, <2>1, <2>3 DEF Transfer
  <2>5. DiffersAt(balances, debited, sender) /\ debited[sender] = balances[sender] - n
    BY <1>1, <2>2, <2>3, <2>4 DEF DiffersAt
  <2>6. DiffersAt(debited, balances', recipient) /\ balances'[recipient] = debited[recipient] + n
    BY <2>2, <2>4, <2>5 DEF DiffersAt
  <2>7. SumOf(balances') = supply.issued
    <3>1. /\ balances[sender] \in Nat /\ debited[recipient] \in Nat
          /\ SumOf(debited) = SumOf(balances) + (debited[sender] - balances[sender])
          /\ SumOf(balances') = SumOf(debited) + (balances'[recipient] - debited[recipient])
      BY Zenon, <2>5, <2>6, SumOfDifference
    <3> QED
      BY <1>1, <1>2, <2>2, <2>5, <2>6, <3>1
  <2> QED
    BY Zenon, <1>2, <2>4, <2>7 DEF SupplyIsSum
<1>5. CASE \E sender \in Users, n \in 1 .. MaxNative : Bond(sender, n)
  <2>1. PICK sender \in Users, n \in 1 .. MaxNative : Bond(sender, n)
    BY Zenon, <1>5
  <2>2. n \in Nat
    BY <1>3
  <2>3. PICK m \in Nat : m = Minted(n)
    BY Zenon, <2>2, MintedBounds
  <2>4. /\ supply' = [supply EXCEPT !.bonded = delegated + n, !.issued = @ + m]
        /\ balances' = [balances EXCEPT ![sender] = @ + m] /\ claims' = claims
    BY Zenon, <2>1, <2>3 DEF Bond
  <2>5. supply'.issued = supply.issued + m /\ supply'.claims = supply.claims
    BY <1>1, <2>4
  <2>6. DiffersAt(balances, balances', sender) /\ balances'[sender] = balances[sender] + m
    BY <1>1, <2>3, <2>4 DEF DiffersAt
  <2>7. SumOf(balances') = supply.issued + m
    <3>1. /\ balances[sender] \in Nat
          /\ SumOf(balances') = SumOf(balances) + (balances'[sender] - balances[sender])
      BY Zenon, <2>6, SumOfDifference
    <3> QED
      BY <1>1, <1>2, <2>3, <2>6, <3>1
  <2> QED
    BY Zenon, <1>2, <2>4, <2>5, <2>7 DEF SupplyIsSum
<1>6. CASE \E sender \in Users, n \in 0 .. MaxNative : Unbond(sender, n)
  <2>1. PICK sender \in Users, n \in 0 .. MaxNative : Unbond(sender, n)
    BY Zenon, <1>6
  <2>2. n \in Nat /\ supply.issued > 0
    BY <1>3, <2>1 DEF Unbond
  <2>3. PICK t \in Nat, k \in Nat : t = Tax(n) /\ k = Unbonded(n)
    BY Zenon, <2>2, UnbondedBounds
  <2>4. t <= n
    BY Zenon, <2>2, <2>3, UnbondedBounds
  <2>5. PICK debited : debited = [balances EXCEPT ![sender] = @ - n]
    BY Zenon
  <2>6. /\ n <= balances[sender] /\ balances' = [debited EXCEPT ![Owner] = @ + t]
        /\ claims' = [claims EXCEPT ![sender] = @ + k]
        /\ supply' = [issued |-> supply.issued - (n - t), bonded |-> delegated - k,
                      claims |-> supply.claims + k]
    BY Zenon, <2>1, <2>3, <2>5 DEF Unbond
  <2>7. supply'.issued = supply.issued - (n - t) /\ supply'.claims = supply.claims + k
    BY <2>6
  <2>8. DiffersAt(balances, debited, sender) /\ debited[sender] = balances[sender] - n
    BY <1>1, <2>2, <2>5, <2>6 DEF DiffersAt
  <2>9. DiffersAt(debited, balances', Owner) /\ balances'[Owner] = debited[Owner] + t
    BY <1>3, <2>6, <2>8 DEF DiffersAt
  <2>10. DiffersAt(claims, claims', sender) /\ claims'[sender] = claims[sender] + k
    BY <1>1, <2>6 DEF DiffersAt
  <2>11. SumOf(balances') = supply'.issued
    <3>1. /\ balances[sender] \in Nat /\ debited[Owner] \in Nat
          /\ SumOf(debited) = SumOf(balances) + (debited[sender] - balances[sender])
          /\ SumOf(balances') = SumOf(debited) + (balances'[Owner] - debited[Owner])
      BY Zenon, <2>8, <2>9, SumOfDifference
    <3> QED
      BY <1>1, <1>2, <2>2, <2>7, <2>8, <2>9, <3>1
  <2>12. SumOf(claims') = supply'.claims
    <3>1. /\ claims[sender] \in Nat
          /\ SumOf(claims') = SumOf(claims) + (claims'[sender] - claims[sender])
      BY Zenon, <2>10, SumOfDifference
    <3> QED
      BY <1>1, <1>2, <2>7, <2>10, <3>1
  <2> QED
    BY Zenon, <2>11, <2>12 DEF SupplyIsSum
<1>7. CASE \E sender \in Users : Claim(sender)
  <2>1. PICK sender \in Users : Claim(sender)
    BY Zenon, <1>7
  <2>2. bank \in Nat /\ claims[sender] \in Nat
    BY Zenon, <1>1 DEF TypeOK
  <2>3. PICK n \in Nat : n = Smaller(bank, claims[sender]) /\ n <= claims[sender]
    BY <2>2 DEF Smaller
  <2>4. /\ claims' = [claims EXCEPT ![sender] = @ - n]
        /\ supply' = [supply EXCEPT !.claims = @ - n] /\ balances' = balances
    BY Zenon, <2>1, <2>3 DEF Claim
  <2>5. supply'.issued = supply.issued /\ supply'.claims = supply.claims - n
    BY <1>1, <2>4
  <2>6. DiffersAt(claims, claims', sender) /\ claims'[sender] = claims[sender] - n
    BY <1>1, <2>3, <2>4 DEF DiffersAt
  <2>7. SumOf(claims') = supply'.claims
    <3>1. /\ claims[sender] \in Nat
          /\ SumOf(claims') = SumOf(claims) + (claims'[sender] - claims[sender])
      BY Zenon, <2>6, SumOfDifference
    <3> QED
      BY <1>1, <1>2, <2>3, <2>5, <2>6, <3>1
  <2> QED
    BY Zenon, <1>2, <2>4, <2>5, <2>7 DEF SupplyIsSum
<1>8. CASE Reinvest
  <2>1. PICK n : supply' = [supply EXCEPT !.bonded = @ + n] /\ UNCHANGED <<balances, claims>>
    BY Zenon, <1>8 DEF Reinvest
  <2>2. supply'.issued = supply.issued /\ supply'.claims = supply.claims
    BY <1>1, <2>1
  <2> QED
    BY Zenon, <1>2, <2>1, <2>2 DEF SupplyIsSum
<1>9. CASE ChainStep
  <2>1. UNCHANGED <<balances, claims, supply>>
    BY Zenon, <1>9 DEF ChainStep, Mature, Reward, Receive, Slash, SlashUnbonding
  <2> QED
    BY Zenon, <1>2, <2>1 DEF SupplyIsSum
<1>10. CASE UNCHANGED vars
  BY Zenon, <1>2, <1>10 DEF vars, SupplyIsSum
<1> QED
  BY Zenon, <1>4, <1>5, <1>6, <1>7, <1>8, <1>9, <1>10, NextCases

(* The totals the contract stores are the sums over its users, of tokens and *)
(* of claims: transfers (to oneself too), bonds, unbonds with a tax for the  *)
(* owner (by the owner too), claims and slashing make and lose no tokens.    *)
(* The addresses of a chain are finitely many.                               *)
THEOREM TokensAreConserved ==
  ASSUME IsFiniteSet(Users)
  PROVE  Spec => []SupplyIsSum
<1>1. Init => SupplyIsSum
  <2> SUFFICES ASSUME Init PROVE SupplyIsSum
    BY Zenon
  <2>1. balances = [u \in Users |-> 0] /\ claims = [u \in Users |-> 0]
    BY Zenon DEF Init
  <2>2. supply.issued = 0 /\ supply.claims = 0
    BY DEF Init
  <2> QED
    BY Zenon, <2>1, <2>2, SumOfNothing DEF SupplyIsSum
<1>2. StakingInv /\ SupplyIsSum /\ [Next]_vars => SupplyIsSum'
  BY Zenon, SumStep
<1> QED
  BY <1>1, <1>2, StakingInvariant, PTL DEF Spec

--------------------------------------------------------------------------------
EscrowState == [verifier : Accounts, beneficiary : Accounts, funder : Accounts]

(* A storage with a well-formed state, if any, that names the beneficiary    *)
(* that was promised.                                                        *)
Promising(s, beneficiary) ==
  CONFIG_KEY \in DOMAIN s =>
    s[CONFIG_KEY] \in EscrowState /\ beneficiary = <<s[CONFIG_KEY].beneficiary>>

(* The inductive invariant.  It also holds of the storage a call that will   *)
(* be undone goes back to; such a call runs in hackatom only.                *)
EscrowInv ==
  /\ deposited \in Nat /\ coins \in 0 .. deposited /\ released \in [Accounts -> Nat]
  /\ code \in Codes
  /\ Promising(storage, promised)
  /\ endless # <<>> =>
       code = "hackatom" /\ Promising(endless[1], promised) /\ CONFIG_KEY \in DOMAIN endless[1]
  /\ code \in Escrow => CONFIG_KEY \in DOMAIN storage
  /\ code = "none" => \A a \in Accounts : released[a] = 0
  /\ ReleasedToTheBeneficiary

(* The keys of the two entries are different.                                *)
LEMMA KeysDiffer == CONFIG_KEY # TEST_KEY
BY DEF CONFIG_KEY, TEST_KEY

(* An account without code has no escrow state.                              *)
LEMMA InitEscrowInv == HackatomInit => EscrowInv
<1> SUFFICES ASSUME HackatomInit PROVE EscrowInv
  BY Zenon
<1>1. CONFIG_KEY \notin DOMAIN storage
  <2>1. storage = EmptyMap
    BY Zenon DEF HackatomInit
  <2> QED
    BY <2>1 DEF CONFIG_KEY, EmptyMap
<1>2. code = "none" /\ endless = <<>>
  BY Zenon DEF HackatomInit
<1>3. coins = 0 /\ deposited = 0 /\ released = [a \in Accounts |-> 0]
  BY Zenon DEF HackatomInit
<1> QED
  BY <1>1, <1>2, <1>3 DEF EscrowInv, Promising, ReleasedToTheBeneficiary, Escrow, Codes

(* Releasing pays the beneficiary of the state, who is the one promised.     *)
LEMMA ReleaseKeepsInv ==
  ASSUME EscrowInv, NEW sender, code \in Escrow, Release(sender)
  PROVE  EscrowInv'
<1> DEFINE b == storage[CONFIG_KEY].beneficiary
<1>1. /\ CONFIG_KEY \in DOMAIN storage /\ b \in Accounts /\ promised = <<b>>
  BY Zenon DEF EscrowInv, Promising, EscrowState
<1>2. /\ coins' = coins - coins /\ released' = [released EXCEPT ![b] = @ + coins]
      /\ UNCHANGED <<code, storage, deposited, promised, burnt, endless>>
  BY Zenon DEF Release, Send
<1>3. released' \in [Accounts -> Nat] /\ coins' = 0 /\ deposited' \in Nat
  BY <1>1, <1>2 DEF EscrowInv
<1>4. ReleasedToTheBeneficiary'
  BY Zenon, <1>1, <1>2, <1>3 DEF EscrowInv, ReleasedToTheBeneficiary
<1> QED
  BY <1>2, <1>3, <1>4 DEF EscrowInv, Promising, Escrow

(* A new state is the one promised from then on.                             *)
LEMMA InstantiateKeepsInv ==
  ASSUME EscrowInv, NEW kind, NEW sender \in Accounts, NEW verifier, NEW beneficiary,
         instantiate(kind, sender, verifier, beneficiary)
  PROVE  EscrowInv'
<1> DEFINE state == [verifier |-> verifier, beneficiary |-> beneficiary, funder |-> sender]
<1>1. /\ code = "none" /\ kind \in Escrow /\ state \in EscrowState
      /\ code' = kind /\ storage' = set(storage, CONFIG_KEY, state) /\ promised' = <<beneficiary>>
      /\ UNCHANGED <<coins, deposited, released, burnt, endless>>
  BY Zenon DEF instantiate, addr_validate, EscrowState
<1>2. CONFIG_KEY \in DOMAIN storage' /\ storage'[CONFIG_KEY] = state
  BY Zenon, <1>1 DEF set
<1>3. Promising(storage, promised)'
  BY <1>1, <1>2 DEF Promising
<1>4. endless = <<>> /\ \A a \in Accounts : released[a] = 0
  BY Zenon, <1>1 DEF EscrowInv
<1>5. ReleasedToTheBeneficiary'
  BY <1>1, <1>4 DEF ReleasedToTheBeneficiary
<1> QED
  BY Zenon, <1>1, <1>2, <1>3, <1>4, <1>5 DEF EscrowInv, Escrow, Codes

(* A migration to hackatom needs a state and keeps its beneficiary.          *)
LEMMA MigrateKeepsInv ==
  ASSUME EscrowInv, NEW verifier, hackatom_migrate(verifier)
  PROVE  EscrowInv'
<1>1. /\ CONFIG_KEY \in DOMAIN storage /\ verifier \in Accounts /\ endless = <<>>
      /\ code # "none" /\ code' = "hackatom"
      /\ storage' = [storage EXCEPT ![CONFIG_KEY].verifier = verifier]
      /\ UNCHANGED <<coins, deposited, released, promised, burnt, endless>>
  BY Zenon DEF hackatom_migrate, Idle, get, addr_validate
<1>2. storage[CONFIG_KEY] \in EscrowState /\ promised = <<storage[CONFIG_KEY].beneficiary>>
  BY Zenon, <1>1 DEF EscrowInv, Promising
<1>3. /\ CONFIG_KEY \in DOMAIN storage'
      /\ storage'[CONFIG_KEY] = [storage[CONFIG_KEY] EXCEPT !.verifier = verifier]
  BY Zenon, <1>1
<1>4. /\ storage'[CONFIG_KEY] \in EscrowState
      /\ storage'[CONFIG_KEY].beneficiary = storage[CONFIG_KEY].beneficiary
  BY Zenon, <1>1, <1>2, <1>3 DEF EscrowState
<1>5. Promising(storage, promised)'
  BY Zenon, <1>1, <1>2, <1>4 DEF Promising
<1> QED
  BY Zenon, <1>1, <1>3, <1>5 DEF EscrowInv, Escrow, ReleasedToTheBeneficiary, Codes

(* Every other step leaves the state as it is or goes back to one.           *)
LEMMA OtherStepsKeepInv ==
  ASSUME EscrowInv,
         \/ \E recipient \in Names, amount \in 1 .. MaxCoins : sudo(recipient, amount)
         \/ endless_call \/ do_storage_loop \/ OutOfGas
         \/ \E payout \in Names : burner_migrate(payout)
         \/ \E amount \in 1 .. MaxCoins : Deposit(amount)
  PROVE  EscrowInv'
<1> USE HackatomAssumption
<1>1. CASE \E recipient \in Names, amount \in 1 .. MaxCoins : sudo(recipient, amount)
  <2> PICK recipient \in Names, amount \in 1 .. MaxCoins : sudo(recipient, amount)
    BY Zenon, <1>1
  <2>1. coins' = coins - amount /\ amount <= coins
        /\ UNCHANGED <<code, storage, deposited, released, promised, burnt, endless>>
    BY Zenon DEF sudo, Send
  <2>2. coins' \in 0 .. deposited
    BY <2>1 DEF EscrowInv
  <2> QED
    BY Zenon, <2>1, <2>2 DEF EscrowInv, Promising, ReleasedToTheBeneficiary, Escrow
<1>2. CASE endless_call
  <2>1. /\ endless' = <<storage>> /\ code = "hackatom"
        /\ UNCHANGED <<code, storage, coins, deposited, released, promised, burnt>>
    BY Zenon, <1>2 DEF endless_call
  <2>2. endless'[1] = storage
    BY Zenon, <2>1
  <2> QED
    BY Zenon, <2>1, <2>2 DEF EscrowInv, Promising, ReleasedToTheBeneficiary, Escrow
<1>3. CASE do_storage_loop
  <2>1. PICK v : storage' = set(storage, TEST_KEY, v)
    BY Zenon, <1>3 DEF do_storage_loop
  <2>2. UNCHANGED <<code, coins, deposited, released, promised, burnt, endless>>
    BY Zenon, <1>3 DEF do_storage_loop
  <2>3. /\ CONFIG_KEY \in DOMAIN storage' <=> CONFIG_KEY \in DOMAIN storage
        /\ CONFIG_KEY \in DOMAIN storage => storage'[CONFIG_KEY] = storage[CONFIG_KEY]
    BY Zenon, <2>1, KeysDiffer DEF set
  <2> QED
    BY Zenon, <2>2, <2>3 DEF EscrowInv, Promising, ReleasedToTheBeneficiary, Escrow
<1>4. CASE OutOfGas
  BY Zenon, <1>4 DEF OutOfGas, Idle, EscrowInv, Promising, ReleasedToTheBeneficiary, Escrow
<1>5. CASE \E payout \in Names : burner_migrate(payout)
  <2> PICK payout \in Names : burner_migrate(payout)
    BY Zenon, <1>5
  <2>1. /\ endless = <<>> /\ code' = "burner" /\ coins' = coins - coins
        /\ UNCHANGED <<deposited, released, promised, endless>>
    BY Zenon DEF burner_migrate, Idle, Send
  <2>2. PICK keys : storage' = [k \in DOMAIN storage \ Range(keys) |-> storage[k]]
    BY Zenon DEF burner_migrate
  <2>3. CONFIG_KEY \in DOMAIN storage' =>
          CONFIG_KEY \in DOMAIN storage /\ storage'[CONFIG_KEY] = storage[CONFIG_KEY]
    BY Zenon, <2>2
  <2> QED
    BY <2>1, <2>3 DEF EscrowInv, Promising, ReleasedToTheBeneficiary, Escrow, Codes
<1>6. CASE \E amount \in 1 .. MaxCoins : Deposit(amount)
  <2> PICK amount \in 1 .. MaxCoins : Deposit(amount)
    BY Zenon, <1>6
  <2>1. /\ coins' = coins + amount /\ deposited' = deposited + amount
        /\ UNCHANGED <<code, storage, released, promised, burnt, endless>>
    BY Zenon DEF Deposit
  <2>2. deposited' \in Nat /\ coins' \in 0 .. deposited'
    BY <2>1 DEF EscrowInv
  <2> QED
    BY Zenon, <2>1, <2>2 DEF EscrowInv, Promising, ReleasedToTheBeneficiary, Escrow
<1> QED
  BY Zenon, <1>1, <1>2, <1>3, <1>4, <1>5, <1>6

(* If a storage has an escrow state, it is the one another storage had.      *)
KeepsState(w, s) ==
  CONFIG_KEY \in DOMAIN w => CONFIG_KEY \in DOMAIN s /\ w[CONFIG_KEY] = s[CONFIG_KEY]

(* queue and ibc-reflect write under other keys than the escrow contracts.   *)
LEMMA OtherKeys ==
  /\ \A x : <<x>> # CONFIG_KEY
  /\ KEY_CONFIG # CONFIG_KEY /\ KEY_PENDING_CHANNEL # CONFIG_KEY
BY DEF CONFIG_KEY, KEY_CONFIG, KEY_PENDING_CHANNEL

LEMMA WritesKeepState ==
  ASSUME NEW s, NEW key, NEW v
  PROVE  /\ key # CONFIG_KEY => KeepsState(set(s, key, v), s)
         /\ KeepsState(remove(s, key), s) /\ KeepsState(s, s)
BY Zenon DEF KeepsState, set, remove

LEMMA EnqueuedKeepsState == \A s : KeepsState(Enqueued(s), s)
BY Zenon, WritesKeepState, OtherKeys DEF Enqueued

(* The steps of the codes that know nothing of an escrow.                    *)
OtherCodes ==
  \/ queue_instantiate \/ queue_enqueue \/ queue_dequeue \/ queue_migrate
  \/ ibc_reflect_instantiate \/ ibc_reflect_call \/ ibc_reflect_migrate

(* They run between the escrow's calls and make up no state of an escrow.    *)
LEMMA OtherCodesFrame ==
  ASSUME EscrowInv, OtherCodes
  PROVE  /\ endless = <<>> /\ code' \in {"queue", "ibc_reflect"} /\ KeepsState(storage', storage)
         /\ UNCHANGED <<coins, deposited, released, promised, burnt, endless>>
<1>1. endless = <<>>
  <2>1. code = "none" => endless = <<>>
    BY DEF EscrowInv
  <2> QED
    BY Zenon, <2>1 DEF OtherCodes, queue_instantiate, queue_enqueue, queue_dequeue, queue_migrate,
                       ibc_reflect_instantiate, ibc_reflect_call, ibc_reflect_migrate, Idle
<1>2. /\ code' \in {"queue", "ibc_reflect"}
      /\ UNCHANGED <<coins, deposited, released, promised, burnt, endless>>
  BY Zenon DEF OtherCodes, queue_instantiate, queue_enqueue, queue_dequeue, queue_migrate,
               ibc_reflect_instantiate, ibc_reflect_call, ibc_reflect_migrate
<1>3. CASE queue_instantiate \/ ibc_reflect_migrate
  BY Zenon, <1>1, <1>2, <1>3, WritesKeepState DEF queue_instantiate, ibc_reflect_migrate
<1>4. CASE queue_enqueue
  BY Zenon, <1>1, <1>2, <1>4, EnqueuedKeepsState DEF queue_enqueue
<1>5. CASE queue_dequeue
  BY Zenon, <1>1, <1>2, <1>5, WritesKeepState DEF queue_dequeue
<1>6. CASE queue_migrate
  <2>1. PICK keys, cleared : /\ cleared = [k \in DOMAIN storage \ Range(keys) |-> storage[k]]
                             /\ storage' = Enqueued(Enqueued(Enqueued(cleared)))
    BY Zenon, <1>6 DEF queue_migrate
  <2>2. KeepsState(cleared, storage)
    BY Zenon, <2>1 DEF KeepsState
  <2>3. /\ KeepsState(Enqueued(cleared), cleared)
        /\ KeepsState(Enqueued(Enqueued(cleared)), Enqueued(cleared))
        /\ KeepsState(storage', Enqueued(Enqueued(cleared)))
    BY Zenon, <2>1, EnqueuedKeepsState
  <2> QED
    BY Zenon, <1>1, <1>2, <2>2, <2>3 DEF KeepsState
<1>7. CASE ibc_reflect_instantiate \/ ibc_reflect_call
  BY Zenon, <1>1, <1>2, <1>7, WritesKeepState, OtherKeys DEF ibc_reflect_instantiate, ibc_reflect_call
<1> QED
  BY Zenon, <1>3, <1>4, <1>5, <1>6, <1>7 DEF OtherCodes

LEMMA OtherCodesKeepInv ==
  ASSUME EscrowInv, OtherCodes
  PROVE  EscrowInv'
<1>1. /\ endless' = <<>> /\ code' \in {"queue", "ibc_reflect"} /\ KeepsState(storage', storage)
      /\ UNCHANGED <<coins, deposited, released, promised>>
  BY Zenon, OtherCodesFrame
<1>2. Promising(storage, promised)'
  BY Zenon, <1>1 DEF EscrowInv, Promising, KeepsState
<1>3. code' \in Codes /\ code' \notin Escrow /\ code' # "none"
  BY <1>1 DEF Codes, Escrow
<1> QED
  BY Zenon, <1>1, <1>2, <1>3 DEF EscrowInv, ReleasedToTheBeneficiary

(* The invariant is inductive: one case per message and migration.           *)
LEMMA NextEscrowInv == EscrowInv /\ [HackatomNext]_hackatomVars => EscrowInv'
<1> SUFFICES ASSUME EscrowInv, [HackatomNext]_hackatomVars PROVE EscrowInv'
  BY Zenon
<1>1. CASE UNCHANGED hackatomVars
  BY Zenon, <1>1 DEF hackatomVars, EscrowInv, Promising, ReleasedToTheBeneficiary, Escrow
<1>2. CASE \E kind \in Escrow, sender \in Accounts, verifier, beneficiary \in Names :
             instantiate(kind, sender, verifier, beneficiary)
  BY Zenon, <1>2, InstantiateKeepsInv
<1>3. CASE \E verifier \in Names : hackatom_migrate(verifier)
  BY Zenon, <1>3, MigrateKeepsInv
<1>4. CASE \E sender \in Accounts : do_release(sender) \/ floaty_execute(sender)
  <2> PICK sender \in Accounts : do_release(sender) \/ floaty_execute(sender)
    BY Zenon, <1>4
  <2>1. code \in Escrow /\ Release(sender)
    BY Zenon DEF do_release, floaty_execute, Escrow
  <2> QED
    BY Zenon, <2>1, ReleaseKeepsInv
<1> QED
  BY Zenon, <1>1, <1>2, <1>3, <1>4, OtherStepsKeepInv, OtherCodesKeepInv DEF HackatomNext, OtherCodes

(* The balance and the stored names of the escrow contracts are always       *)
(* valid: instantiate and migrate store no name that is not an address.      *)
THEOREM EscrowTypeCorrect == HackatomSpec => []HackatomTypeOK
<1>1. EscrowInv => HackatomTypeOK
  BY Zenon DEF EscrowInv, HackatomTypeOK, Promising, EscrowState
<1> QED
  BY <1>1, InitEscrowInv, NextEscrowInv, PTL DEF HackatomSpec

(* Whatever migrations happen and whoever is the verifier, release pays the  *)
(* beneficiary named at instantiation and nobody else.                       *)
THEOREM OnlyTheBeneficiaryIsPaid == HackatomSpec => []ReleasedToTheBeneficiary
<1>1. EscrowInv => ReleasedToTheBeneficiary
  BY Zenon DEF EscrowInv
<1> QED
  BY <1>1, InitEscrowInv, NextEscrowInv, PTL DEF HackatomSpec

(* The escrow code never runs without its state, also after an account was   *)
(* burnt or was another contract: there is always a verifier.                *)
THEOREM EscrowAlwaysHasVerifier == HackatomSpec => []EscrowHasVerifier
<1>1. EscrowInv => EscrowHasVerifier
  BY Zenon DEF EscrowInv, EscrowHasVerifier, Promising, EscrowState
<1> QED
  BY <1>1, InitEscrowInv, NextEscrowInv, PTL DEF HackatomSpec

(* An escrow can be released, and only to its beneficiary, for any number of *)
(* addresses, coins and migrations.                                          *)
THEOREM EscrowIsAlwaysKept == HackatomSpec => []EscrowIsKept
<1>1. HackatomTypeOK /\ ReleasedToTheBeneficiary /\ EscrowHasVerifier => EscrowIsKept
  BY Zenon DEF EscrowIsKept
<1> QED
  BY <1>1, EscrowTypeCorrect, OnlyTheBeneficiaryIsPaid, EscrowAlwaysHasVerifier, PTL

--------------------------------------------------------------------------------
(* The burner.                                                               *)

(* The keys of queue.                                                        *)
OneByte(s) == \A k \in DOMAIN s : Len(k) = 1

(* What an account that was burnt or is a queue is known by, and what an     *)
(* endless call will be undone to.                                           *)
BurnerInv ==
  /\ Storage(storage)
  /\ endless # <<>> => code = "hackatom" /\ Storage(endless[1])
  /\ code \in {"none", "burner"} => storage = EmptyMap
  /\ code = "queue" => OneByte(storage)

LEMMA EmptyFunction ==
  ASSUME NEW f, f = [k \in {} |-> f[k]]
  PROVE  f = EmptyMap
BY DEF EmptyMap

(* The keys found by a range without bounds are all keys.                    *)
LEMMA AllKeysAreFound ==
  ASSUME NEW m, Storage(m), NEW order, NEW keys, keys = KeysOf(range(m, <<>>, <<>>, order))
  PROVE  /\ keys \in Seq(DOMAIN m)
         /\ Range(keys) = DOMAIN m /\ Len(keys) = Cardinality(DOMAIN m)
<1>1. PICK records, found : /\ records = range(m, <<>>, <<>>, order)
                            /\ Lists(records, found, m, <<>>, <<>>, order)
  BY Zenon, RangeIsSorted
<1>2. Selected(m, <<>>, <<>>) = DOMAIN m
  BY Zenon DEF Selected, InBounds
<1>3. /\ found \in Seq(DOMAIN m) /\ Len(found) = Cardinality(DOMAIN m)
      /\ records = [i \in DOMAIN found |-> <<found[i], m[found[i]]>>]
      /\ \A k \in DOMAIN m : \E i \in DOMAIN found : found[i] = k
  BY Zenon, <1>1, <1>2 DEF Lists
<1>4. keys = [i \in DOMAIN found |-> found[i]]
  <2>1. keys = [i \in DOMAIN records |-> records[i][1]]
    BY Zenon, <1>1 DEF KeysOf
  <2>2. DOMAIN records = DOMAIN found /\ \A i \in DOMAIN found : records[i] = <<found[i], m[found[i]]>>
    BY Zenon, <1>3
  <2>3. \A i \in DOMAIN found : records[i][1] = found[i]
    BY <2>2
  <2> QED
    BY Zenon, <2>1, <2>2, <2>3
<1>5. found = [i \in DOMAIN found |-> found[i]] /\ \A i \in DOMAIN found : found[i] \in DOMAIN m
  <2>1. found \in [1 .. Len(found) -> DOMAIN m] /\ DOMAIN found = 1 .. Len(found)
    BY Zenon, <1>3, SequenceType
  <2> QED
    BY Zenon, <2>1
<1>6. keys = found
  BY Zenon, <1>4, <1>5
<1>7. Range(found) = DOMAIN m
  <2>1. \A k \in Range(found) : k \in DOMAIN m
    BY Zenon, <1>5 DEF Range
  <2>2. \A k \in DOMAIN m : k \in Range(found)
    BY Zenon, <1>3 DEF Range
  <2> QED
    BY Zenon, <2>1, <2>2
<1> QED
  BY Zenon, <1>3, <1>6, <1>7

LEMMA BurnerStart == HackatomInit => BurnerInv
<1> SUFFICES ASSUME HackatomInit PROVE BurnerInv
  OBVIOUS
<1>1. code # "queue" /\ endless = <<>> /\ storage = EmptyMap
  BY DEF HackatomInit
<1>2. DOMAIN EmptyMap = {} /\ IsFiniteSet({})
  BY FS_EmptySet DEF EmptyMap
<1> QED
  BY Zenon, <1>1, <1>2 DEF BurnerInv, Storage

(* Writing a key leaves finitely many.                                       *)
LEMMA StillStorage ==
  ASSUME NEW m, Storage(m), NEW key \in Seq(Nat), NEW w, DOMAIN w = DOMAIN m \cup {key}
  PROVE  Storage(w)
BY Zenon, FS_AddElement DEF Storage

LEMMA FewerKeys ==
  ASSUME NEW m, Storage(m), NEW w, DOMAIN w \subseteq DOMAIN m
  PROVE  Storage(w) /\ (OneByte(m) => OneByte(w))
BY Zenon, FS_Subset DEF Storage, OneByte

(* burner_migrate deletes every key and counts them.                         *)
(* w is m without the keys of a full range.                                  *)
Cleared(m, keys, w) ==
  /\ keys = KeysOf(range(m, <<>>, <<>>, "Ascending"))
  /\ w = [k \in DOMAIN m \ Range(keys) |-> m[k]]

LEMMA AllIsDeleted ==
  ASSUME NEW m, Storage(m), NEW keys, NEW w, Cleared(m, keys, w)
  PROVE  w = EmptyMap /\ Storage(w) /\ DOMAIN w = {} /\ Len(keys) = Cardinality(DOMAIN m)
<1>1. Range(keys) = DOMAIN m /\ Len(keys) = Cardinality(DOMAIN m)
  BY Zenon, AllKeysAreFound DEF Cleared
<1>2. w = [k \in {} |-> w[k]]
  <2>1. DOMAIN m \ Range(keys) = {}
    BY Zenon, <1>1
  <2>2. w = [k \in {} |-> m[k]]
    BY Zenon, <2>1 DEF Cleared
  <2> QED
    BY Zenon, <2>2
<1>3. w = EmptyMap
  BY Zenon, <1>2, EmptyFunction
<1>4. DOMAIN w = {} /\ IsFiniteSet({})
  BY <1>3, FS_EmptySet DEF EmptyMap
<1> QED
  BY Zenon, <1>1, <1>3, <1>4 DEF Storage

(* enqueue takes the first byte of the last key, which is all of it, and     *)
(* writes a key of one byte.                                                 *)
LEMMA EnqueueStep ==
  ASSUME NEW m, Storage(m), OneByte(m)
  PROVE  Storage(Enqueued(m)) /\ OneByte(Enqueued(m))
<1>1. PICK keys : keys = KeysOf(range(m, <<>>, <<>>, "Descending"))
  BY Zenon
<1>2. keys \in Seq(DOMAIN m)
  BY Zenon, <1>1, AllKeysAreFound
<1>3. PICK x : x = IF keys = <<>> THEN 0 ELSE keys[1][1] + 1
  BY Zenon
<1>4. x \in Nat
  <2>1. CASE keys = <<>>
    BY <1>3, <2>1
  <2>2. CASE keys # <<>>
    <3>1. keys[1] \in DOMAIN m
      BY <1>2, <2>2
    <3>2. PICK key : key = keys[1] /\ key \in Seq(Nat) /\ Len(key) = 1
      BY Zenon, <3>1 DEF Storage, OneByte
    <3>3. key[1] \in Nat
      BY <3>2
    <3> QED
      BY <1>3, <2>2, <3>2, <3>3
  <2> QED
    BY Zenon, <2>1, <2>2
<1>5. <<x>> \in Seq(Nat) /\ Len(<<x>>) = 1
  BY <1>4
<1>6. DOMAIN Enqueued(m) = DOMAIN m \cup {<<x>>}
  BY Zenon, <1>1, <1>3 DEF Enqueued, ItemKey, set
<1> QED
  BY Zenon, <1>5, <1>6, StillStorage DEF OneByte

LEMMA BurnStep ==
  ASSUME BurnerInv, NEW payout, burner_migrate(payout)
  PROVE  BurnerInv' /\ code' = "burner" /\ burnt' = Cardinality(DOMAIN storage)
<1>1. PICK keys : /\ Cleared(storage, keys, storage')
                  /\ burnt' = Len(keys) /\ code' = "burner" /\ endless' = endless /\ endless = <<>>
  <2>1. PICK keys : keys = KeysOf(range(storage, <<>>, <<>>, "Ascending"))
    BY Zenon
  <2>2. storage' = [k \in DOMAIN storage \ Range(keys) |-> storage[k]] /\ burnt' = Len(keys)
    BY Zenon, <2>1 DEF burner_migrate
  <2>3. code' = "burner" /\ endless' = endless /\ endless = <<>>
    BY Zenon DEF burner_migrate, Idle
  <2>4. Cleared(storage, keys, storage')
    BY Zenon, <2>1, <2>2 DEF Cleared
  <2> QED
    BY Zenon, <2>2, <2>3, <2>4
<1>2. Storage(storage)
  BY Zenon DEF BurnerInv
<1>3. storage' = EmptyMap /\ Storage(storage') /\ Len(keys) = Cardinality(DOMAIN storage)
  <2>1. ASSUME NEW w, Cleared(storage, keys, w)
        PROVE  w = EmptyMap /\ Storage(w) /\ Len(keys) = Cardinality(DOMAIN storage)
    BY <1>2, <2>1, AllIsDeleted
  <2> QED
    BY Zenon, <1>1, <2>1
<1>4. code' # "queue"
  BY <1>1
<1>5. BurnerInv'
  BY Zenon, <1>1, <1>3, <1>4 DEF BurnerInv
<1> QED
  BY Zenon, <1>1, <1>3, <1>5

(* The steps of queue and ibc-reflect.  A migration to queue starts with an  *)
(* empty storage.                                                            *)
LEMMA OtherCodesStep ==
  ASSUME EscrowInv, BurnerInv, OtherCodes
  PROVE  BurnerInv' /\ code' # "burner"
<1>1. endless = <<>> /\ endless' = <<>> /\ code' \in {"queue", "ibc_reflect"} /\ code' # "burner"
  <2>1. endless = <<>> /\ endless' = endless /\ code' \in {"queue", "ibc_reflect"}
    BY Zenon, OtherCodesFrame
  <2> QED
    BY <2>1
<1>2. KEY_CONFIG \in Seq(Nat) /\ KEY_PENDING_CHANNEL \in Seq(Nat)
  BY DEF KEY_CONFIG, KEY_PENDING_CHANNEL
<1>3. SUFFICES Storage(storage') /\ (code' = "queue" => OneByte(storage'))
  BY Zenon, <1>1 DEF BurnerInv
<1>4. CASE queue_instantiate
  <2>1. storage' = storage /\ storage = EmptyMap
    BY Zenon, <1>4 DEF queue_instantiate, BurnerInv
  <2>2. DOMAIN EmptyMap = {}
    BY DEF EmptyMap
  <2> QED
    BY Zenon, <2>1, <2>2 DEF BurnerInv, OneByte
<1>5. CASE queue_enqueue
  BY Zenon, <1>5, EnqueueStep DEF queue_enqueue, BurnerInv
<1>6. CASE queue_dequeue
  <2>1. DOMAIN storage' \subseteq DOMAIN storage
    BY Zenon, <1>6 DEF queue_dequeue, remove
  <2>2. code = "queue"
    BY Zenon, <1>6 DEF queue_dequeue
  <2> QED
    BY Zenon, <2>1, <2>2, FewerKeys DEF BurnerInv
<1>7. CASE queue_migrate
  <2>1. PICK keys, cleared : /\ Cleared(storage, keys, cleared)
                             /\ storage' = Enqueued(Enqueued(Enqueued(cleared)))
    BY Zenon, <1>7 DEF queue_migrate, Cleared
  <2>2. Storage(cleared) /\ DOMAIN cleared = {}
    <3>1. Storage(storage)
      BY Zenon DEF BurnerInv
    <3> QED
      BY Zenon, <2>1, <3>1, AllIsDeleted
  <2>3. OneByte(cleared)
    BY Zenon, <2>2 DEF OneByte
  <2> QED
    BY Zenon, <2>1, <2>2, <2>3, EnqueueStep
<1>8. CASE ibc_reflect_instantiate \/ ibc_reflect_call \/ ibc_reflect_migrate
  <2>1. code' # "queue"
    BY <1>8 DEF ibc_reflect_instantiate, ibc_reflect_call, ibc_reflect_migrate
  <2>2. \/ \E key \in {KEY_CONFIG, KEY_PENDING_CHANNEL} : DOMAIN storage' = DOMAIN storage \cup {key}
        \/ DOMAIN storage' \subseteq DOMAIN storage
    BY Zenon, <1>8 DEF ibc_reflect_instantiate, ibc_reflect_call, ibc_reflect_migrate, set, remove
  <2>3. Storage(storage')
    BY Zenon, <1>2, <2>2, StillStorage, FewerKeys DEF BurnerInv
  <2> QED
    BY Zenon, <2>1, <2>3
<1> QED
  BY Zenon, <1>4, <1>5, <1>6, <1>7, <1>8 DEF OtherCodes

(* Every other step leaves a burnt account and a queue alone or starts with  *)
(* neither: the state hackatom_migrate needs is gone.                        *)
LEMMA OtherBurnerSteps ==
  ASSUME EscrowInv, BurnerInv, HackatomNext, ~\E payout \in Names : burner_migrate(payout)
  PROVE  BurnerInv' /\ (code' = "burner" => code = "burner")
<1>1. CONFIG_KEY \in Seq(Nat) /\ TEST_KEY \in Seq(Nat)
  BY DEF CONFIG_KEY, TEST_KEY
<1>2. ASSUME NEW kind \in Escrow, NEW sender, NEW verifier, NEW beneficiary,
             instantiate(kind, sender, verifier, beneficiary)
      PROVE  BurnerInv' /\ (code' = "burner" => code = "burner")
  <2>1. code' \notin {"none", "burner", "queue"} /\ code # "hackatom" /\ endless' = endless
    BY <1>2 DEF instantiate, Escrow
  <2>2. DOMAIN storage' = DOMAIN storage \cup {CONFIG_KEY}
    BY Zenon, <1>2 DEF instantiate, set
  <2>3. Storage(storage')
    BY Zenon, <1>1, <2>2, StillStorage DEF BurnerInv
  <2> QED
    BY Zenon, <2>1, <2>3 DEF BurnerInv
<1>3. ASSUME NEW verifier, hackatom_migrate(verifier)
      PROVE  BurnerInv' /\ (code' = "burner" => code = "burner")
  <2>1. code' = "hackatom" /\ code' \notin {"none", "burner", "queue"} /\ endless' = endless
    BY <1>3 DEF hackatom_migrate
  <2>2. DOMAIN storage' = DOMAIN storage
    BY Zenon, <1>3 DEF hackatom_migrate
  <2> QED
    BY Zenon, <2>1, <2>2 DEF BurnerInv, Storage
<1>4. CASE do_storage_loop
  <2>1. code' = code /\ endless' = endless /\ code \notin {"none", "burner", "queue"}
    BY <1>4 DEF do_storage_loop, Idle, BurnerInv
  <2>2. DOMAIN storage' = DOMAIN storage \cup {TEST_KEY}
    BY Zenon, <1>4 DEF do_storage_loop, set
  <2>3. Storage(storage')
    BY Zenon, <1>1, <2>2, StillStorage DEF BurnerInv
  <2> QED
    BY Zenon, <2>1, <2>3 DEF BurnerInv
<1>5. CASE OutOfGas
  <2>1. /\ code' = code /\ endless' = <<>> /\ code \notin {"none", "burner", "queue"}
        /\ Storage(storage')
    BY <1>5 DEF OutOfGas, Idle, BurnerInv
  <2> QED
    BY Zenon, <2>1 DEF BurnerInv
<1>6. CASE endless_call
  <2>1. /\ code' = code /\ storage' = storage /\ code = "hackatom"
        /\ code \notin {"none", "burner", "queue"} /\ endless'[1] = storage
    BY <1>6 DEF endless_call
  <2> QED
    BY Zenon, <2>1 DEF BurnerInv
<1>7. ASSUME \/ \E recipient \in Names, amount \in 1 .. MaxCoins : sudo(recipient, amount)
             \/ \E sender \in Accounts : do_release(sender) \/ floaty_execute(sender)
             \/ \E amount \in 1 .. MaxCoins : Deposit(amount)
      PROVE  BurnerInv' /\ (code' = "burner" => code = "burner")
  <2>1. code' = code /\ storage' = storage /\ endless' = endless
    BY Zenon, <1>7 DEF sudo, do_release, floaty_execute, Release, Deposit
  <2> QED
    BY Zenon, <2>1 DEF BurnerInv, Storage, OneByte
<1>8. CASE OtherCodes
  BY Zenon, <1>8, OtherCodesStep
<1> QED
  BY Zenon, <1>2, <1>3, <1>4, <1>5, <1>6, <1>7, <1>8 DEF HackatomNext, OtherCodes

(* The state of an escrow is never made up: only an account without code     *)
(* gets one.                                                                 *)
LEMMA StateIsNotMadeUp ==
  ASSUME EscrowInv, HackatomNext, code # "none", CONFIG_KEY \notin DOMAIN storage
  PROVE  CONFIG_KEY \notin DOMAIN storage'
<1>1. code \notin Escrow /\ endless = <<>>
  BY DEF EscrowInv, Escrow
<1>2. CASE OtherCodes
  BY Zenon, <1>2, OtherCodesFrame DEF KeepsState
<1>3. CASE \E payout \in Names : burner_migrate(payout)
  BY Zenon, <1>3 DEF burner_migrate
<1>4. ~\E kind \in Escrow, sender \in Accounts, verifier, beneficiary \in Names :
         instantiate(kind, sender, verifier, beneficiary)
  BY Zenon DEF instantiate
<1>5. ~\E verifier \in Names : hackatom_migrate(verifier)
  BY Zenon DEF hackatom_migrate, get
<1>6. ~endless_call /\ ~do_storage_loop /\ ~OutOfGas
  BY Zenon, <1>1 DEF endless_call, do_storage_loop, OutOfGas, Idle, Escrow
<1>7. CASE \/ \E recipient \in Names, amount \in 1 .. MaxCoins : sudo(recipient, amount)
           \/ \E sender \in Accounts : do_release(sender) \/ floaty_execute(sender)
           \/ \E amount \in 1 .. MaxCoins : Deposit(amount)
  BY Zenon, <1>7 DEF sudo, do_release, floaty_execute, Release, Deposit
<1> QED
  BY Zenon, <1>2, <1>3, <1>4, <1>5, <1>6, <1>7 DEF HackatomNext, OtherCodes

(* For any account, whatever codes it ran and data it had: a burnt account   *)
(* has no data and was told the number of keys it lost, a queue has keys of  *)
(* one byte only, and an escrow that was deleted never comes back (migrate   *)
(* of burner, queue, ibc-reflect and hackatom, over the ordered ranges of    *)
(* the storage).                                                             *)
THEOREM BurntStaysEmpty == HackatomSpec => BurntIsEmpty
<1> DEFINE Told == code # "burner" /\ code' = "burner" => burnt' = Cardinality(DOMAIN storage)
           Gone == code # "none" /\ CONFIG_KEY \notin DOMAIN storage => CONFIG_KEY \notin DOMAIN storage'
<1>1. EscrowInv /\ BurnerInv /\ [HackatomNext]_hackatomVars =>
        BurnerInv' /\ [Told]_hackatomVars /\ [Gone]_hackatomVars
  <2> SUFFICES ASSUME EscrowInv, BurnerInv, [HackatomNext]_hackatomVars
               PROVE  BurnerInv' /\ [Told]_hackatomVars /\ [Gone]_hackatomVars
    OBVIOUS
  <2>1. CASE UNCHANGED hackatomVars
    BY Zenon, <2>1 DEF hackatomVars, BurnerInv, Storage, OneByte
  <2>2. HackatomNext => Gone
    BY Zenon, StateIsNotMadeUp
  <2>3. CASE \E payout \in Names : burner_migrate(payout)
    BY Zenon, <2>2, <2>3, BurnStep DEF HackatomNext
  <2>4. CASE HackatomNext /\ ~\E payout \in Names : burner_migrate(payout)
    BY Zenon, <2>2, <2>4, OtherBurnerSteps
  <2> QED
    BY Zenon, <2>1, <2>3, <2>4
<1>2. BurnerInv => /\ code = "burner" => storage = EmptyMap
                   /\ code = "queue" => \A k \in DOMAIN storage : Len(k) = 1
  BY Zenon DEF BurnerInv, OneByte
<1> QED
  BY <1>1, <1>2, InitEscrowInv, NextEscrowInv, BurnerStart, PTL DEF HackatomSpec, BurntIsEmpty

--------------------------------------------------------------------------------
(* The reflect contract.  A list, known by its length and its elements.      *)
IsList(s, n) == n \in Nat /\ Len(s) = n /\ DOMAIN s = 1 .. n /\ s = [i \in 1 .. n |-> s[i]]

LEMMA ListOfLength ==
  ASSUME NEW n \in Nat, NEW s, s = [i \in 1 .. n |-> s[i]]
  PROVE  IsList(s, n)
BY DEF IsList

(* t is the list s, of length n, with one more element.                      *)
IsLonger(t, s, n, e) == IsList(t, n + 1) /\ t[n + 1] = e /\ \A i \in 1 .. n : t[i] = s[i]

LEMMA AppendIsLonger ==
  ASSUME NEW s, NEW n, IsList(s, n), NEW e
  PROVE  IsLonger(Append(s, e), s, n, e)
<1>1. n \in Nat /\ Len(s) = n /\ DOMAIN s = 1 .. n /\ s = [i \in 1 .. n |-> s[i]]
  BY Zenon DEF IsList
<1>2. PICK t : t = Append(s, e)
  BY Zenon
<1>3. t = [i \in 1 .. n + 1 |-> IF i = n + 1 THEN e ELSE s[i]]
  BY <1>1, <1>2
<1>4. Len(t) = n + 1 /\ DOMAIN t = 1 .. n + 1 /\ t = [i \in 1 .. n + 1 |-> t[i]] /\ n + 1 \in Nat
  BY <1>1, <1>3
<1>5. t[n + 1] = e /\ \A i \in 1 .. n : t[i] = s[i]
  BY <1>1, <1>3
<1> QED
  BY Zenon, <1>2, <1>4, <1>5 DEF IsLonger, IsList

(* The map finds for every id the last reply with this id in the list.       *)
FindsLast(map, list) ==
  /\ \E n : IsList(list, n)
  /\ \A i \in DOMAIN list : list[i].id \in DOMAIN map
  /\ \A id \in DOMAIN map : \E i \in DOMAIN list : list[i].id = id
  /\ \A last \in DOMAIN list :
       (\A i \in DOMAIN list : list[i].id = list[last].id => i <= last) =>
         map[list[last].id] = list[last].ok

(* So it is now, and was when the calls in progress started: what a failed   *)
(* call did is undone by going back there.                                   *)
ReflectInv ==
  /\ FindsLast(results, replied)
  /\ \E n : IsList(calls, n)
  /\ \A k \in DOMAIN calls : FindsLast(calls[k].saved.results, calls[k].saved.replied)

LEMMA NoReplies == FindsLast(<<>>, <<>>)
<1>1. DOMAIN <<>> = {} /\ IsList(<<>>, 0)
  BY DEF IsList
<1> QED
  BY Zenon, <1>1 DEF FindsLast

LEMMA ReplyIsLast ==
  ASSUME FindsLast(results, replied), NEW id, NEW ok, reply(id, ok)
  PROVE  FindsLast(results', replied')
<1>1. PICK n : IsList(replied, n)
  BY Zenon DEF FindsLast
<1>2. n \in Nat /\ DOMAIN replied = 1 .. n
  BY Zenon, <1>1 DEF IsList
<1>r. [id |-> id, ok |-> ok].id = id /\ [id |-> id, ok |-> ok].ok = ok
  OBVIOUS
<1>3. PICK r : r = [id |-> id, ok |-> ok] /\ r.id = id /\ r.ok = ok
  BY Zenon, <1>r
<1>4. IsLonger(replied', replied, n, r)
  BY Zenon, <1>1, <1>3, AppendIsLonger DEF reply
<1>5. /\ IsList(replied', n + 1) /\ DOMAIN replied' = 1 .. n + 1 /\ replied'[n + 1] = r
      /\ \A i \in 1 .. n : replied'[i] = replied[i]
  BY Zenon, <1>4 DEF IsLonger, IsList
<1>6. /\ DOMAIN results' = DOMAIN results \cup {id} /\ results'[id] = ok
      /\ \A i \in DOMAIN results : i # id => results'[i] = results[i]
  BY Zenon DEF reply
<1>7. /\ n + 1 \in 1 .. n + 1 /\ \A i \in 1 .. n : i \in 1 .. n + 1 /\ ~(n + 1 <= i)
      /\ \A i \in 1 .. n + 1 : i = n + 1 \/ i \in 1 .. n
  BY <1>2
<1>8. ASSUME NEW i \in DOMAIN replied' PROVE replied'[i].id \in DOMAIN results'
  <2>1. CASE i = n + 1
    BY Zenon, <1>3, <1>5, <1>6, <2>1
  <2>2. CASE i \in 1 .. n
    BY Zenon, <1>2, <1>5, <1>6, <2>2 DEF FindsLast
  <2> QED
    BY Zenon, <1>5, <1>7, <2>1, <2>2
<1>9. ASSUME NEW x \in DOMAIN results' PROVE \E i \in DOMAIN replied' : replied'[i].id = x
  <2>1. CASE x = id
    BY Zenon, <1>3, <1>5, <1>7, <2>1
  <2>2. CASE x \in DOMAIN results
    <3>1. PICK i \in 1 .. n : replied[i].id = x
      BY Zenon, <1>2, <2>2 DEF FindsLast
    <3> QED
      BY Zenon, <1>5, <1>7, <3>1
  <2> QED
    BY Zenon, <1>6, <2>1, <2>2
<1>10. ASSUME NEW last \in DOMAIN replied',
              \A i \in DOMAIN replied' : replied'[i].id = replied'[last].id => i <= last
       PROVE  results'[replied'[last].id] = replied'[last].ok
  <2>1. CASE last = n + 1
    BY Zenon, <1>3, <1>5, <1>6, <2>1
  <2>2. CASE last \in 1 .. n
    <3>1. replied'[last] = replied[last] /\ last \in DOMAIN replied
      BY Zenon, <1>2, <1>5, <2>2
    <3>2. replied[last].id # id
      BY Zenon, <1>3, <1>5, <1>7, <1>10, <2>2, <3>1
    <3>3. \A i \in DOMAIN replied : replied[i].id = replied[last].id => i <= last
      BY Zenon, <1>2, <1>5, <1>7, <1>10, <3>1
    <3>4. results[replied[last].id] = replied[last].ok /\ replied[last].id \in DOMAIN results
      BY Zenon, <3>1, <3>3 DEF FindsLast
    <3> QED
      BY Zenon, <1>6, <3>1, <3>2, <3>4
  <2> QED
    BY Zenon, <1>5, <1>7, <2>1, <2>2
<1> QED
  BY Zenon, <1>5, <1>8, <1>9, <1>10 DEF FindsLast

(* A call is added with the state before it.                                 *)
LEMMA CallAdded ==
  ASSUME ReflectInv, NEW response, CallReturned(response)
  PROVE  ReflectInv'
<1>1. PICK n : IsList(calls, n)
  BY Zenon DEF ReflectInv
<1>2. n \in Nat /\ DOMAIN calls = 1 .. n
  BY Zenon, <1>1 DEF IsList
<1>3. PICK c : /\ c = [saved |-> State, todo |-> response.messages]
               /\ c.saved.results = results /\ c.saved.replied = replied
  <2>1. [saved |-> State, todo |-> response.messages].saved = State
    OBVIOUS
  <2>2. State.results = results /\ State.replied = replied
    BY DEF State
  <2> QED
    BY Zenon, <2>1, <2>2
<1>4. IsLonger(calls', calls, n, c)
  BY Zenon, <1>1, <1>3, AppendIsLonger DEF CallReturned
<1>5. /\ IsList(calls', n + 1) /\ DOMAIN calls' = 1 .. n + 1 /\ calls'[n + 1] = c
      /\ \A k \in 1 .. n : calls'[k] = calls[k]
  BY Zenon, <1>4 DEF IsLonger, IsList
<1>6. \A k \in 1 .. n + 1 : k = n + 1 \/ k \in 1 .. n
  BY <1>2
<1>7. results' = results /\ replied' = replied
  BY Zenon DEF CallReturned, contractVars
<1>8. \A k \in DOMAIN calls' : FindsLast(calls'[k].saved.results, calls'[k].saved.replied)
  BY Zenon, <1>2, <1>3, <1>5, <1>6 DEF ReflectInv
<1> QED
  BY Zenon, <1>5, <1>7, <1>8 DEF ReflectInv

(* The innermost call ends.                                                  *)
LEMMA CallRemoved ==
  ASSUME NEW n, IsList(calls, n), n # 0
  PROVE  IsList(Pop, n - 1) /\ \A k \in 1 .. n - 1 : k \in DOMAIN calls /\ Pop[k] = calls[k]
<1>1. n \in Nat /\ Len(calls) = n /\ DOMAIN calls = 1 .. n /\ calls = [i \in 1 .. n |-> calls[i]]
  BY Zenon DEF IsList
<1>2. PICK t : t = Pop /\ t = SubSeq(calls, 1, n - 1)
  BY Zenon, <1>1 DEF Pop
<1>3. t = [i \in 1 .. n - 1 |-> calls[i]]
  BY <1>1, <1>2
<1>4. n - 1 \in Nat /\ Len(t) = n - 1 /\ DOMAIN t = 1 .. n - 1 /\ t = [i \in 1 .. n - 1 |-> t[i]]
  BY <1>1, <1>3
<1>5. \A k \in 1 .. n - 1 : k \in 1 .. n /\ t[k] = calls[k]
  BY <1>1, <1>3
<1> QED
  BY Zenon, <1>1, <1>2, <1>4, <1>5 DEF IsList

(* What a step does to the calls and to the contract's state keeps both.     *)
LEMMA ContractKept ==
  ASSUME ReflectInv, FindsLast(results', replied'), calls' = calls
  PROVE  ReflectInv'
BY Zenon DEF ReflectInv

LEMMA CallsPopped ==
  ASSUME ReflectInv, calls # <<>>, calls' = Pop, FindsLast(results', replied')
  PROVE  ReflectInv'
<1>1. PICK n : IsList(calls, n)
  BY Zenon DEF ReflectInv
<1>2. n # 0
  <2>1. ASSUME n = 0 PROVE calls = <<>>
    BY <1>1, <2>1 DEF IsList
  <2> QED
    BY Zenon, <2>1
<1>3. IsList(calls', n - 1) /\ \A k \in 1 .. n - 1 : k \in DOMAIN calls /\ calls'[k] = calls[k]
  BY Zenon, <1>1, <1>2, CallRemoved
<1>4. DOMAIN calls' = 1 .. n - 1
  BY Zenon, <1>3 DEF IsList
<1>5. \A k \in DOMAIN calls' : FindsLast(calls'[k].saved.results, calls'[k].saved.replied)
  BY Zenon, <1>3, <1>4 DEF ReflectInv
<1> QED
  BY Zenon, <1>3, <1>5 DEF ReflectInv

LEMMA OwnerChanged ==
  ASSUME ReflectInv, NEW sender, NEW new_owner, try_change_owner(sender, new_owner), calls' = calls
  PROVE  ReflectInv'
<1>1. results' = results /\ replied' = replied
  BY Zenon DEF try_change_owner
<1>2. FindsLast(results', replied')
  BY Zenon, <1>1 DEF ReflectInv
<1> QED
  BY Zenon, <1>2, ContractKept

LEMMA TransactionStep ==
  ASSUME ReflectInv, Transaction
  PROVE  ReflectInv'
<1>1. ASSUME NEW sender, try_reflect(sender, <<OtherMsg>>) PROVE ReflectInv'
  BY Zenon, <1>1, CallAdded DEF try_reflect
<1>2. ASSUME NEW sender, NEW submsgs, try_reflect_subcall(sender, submsgs) PROVE ReflectInv'
  BY Zenon, <1>2, CallAdded DEF try_reflect_subcall
<1>3. ASSUME NEW sender, NEW name, try_change_owner(sender, name), UNCHANGED <<calls, verdict>>
      PROVE  ReflectInv'
  BY Zenon, <1>3, OwnerChanged
<1> QED
  BY Zenon, <1>1, <1>2, <1>3 DEF Transaction

LEMMA DispatchStep ==
  ASSUME ReflectInv, Dispatch
  PROVE  ReflectInv'
<1>1. ASSUME UNCHANGED <<contractVars, calls>> PROVE ReflectInv'
  BY Zenon, <1>1 DEF ReflectInv, contractVars
<1>2. ASSUME NEW sender, NEW name, try_change_owner(sender, name), UNCHANGED calls PROVE ReflectInv'
  BY Zenon, <1>2, OwnerChanged
<1>3. ASSUME NEW sender, NEW submsgs, try_reflect_subcall(sender, submsgs) PROVE ReflectInv'
  BY Zenon, <1>3, CallAdded DEF try_reflect_subcall
<1> QED
  BY Zenon, <1>1, <1>2, <1>3 DEF Dispatch

LEMMA SettleStep ==
  ASSUME ReflectInv, Settle, calls # <<>>
  PROVE  ReflectInv'
<1>1. PICK n : IsList(calls, n)
  BY Zenon DEF ReflectInv
<1>2. n \in Nat /\ Len(calls) = n /\ DOMAIN calls = 1 .. n
  BY Zenon, <1>1 DEF IsList
<1>3. PICK submsg, ok : submsg = Top.todo[1] /\ ok = verdict[1]
  BY Zenon
<1>4. CASE ok \/ CallsBack(submsg.reply_on, ok)
  <2>1. /\ calls' = [calls EXCEPT ![Len(calls)].todo = Tail(@)]
        /\ \/ reply(submsg.id, ok)
           \/ UNCHANGED contractVars
    BY Zenon, <1>3, <1>4 DEF Settle
  <2>2. FindsLast(results', replied')
    BY Zenon, <2>1, ReplyIsLast DEF ReflectInv, contractVars
  <2>3. PICK top : top = [calls[n] EXCEPT !.todo = Tail(@)] /\ calls' = [calls EXCEPT ![n] = top]
    BY Zenon, <1>2, <2>1
  <2>4. top.saved = calls[n].saved
    BY <2>3
  <2>5. IsList(calls', n)
    <3>1. calls' = [k \in DOMAIN calls |-> calls'[k]]
      BY Zenon, <2>3
    <3> QED
      BY Zenon, <1>2, <3>1, ListOfLength
  <2>6. DOMAIN calls' = 1 .. n /\ \A k \in 1 .. n : calls'[k] = IF k = n THEN top ELSE calls[k]
    BY Zenon, <1>2, <2>3
  <2>7. \A k \in 1 .. n : calls'[k].saved = calls[k].saved
    BY Zenon, <2>4, <2>6
  <2>8. \A k \in DOMAIN calls' : FindsLast(calls'[k].saved.results, calls'[k].saved.replied)
    BY Zenon, <1>2, <2>6, <2>7 DEF ReflectInv
  <2> QED
    BY Zenon, <2>2, <2>5, <2>8 DEF ReflectInv
<1>5. CASE ~(ok \/ CallsBack(submsg.reply_on, ok))
  <2>1. Restore(Top.saved) /\ calls' = Pop
    BY Zenon, <1>3, <1>5 DEF Settle
  <2>2. Len(calls) \in DOMAIN calls
    <3>1. ASSUME n = 0 PROVE calls = <<>>
      BY <1>1, <3>1 DEF IsList
    <3>2. n # 0
      BY Zenon, <3>1
    <3> QED
      BY <1>2, <3>2
  <2>3. FindsLast(Top.saved.results, Top.saved.replied)
    BY Zenon, <2>2 DEF ReflectInv, Top
  <2>4. FindsLast(results', replied')
    BY Zenon, <2>1, <2>3 DEF Restore
  <2> QED
    BY Zenon, <2>1, <2>4, CallsPopped
<1> QED
  BY Zenon, <1>4, <1>5

LEMMA CompleteStep ==
  ASSUME ReflectInv, Complete
  PROVE  ReflectInv'
<1>1. calls # <<>> /\ calls' = Pop /\ results' = results /\ replied' = replied
  BY Zenon DEF Complete, contractVars
<1>2. FindsLast(results', replied')
  BY Zenon, <1>1 DEF ReflectInv
<1> QED
  BY Zenon, <1>1, <1>2, CallsPopped

(* A message has a verdict only while its call is in progress.               *)
InCall == verdict # <<>> => calls # <<>>

LEMMA InCallStep ==
  ASSUME ReflectInv, InCall, ReflectNext
  PROVE  InCall'
<1>1. ASSUME NEW response, CallReturned(response) PROVE verdict' = <<>>
  BY Zenon, <1>1 DEF CallReturned
<1>2. CASE Transaction
  BY Zenon, <1>1, <1>2 DEF Transaction, try_reflect, try_reflect_subcall, InCall
<1>3. CASE Dispatch
  BY Zenon, <1>1, <1>3 DEF Dispatch, try_reflect_subcall, InCall
<1>4. CASE Settle
  <2>1. \/ verdict' = <<>>
        \/ /\ calls' = Pop
           /\ verdict' = IF Pop = <<>> THEN <<>> ELSE <<FALSE>>
    BY Zenon, <1>4 DEF Settle
  <2> QED
    BY Zenon, <2>1 DEF InCall
<1>5. CASE Complete
  BY Zenon, <1>5 DEF Complete, InCall
<1> QED
  BY Zenon, <1>2, <1>3, <1>4, <1>5 DEF ReflectNext

LEMMA ReflectAlways == ReflectSpec => [](ReflectInv /\ InCall)
<1>1. ReflectInit => ReflectInv /\ InCall
  <2>1. DOMAIN <<>> = {} /\ IsList(<<>>, 0)
    BY DEF IsList
  <2> QED
    BY Zenon, <2>1, NoReplies DEF ReflectInit, ReflectInv, InCall
<1>2. ReflectInv /\ InCall /\ [ReflectNext]_reflectVars => (ReflectInv /\ InCall)'
  <2>1. ASSUME ReflectInv, InCall, ReflectNext PROVE ReflectInv'
    <3>1. CASE Settle
      <4>1. calls # <<>>
        BY Zenon, <2>1, <3>1 DEF Settle, InCall
      <4> QED
        BY Zenon, <2>1, <3>1, <4>1, SettleStep
    <3> QED
      BY Zenon, <2>1, <3>1, TransactionStep, DispatchStep, CompleteStep DEF ReflectNext
  <2>2. ASSUME ReflectInv, InCall, UNCHANGED reflectVars PROVE ReflectInv' /\ InCall'
    BY Zenon, <2>2 DEF ReflectInv, InCall, reflectVars, contractVars, callVars
  <2> QED
    BY Zenon, <2>1, <2>2, InCallStep
<1> QED
  BY <1>1, <1>2, PTL DEF ReflectSpec

(* The stored replies are those of the last uses of their ids, whatever      *)
(* calls were undone in between, whoever called back and in whatever order   *)
(* the messages failed (reply, query_subcall).                               *)
THEOREM LastReplyIsFound == ReflectSpec => []QueryFindsLastReply
<1>1. ASSUME ReflectInv PROVE QueryFindsLastReply
  <2> SUFFICES ASSUME NEW id \in Ids, NEW of, of = {i \in DOMAIN replied : replied[i].id = id}
               PROVE  /\ of = {} => query_subcall(id) = <<>>
                      /\ \A last \in of :
                           (\A i \in of : i <= last) => query_subcall(id) = <<replied[last].ok>>
    BY Zenon DEF QueryFindsLastReply
  <2>1. FindsLast(results, replied)
    BY Zenon, <1>1 DEF ReflectInv
  <2>2. ASSUME of = {} PROVE query_subcall(id) = <<>>
    BY Zenon, <2>1, <2>2 DEF FindsLast, query_subcall
  <2>3. ASSUME NEW last \in of, \A i \in of : i <= last
        PROVE  query_subcall(id) = <<replied[last].ok>>
    <3>1. last \in DOMAIN replied /\ replied[last].id = id
      OBVIOUS
    <3>2. \A i \in DOMAIN replied : replied[i].id = replied[last].id => i <= last
      BY Zenon, <2>3, <3>1
    <3>3. results[id] = replied[last].ok /\ id \in DOMAIN results
      BY Zenon, <2>1, <3>1, <3>2 DEF FindsLast
    <3> QED
      BY Zenon, <3>3 DEF query_subcall
  <2> QED
    BY Zenon, <2>2, <2>3
<1> QED
  BY <1>1, ReflectAlways, PTL
================================================================================
