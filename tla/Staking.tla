------------------------------- MODULE Staking -------------------------------
(***************************************************************************)
(* The staking derivatives contract, and what it uses of the chain: its    *)
(* delegation, its coins that are being unbonded, its bank account and its *)
(* rewards.  A message is one transaction: when a step of it fails nothing *)
(* of it remains.                                                          *)
(***************************************************************************)
EXTENDS Naturals, Functions

CONSTANTS Users, Owner,
          MinWithdrawal,      \* InvestmentInfo::min_withdrawal
          TaxNum, TaxDen,     \* InvestmentInfo::exit_tax
          MaxNative,          \* bound: coins in the hands of the contract
          MaxSlash            \* bound: coins lost by slashing

ASSUME StakingAssumption ==
  /\ Owner \in Users
  /\ MinWithdrawal \in Nat /\ MaxNative \in Nat
  /\ TaxNum \in Nat /\ TaxDen \in Nat \ {0} /\ TaxNum <= TaxDen
  /\ MaxSlash \in Nat

VARIABLES
  balances,    \* bucket "balance": derivative tokens
  claims,      \* bucket "claim": native coins
  supply,      \* singleton "total_supply"
  delegated,   \* the delegation of the contract
  unbonding,   \* coins that will be paid out by the validator
  bank,        \* the bank account of the contract
  rewards,     \* rewards that can be withdrawn
  slashed,     \* delegated coins lost by slashing so far
  lost         \* unbonding coins lost by slashing so far

chainVars == <<delegated, unbonding, bank, rewards, slashed, lost>>
vars == <<balances, claims, supply, chainVars>>

Init ==
  /\ balances = [u \in Users |-> 0] /\ claims = [u \in Users |-> 0]
  /\ supply = [issued |-> 0, bonded |-> 0, claims |-> 0]
  /\ delegated = 0 /\ unbonding = 0 /\ bank = 0 /\ rewards = 0
  /\ slashed = 0 /\ lost = 0

Native == delegated + unbonding + bank + rewards

RoundedUp(amount, num, den) == (amount * num + den - 1) \div den

(* Uint128::multiply_ratio; the caller makes sure that den is not 0.         *)
MultiplyRatio(amount, num, den) == (amount * num) \div den

(* The chain accepts no staking or bank message about nothing.               *)
Positive(amount) == amount > 0

(* assert_bonds                                                              *)
AssertBonds == supply.bonded = delegated

(* transfer: the sender is debited before the recipient is credited.         *)
Transfer(sender, recipient, amount) ==
  /\ amount <= balances[sender]
  /\ balances' = LET debited == [balances EXCEPT ![sender] = @ - amount]
                 IN  [debited EXCEPT ![recipient] = @ + amount]
  /\ UNCHANGED <<claims, supply, chainVars>>

Minted(payment) ==
  IF supply.issued = 0 \/ delegated = 0 THEN payment
  ELSE MultiplyRatio(payment, supply.issued, delegated)

(* bond, and the delegation of the payment.                                  *)
Bond(sender, payment) ==
  /\ Native + payment <= MaxNative
  /\ Positive(payment) /\ AssertBonds
  /\ supply' = [supply EXCEPT !.bonded = delegated + payment, !.issued = @ + Minted(payment)]
  /\ balances' = [balances EXCEPT ![sender] = @ + Minted(payment)]
  /\ delegated' = delegated + payment
  /\ UNCHANGED <<claims, unbonding, bank, rewards, slashed, lost>>

Tax(amount) == MultiplyRatio(amount, TaxNum, TaxDen)

Unbonded(amount) == MultiplyRatio(amount - Tax(amount), delegated, supply.issued)

UnbondUntaxedSupply(sender, amount) ==
  LET coins == Unbonded(amount) IN
  /\ MinWithdrawal <= amount /\ amount <= balances[sender]
  /\ AssertBonds /\ supply.issued > 0 /\ Positive(coins)
  /\ balances' = LET debited == [balances EXCEPT ![sender] = @ - amount]
                 IN  [debited EXCEPT ![Owner] = @ + Tax(amount)]
  /\ supply' = [issued |-> supply.issued - amount,
                bonded |-> delegated - coins, claims |-> supply.claims + coins]
  /\ claims' = [claims EXCEPT ![sender] = @ + coins]
  /\ delegated' = delegated - coins /\ unbonding' = unbonding + coins
  /\ UNCHANGED <<bank, rewards, slashed, lost>>

(* unbond, and the undelegation.  The tax goes to the owner.                 *)
Unbond(sender, amount) ==
  LET coins == Unbonded(amount)
      remainder == amount - Tax(amount)
  IN
  /\ MinWithdrawal <= amount /\ amount <= balances[sender]
  /\ AssertBonds
  /\ supply.issued > 0   \* multiply_ratio panics
  /\ coins <= delegated /\ remainder <= supply.issued /\ Positive(coins)
  /\ balances' = LET debited == [balances EXCEPT ![sender] = @ - amount]
                 IN  [debited EXCEPT ![Owner] = @ + Tax(amount)]
  /\ supply' = [issued |-> supply.issued - remainder,
                bonded |-> delegated - coins, claims |-> supply.claims + coins]
  /\ claims' = [claims EXCEPT ![sender] = @ + coins]
  /\ delegated' = delegated - coins /\ unbonding' = unbonding + coins
  /\ UNCHANGED <<bank, rewards, slashed, lost>>

Smaller(a, b) == IF a <= b THEN a ELSE b

(* claim, and the payment.                                                   *)
Claim(sender) ==
  LET toSend == Smaller(bank, claims[sender]) IN
  /\ MinWithdrawal <= bank /\ toSend <= supply.claims /\ Positive(toSend)
  /\ claims' = [claims EXCEPT ![sender] = @ - toSend]
  /\ supply' = [supply EXCEPT !.claims = @ - toSend]
  /\ bank' = bank - toSend
  /\ UNCHANGED <<balances, delegated, unbonding, rewards, slashed, lost>>

(* What _bond_all_tokens delegates of the coins at hand: nothing unless the  *)
(* claims are covered and the minimum is left over.                          *)
ReinvestedAll(coins) == IF coins >= MinWithdrawal THEN coins ELSE 0

Reinvested(coins) ==
  IF coins >= supply.claims + MinWithdrawal THEN coins - supply.claims ELSE 0

ReinvestUnrecorded ==
  LET coins == bank + rewards
      amount == Reinvested(coins)
  IN
  /\ Positive(amount) \/ coins < supply.claims + MinWithdrawal
  /\ bank' = coins - amount /\ rewards' = 0
  /\ delegated' = delegated + amount
  /\ UNCHANGED <<balances, claims, supply, unbonding, slashed, lost>>

(* reinvest: the rewards are withdrawn, then _bond_all_tokens is called.  It *)
(* does nothing when too little is left; delegating 0 coins is an error.     *)
Reinvest ==
  LET coins == bank + rewards
      amount == Reinvested(coins)
  IN
  /\ Positive(amount) \/ coins < supply.claims + MinWithdrawal
  /\ supply' = [supply EXCEPT !.bonded = @ + amount]
  /\ bank' = coins - amount /\ rewards' = 0
  /\ delegated' = delegated + amount
  /\ UNCHANGED <<balances, claims, unbonding, slashed, lost>>

------------------------------------------------------------------------------
(* The chain.                                                                *)

(* The unbonding period of some coins ends.                                  *)
Mature(coins) ==
  /\ coins \in 1 .. unbonding
  /\ unbonding' = unbonding - coins /\ bank' = bank + coins
  /\ UNCHANGED <<balances, claims, supply, delegated, rewards, slashed, lost>>

Reward ==
  /\ delegated > 0 /\ Native < MaxNative
  /\ rewards' = rewards + 1
  /\ UNCHANGED <<balances, claims, supply, delegated, unbonding, bank, slashed, lost>>

(* Somebody sends the contract a coin.                                       *)
Receive ==
  /\ Native < MaxNative
  /\ bank' = bank + 1
  /\ UNCHANGED <<balances, claims, supply, delegated, unbonding, rewards, slashed, lost>>

(* Slashing takes coins of the delegation or of those being unbonded.        *)
Slash(coins) ==
  /\ coins \in 1 .. delegated /\ slashed + lost + coins <= MaxSlash
  /\ delegated' = delegated - coins /\ slashed' = slashed + coins
  /\ UNCHANGED <<balances, claims, supply, unbonding, bank, rewards, lost>>

SlashUnbonding(coins) ==
  /\ coins \in 1 .. unbonding /\ slashed + lost + coins <= MaxSlash
  /\ unbonding' = unbonding - coins /\ lost' = lost + coins
  /\ UNCHANGED <<balances, claims, supply, delegated, bank, rewards, slashed>>

Next ==
  \/ \E sender, recipient \in Users, n \in 1 .. MaxNative : Transfer(sender, recipient, n)
  \/ \E sender \in Users, n \in 1 .. MaxNative : Bond(sender, n)
  \/ \E sender \in Users, n \in 0 .. MaxNative : Unbond(sender, n)
  \/ \E sender \in Users : Claim(sender)
  \/ Reinvest
  \/ \E n \in 1 .. MaxNative : Mature(n)
  \/ Reward
  \/ Receive
  \/ \E n \in 1 .. MaxNative : Slash(n)
  \/ \E n \in 1 .. MaxNative : SlashUnbonding(n)

Spec == Init /\ [][Next]_vars

(* Unbonding ends, and users who can claim do.                               *)
FairSpec ==
  /\ Spec
  /\ WF_vars(\E n \in 1 .. MaxNative : Mature(n))
  /\ \A u \in Users : WF_vars(Claim(u))

------------------------------------------------------------------------------
(* Properties.                                                               *)

TypeOK ==
  /\ balances \in [Users -> Nat] /\ claims \in [Users -> Nat]
  /\ supply \in [issued : Nat, bonded : Nat, claims : Nat]
  /\ delegated \in Nat /\ unbonding \in Nat /\ bank \in Nat /\ rewards \in Nat
  /\ slashed \in 0 .. MaxSlash /\ lost \in 0 .. MaxSlash

SumOf(f) == FoldFunction(+, 0, f)

(* The totals of the supply are the sums over the users: no sequence of      *)
(* transfers, bonds, taxed unbonds and claims makes or loses tokens.         *)
SupplyIsSum == supply.issued = SumOf(balances) /\ supply.claims = SumOf(claims)

(* The coins owed to those who unbonded are at hand or on their way, or were *)
(* slashed while they were unbonding: what _bond_all_tokens reinvests never  *)
(* comes out of this reserve.                                                *)
ClaimsAreCovered == supply.claims <= bank + unbonding + lost

(* Supply::bonded is the delegation plus what was slashed of it.  Without    *)
(* slashing assert_bonds never fails, whatever is bonded, unbonded and       *)
(* reinvested; after slashing it always does, so that bond and unbond never  *)
(* compute with a stale number.                                              *)
BondedTracksDelegation == supply.bonded = delegated + slashed

(* The coins a derivative token stands for never become fewer: rounding in   *)
(* bond and unbond is never at the expense of the other holders.             *)
PriceNeverFalls ==
  [][supply.issued > 0 /\ supply'.issued > 0 =>
       supply'.bonded * supply.issued >= supply.bonded * supply'.issued]_vars

(* Once nobody unbonds any more, everybody who has unbonded is paid out in   *)
(* the end: the README of the contract says that burnt tokens come back as   *)
(* coins after the unbonding period.                                         *)
ClaimsArePaid ==
  <>[][\A u \in Users, n \in 0 .. MaxNative : ~Unbond(u, n)]_vars
    => \A u \in Users : claims[u] > 0 ~> claims[u] = 0
==============================================================================
