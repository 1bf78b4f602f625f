--------------------------------- MODULE Token ---------------------------------
(***************************************************************************)
(* The governance token (contracts/token/src): balances, allowances with   *)
(* an expiry, mint and burn, delegation and the two-step admin transfer.   *)
(* One contract function is one action; an Err or an overflow panic        *)
(* reverts the call, so it is part of the guard.  A ledger is identified   *)
(* by its close time `now`: sequence numbers and close times both rise     *)
(* with every ledger.                                                      *)
(***************************************************************************)
EXTENDS Integers, FiniteSets

CONSTANTS
    Account,         \* addresses that may hold tokens
    None,            \* Option::None
    MaxI128,         \* i128::MAX
    InitialSupplies, \* values given to initialize, which may be negative
    MaxTime          \* bound: the last ledger explored

MinI128 == -MaxI128 - 1
I128 == MinI128..MaxI128
Amount == 0..MaxI128
Ledger == 0..MaxTime
Allowance == [amount : Amount, expiry_ledger : Ledger]
Grant == [approved : Amount, drawn : Amount]

ASSUME TokenBounds ==
    /\ MaxI128 \in Nat
    /\ MaxTime \in Nat
    /\ InitialSupplies \subseteq I128

ASSUME TokenSets ==
    /\ IsFiniteSet(Account)
    /\ None \notin Account
    /\ None \notin Allowance

VARIABLES
    initialized, token_admin, token_pending_admin, token_paused,
    total_supply, balance, allowance, delegation,
    now,
    grants  \* history: the last approve of each pair and what was drawn on it

token_config == <<initialized, token_admin, token_pending_admin, token_paused>>
token_vars == <<token_config, total_supply, balance, allowance, delegation,
                grants>>

TokenTypeOK ==
    /\ initialized \in BOOLEAN
    /\ token_admin \in Account \cup {None}
    /\ token_pending_admin \in Account \cup {None}
    /\ token_paused \in BOOLEAN
    /\ total_supply \in I128
    /\ balance \in [Account -> I128]
    /\ allowance \in [Account -> [Account -> Allowance \cup {None}]]
    /\ delegation \in [Account -> Account \cup {None}]
    /\ grants \in [Account -> [Account -> Grant]]
    /\ now \in Ledger

TokenInit ==
    /\ initialized = FALSE
    /\ token_admin = None
    /\ token_pending_admin = None
    /\ token_paused = FALSE
    /\ total_supply = 0
    /\ balance = [a \in Account |-> 0]
    /\ allowance = [o \in Account |-> [s \in Account |-> None]]
    /\ delegation = [a \in Account |-> None]
    /\ grants = [o \in Account |-> [s \in Account |->
                    [approved |-> 0, drawn |-> 0]]]
    /\ now = 0

-----------------------------------------------------------------------------
(* Helpers *)

assert_admin(caller) == token_admin = caller

assert_not_paused_Missing == TRUE                           \* mutant

assert_not_paused == ~token_paused

validate_amount(amount) == amount > 0

Fits(sum) == sum \in I128   \* overflow-checks = true in the release profile

Covers_Nobody(account, amount) == balance[account] > 0      \* mutant

Covers(account, amount) == balance[account] >= amount

\* balance_at ignores the ledger it is asked about.
balance_at(owner, ledger) == balance[owner]

\* The allowance entry, unless it has expired or is used up.
allowance_record(owner, spender) ==
    LET data == allowance[owner][spender]
    IN IF data # None /\ now <= data.expiry_ledger /\ data.amount > 0
       THEN data ELSE None

Spend_Keeps(record, amount) == record                       \* mutant

\* What transfer_from leaves of an allowance.
Spend(record, amount) ==
    [amount |-> record.amount - amount,
     expiry_ledger |-> record.expiry_ledger]

\* mutant: the credit uses the balance read before the debit
Move_StaleRead(from, to, amount) ==
    balance' = [[balance EXCEPT ![from] = @ - amount]
                    EXCEPT ![to] = balance[to] + amount]

\* Debit, then re-read and credit, so that from = to leaves the balance alone.
Move(from, to, amount) ==
    LET debited == [balance EXCEPT ![from] = @ - amount]
    IN /\ Fits(debited[to] + amount)
       /\ balance' = [debited EXCEPT ![to] = @ + amount]

-----------------------------------------------------------------------------
(* Entry points *)

\* The initial supply is stored as it is given: its sign is not looked at.
initialize(a, supply) ==
    /\ ~initialized
    /\ initialized' = TRUE
    /\ token_admin' = a
    /\ total_supply' = supply
    /\ balance' = [balance EXCEPT ![a] = supply]
    /\ UNCHANGED <<token_pending_admin, token_paused, allowance, delegation,
                   grants, now>>

transfer(from, to, amount) ==
    /\ assert_not_paused
    /\ validate_amount(amount)
    /\ Covers(from, amount)
    /\ IF from = to THEN UNCHANGED balance ELSE Move(from, to, amount)
    /\ UNCHANGED <<token_config, total_supply, allowance, delegation, grants,
                   now>>

transfer_from(spender, from, to, amount) ==
    /\ assert_not_paused
    /\ validate_amount(amount)
    /\ LET record == allowance_record(from, spender)
       IN /\ record # None
          /\ record.amount >= amount
          /\ Covers(from, amount)
          /\ allowance' = [allowance EXCEPT
                 ![from][spender] = Spend(record, amount)]
    /\ Move(from, to, amount)
    /\ grants' = [grants EXCEPT ![from][spender].drawn = @ + amount]
    /\ UNCHANGED <<token_config, total_supply, delegation, now>>

\* Overwrites the entry; not gated by the pause.
approve(owner, spender, amount, expiry_ledger) ==
    /\ amount >= 0
    /\ expiry_ledger > now
    /\ allowance' = [allowance EXCEPT ![owner][spender] =
           [amount |-> amount, expiry_ledger |-> expiry_ledger]]
    /\ grants' = [grants EXCEPT ![owner][spender] =
           [approved |-> amount, drawn |-> 0]]
    /\ UNCHANGED <<token_config, total_supply, balance, delegation, now>>

mint(caller, to, amount) ==
    /\ assert_admin(caller)
    /\ assert_not_paused
    /\ validate_amount(amount)
    /\ Fits(total_supply + amount)
    /\ Fits(balance[to] + amount)
    /\ total_supply' = total_supply + amount
    /\ balance' = [balance EXCEPT ![to] = @ + amount]
    /\ UNCHANGED <<token_config, allowance, delegation, grants, now>>

Destroy(from, amount) ==
    /\ validate_amount(amount)
    /\ Covers(from, amount)
    /\ Fits(total_supply - amount)
    /\ total_supply' = total_supply - amount
    /\ balance' = [balance EXCEPT ![from] = @ - amount]
    /\ UNCHANGED <<token_config, allowance, delegation, grants, now>>

burn(caller, from, amount) ==
    assert_admin(caller) /\ assert_not_paused /\ Destroy(from, amount)

\* Not gated by the pause.
burn_self(owner, amount) == Destroy(owner, amount)

delegate(owner, delegate_to) ==
    /\ owner # delegate_to
    /\ delegation[owner] = None
    /\ delegation' = [delegation EXCEPT ![owner] = delegate_to]
    /\ UNCHANGED <<token_config, total_supply, balance, allowance, grants, now>>

undelegate(owner) ==
    /\ delegation[owner] # None
    /\ delegation' = [delegation EXCEPT ![owner] = None]
    /\ UNCHANGED <<token_config, total_supply, balance, allowance, grants, now>>

propose_admin(caller, new_admin) ==
    /\ assert_admin(caller)
    /\ token_pending_admin' = new_admin
    /\ UNCHANGED <<initialized, token_admin, token_paused, total_supply,
                   balance, allowance, delegation, grants, now>>

accept_admin(caller) ==
    /\ token_pending_admin = caller
    /\ token_admin' = caller
    /\ token_pending_admin' = None
    /\ UNCHANGED <<initialized, token_paused, total_supply, balance,
                   allowance, delegation, grants, now>>

\* pause (value = TRUE) and unpause (value = FALSE).
set_paused(caller, value) ==
    /\ assert_admin(caller)
    /\ token_paused # value
    /\ token_paused' = value
    /\ UNCHANGED <<initialized, token_admin, token_pending_admin,
                   total_supply, balance, allowance, delegation, grants, now>>

\* Allowances live in temporary storage and set_allowance never extends their
\* TTL: once later ledgers close, the host may drop an entry before it expires.
EvictAllowance(owner, spender) ==
    /\ allowance[owner][spender] # None
    /\ allowance' = [allowance EXCEPT ![owner][spender] = None]
    /\ UNCHANGED <<token_config, total_supply, balance, delegation, grants, now>>

CloseLedger ==
    /\ \E t \in Ledger : t > now /\ now' = t
    /\ UNCHANGED token_vars

-----------------------------------------------------------------------------
(* Specification *)

Transfers ==
    \E a, b \in Account, n \in Amount :
        \/ transfer(a, b, n)
        \/ \E s \in Account : transfer_from(s, a, b, n)
        \/ \E t \in Ledger : approve(a, b, n, t)

SupplyChanges ==
    \E a, b \in Account, n \in Amount :
        \/ mint(a, b, n)
        \/ burn(a, b, n)
        \/ burn_self(a, n)

Delegations ==
    \E a, b \in Account : delegate(a, b) \/ undelegate(a)

TokenAdmin ==
    \E a \in Account :
        \/ \E n \in InitialSupplies : initialize(a, n)
        \/ \E b \in Account : propose_admin(a, b)
        \/ accept_admin(a)
        \/ \E v \in BOOLEAN : set_paused(a, v)

Eviction == \E a, b \in Account : EvictAllowance(a, b)

TokenNext ==
    \/ Transfers
    \/ SupplyChanges
    \/ Delegations
    \/ TokenAdmin
    \/ Eviction
    \/ CloseLedger

TokenSpec == TokenInit /\ [][TokenNext]_<<token_vars, now>>

-----------------------------------------------------------------------------
(* Properties *)

\* One element per unit of a balance, counted from i128::MIN as a balance may
\* be negative, and the sum of all balances that follows.
Units == {u \in Account \X (1..(MaxI128 - MinI128)) :
              u[2] <= balance[u[1]] - MinI128}
SumOfBalances == Cardinality(Units) + Cardinality(Account) * MinI128

\* total_supply is the sum of all balances, through every mix of transfers,
\* self-transfers, mints and burns, and whatever supply the token was
\* initialized with (lib.rs:37-60, 119-280).
SupplyExact == total_supply = SumOfBalances

\* Only initialize can make a balance negative: afterwards an account that owes
\* nothing never does, whoever spends, burns or is paid (lib.rs:119-280).
NoOverdraft ==
    [][initialized =>
          \A a \in Account : balance[a] >= 0 => balance'[a] >= 0]_token_vars

\* A spender never draws more than the last approve granted, and what is left
\* on the ledger is never more than the undrawn rest (lib.rs:147-208).
AllowanceHonoured ==
    \A o, s \in Account :
        LET left == IF allowance[o][s] = None THEN 0
                                              ELSE allowance[o][s].amount
        IN grants[o][s].drawn + left <= grants[o][s].approved

\* While the token is paused nobody's balance rises: transfers and mints stop,
\* and the token cannot be initialized again under a pause (lib.rs:435-441).
NoInflowWhilePaused ==
    [][token_paused => \A a \in Account : balance'[a] <= balance[a]]_token_vars
=============================================================================
