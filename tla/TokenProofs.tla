----------------------------- MODULE TokenProofs -----------------------------
(***************************************************************************)
(* Theorems about the token contract, for every set of accounts, every     *)
(* width of the integers and every initial supply.                         *)
(***************************************************************************)
EXTENDS Token, FiniteSetTheorems, TLAPS

-----------------------------------------------------------------------------
(* Sums of balances, as cardinalities *)

\* The token units of a balance sheet b, counted from i128::MIN.
UnitsOf(b) == {u \in Account \X (1..(MaxI128 - MinI128)) :
                   u[2] <= b[u[1]] - MinI128}

\* They are finitely many.
LEMMA UnitsFinite ==
    ASSUME NEW b
    PROVE  IsFiniteSet(UnitsOf(b)) /\ Cardinality(UnitsOf(b)) \in Nat
<1>1. IsFiniteSet(1..(MaxI128 - MinI128))
    BY FS_Interval, TokenBounds DEF MinI128
<1>2. IsFiniteSet(Account \X (1..(MaxI128 - MinI128)))
    BY <1>1, FS_Product, TokenSets
<1>3. UnitsOf(b) \subseteq Account \X (1..(MaxI128 - MinI128))
    BY DEF UnitsOf
<1>4. QED
    BY <1>2, <1>3, FS_Subset, FS_CardinalityType

\* The n units above the first m ones of one account.
Slice(a, m, n) == {a} \X ((m + 1)..(m + n))

\* They are n.
LEMMA SliceCard ==
    ASSUME NEW a, NEW m \in Nat, NEW n \in Nat
    PROVE  IsFiniteSet(Slice(a, m, n)) /\ Cardinality(Slice(a, m, n)) = n
<1>1. /\ IsFiniteSet((m + 1)..(m + n))
      /\ Cardinality((m + 1)..(m + n))
           = IF m + 1 > m + n THEN 0 ELSE m + n - (m + 1) + 1
    BY FS_Interval
<1>2. Cardinality((m + 1)..(m + n)) = n
    BY <1>1
<1>3. IsFiniteSet({a}) /\ Cardinality({a}) = 1
    BY FS_Singleton
<1> DEFINE slice == (m + 1)..(m + n)
<1> HIDE DEF slice
<1>4. /\ IsFiniteSet({a} \X slice)
      /\ Cardinality({a} \X slice) = Cardinality({a}) * Cardinality(slice)
    BY <1>1, <1>3, FS_Product DEF slice
<1>5. QED
    BY <1>2, <1>3, <1>4 DEF slice, Slice

\* A balance sheet after one account was credited or debited.
Credited(b, a, n) == [b EXCEPT ![a] = b[a] + n]
Debited(b, a, n) == [b EXCEPT ![a] = b[a] - n]

\* Crediting an account adds as many units as are credited.
LEMMA Credit ==
    ASSUME NEW b \in [Account -> I128], NEW a \in Account, NEW n \in Nat,
           b[a] + n <= MaxI128
    PROVE  /\ Credited(b, a, n) \in [Account -> I128]
           /\ Cardinality(UnitsOf(Credited(b, a, n)))
                = Cardinality(UnitsOf(b)) + n
<1> DEFINE c == Credited(b, a, n)
           m == b[a] - MinI128
           new == Slice(a, m, n)
<1>0. /\ b[a] \in Int /\ MaxI128 \in Nat /\ MinI128 \in Int
      /\ m \in Nat /\ m + n <= MaxI128 - MinI128
    BY TokenBounds DEF I128, MinI128
<1>1. /\ c[a] - MinI128 = m + n
      /\ \A x \in Account : x # a => c[x] = b[x]
    BY <1>0 DEF Credited
<1> HIDE DEF c
<1>2. UnitsOf(c) = UnitsOf(b) \cup new
  <2>1. ASSUME NEW u \in Account \X (1..(MaxI128 - MinI128))
        PROVE  u \in UnitsOf(c) <=> u \in UnitsOf(b) \/ u \in new
    <3>1. PICK x \in Account, k \in 1..(MaxI128 - MinI128) : u = <<x, k>>
        OBVIOUS
    <3>2. CASE x = a
      <4>1. u \in UnitsOf(c) <=> k <= m + n
          BY <3>1, <3>2, <1>1 DEF UnitsOf
      <4>2. u \in UnitsOf(b) <=> k <= m
          BY <3>1, <3>2 DEF UnitsOf
      <4>3. u \in new <=> k \in (m + 1)..(m + n)
          BY <3>1, <3>2 DEF Slice
      <4>4. QED
          BY <1>0, <4>1, <4>2, <4>3
    <3>3. CASE x # a
        BY <3>1, <3>3, <1>1 DEF UnitsOf, Slice
    <3>4. QED
        BY <3>2, <3>3
  <2>2. new \subseteq Account \X (1..(MaxI128 - MinI128))
      BY <1>0 DEF Slice
  <2>3. QED
      BY <2>1, <2>2 DEF UnitsOf
<1>3. UnitsOf(b) \cap new = {}
    BY <1>0 DEF UnitsOf, Slice
<1>4. IsFiniteSet(new) /\ Cardinality(new) = n
    BY <1>0, SliceCard
<1> HIDE DEF new
<1>5. Cardinality(UnitsOf(b) \cup new)
         = Cardinality(UnitsOf(b)) + Cardinality(new)
             - Cardinality(UnitsOf(b) \cap new)
    BY <1>4, UnitsFinite, FS_Union
<1>6. Cardinality(UnitsOf(b) \cap new) = 0
    BY <1>3, FS_EmptySet
<1>7. Cardinality(UnitsOf(c)) = Cardinality(UnitsOf(b)) + n
    BY <1>2, <1>4, <1>5, <1>6, UnitsFinite
<1>8. c \in [Account -> I128]
    BY <1>0 DEF c, Credited, I128
<1>9. QED
    BY <1>7, <1>8 DEF c

\* Debiting an account takes as many units as are debited.
LEMMA Debit ==
    ASSUME NEW b \in [Account -> I128], NEW a \in Account, NEW n \in Nat,
           b[a] - n >= MinI128
    PROVE  /\ Debited(b, a, n) \in [Account -> I128]
           /\ Cardinality(UnitsOf(b))
                = Cardinality(UnitsOf(Debited(b, a, n))) + n
<1> DEFINE c == Debited(b, a, n)
<1>1. b[a] \in Int /\ b[a] <= MaxI128 /\ MaxI128 \in Nat /\ MinI128 \in Int
    BY TokenBounds DEF I128, MinI128
<1>2. c \in [Account -> I128] /\ c[a] = b[a] - n
    BY <1>1 DEF I128, Debited
<1>3. Credited(c, a, n) = b
  <2>1. ASSUME NEW x \in Account
        PROVE  Credited(c, a, n)[x] = b[x]
      BY <1>1, <1>2 DEF Credited, Debited
  <2>2. QED
      BY <2>1, <1>2 DEF Credited
<1>4. c[a] + n <= MaxI128
    BY <1>1, <1>2
<1> HIDE DEF c
<1>5. Cardinality(UnitsOf(Credited(c, a, n))) = Cardinality(UnitsOf(c)) + n
    BY <1>2, <1>4, Credit
<1>6. QED
    BY <1>2, <1>3, <1>5 DEF c

\* What the units of balances that are all zero add up to.
Base == Cardinality(Account) * MinI128

\* If nobody holds or owes anything, only the offset is counted.
LEMMA EmptySheet ==
    ASSUME NEW b \in [Account -> I128], \A a \in Account : b[a] = 0
    PROVE  Cardinality(UnitsOf(b)) + Base = 0
<1>0. MaxI128 \in Nat
    BY TokenBounds
<1> DEFINE k == -MinI128
<1>1. k \in Nat /\ k >= 1 /\ MinI128 = -k /\ k <= MaxI128 - MinI128
    BY <1>0 DEF MinI128
<1>2. UnitsOf(b) = Account \X (1..k)
  <2>1. ASSUME NEW x \in Account, NEW j \in 1..(MaxI128 - MinI128)
        PROVE  <<x, j>> \in UnitsOf(b) <=> j <= k
      BY <1>1 DEF UnitsOf
  <2>2. UnitsOf(b) \subseteq Account \X (1..(MaxI128 - MinI128))
      BY DEF UnitsOf
  <2>3. ASSUME NEW j \in 1..(MaxI128 - MinI128)
        PROVE  j \in 1..k <=> j <= k
      BY <1>1
  <2>4. 1..k \subseteq 1..(MaxI128 - MinI128)
      BY <1>0, <1>1 DEF MinI128
  <2> HIDE DEF k
  <2>5. QED
      BY <2>1, <2>2, <2>3, <2>4
<1> HIDE DEF k
<1>3. IsFiniteSet(1..k) /\ Cardinality(1..k) = k
    BY <1>1, FS_Interval
<1>4. Cardinality(Account \X (1..k)) = Cardinality(Account) * k
    BY <1>3, FS_Product, TokenSets
<1>5. Cardinality(Account) \in Nat
    BY FS_CardinalityType, TokenSets
<1>6. ASSUME NEW p \in Nat, NEW q \in Nat PROVE p * q + p * (-q) = 0
    BY <1>6
<1>7. QED
    BY <1>1, <1>2, <1>4, <1>5, <1>6 DEF Base

-----------------------------------------------------------------------------
(* The inductive invariant *)

\* Before initialize there is no admin, so nobody can mint or pause, and
\* nobody holds anything to move.
UntouchedBefore ==
    ~initialized =>
        /\ token_admin = None
        /\ token_pending_admin = None
        /\ ~token_paused
        /\ \A a \in Account : balance[a] = 0

\* The amounts drawn on a grant stay within their type because grants are
\* honoured.
TInv ==
    /\ TokenTypeOK
    /\ SupplyExact
    /\ AllowanceHonoured
    /\ UntouchedBefore

\* The initial state satisfies the invariant.
LEMMA InitTInv == TokenInit => TInv
<1> SUFFICES ASSUME TokenInit PROVE TInv
    OBVIOUS
<1>1. TokenTypeOK
  <2>1. 0 \in Amount /\ 0 \in I128 /\ 0 \in Ledger
      BY TokenBounds DEF Amount, I128, MinI128, Ledger
  <2>2. [approved |-> 0, drawn |-> 0] \in Grant
      BY <2>1 DEF Grant
  <2>3. QED
      BY <2>1, <2>2 DEF TokenInit, TokenTypeOK
<1>2. SupplyExact
  <2>1. balance \in [Account -> I128] /\ \A a \in Account : balance[a] = 0
      BY TokenBounds DEF TokenInit, I128, MinI128
  <2>2. Cardinality(UnitsOf(balance)) + Base = 0
      BY <2>1, EmptySheet
  <2>3. QED
      BY <2>2 DEF TokenInit, SupplyExact, SumOfBalances, Units, UnitsOf, Base
<1>3. AllowanceHonoured
    BY DEF TokenInit, AllowanceHonoured
<1>4. UntouchedBefore
    BY DEF TokenInit, UntouchedBefore
<1>5. QED
    BY <1>1, <1>2, <1>3, <1>4 DEF TInv

\* Debit and credit keep the sum, also when an account pays itself.
LEMMA MoveKeepsSum ==
    ASSUME balance \in [Account -> I128],
           NEW from \in Account, NEW to \in Account, NEW n \in Amount,
           Covers(from, n), Move(from, to, n)
    PROVE  /\ balance' \in [Account -> I128]
           /\ Cardinality(UnitsOf(balance')) = Cardinality(UnitsOf(balance))
<1> DEFINE debited == Debited(balance, from, n)
<1>1. /\ n \in Nat /\ balance[from] \in Int /\ n <= balance[from]
      /\ balance[from] - n >= MinI128
    BY TokenBounds DEF Amount, I128, MinI128, Covers
<1>2. /\ debited \in [Account -> I128]
      /\ Cardinality(UnitsOf(balance)) = Cardinality(UnitsOf(debited)) + n
    BY <1>1, Debit
<1>3. /\ debited[to] + n <= MaxI128
      /\ balance' = Credited(debited, to, n)
    BY TokenBounds DEF Move, Fits, Debited, Credited, I128, MinI128
<1> HIDE DEF debited
<1>4. /\ balance' \in [Account -> I128]
      /\ Cardinality(UnitsOf(balance')) = Cardinality(UnitsOf(debited)) + n
    BY <1>1, <1>2, <1>3, Credit
<1>5. QED
    BY <1>2, <1>4

\* A step that leaves allowances and grants alone keeps them honoured.
LEMMA AllowanceFrame ==
    ASSUME AllowanceHonoured, UNCHANGED <<allowance, grants>>
    PROVE  AllowanceHonoured'
BY DEF AllowanceHonoured

\* A step that leaves supply and balances alone keeps the supply exact.
LEMMA SupplyFrame ==
    ASSUME SupplyExact, UNCHANGED <<total_supply, balance>>
    PROVE  SupplyExact'
BY DEF SupplyExact, SumOfBalances, Units

\* SupplyExact in terms of UnitsOf.
LEMMA SupplyUnits ==
    /\ SupplyExact <=> total_supply = Cardinality(UnitsOf(balance)) + Base
    /\ SupplyExact' <=> total_supply' = Cardinality(UnitsOf(balance')) + Base
    /\ Base \in Int
<1>1. Cardinality(Account) \in Nat /\ MinI128 \in Int
    BY FS_CardinalityType, TokenSets, TokenBounds DEF MinI128
<1>2. QED
    BY <1>1 DEF SupplyExact, SumOfBalances, Units, UnitsOf, Base

\* initialize is the first write of every balance.
LEMMA InitializeTInv ==
    ASSUME TInv, NEW a \in Account, NEW n \in InitialSupplies,
           initialize(a, n)
    PROVE  TInv'
<1>1. /\ balance \in [Account -> I128] /\ n \in I128
      /\ \A x \in Account : balance[x] = 0
    BY TokenBounds DEF TInv, TokenTypeOK, UntouchedBefore, initialize
<1>2. TokenTypeOK'
    BY <1>1 DEF TInv, TokenTypeOK, initialize
<1>3. SupplyExact'
  <2>1. n \in Int /\ n <= MaxI128 /\ n >= MinI128
      BY <1>1, TokenBounds DEF I128, MinI128
  <2>2. /\ Cardinality(UnitsOf(balance)) + Base = 0
        /\ Cardinality(UnitsOf(balance)) \in Nat
      BY <1>1, EmptySheet, UnitsFinite
  <2>3. balance' = [balance EXCEPT ![a] = n] /\ total_supply' = n
      BY DEF initialize
  <2>4. CASE n >= 0
    <3>1. n \in Nat /\ balance[a] + n <= MaxI128
        BY <1>1, <2>1, <2>4
    <3>2. balance' = Credited(balance, a, n)
      <4>1. balance[a] + n = n
          BY <1>1, <2>1
      <4>2. QED
          BY <2>3, <4>1 DEF Credited
    <3>3. Cardinality(UnitsOf(balance')) = Cardinality(UnitsOf(balance)) + n
        BY <1>1, <3>1, <3>2, Credit
    <3>4. QED
        BY <2>1, <2>2, <2>3, <3>3, SupplyUnits
  <2>5. CASE n < 0
    <3> DEFINE k == -n
    <3>1. k \in Nat /\ balance[a] - k >= MinI128 /\ balance[a] - k = n
        BY <1>1, <2>1, <2>5
    <3>2. balance' = Debited(balance, a, k)
        BY <1>1, <2>3, <3>1 DEF Debited
    <3> HIDE DEF k
    <3>3. Cardinality(UnitsOf(balance)) = Cardinality(UnitsOf(balance')) + k
        BY <1>1, <3>1, <3>2, Debit
    <3>4. Cardinality(UnitsOf(balance')) \in Nat
        BY UnitsFinite
    <3>5. QED
        BY <2>1, <2>2, <2>3, <3>1, <3>3, <3>4, SupplyUnits DEF k
  <2>6. QED
      BY <2>1, <2>4, <2>5
<1>4. AllowanceHonoured'
    BY AllowanceFrame DEF TInv, initialize
<1>5. UntouchedBefore'
    BY DEF UntouchedBefore, initialize
<1>6. QED
    BY <1>2, <1>3, <1>4, <1>5 DEF TInv

\* Before initialize no transfer, mint or burn has anything to act on.
LEMMA HolderMeansInitialized ==
    ASSUME TInv, NEW a \in Account, NEW n \in Amount, validate_amount(n),
           Covers(a, n)
    PROVE  initialized
<1>1. n \in Nat
    BY TokenBounds DEF Amount
<1>2. QED
    BY <1>1 DEF TInv, UntouchedBefore, validate_amount, Covers

\* An admin exists only after initialize.
LEMMA AdminMeansInitialized ==
    ASSUME TInv, NEW a \in Account,
           assert_admin(a) \/ token_pending_admin = a
    PROVE  initialized
BY TokenSets DEF TInv, UntouchedBefore, assert_admin

\* transfer moves units and touches nothing else.
LEMMA TransferTInv ==
    ASSUME TInv, NEW from \in Account, NEW to \in Account, NEW n \in Amount,
           transfer(from, to, n)
    PROVE  TInv'
<1>1. /\ balance' \in [Account -> I128]
      /\ Cardinality(UnitsOf(balance')) = Cardinality(UnitsOf(balance))
  <2>1. balance \in [Account -> I128]
      BY DEF TInv, TokenTypeOK
  <2>2. CASE from = to
      BY <2>1, <2>2 DEF transfer
  <2>3. CASE from # to
      BY <2>1, <2>3, MoveKeepsSum DEF transfer
  <2>4. QED
      BY <2>2, <2>3
<1>2. TokenTypeOK'
    BY <1>1 DEF TInv, TokenTypeOK, transfer, token_config
<1>3. SupplyExact'
    BY <1>1, SupplyUnits DEF TInv, transfer
<1>4. AllowanceHonoured'
    BY AllowanceFrame DEF TInv, transfer
<1>5. UntouchedBefore'
    BY HolderMeansInitialized DEF UntouchedBefore, transfer, token_config
<1>6. QED
    BY <1>2, <1>3, <1>4, <1>5 DEF TInv

\* What an allowance allows now is what is stored.
LEMMA RecordStored ==
    ASSUME NEW o \in Account, NEW s \in Account,
           allowance_record(o, s) # None
    PROVE  allowance_record(o, s) = allowance[o][s] /\ allowance[o][s] # None
BY DEF allowance_record

\* transfer_from moves units and shifts an amount from left to drawn.
LEMMA TransferFromTInv ==
    ASSUME TInv, NEW spender \in Account, NEW from \in Account,
           NEW to \in Account, NEW n \in Amount,
           transfer_from(spender, from, to, n)
    PROVE  TInv'
<1> DEFINE r == allowance[from][spender]
           g == grants[from][spender]
<1>1. /\ balance' \in [Account -> I128]
      /\ Cardinality(UnitsOf(balance')) = Cardinality(UnitsOf(balance))
    BY MoveKeepsSum DEF TInv, TokenTypeOK, transfer_from
<1>2. /\ r # None
      /\ r.amount >= n
      /\ allowance' = [allowance EXCEPT ![from][spender] = Spend(r, n)]
      /\ grants' = [grants EXCEPT ![from][spender].drawn = g.drawn + n]
    BY RecordStored DEF transfer_from
<1>3. r \in Allowance /\ g \in Grant
    BY <1>2 DEF TInv, TokenTypeOK
<1>4. /\ r.amount \in Nat /\ r.amount <= MaxI128 /\ r.expiry_ledger \in Ledger
      /\ g.drawn \in Nat /\ g.approved \in Nat /\ g.approved <= MaxI128
      /\ n \in Nat /\ MaxI128 \in Nat
    BY <1>3, TokenBounds DEF Allowance, Grant, Amount
<1>5. g.drawn + r.amount <= g.approved
    BY <1>2 DEF TInv, AllowanceHonoured
<1>6. /\ Spend(r, n) \in Allowance
      /\ Spend(r, n).amount = r.amount - n
      /\ [g EXCEPT !.drawn = g.drawn + n] \in Grant
  <2>1. r.amount - n \in Amount /\ g.drawn + n \in Amount
      BY <1>2, <1>4, <1>5 DEF Amount
  <2>2. QED
      BY <1>3, <1>4, <2>1 DEF Spend, Allowance, Grant
<1>7. TokenTypeOK'
  <2>1. allowance' \in [Account -> [Account -> Allowance \cup {None}]]
      BY <1>2, <1>6 DEF TInv, TokenTypeOK
  <2>2. grants' \in [Account -> [Account -> Grant]]
      BY <1>2, <1>6 DEF TInv, TokenTypeOK
  <2>3. QED
      BY <1>1, <2>1, <2>2 DEF TInv, TokenTypeOK, transfer_from, token_config
<1>8. SupplyExact'
    BY <1>1, SupplyUnits DEF TInv, transfer_from
<1>9. AllowanceHonoured'
  <2> SUFFICES ASSUME NEW o \in Account, NEW s \in Account
               PROVE  grants'[o][s].drawn
                        + (IF allowance'[o][s] = None THEN 0
                                                ELSE allowance'[o][s].amount)
                        <= grants'[o][s].approved
      BY DEF AllowanceHonoured
  <2>1. CASE o = from /\ s = spender
    <3>1. allowance'[o][s] = Spend(r, n) /\ grants'[o][s] = [g EXCEPT !.drawn = g.drawn + n]
        BY <1>2, <2>1 DEF TInv, TokenTypeOK
    <3>2. grants'[o][s].drawn = g.drawn + n /\ grants'[o][s].approved = g.approved
        BY <3>1, <1>3 DEF Grant
    <3>3. Spend(r, n) # None
        BY <1>6, TokenSets
    <3>4. QED
        BY <3>1, <3>2, <3>3, <1>4, <1>5, <1>6
  <2>2. CASE ~(o = from /\ s = spender)
    <3>1. allowance'[o][s] = allowance[o][s] /\ grants'[o][s] = grants[o][s]
        BY <1>2, <2>2 DEF TInv, TokenTypeOK
    <3>2. QED
        BY <3>1 DEF TInv, AllowanceHonoured
  <2>3. QED
      BY <2>1, <2>2
<1>10. UntouchedBefore'
    BY HolderMeansInitialized DEF UntouchedBefore, transfer_from, token_config
<1>11. QED
    BY <1>7, <1>8, <1>9, <1>10 DEF TInv

\* approve starts a new grant with nothing drawn on it.
LEMMA ApproveTInv ==
    ASSUME TInv, NEW o \in Account, NEW s \in Account, NEW n \in Amount,
           NEW t \in Ledger, approve(o, s, n, t)
    PROVE  TInv'
<1> DEFINE r == [amount |-> n, expiry_ledger |-> t]
           g == [approved |-> n, drawn |-> 0]
<1>1. 0 \in Amount /\ n \in Nat
    BY TokenBounds DEF Amount
<1>2. r \in Allowance /\ g \in Grant
    BY <1>1 DEF Allowance, Grant
<1>3. /\ allowance' = [allowance EXCEPT ![o][s] = r]
      /\ grants' = [grants EXCEPT ![o][s] = g]
    BY DEF approve
<1>4. TokenTypeOK'
    BY <1>2, <1>3 DEF TInv, TokenTypeOK, approve, token_config
<1>5. SupplyExact'
    BY SupplyFrame DEF TInv, approve
<1>6. AllowanceHonoured'
  <2> SUFFICES ASSUME NEW x \in Account, NEW y \in Account
               PROVE  grants'[x][y].drawn
                        + (IF allowance'[x][y] = None THEN 0
                                                ELSE allowance'[x][y].amount)
                        <= grants'[x][y].approved
      BY DEF AllowanceHonoured
  <2>1. CASE x = o /\ y = s
    <3>1. allowance'[x][y] = r /\ grants'[x][y] = g
        BY <1>3, <2>1 DEF TInv, TokenTypeOK
    <3>2. QED
        BY <3>1, <1>1
  <2>2. CASE ~(x = o /\ y = s)
    <3>1. allowance'[x][y] = allowance[x][y] /\ grants'[x][y] = grants[x][y]
        BY <1>3, <2>2 DEF TInv, TokenTypeOK
    <3>2. QED
        BY <3>1 DEF TInv, AllowanceHonoured
  <2>3. QED
      BY <2>1, <2>2
<1>7. UntouchedBefore'
    BY DEF TInv, UntouchedBefore, approve, token_config
<1>8. QED
    BY <1>4, <1>5, <1>6, <1>7 DEF TInv

\* mint credits what it adds to the supply.
LEMMA MintTInv ==
    ASSUME TInv, NEW a \in Account, NEW to \in Account, NEW n \in Amount,
           mint(a, to, n)
    PROVE  TInv'
<1>1. /\ balance \in [Account -> I128] /\ total_supply \in Int
      /\ balance[to] \in Int /\ n \in Nat /\ MaxI128 \in Nat
    BY TokenBounds DEF TInv, TokenTypeOK, Amount, I128, MinI128
<1>2. /\ balance' = Credited(balance, to, n)
      /\ balance[to] + n <= MaxI128
      /\ total_supply' = total_supply + n
      /\ total_supply + n \in I128
    BY <1>1 DEF mint, Fits, Credited, I128, MinI128
<1>3. /\ balance' \in [Account -> I128]
      /\ Cardinality(UnitsOf(balance')) = Cardinality(UnitsOf(balance)) + n
    BY <1>1, <1>2, Credit
<1>4. total_supply' \in I128
    BY <1>2
<1>5. TokenTypeOK'
    BY <1>3, <1>4 DEF TInv, TokenTypeOK, mint, token_config
<1>6. SupplyExact'
    BY <1>1, <1>2, <1>3, SupplyUnits, UnitsFinite DEF TInv
<1>7. AllowanceHonoured'
    BY AllowanceFrame DEF TInv, mint
<1>8. UntouchedBefore'
    BY AdminMeansInitialized DEF UntouchedBefore, mint, token_config
<1>9. QED
    BY <1>5, <1>6, <1>7, <1>8 DEF TInv

\* burn and burn_self debit what they take from the supply.
LEMMA DestroyTInv ==
    ASSUME TInv, NEW from \in Account, NEW n \in Amount, Destroy(from, n)
    PROVE  TInv'
<1>1. /\ balance \in [Account -> I128] /\ total_supply \in Int
      /\ n \in Nat /\ MaxI128 \in Nat /\ balance[from] \in Int
    BY TokenBounds DEF TInv, TokenTypeOK, Amount, I128, MinI128
<1>2. /\ balance' = Debited(balance, from, n)
      /\ balance[from] - n >= MinI128
      /\ total_supply' = total_supply - n
      /\ total_supply' \in I128
    BY <1>1 DEF Destroy, Covers, Fits, Debited, MinI128
<1>3. /\ balance' \in [Account -> I128]
      /\ Cardinality(UnitsOf(balance)) = Cardinality(UnitsOf(balance')) + n
    BY <1>1, <1>2, Debit
<1>4. total_supply = Cardinality(UnitsOf(balance)) + Base /\ Base \in Int
    BY SupplyUnits DEF TInv
<1>5. Cardinality(UnitsOf(balance')) \in Nat
    BY UnitsFinite
<1>6. total_supply' = Cardinality(UnitsOf(balance')) + Base
    BY <1>1, <1>2, <1>3, <1>4, <1>5
<1>7. TokenTypeOK'
    BY <1>2, <1>3 DEF TInv, TokenTypeOK, Destroy, token_config
<1>8. SupplyExact'
    BY <1>6, SupplyUnits
<1>9. AllowanceHonoured'
    BY AllowanceFrame DEF TInv, Destroy
<1>10. UntouchedBefore'
    BY HolderMeansInitialized DEF UntouchedBefore, Destroy, token_config
<1>11. QED
    BY <1>7, <1>8, <1>9, <1>10 DEF TInv

\* Delegations hold no units.
LEMMA DelegationTInv ==
    ASSUME TInv, NEW a \in Account, NEW b \in Account,
           delegate(a, b) \/ undelegate(a)
    PROVE  TInv'
<1>1. /\ UNCHANGED <<initialized, token_admin, token_pending_admin, token_paused,
                     total_supply, balance, allowance, grants, now>>
      /\ delegation' \in [Account -> Account \cup {None}]
    BY DEF delegate, undelegate, TInv, TokenTypeOK, token_config
<1>2. TokenTypeOK'
    BY <1>1 DEF TInv, TokenTypeOK
<1>3. SupplyExact' /\ AllowanceHonoured'
    BY <1>1, SupplyFrame, AllowanceFrame DEF TInv
<1>4. UntouchedBefore'
    BY <1>1 DEF TInv, UntouchedBefore
<1>5. QED
    BY <1>2, <1>3, <1>4 DEF TInv

\* The admin's transfers of office and pauses leave the ledger alone, and only
\* an initialized token has an admin.
LEMMA AdminTInv ==
    ASSUME TInv, NEW a \in Account, NEW b \in Account, NEW v \in BOOLEAN,
           propose_admin(a, b) \/ accept_admin(a) \/ set_paused(a, v)
    PROVE  TInv'
<1>1. UNCHANGED <<initialized, total_supply, balance, allowance, delegation,
                  grants, now>>
    BY DEF propose_admin, accept_admin, set_paused
<1>2. /\ token_admin' \in Account \cup {None}
      /\ token_pending_admin' \in Account \cup {None}
    BY DEF propose_admin, accept_admin, set_paused, TInv, TokenTypeOK
<1>3. token_paused' \in BOOLEAN
    BY DEF propose_admin, accept_admin, set_paused, TInv, TokenTypeOK
<1>4. TokenTypeOK'
    BY <1>1, <1>2, <1>3 DEF TInv, TokenTypeOK
<1>5. SupplyExact' /\ AllowanceHonoured'
    BY <1>1, SupplyFrame, AllowanceFrame DEF TInv
<1>6. initialized
    BY AdminMeansInitialized DEF propose_admin, accept_admin, set_paused
<1>7. UntouchedBefore'
    BY <1>1, <1>6 DEF UntouchedBefore
<1>8. QED
    BY <1>4, <1>5, <1>7 DEF TInv

\* An evicted allowance leaves nothing to draw.
LEMMA EvictTInv ==
    ASSUME TInv, NEW o \in Account, NEW s \in Account, EvictAllowance(o, s)
    PROVE  TInv'
<1>1. /\ allowance' = [allowance EXCEPT ![o][s] = None]
      /\ UNCHANGED <<initialized, token_admin, token_pending_admin, token_paused,
                     total_supply, balance, delegation, grants, now>>
    BY DEF EvictAllowance, token_config
<1>2. TokenTypeOK'
    BY <1>1 DEF TInv, TokenTypeOK
<1>3. SupplyExact'
    BY <1>1, SupplyFrame DEF TInv
<1>4. AllowanceHonoured'
  <2> SUFFICES ASSUME NEW x \in Account, NEW y \in Account
               PROVE  grants'[x][y].drawn
                        + (IF allowance'[x][y] = None THEN 0
                                                ELSE allowance'[x][y].amount)
                        <= grants'[x][y].approved
      BY DEF AllowanceHonoured
  <2>1. grants[x][y].drawn
          + (IF allowance[x][y] = None THEN 0 ELSE allowance[x][y].amount)
          <= grants[x][y].approved
      BY DEF TInv, AllowanceHonoured
  <2>2. CASE x = o /\ y = s
    <3>1. allowance'[x][y] = None /\ grants' = grants
        BY <1>1, <2>2 DEF TInv, TokenTypeOK
    <3>2. /\ grants[x][y].drawn \in Nat /\ grants[x][y].approved \in Nat
          /\ allowance[x][y] # None => allowance[x][y].amount \in Nat
        BY TokenBounds DEF TInv, TokenTypeOK, Grant, Allowance, Amount
    <3>3. QED
        BY <3>1, <3>2, <2>1
  <2>3. CASE ~(x = o /\ y = s)
    <3>1. allowance'[x][y] = allowance[x][y] /\ grants' = grants
        BY <1>1, <2>3 DEF TInv, TokenTypeOK
    <3>2. QED
        BY <3>1, <2>1
  <2>4. QED
      BY <2>2, <2>3
<1>5. UntouchedBefore'
    BY <1>1 DEF TInv, UntouchedBefore
<1>6. QED
    BY <1>2, <1>3, <1>4, <1>5 DEF TInv

\* Every step preserves the invariant.
LEMMA NextTInv == TInv /\ [TokenNext]_<<token_vars, now>> => TInv'
<1> SUFFICES ASSUME TInv, [TokenNext]_<<token_vars, now>>
             PROVE  TInv'
    OBVIOUS
<1>1. ASSUME NEW a \in Account, NEW b \in Account, NEW n \in Amount,
             \/ transfer(a, b, n)
             \/ \E s \in Account : transfer_from(s, a, b, n)
             \/ \E t \in Ledger : approve(a, b, n, t)
      PROVE  TInv'
    BY <1>1, TransferTInv, TransferFromTInv, ApproveTInv
<1>2. ASSUME NEW a \in Account, NEW b \in Account, NEW n \in Amount,
             mint(a, b, n) \/ burn(a, b, n) \/ burn_self(a, n)
      PROVE  TInv'
    BY <1>2, MintTInv, DestroyTInv DEF burn, burn_self
<1>3. ASSUME NEW a \in Account, NEW b \in Account,
             delegate(a, b) \/ undelegate(a)
      PROVE  TInv'
    BY <1>3, DelegationTInv
<1>4. ASSUME NEW a \in Account,
             \/ \E n \in InitialSupplies : initialize(a, n)
             \/ \E b \in Account : propose_admin(a, b)
             \/ accept_admin(a)
             \/ \E v \in BOOLEAN : set_paused(a, v)
      PROVE  TInv'
    BY <1>4, InitializeTInv, AdminTInv
<1>5. ASSUME NEW a \in Account, NEW b \in Account, EvictAllowance(a, b)
      PROVE  TInv'
    BY <1>5, EvictTInv
<1>6. ASSUME UNCHANGED token_vars, now' \in Ledger
      PROVE  TInv'
  <2>1. UNCHANGED <<initialized, token_admin, token_pending_admin, token_paused,
                    total_supply, balance, allowance, delegation, grants>>
      BY <1>6 DEF token_vars, token_config
  <2>2. TokenTypeOK'
      BY <2>1, <1>6 DEF TInv, TokenTypeOK
  <2>3. SupplyExact' /\ AllowanceHonoured' /\ UntouchedBefore'
      BY <2>1, SupplyFrame, AllowanceFrame DEF TInv, UntouchedBefore
  <2>4. QED
      BY <2>2, <2>3 DEF TInv
<1>7. now' = now => now' \in Ledger
    BY DEF TInv, TokenTypeOK
<1>8. QED
    BY <1>1, <1>2, <1>3, <1>4, <1>5, <1>6, <1>7
    DEF TokenNext, Transfers, SupplyChanges, Delegations, TokenAdmin, Eviction,
        CloseLedger

\* The invariant holds throughout.
LEMMA TokenInvariant == TokenSpec => []TInv
BY InitTInv, NextTInv, PTL DEF TokenSpec

-----------------------------------------------------------------------------
(* Theorems *)

\* All state of the token contract stays within its types: balances and supply
\* within i128, which includes debts, allowances and grants never negative.
THEOREM TokenTypeCorrect == TokenSpec => []TokenTypeOK
<1>1. TInv => TokenTypeOK
    BY DEF TInv
<1>2. QED
    BY <1>1, TokenInvariant, PTL

\* total_supply is the sum of the balances after every sequence of transfers,
\* self-transfers, mints and burns.
THEOREM SupplyCorrect == TokenSpec => []SupplyExact
<1>1. TInv => SupplyExact
    BY DEF TInv
<1>2. QED
    BY <1>1, TokenInvariant, PTL

\* No spender draws more than the last approve granted.
THEOREM AllowanceCorrect == TokenSpec => []AllowanceHonoured
<1>1. TInv => AllowanceHonoured
    BY DEF TInv
<1>2. QED
    BY <1>1, TokenInvariant, PTL

\* A pause stops every way in which a balance can rise: transfers and mints
\* test it, and initialize, which does not, has happened before any pause.
THEOREM PauseCorrect == TokenSpec => NoInflowWhilePaused
<1> DEFINE Falls == \A a \in Account : balance'[a] <= balance[a]
<1>1. ASSUME TInv, TokenNext, token_paused
      PROVE  Falls
  <2>0. balance \in [Account -> I128] /\ \A x \in Account : balance[x] \in Int
      BY <1>1, TokenBounds DEF TInv, TokenTypeOK, I128, MinI128
  <2>1. CASE balance' = balance
      BY <2>0, <2>1
  <2>2. ASSUME NEW o \in Account, NEW n \in Amount, Destroy(o, n)
        PROVE  Falls
    <3>1. n \in Nat /\ balance' = [balance EXCEPT ![o] = @ - n]
        BY <2>2, TokenBounds DEF Destroy, Amount
    <3>2. QED
        BY <3>1, <2>0
  <2>3. ~\E a, b \in Account, n \in Amount :
            \/ transfer(a, b, n)
            \/ \E s \in Account : transfer_from(s, a, b, n)
            \/ mint(a, b, n)
      BY <1>1 DEF transfer, transfer_from, mint, assert_not_paused
  <2>4. ~\E a \in Account, n \in InitialSupplies : initialize(a, n)
      BY <1>1 DEF initialize, TInv, UntouchedBefore
  <2>5. ASSUME NEW a \in Account, NEW b \in Account,
               \/ \E n \in Amount, t \in Ledger : approve(a, b, n, t)
               \/ delegate(a, b) \/ undelegate(a)
               \/ propose_admin(a, b) \/ accept_admin(a)
               \/ \E v \in BOOLEAN : set_paused(a, v)
               \/ EvictAllowance(a, b)
        PROVE  balance' = balance
      BY <2>5 DEF approve, delegate, undelegate, propose_admin, accept_admin,
                  set_paused, EvictAllowance
  <2>6. CASE CloseLedger
      BY <2>6, <2>1 DEF CloseLedger, token_vars
  <2>7. QED
      BY <1>1, <2>1, <2>2, <2>3, <2>4, <2>5, <2>6
      DEF TokenNext, Transfers, SupplyChanges, Delegations, TokenAdmin,
          Eviction, burn, burn_self
<1>2. TInv /\ [TokenNext]_<<token_vars, now>>
        => [token_paused => Falls]_token_vars
    BY <1>1
<1>3. QED
    BY <1>2, TokenInvariant, PTL DEF TokenSpec, NoInflowWhilePaused

\* Moving what an account covers leaves no debt that was not there.
LEMMA MoveOverdraft ==
    ASSUME balance \in [Account -> I128],
           NEW from \in Account, NEW to \in Account, NEW n \in Amount,
           Covers(from, n), Move(from, to, n),
           NEW x \in Account, balance[x] >= 0
    PROVE  balance'[x] >= 0
<1> DEFINE debited == [balance EXCEPT ![from] = @ - n]
<1>1. n \in Nat /\ \A y \in Account : balance[y] \in Int
    BY TokenBounds DEF Amount, I128, MinI128
<1>2. balance' = [debited EXCEPT ![to] = @ + n]
    BY DEF Move
<1>3. debited \in [Account -> Int] /\ debited[x] \in Int /\ debited[x] >= 0
    BY <1>1 DEF Covers
<1> HIDE DEF debited
<1>4. balance'[x] = debited[x] \/ balance'[x] = debited[x] + n
    BY <1>2, <1>3
<1>5. QED
    BY <1>1, <1>3, <1>4

\* After initialize no account is overdrawn by anything it or others do.
THEOREM OverdraftCorrect == TokenSpec => NoOverdraft
<1> DEFINE Solvent == \A a \in Account : balance[a] >= 0 => balance'[a] >= 0
<1>1. ASSUME TInv, TokenNext, initialized
      PROVE  Solvent
  <2>0. balance \in [Account -> I128] /\ \A x \in Account : balance[x] \in Int
      BY <1>1, TokenBounds DEF TInv, TokenTypeOK, I128, MinI128
  <2>1. CASE balance' = balance
      BY <2>1
  <2>2. ASSUME NEW o \in Account, NEW n \in Amount, Destroy(o, n)
        PROVE  Solvent
    <3>1. n \in Nat /\ balance' = [balance EXCEPT ![o] = @ - n]
        BY <2>2, TokenBounds DEF Destroy, Amount
    <3>2. balance[o] >= n
        BY <2>2 DEF Destroy, Covers
    <3>3. QED
        BY <3>1, <3>2, <2>0
  <2>3. ASSUME NEW o \in Account, NEW b \in Account, NEW n \in Amount,
               transfer(o, b, n) \/ \E s \in Account : transfer_from(s, o, b, n)
        PROVE  Solvent
    <3>1. balance' = balance \/ (Covers(o, n) /\ Move(o, b, n))
        BY <2>3 DEF transfer, transfer_from
    <3>2. QED
        BY <3>1, <2>0, <2>1, MoveOverdraft
  <2>4. ASSUME NEW a \in Account, NEW b \in Account, NEW n \in Amount,
               mint(a, b, n)
        PROVE  Solvent
    <3>1. n \in Nat /\ balance' = [balance EXCEPT ![b] = @ + n]
        BY <2>4, TokenBounds DEF mint, Amount
    <3>2. QED
        BY <3>1, <2>0
  <2>5. ASSUME NEW a \in Account, NEW b \in Account,
               \/ \E n \in Amount, t \in Ledger : approve(a, b, n, t)
               \/ delegate(a, b) \/ undelegate(a)
               \/ propose_admin(a, b) \/ accept_admin(a)
               \/ \E v \in BOOLEAN : set_paused(a, v)
               \/ EvictAllowance(a, b)
        PROVE  balance' = balance
      BY <2>5 DEF approve, delegate, undelegate, propose_admin, accept_admin,
                  set_paused, EvictAllowance
  <2>6. ~\E a \in Account, n \in InitialSupplies : initialize(a, n)
      BY <1>1 DEF initialize
  <2>7. CASE CloseLedger
      BY <2>7, <2>1 DEF CloseLedger, token_vars
  <2>8. QED
      BY <1>1, <2>1, <2>2, <2>3, <2>4, <2>5, <2>6, <2>7
      DEF TokenNext, Transfers, SupplyChanges, Delegations, TokenAdmin,
          Eviction, burn, burn_self
<1>2. TInv /\ [TokenNext]_<<token_vars, now>>
        => [initialized => Solvent]_token_vars
    BY <1>1
<1>3. QED
    BY <1>2, TokenInvariant, PTL DEF TokenSpec, NoOverdraft
=============================================================================
