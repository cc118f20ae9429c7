--------------------------- MODULE ReserveRegistry ---------------------------
(***************************************************************************)
(* The pool's list of reserves, as PoolLogic keeps it: an asset gets an id *)
(* when it is listed, the id is freed when the reserve is dropped, and the *)
(* next asset takes it.  The bits of a user's configuration are kept by    *)
(* id, not by asset, and outlive the reserve.                              *)
(*                                                                         *)
(* Debts have the rounding of the code: the variable one is scaled and     *)
(* read at an index that grows, the stable one is its balance with         *)
(* interest.  hTokens are scaled units, whose index is left out: whether a *)
(* call that burns the last of them moved the balance its owner reads, and *)
(* so clears his bit, is any choice.  Health, isolation and configurations *)
(* are LendPool's business, so whether a reserve is used as collateral is  *)
(* any choice too; liquidations, which move the same bits, are there.      *)
(***************************************************************************)
EXTENDS WadRay, FiniteSetsExt

CONSTANTS
    Asset,             \* the contracts that may be listed
    Zero,              \* address(0)
    MaxNumberReserves, \* MAX_NUMBER_RESERVES, 128
    User,
    Amounts,           \* amounts that are borrowed and offered in repayment
    StableLag,         \* how far a stable token's total may lag behind the balances
    MaxBalance,        \* bound on the hTokens of a reserve and on a user's debt of a mode
    MaxIndex           \* bound on indexes

ASSUME RegistryAssumption ==
    /\ Zero \notin Asset
    /\ MaxNumberReserves \in Nat \ {0}
    /\ Amounts \subseteq Nat \ {0}
    /\ StableLag \in Nat /\ MaxBalance \in Nat /\ MaxIndex \in Nat

VARIABLES
    reservesList,   \* the asset in every slot
    reserves,       \* the id of an asset, and whether it has an hToken
    reservesCount,
    collateralBits, \* per user, the ids in use as collateral
    borrowingBits,  \* per user, the ids borrowed from
    hTokens,        \* per asset and user, in scaled units
    variable,       \* the variable debts, in scaled units
    stable,         \* the stable debts, interest included
    index           \* per asset, the variable debt index

registry == <<reservesList, reserves, reservesCount>>
bits == <<collateralBits, borrowingBits>>
debts == <<variable, stable, index>>
vars == <<registry, bits, hTokens, debts>>

Id == 0 .. MaxNumberReserves - 1

NoReserve == [id |-> 0, initialized |-> FALSE]

\* reserve.id != 0 || reservesList[0] == asset
IsListed(a) == reserves[a].id # 0 \/ reservesList[0] = a

Listed == {a \in Asset : IsListed(a)}

-----------------------------------------------------------------------------
(* Listing and dropping.                                                   *)

\* The slots that dropped reserves left.
Holes == {i \in Id : i < reservesCount /\ reservesList[i] = Zero}

MayInit(a) == ~reserves[a].initialized /\ ~IsListed(a)

PutAt(a, i) ==
    /\ reserves' = [reserves EXCEPT ![a] = [id |-> i, initialized |-> TRUE]]
    /\ reservesList' = [reservesList EXCEPT ![i] = a]

\* Faulty variant: the list is not bounded.
NoBound == TRUE

\* Faulty variant: holes are looked for only while the list may still grow.
RoomToGrow == reservesCount < MaxNumberReserves

HasRoom == Holes # {} \/ reservesCount < MaxNumberReserves

InitReserve(a) ==
    /\ MayInit(a)
    /\ HasRoom
    /\ \/ \E i \in Holes :
            /\ \A j \in Holes : i <= j
            /\ PutAt(a, i)
            /\ UNCHANGED reservesCount
       \/ /\ Holes = {}
          /\ PutAt(a, reservesCount)
          /\ reservesCount' = reservesCount + 1
    /\ UNCHANGED <<bits, hTokens, debts>>

\* validateDropReserve: the totals of the three tokens are 0, and what has accrued to
\* the treasury, which is left out here.  The total of the stable debt may have been
\* erased under debts that roundings have left.
Unclaimed(a) ==
    /\ \A u \in User : hTokens[a][u] = 0 /\ variable[a][u] = 0
    /\ MapThenSumSet(LAMBDA u : stable[a][u], User) <= StableLag

\* Faulty variant: the reserve's data are left behind.
DropFromList(a) ==
    /\ IsListed(a) /\ Unclaimed(a)
    /\ reservesList' = [reservesList EXCEPT ![reserves[a].id] = Zero]
    /\ UNCHANGED <<reserves, reservesCount, bits, hTokens, debts>>

\* Faulty variant: the list shrinks.
DropLast(a) ==
    /\ IsListed(a) /\ Unclaimed(a)
    /\ reservesList' = [reservesList EXCEPT ![reserves[a].id] = Zero]
    /\ reserves' = [reserves EXCEPT ![a] = NoReserve]
    /\ reservesCount' = reservesCount - 1
    /\ UNCHANGED <<bits, hTokens, debts>>

\* The tokens and index go with the reserve's data: the next listing deploys new ones.
DropReserve(a) ==
    /\ IsListed(a) /\ Unclaimed(a)
    /\ reservesList' = [reservesList EXCEPT ![reserves[a].id] = Zero]
    /\ reserves' = [reserves EXCEPT ![a] = NoReserve]
    /\ stable' = [stable EXCEPT ![a] = [u \in User |-> 0]]
    /\ index' = [index EXCEPT ![a] = RAY]
    /\ UNCHANGED <<reservesCount, bits, hTokens, variable>>

-----------------------------------------------------------------------------
(* The calls of users that set and clear bits.                             *)

Used(a, used) == IF used THEN {reserves[a].id} ELSE {}

Supply(u, a, used) ==
    /\ IsListed(a) /\ MapThenSumSet(LAMBDA v : hTokens[a][v], User) < MaxBalance
    /\ used => hTokens[a][u] = 0
    /\ hTokens' = [hTokens EXCEPT ![a][u] = @ + 1]
    /\ collateralBits' = [collateralBits EXCEPT ![u] = @ \cup Used(a, used)]
    /\ UNCHANGED <<registry, borrowingBits, debts>>

\* The bit of one who gives hTokens away is cleared if that was the whole balance
\* he reads, which leaves him none.
GivenUp(a, whole) == IF whole THEN {reserves[a].id} ELSE {}

Withdraw(u, a, n, whole) ==
    /\ IsListed(a) /\ n \in 1 .. hTokens[a][u]
    /\ whole => n = hTokens[a][u]
    /\ hTokens' = [hTokens EXCEPT ![a][u] = @ - n]
    /\ collateralBits' = [collateralBits EXCEPT ![u] = @ \ GivenUp(a, whole)]
    /\ UNCHANGED <<registry, borrowingBits, debts>>

\* The amount may round to no unit at all.
Transfer(u, v, a, n, whole, used) ==
    /\ IsListed(a) /\ u # v /\ n \in 0 .. hTokens[a][u]
    /\ whole => n = hTokens[a][u] /\ n # 0
    /\ used => hTokens[a][v] = 0
    /\ hTokens' = [hTokens EXCEPT ![a][u] = @ - n, ![a][v] = @ + n]
    /\ collateralBits' = [collateralBits EXCEPT ![u] = @ \ GivenUp(a, whole),
                                                ![v] = @ \cup Used(a, used)]
    /\ UNCHANGED <<registry, borrowingBits, debts>>

SetUseReserveAsCollateral(u, a, use) ==
    /\ IsListed(a) /\ hTokens[a][u] # 0
    /\ collateralBits' = [collateralBits EXCEPT ![u] =
                            IF use THEN @ \cup {reserves[a].id} ELSE @ \ {reserves[a].id}]
    /\ UNCHANGED <<registry, borrowingBits, hTokens, debts>>

RateMode == {"stable", "variable"}

VariableDebt(u, a) == RayMul(variable[a][u], index[a])

Owed(u, a, mode) == IF mode = "stable" THEN stable[a][u] ELSE VariableDebt(u, a)

Debt(u, a) == VariableDebt(u, a) + stable[a][u]

MintVariable(u, a, amount) ==
    LET scaled == RayDiv(amount, index[a]) IN
    /\ scaled # 0 /\ variable[a][u] + scaled <= MaxBalance
    /\ variable' = [variable EXCEPT ![a][u] = @ + scaled]

MintStable(u, a, amount) ==
    /\ stable[a][u] + amount <= MaxBalance
    /\ stable' = [stable EXCEPT ![a][u] = @ + amount]

BurnVariable(u, a, amount) ==
    LET scaled == RayDiv(amount, index[a]) IN
    /\ scaled # 0 /\ scaled <= variable[a][u]
    /\ variable' = [variable EXCEPT ![a][u] = @ - scaled]

BurnStable(u, a, amount) == stable' = [stable EXCEPT ![a][u] = @ - amount]

\* Whether the debt token of the mode had nothing of u before: isFirstBorrowing.
FirstOf(u, a, mode) ==
    IF mode = "stable" THEN stable[a][u] = 0 ELSE variable[a][u] = 0

Borrow(u, a, amount, mode) ==
    /\ IsListed(a)
    /\ IF mode = "stable" THEN MintStable(u, a, amount) /\ UNCHANGED variable
       ELSE MintVariable(u, a, amount) /\ UNCHANGED stable
    /\ borrowingBits' = [borrowingBits EXCEPT ![u] =
          IF FirstOf(u, a, mode) THEN @ \cup {reserves[a].id} ELSE @]
    /\ UNCHANGED <<registry, collateralBits, hTokens, index>>

\* Faulty variant: forgets the debt of the other mode.
RepaidBitOfMode(u, a, payback, mode) ==
    IF Owed(u, a, mode) = payback THEN {reserves[a].id} ELSE {}

RepaidBit(u, a, payback, mode) ==
    IF Debt(u, a) = payback THEN {reserves[a].id} ELSE {}

\* With hTokens some of the payer's are burnt, whose collateral bit is left as it is.
Repay(u, a, amount, mode, useHTokens) ==
    LET owed == Owed(u, a, mode)
        payback == IF amount < owed THEN amount ELSE owed
    IN
    /\ IsListed(a) /\ owed # 0
    /\ IF mode = "stable" THEN BurnStable(u, a, payback) /\ UNCHANGED variable
       ELSE BurnVariable(u, a, payback) /\ UNCHANGED stable
    /\ borrowingBits' = [borrowingBits EXCEPT ![u] = @ \ RepaidBit(u, a, payback, mode)]
    /\ IF useHTokens
       THEN \E n \in 1 .. hTokens[a][u] : hTokens' = [hTokens EXCEPT ![a][u] = @ - n]
       ELSE UNCHANGED hTokens
    /\ UNCHANGED <<registry, collateralBits, index>>

\* The whole debt of one mode becomes one of the other; the bit is not looked at.
SwapToVariable(u, a) ==
    /\ IsListed(a) /\ stable[a][u] # 0
    /\ BurnStable(u, a, stable[a][u])
    /\ MintVariable(u, a, stable[a][u])
    /\ UNCHANGED <<registry, bits, hTokens, index>>

SwapToStable(u, a) ==
    /\ IsListed(a) /\ VariableDebt(u, a) # 0
    /\ BurnVariable(u, a, VariableDebt(u, a))
    /\ MintStable(u, a, VariableDebt(u, a))
    /\ UNCHANGED <<registry, bits, hTokens, index>>

\* Time passes: the index of an owed reserve grows to i, and a stable debt by one.
Accrue(a, i) ==
    /\ IsListed(a) /\ \E u \in User : Debt(u, a) # 0
    /\ i >= index[a]
    /\ index' = [index EXCEPT ![a] = i]
    /\ \E earned \in SUBSET {u \in User : stable[a][u] \in 1 .. MaxBalance - 1} :
          stable' = [stable EXCEPT ![a] =
                        [u \in User |-> IF u \in earned THEN @[u] + 1 ELSE @[u]]]
    /\ UNCHANGED <<registry, bits, hTokens, variable>>

-----------------------------------------------------------------------------
Init ==
    /\ reservesList = [i \in Id |-> Zero]
    /\ reserves = [a \in Asset |-> NoReserve]
    /\ reservesCount = 0
    /\ collateralBits = [u \in User |-> {}]
    /\ borrowingBits = [u \in User |-> {}]
    /\ hTokens = [a \in Asset |-> [u \in User |-> 0]]
    /\ variable = [a \in Asset |-> [u \in User |-> 0]]
    /\ stable = [a \in Asset |-> [u \in User |-> 0]]
    /\ index = [a \in Asset |-> RAY]

CollateralCall(u, a) ==
    \/ \E used \in BOOLEAN : Supply(u, a, used)
    \/ \E n \in 1 .. MaxBalance, whole \in BOOLEAN : Withdraw(u, a, n, whole)
    \/ \E v \in User, n \in 0 .. MaxBalance, whole, used \in BOOLEAN :
          Transfer(u, v, a, n, whole, used)
    \/ \E use \in BOOLEAN : SetUseReserveAsCollateral(u, a, use)

DebtCall(u, a) ==
    \/ \E amount \in Amounts, mode \in RateMode : Borrow(u, a, amount, mode)
    \/ \E amount \in Amounts \cup {Debt(u, a)}, mode \in RateMode, useHTokens \in BOOLEAN :
          Repay(u, a, amount, mode, useHTokens)
    \/ SwapToVariable(u, a)
    \/ SwapToStable(u, a)

Next ==
    \E a \in Asset :
        \/ InitReserve(a)
        \/ DropReserve(a)
        \/ \E u \in User : CollateralCall(u, a) \/ DebtCall(u, a)
        \/ \E i \in RAY .. MaxIndex : Accrue(a, i)

Spec == Init /\ [][Next]_vars

-----------------------------------------------------------------------------
\* Every id fits the pairs of bits of a user, and balances never go below zero.
TypeOK ==
    /\ reservesList \in [Id -> Asset \cup {Zero}]
    /\ reserves \in [Asset -> [id : Id, initialized : BOOLEAN]]
    /\ reservesCount \in 0 .. MaxNumberReserves
    /\ collateralBits \in [User -> SUBSET Id]
    /\ borrowingBits \in [User -> SUBSET Id]
    /\ hTokens \in [Asset -> [User -> Nat]]
    /\ variable \in [Asset -> [User -> Nat]]
    /\ stable \in [Asset -> [User -> Nat]]
    /\ index \in [Asset -> {i \in Nat : i >= RAY}]

\* Whoever lists an asset finds room while fewer than the maximum are listed,
\* however many were listed and dropped before (executeInitReserve's loop).
AlwaysRoom ==
    (\E i \in Id : \A a \in Listed : reserves[a].id # i)
        => HasRoom /\ \A a \in Asset \ Listed : MayInit(a)

\* Whoever owes anything of a listed asset, in either mode and if only the scaled
\* unit a rounding left, has the borrowing bit of the id it has now: no dealings in
\* the assets that had the id before, or have another one, hide a debt from the
\* account data.  (The converse fails: a bit may outlive its debt and its reserve.)
DebtsHaveBits ==
    \A u \in User, a \in Listed :
        variable[a][u] # 0 \/ stable[a][u] # 0 => reserves[a].id \in borrowingBits[u]

\* calculateUserAccountData walks ids up to reservesCount: it misses no bit.
BitsAreWalked ==
    \A u \in User : \A i \in collateralBits[u] \cup borrowingBits[u] : i < reservesCount

\* The list of reserves keeps what Listing promises.
L == INSTANCE Listing WITH idOf <- [a \in Listed |-> reserves[a].id]

KeepsListing == L!Spec

=============================================================================
