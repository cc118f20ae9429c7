------------------------- MODULE TokenizationEvents -------------------------
(***************************************************************************)
(* The events the suites expect of a call, from the indexes, balances and  *)
(* rates they read before and after it:                                    *)
(* test-suites/helpers/utils/tokenization-events.ts.  A call's receipt is  *)
(* matched event by event and argument by argument (matchEvent of          *)
(* helpers.ts), so each operator gives a set that the log must contain.    *)
(***************************************************************************)
EXTENDS Calculations

getBalanceIncrease(scaled, indexBefore, indexAfter) ==
    rayMul(scaled, indexAfter) - rayMul(scaled, indexBefore)

\* What a balance that grows shows: the interest comes with the amount.
Grows(token, caller, for, amount, increase, index) ==
    {<<token, "Transfer", "zero", for, amount + increase>>,
     <<token, "Mint", caller, for, amount + increase, increase, index>>}

\* A balance that falls may still show as growing.
Falls(token, from, target, amount, increase, index) ==
    IF increase > amount
    THEN {<<token, "Transfer", "zero", from, increase - amount>>,
          <<token, "Mint", from, from, increase - amount, increase, index>>}
    ELSE {<<token, "Transfer", from, "zero", amount - increase>>,
          <<token, "Burn", from, target, amount - increase, increase, index>>}

supplyEvents(before, after, by, for, amount) ==
    LET index == NormalizedIncome(after)
        scaled == after.h.scaled[for] - rayDiv(amount, index)
        increase == getBalanceIncrease(scaled, before.h.index[for], index)
    IN {Payment(by, "hToken", amount)}
         \cup Grows("hToken", by, for, amount, increase, index)

withdrawEvents(before, after, by, to, amount) ==
    LET index == NormalizedIncome(after)
        scaled == after.h.scaled[by] + rayDiv(amount, index)
        increase == getBalanceIncrease(scaled, before.h.index[by], index)
    IN {Payment("hToken", to, amount)}
         \cup Falls("hToken", by, to, amount, increase, index)

\* transfer is transferFrom by the owner; to itself, it moves no scaled balance.
transferEvents(before, after, by, origin, to, amount) ==
    LET index == NormalizedIncome(after)
        moved == IF origin = to THEN 0 ELSE rayDiv(amount, index)
        fromIncrease == getBalanceIncrease(after.h.scaled[origin] + moved,
                                           before.h.index[origin], index)
        toIncrease == getBalanceIncrease(after.h.scaled[to] - moved,
                                         before.h.index[to], index)
    IN {<<"hToken", "Transfer", origin, to, amount>>,
        <<"hToken", "BalanceTransfer", origin, to, rayDiv(amount, index), index>>}
         \cup (IF fromIncrease > 0 THEN Grows("hToken", by, origin, 0, fromIncrease, index)
               ELSE {})
         \cup (IF origin # to /\ toIncrease > 0
               THEN Grows("hToken", by, to, 0, toIncrease, index) ELSE {})

variableBorrowEvents(before, after, by, for, amount) ==
    LET index == NormalizedDebt(after)
        scaled == after.v.scaled[for] - rayDiv(amount, index)
        increase == getBalanceIncrease(scaled, before.v.index[for], index)
    IN {Payment("hToken", by, amount)}
         \cup Grows("vToken", by, for, amount, increase, index)

repayVariableBorrowEvents(before, after, by, for, amount) ==
    LET index == NormalizedDebt(after)
        scaled == after.v.scaled[for] + rayDiv(amount, index)
        increase == getBalanceIncrease(scaled, before.v.index[for], index)
    IN {Payment(by, "hToken", amount)}
         \cup Falls("vToken", for, "zero", amount, increase, index)

\* The stable debt of u grown to the time of the transaction.
StableDebtAt(before, u, t) ==
    calcExpectedStableDebtTokenBalance(before.s.principal[u], before.s.rate[u],
                                       before.s.stamp[u], t)

stableBorrowEvents(before, after, by, for, amount) ==
    LET balance == StableDebtAt(before, for, after.now)
        increase == balance - before.s.principal[for]
    IN {Payment("hToken", by, amount),
        <<"sToken", "Transfer", "zero", for, amount + increase>>,
        <<"sToken", "Mint", by, for, amount + increase, balance, increase,
          after.s.rate[for], after.s.avg, after.s.supply>>}

repayStableBorrowEvents(before, after, by, for, amount) ==
    LET balance == StableDebtAt(before, for, after.now)
        increase == balance - before.s.principal[for]
    IN {Payment(by, "hToken", amount)} \cup
       IF increase > amount
       THEN {<<"sToken", "Transfer", "zero", for, increase - amount>>,
             <<"sToken", "Mint", for, for, increase - amount, balance, increase,
               after.s.rate[for], after.s.avg, after.s.supply>>}
       ELSE {<<"sToken", "Transfer", for, "zero", amount - increase>>,
             <<"sToken", "Burn", for, amount - increase, balance, increase,
               after.s.avg, after.s.supply>>}

=============================================================================
