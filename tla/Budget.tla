------------------------------- MODULE Budget -------------------------------
(***************************************************************************)
(* The shared monthly model budget (src/budget.rs) and the engines that    *)
(* pay from it (src/engine.rs, Engine::run): every agent's invocations     *)
(* compete for one ledger row per month, and each model call has a receipt *)
(* row under its reservation id.  Both are written in one transaction, on  *)
(* the versions that were read.                                            *)
(***************************************************************************)
EXTENDS Integers, FiniteSetsExt, Store

CONSTANTS
    Caller,      \* engine invocations about to make one paid call each
    Id,          \* reservation ids; a replayed invocation repeats one
    IdOf,        \* the id each caller reserves under
    LastMonth,   \* bound: UTC months 0 .. LastMonth pass
    Amount,      \* what a call may reserve: its input and its longest output
    Cost,        \* what it may turn out to cost
    Limit,       \* the monthly limit
    MaxTries     \* attempts at a contended transaction (20)

ASSUME BudgetAssumption ==
    /\ IdOf \in [Caller -> Id] /\ IsFiniteSet(Id)
    /\ Amount \subseteq Nat \ {0} /\ Cost \subseteq Nat
    /\ LastMonth \in Nat /\ Limit \in Nat /\ MaxTries \in Nat \ {0}

VARIABLES
    ledger,   \* BUDGET rows: one per month
    receipt,  \* RESERVATION rows: one per id
    month,    \* the current UTC month
    caller,   \* the local state of every caller
    calls,    \* history: the callers that sent their request to the model
    answers   \* history: those that got a response

vars == <<ledger, receipt, month, caller, calls, answers>>

Month == 0 .. LastMonth

NoLedger  == [ver |-> Absent, used |-> 0]
NoReceipt == [ver |-> Absent, month |-> 0, reserved |-> 0, settled |-> FALSE, actual |-> 0]

Ledger  == [ver: Nat, used: Int]
Receipt == [ver: Nat, month: Month, reserved: Amount \cup {0}, settled: BOOLEAN, actual: Cost \cup {0}]

\* reserve: read the ledger, look for a receipt, write both.  Then the call.
\* settle: read the receipt, read its ledger, write both.
Pc == {"start", "reserve", "receipt", "commit", "call",
       "settle", "ledger", "charge", "unknown", "paid", "failed"}

\* ledger and receipt hold the rows the caller read last.
Fresh == [pc |-> "start", month |-> 0, amount |-> 0, cost |-> 0, tries |-> 0,
             ledger |-> NoLedger, receipt |-> NoReceipt]

Init ==
    /\ ledger = [m \in Month |-> NoLedger]
    /\ receipt = [i \in Id |-> NoReceipt]
    /\ month = 0
    /\ caller = [c \in Caller |-> Fresh]
    /\ calls = {}
    /\ answers = {}

At(c, pc) == caller[c].pc = pc
Goto(c, pc) == caller' = [caller EXCEPT ![c].pc = pc]

\* Of the local state of an operation that ended only the amount matters.
End(c, pc) == caller' = [caller EXCEPT ![c] = [Fresh EXCEPT !.pc = pc, !.amount = caller[c].amount]]

\* The loop of both operations: another attempt, or the storage error.
Retry(c, again) ==
    IF caller[c].tries + 1 < MaxTries
       THEN caller' = [caller EXCEPT ![c].pc = again, ![c].tries = @ + 1,
                                     ![c].ledger = NoLedger, ![c].receipt = NoReceipt]
       ELSE End(c, "failed")

\* A transaction over one ledger row and one receipt row.
Both(m, i) == [k \in {"ledger", "receipt"} |-> IF k = "ledger" THEN ledger[m] ELSE receipt[i]]
Writes(newLedger, seenLedger, newReceipt, seenReceipt) ==
    [k \in {"ledger", "receipt"} |->
        IF k = "ledger" THEN [row |-> newLedger, expected |-> seenLedger]
                        ELSE [row |-> newReceipt, expected |-> seenReceipt]]

Commit(m, i, writes) ==
    LET db == Transaction(Both(m, i), writes)
    IN  /\ ledger' = [ledger EXCEPT ![m] = db["ledger"]]
        /\ receipt' = [receipt EXCEPT ![i] = db["receipt"]]

-----------------------------------------------------------------------------
(* reserve *)

\* The month of the reservation is the one in which it starts.
BeginReserve(c, amount) ==
    /\ At(c, "start")
    /\ caller' = [caller EXCEPT ![c].pc = "reserve", ![c].month = month, ![c].amount = amount]
    /\ UNCHANGED <<ledger, receipt, month, calls, answers>>

\* Mutant: compares what was spent before, without the call to come.
FitsLimitLate(used, amount) == used <= Limit

FitsLimit(used, amount) == used + amount <= Limit

ReadLedger(c) ==
    LET seen == ledger[caller[c].month]
    IN  /\ At(c, "reserve")
        /\ IF FitsLimit(seen.used, caller[c].amount)
              THEN caller' = [caller EXCEPT ![c].pc = "receipt", ![c].ledger = seen]
              ELSE End(c, "failed")
        /\ UNCHANGED <<ledger, receipt, month, calls, answers>>

\* An id that has a receipt authorizes nothing any more.
CheckReceipt(c) ==
    /\ At(c, "receipt")
    /\ IF receipt[IdOf[c]].ver = Absent THEN Goto(c, "commit") ELSE End(c, "failed")
    /\ UNCHANGED <<ledger, receipt, month, calls, answers>>

\* Mutant: replaces whatever receipt the id has.
ReservationExpectsAny(c) == receipt[IdOf[c]].ver

\* The receipt is inserted, never replaced.
ReservationExpects(c) == Absent

Reservation(c) ==
    Writes([ledger[caller[c].month] EXCEPT !.used = caller[c].ledger.used + caller[c].amount],
           caller[c].ledger.ver,
           [NoReceipt EXCEPT !.month = caller[c].month, !.reserved = caller[c].amount],
           ReservationExpects(c))

\* A transaction is cancelled by a condition that fails, and also when it
\* meets another one in flight.
CommitReservation(c) ==
    LET m == caller[c].month
        i == IdOf[c]
    IN  /\ At(c, "commit")
        /\ \/ /\ TransactionFits(Both(m, i), Reservation(c))
              /\ Commit(m, i, Reservation(c))
              /\ End(c, "call")
           \/ UNCHANGED <<ledger, receipt>> /\ Retry(c, "reserve")
        /\ UNCHANGED <<month, calls, answers>>

\* The transaction's outcome is lost: it was written, and the caller fails.
LoseReservation(c) ==
    /\ At(c, "commit")
    /\ TransactionFits(Both(caller[c].month, IdOf[c]), Reservation(c))
    /\ Commit(caller[c].month, IdOf[c], Reservation(c))
    /\ End(c, "failed")
    /\ UNCHANGED <<month, calls, answers>>

-----------------------------------------------------------------------------
(* The paid call. *)

\* Mutant: a call that may not have been answered is settled at no cost.
UnansweredRefunded(c) == Goto(c, "settle")

\* Once the request started, a response that is not known keeps the reservation.
Unanswered(c) == End(c, "unknown")

Converse(c) ==
    /\ At(c, "call")
    /\ calls' = calls \cup {c}
    /\ \/ /\ \E cost \in Cost : caller' = [caller EXCEPT ![c].pc = "settle", ![c].cost = cost]
          /\ answers' = answers \cup {c}
       \/ Unanswered(c) /\ UNCHANGED answers
    /\ UNCHANGED <<ledger, receipt, month>>

-----------------------------------------------------------------------------
(* settle *)

ReadReceipt(c) ==
    LET seen == receipt[IdOf[c]]
    IN  /\ At(c, "settle")
        /\ CASE seen.ver = Absent -> End(c, "failed")
             [] seen.ver # Absent /\ seen.settled -> End(c, "paid")
             [] seen.ver # Absent /\ ~seen.settled /\ seen.reserved # caller[c].amount ->
                    End(c, "failed")
             [] OTHER -> caller' = [caller EXCEPT ![c].pc = "ledger", ![c].receipt = seen]
        /\ UNCHANGED <<ledger, receipt, month, calls, answers>>

\* Mutant: charges the month in which the answer arrives.
SettleMonthNow(c) == month

SettleMonth(c) == caller[c].receipt.month

\* The ledger of the receipt's month; one that holds less than was reserved
\* cannot be settled.
ReadSettleLedger(c) ==
    LET seen == ledger[SettleMonth(c)]
    IN  /\ At(c, "ledger")
        /\ IF seen.ver = Absent \/ seen.used < caller[c].amount
              THEN End(c, "failed")
              ELSE caller' = [caller EXCEPT ![c].pc = "charge", ![c].month = SettleMonth(c),
                                            ![c].ledger = seen]
        /\ UNCHANGED <<ledger, receipt, month, calls, answers>>

\* Mutant: gives the reservation back and forgets the cost.
SettledUseForgiven(c) == caller[c].ledger.used - caller[c].amount

SettledUse(c) == caller[c].ledger.used - caller[c].amount + caller[c].cost

Settlement(c) ==
    Writes([caller[c].ledger EXCEPT !.used = SettledUse(c)],
           caller[c].ledger.ver,
           [caller[c].receipt EXCEPT !.settled = TRUE, !.actual = caller[c].cost],
           caller[c].receipt.ver)

CommitSettlement(c) ==
    LET m == caller[c].month
        i == IdOf[c]
    IN  /\ At(c, "charge")
        /\ \/ /\ TransactionFits(Both(m, i), Settlement(c))
              /\ Commit(m, i, Settlement(c))
              /\ End(c, "paid")
           \/ UNCHANGED <<ledger, receipt>> /\ Retry(c, "settle")
        /\ UNCHANGED <<month, calls, answers>>

LoseSettlement(c) ==
    /\ At(c, "charge")
    /\ TransactionFits(Both(caller[c].month, IdOf[c]), Settlement(c))
    /\ Commit(caller[c].month, IdOf[c], Settlement(c))
    /\ End(c, "failed")
    /\ UNCHANGED <<month, calls, answers>>

-----------------------------------------------------------------------------
\* The invocation is gone, or a read failed: whatever it reserved stays.
Fail(c) ==
    /\ caller[c].pc \notin {"start", "unknown", "paid", "failed"}
    /\ End(c, "failed")
    /\ UNCHANGED <<ledger, receipt, month, calls, answers>>

NextMonth ==
    /\ month < LastMonth
    /\ month' = month + 1
    /\ UNCHANGED <<ledger, receipt, caller, calls, answers>>

Steps(c) == \/ \E amount \in Amount : BeginReserve(c, amount)
            \/ ReadLedger(c) \/ CheckReceipt(c) \/ CommitReservation(c) \/ LoseReservation(c)
            \/ Converse(c)
            \/ ReadReceipt(c) \/ ReadSettleLedger(c) \/ CommitSettlement(c) \/ LoseSettlement(c)
            \/ Fail(c)

Next == NextMonth \/ \E c \in Caller : Steps(c)

Spec == Init /\ [][Next]_vars

-----------------------------------------------------------------------------
(* Properties. *)

TypeOK ==
    /\ ledger \in [Month -> Ledger]
    /\ receipt \in [Id -> Receipt]
    /\ month \in Month
    /\ caller \in [Caller -> [pc: Pc, month: Month, amount: Amount \cup {0},
                              cost: Cost \cup {0}, tries: 0 .. MaxTries - 1,
                              ledger: Ledger, receipt: Receipt]]
    /\ answers \subseteq calls /\ calls \subseteq Caller

\* What a receipt charges its month with.
Charged(r) == IF r.settled THEN r.actual ELSE r.reserved

\* The ledger of a month is the sum of its receipts, whoever raced, failed or
\* came back in a later month: nothing is charged twice, lost or refunded
\* without being known.
LedgerBalances ==
    \A m \in Month :
        ledger[m].used = MapThenSumSet(LAMBDA i : Charged(receipt[i]),
                                       {i \in Id : receipt[i].ver # Absent /\ receipt[i].month = m})

\* A month is overspent only by calls that cost more than their reservation,
\* and by no more than that.
WithinLimit ==
    \A m \in Month :
        ledger[m].used <= Limit + MapThenSumSet(
            LAMBDA i : receipt[i].actual - receipt[i].reserved,
            {i \in Id : receipt[i].month = m /\ receipt[i].actual > receipt[i].reserved})

\* A reservation id authorizes one paid call, however many invocations use it.
OneCallPerReservation == \A c, d \in calls : IdOf[c] = IdOf[d] => c = d

\* A call whose outcome is unknown keeps what it reserved.
UncertainKeepsReservation ==
    \A c \in calls \ answers :
        ~receipt[IdOf[c]].settled /\ receipt[IdOf[c]].reserved = caller[c].amount

\* Ledger and receipts together implement the abstract budget.
Promise == INSTANCE BudgetSpec WITH
    account <- [i \in Id |->
        [state |-> IF receipt[i].ver = Absent THEN "none"
                   ELSE IF receipt[i].settled THEN "settled" ELSE "reserved",
         month |-> receipt[i].month, amount |-> Charged(receipt[i])]]
ImplementsBudgetSpec == Promise!Spec
=============================================================================
