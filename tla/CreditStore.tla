----------------------------- MODULE CreditStore -----------------------------
(***************************************************************************)
(* The PostgreSQL side of the credit system: internal/store/store.go over  *)
(* the tables of migrations/001_initial.sql.  One operator per method that *)
(* writes; each is one committed transaction (row lock on the user row,    *)
(* then the writes, then COMMIT).  A method that returns an error rolls    *)
(* back, so an error is the absence of a step; the ...OK operators say     *)
(* when a method commits.  Operators marked "Mistake" are wrong variants   *)
(* of the next definition: they are used by nothing, and each one put in   *)
(* its place breaks a property.                                            *)
(*                                                                         *)
(* The callers are arbitrary here: StoreNext lets any method be called     *)
(* with any arguments at any time, so what holds of StoreSpec holds of     *)
(* the gateway, the ledger worker and the admin CLI together.              *)
(***************************************************************************)
EXTENDS Integers, Sequences, FiniteSets

CONSTANTS
    Users,        \* users.id
    Requests,     \* request ids, fresh UUIDs made by RequestIDMiddleware
    ClientKeys,   \* values of the Idempotency-Key header
    DepositKeys,  \* the suffix of "deposit-<UnixNano>", one per CLI call
    Amounts,      \* micro-credit amounts a caller may pass
    NoKey         \* the empty Idempotency-Key

(* int64 micro-credits: no method and no caller rejects a negative amount. *)
ASSUME AmountsAreIntegers == Amounts \subseteq Int

(***************************************************************************)
(* The key spaces are told apart by the prefix and by the form of a UUID.  *)
(***************************************************************************)
ASSUME KeySpacesDisjoint ==
    /\ NoKey \notin ClientKeys
    /\ Requests \cap ClientKeys = {}

VARIABLES
    balance,   \* users.credit_balance_micro
    ledger,    \* credit_ledger_transactions of a user, in commit order
    usageLog,  \* usage_logs by request_id
    session    \* metering_sessions by request_id

storeVars == <<balance, ledger, usageLog, session>>

Statuses == {"completed", "failed", "partial"}
IdemKeys == ({"hold", "capture", "release"} \X (Requests \cup ClientKeys))
                \cup ({"deposit"} \X DepositKeys)
Row == [type : {"deposit", "hold", "capture", "release"},
        amount : Int, after : Int, ref : Requests \cup {NoKey}, key : IdemKeys]
LogRow == [status : Statuses \cup {"none", "pending"}, captured : Int,
           captureTxn : BOOLEAN, releaseTxn : BOOLEAN]
SessionRow == [state : {"none", "live", "expired"}, hold : Int]

NoLog == [status |-> "none", captured |-> 0, captureTxn |-> FALSE, releaseTxn |-> FALSE]
NoSession == [state |-> "none", hold |-> 0]

(***************************************************************************)
(* The table credit_ledger_transactions: INSERT adds a row at the end of   *)
(* the user's part (the user row is locked until COMMIT).  The UNIQUE      *)
(* constraint on idempotency_key spans all users and all row types.        *)
(***************************************************************************)
Insert(table, u, row) == [table EXCEPT ![u] = Append(@, row)]
InsertIf(cond, table, u, row) == IF cond THEN Insert(table, u, row) ELSE table
RowsIn(table, u) == {table[u][i] : i \in 1..Len(table[u])}
UsedIn(table, k) == \E u \in Users : \E row \in RowsIn(table, u) : row.key = k
Used(k) == UsedIn(ledger, k)

(* The suffix of a settlement key: the client's key when it sent one. *)
KeySuffix(r, clientIdem) == IF clientIdem = NoKey THEN r ELSE clientIdem

-----------------------------------------------------------------------------
StoreInit ==
    /\ balance = [u \in Users |-> 0]
    /\ ledger = [u \in Users |-> <<>>]
    /\ usageLog = [r \in Requests |-> NoLog]
    /\ session = [r \in Requests |-> NoSession]

(* Mistake: the ledger row carries the balance read before the UPDATE. *)
StaleDeposit(u, amount, k) ==
    /\ ~Used(<<"deposit", k>>) /\ balance[u] + amount >= 0
    /\ balance' = [balance EXCEPT ![u] = @ + amount]
    /\ ledger' = Insert(ledger, u,
                    [type |-> "deposit", amount |-> amount, after |-> balance[u],
                     ref |-> NoKey, key |-> <<"deposit", k>>])
    /\ UNCHANGED <<usageLog, session>>

DepositCredits(u, amount, k) ==
    /\ ~Used(<<"deposit", k>>) /\ balance[u] + amount >= 0
    /\ balance' = [balance EXCEPT ![u] = @ + amount]
    /\ ledger' = Insert(ledger, u,
                    [type |-> "deposit", amount |-> amount, after |-> balance[u] + amount,
                     ref |-> NoKey, key |-> <<"deposit", k>>])
    /\ UNCHANGED <<usageLog, session>>

(* Mistake: the balance is not checked again under the row lock. *)
UncheckedHold(u, hold, key) == ~Used(key)

ApplyHoldOK(u, hold, key) == balance[u] >= hold /\ ~Used(key)

ApplyHold(u, hold, r, key) ==
    /\ ApplyHoldOK(u, hold, key)
    /\ balance' = [balance EXCEPT ![u] = @ - hold]
    /\ ledger' = Insert(ledger, u,
                    [type |-> "hold", amount |-> -hold, after |-> balance[u] - hold,
                     ref |-> r, key |-> key])
    /\ UNCHANGED <<usageLog, session>>

CreateUsageLog(r) ==
    /\ usageLog[r].status = "none"
    /\ usageLog' = [usageLog EXCEPT ![r] = [NoLog EXCEPT !.status = "pending"]]
    /\ UNCHANGED <<balance, ledger, session>>

CreateMeteringSession(r, hold) ==
    /\ session[r].state = "none"
    /\ session' = [session EXCEPT ![r] = [state |-> "live", hold |-> hold]]
    /\ UNCHANGED <<balance, ledger, usageLog>>

(* expires_at < NOW(): time passes. *)
SessionExpires(r) ==
    /\ session[r].state = "live"
    /\ session' = [session EXCEPT ![r].state = "expired"]
    /\ UNCHANGED <<balance, ledger, usageLog>>

DeleteMeteringSession(r) ==
    /\ session' = [session EXCEPT ![r] = NoSession]
    /\ UNCHANGED <<balance, ledger, usageLog>>

(***************************************************************************)
(* CaptureAndRelease commits unless a key it inserts is taken or the final *)
(* balance breaks CHECK (credit_balance_micro >= 0).  The balance_after of *)
(* a capture row is not checked and may be negative.  The usage_logs row   *)
(* is overwritten whatever it held; with no such row the UPDATE is a no-op.*)
(* A capture or release that is not positive moves nothing (Moved).        *)
(***************************************************************************)
Moved(amount) == IF amount > 0 THEN amount ELSE 0

CaptureRow(u, r, capture, suffix) ==
    [type |-> "capture", amount |-> -capture, after |-> balance[u] - capture,
     ref |-> r, key |-> <<"capture", suffix>>]

(* Mistake: the release row starts from the balance before the capture. *)
StaleReleaseRow(u, r, capture, release, suffix) ==
    [type |-> "release", amount |-> release, after |-> balance[u] + release,
     ref |-> r, key |-> <<"release", suffix>>]

ReleaseRow(u, r, capture, release, suffix) ==
    [type |-> "release", amount |-> release, after |-> balance[u] - Moved(capture) + release,
     ref |-> r, key |-> <<"release", suffix>>]

(* Mistake: the capture row is left out when something is released. *)
ReleaseInstead(u, r, capture, release, suffix) ==
    IF release > 0
    THEN Insert(ledger, u, ReleaseRow(u, r, capture, release, suffix))
    ELSE InsertIf(capture > 0, ledger, u, CaptureRow(u, r, capture, suffix))

(* A row is inserted only for a positive amount, the capture first. *)
AfterSettlement(u, r, capture, release, suffix) ==
    InsertIf(release > 0,
             InsertIf(capture > 0, ledger, u, CaptureRow(u, r, capture, suffix)),
             u, ReleaseRow(u, r, capture, release, suffix))

(* Mistake: a settlement with a used key is applied again. *)
SettleAgain(u, r, capture, release, clientIdem) ==
    balance[u] - Moved(capture) + Moved(release) >= 0

CaptureAndReleaseOK(u, r, capture, release, clientIdem) ==
    /\ capture > 0 => ~Used(<<"capture", KeySuffix(r, clientIdem)>>)
    /\ release > 0 => ~Used(<<"release", KeySuffix(r, clientIdem)>>)
    /\ balance[u] - Moved(capture) + Moved(release) >= 0

CaptureAndRelease(u, r, capture, release, status, clientIdem) ==
    /\ CaptureAndReleaseOK(u, r, capture, release, clientIdem)
    /\ balance' = [balance EXCEPT ![u] = @ - Moved(capture) + Moved(release)]
    /\ ledger' = AfterSettlement(u, r, capture, release, KeySuffix(r, clientIdem))
    /\ usageLog' = IF usageLog[r].status = "none" THEN usageLog
                   ELSE [usageLog EXCEPT ![r] =
                            [status |-> status, captured |-> capture,
                             captureTxn |-> capture > 0, releaseTxn |-> release > 0]]
    /\ UNCHANGED session

StoreNext ==
    \/ \E u \in Users, a \in Amounts, k \in DepositKeys : DepositCredits(u, a, k)
    \/ \E u \in Users, a \in Amounts, r \in Requests, x \in Requests \cup ClientKeys :
            ApplyHold(u, a, r, <<"hold", x>>)
    \/ \E u \in Users, r \in Requests, c, l \in Amounts, s \in Statuses,
          k \in ClientKeys \cup {NoKey} : CaptureAndRelease(u, r, c, l, s, k)
    \/ \E r \in Requests, a \in Amounts : CreateMeteringSession(r, a)
    \/ \E r \in Requests : CreateUsageLog(r) \/ SessionExpires(r) \/ DeleteMeteringSession(r)

StoreSpec == StoreInit /\ [][StoreNext]_storeVars

-----------------------------------------------------------------------------
(* Types: the balance column is never negative (CHECK in 001_initial.sql). *)
StoreTypeOK ==
    /\ balance \in [Users -> Nat]
    /\ ledger \in [Users -> Seq(Row)]
    /\ usageLog \in [Requests -> LogRow]
    /\ session \in [Requests -> SessionRow]

(* balance_after of the newest row of u; 0 before the first row. *)
NewestBalance(table, u) ==
    LET n == Len(table[u]) IN IF n = 0 THEN 0 ELSE table[u][n].after

Chained(table) ==
    \A u \in Users : \A i \in 1..Len(table[u]) :
        table[u][i].after = (IF i = 1 THEN 0 ELSE table[u][i - 1].after) + table[u][i].amount

UniqueKeys(table) ==
    \A u, v \in Users : \A i \in 1..Len(table[u]), j \in 1..Len(table[v]) :
        table[u][i].key = table[v][j].key => u = v /\ i = j

(***************************************************************************)
(* Every row's balance_after is the previous row's plus its own amount, so *)
(* the ledger can be audited row by row, whatever transactions interleave. *)
(***************************************************************************)
LedgerChain == Chained(ledger)

(***************************************************************************)
(* The stored balance is the balance_after of the user's newest row: no    *)
(* method moves the balance without writing the ledger or vice versa.      *)
(***************************************************************************)
BalanceIsNewestRow == \A u \in Users : balance[u] = NewestBalance(ledger, u)

(***************************************************************************)
(* No idempotency key occurs on two rows, across users and row types, so a *)
(* repeated hold, capture or release with the same key is applied once.    *)
(***************************************************************************)
KeysUnique == UniqueKeys(ledger)

(***************************************************************************)
(* A usage log that reports captured credits is backed by a capture row of *)
(* exactly that amount for that request.                                   *)
(***************************************************************************)
UsageLogBacked ==
    \A r \in Requests : usageLog[r].captured > 0 =>
        \E u \in Users : \E row \in RowsIn(ledger, u) :
            row.type = "capture" /\ row.ref = r /\ row.amount = -usageLog[r].captured
=============================================================================
