--------------------------- MODULE Reconciliation ---------------------------
(***************************************************************************)
(* The balance audits: the hourly job of the ledger worker                 *)
(* (runReconciliation) and the operator's admin reconcile-user.  Both read *)
(* the stored balance, then the ledger sum, and may then overwrite the     *)
(* balance, in three statements that share no transaction or lock, while   *)
(* the store's transactions go on.                                         *)
(***************************************************************************)
EXTENDS CreditStore, SequencesExt

CONSTANTS
    Audits,      \* which audits run: a subset of {"hourly", "cli"}
    MaxErrors,   \* bound: failing statements in one behaviour
    Miss         \* no balance:{user} key in Redis

ASSUME AuditsKnown == Audits \subseteq {"hourly", "cli"}
ASSUME ErrorBound == MaxErrors \in Nat /\ Miss \notin Int

VARIABLES
    audit,    \* per audit: users to check, balances read, the step and its user
    cached,   \* Redis balance:{user}
    autoFix,  \* RECONCILE_AUTO_FIX, read once at start
    errors

auditVars == <<audit, cached, autoFix, errors>>
reconVars == <<storeVars, auditVars>>

(* LedgerBalance: SELECT COALESCE(SUM(amount_micro), 0) ... WHERE user_id = $1 *)
LedgerBalance(u) == FoldSeq(LAMBDA row, sum : row.amount + sum, 0, ledger[u])

Idle == [step |-> "idle", todo |-> {}, read |-> [u \in Users |-> 0], user |-> NoKey, value |-> 0]

(* On with the next user of the result set, or until the next start. *)
Done(a, u) ==
    LET rest == audit[a].todo \ {u}
    IN  audit' = [audit EXCEPT ![a] =
            IF rest = {} THEN Idle
            ELSE [@ EXCEPT !.step = "sum", !.todo = rest, !.user = NoKey, !.value = 0]]

Goto(a, step, u, value) ==
    audit' = [audit EXCEPT ![a].step = step, ![a].user = u, ![a].value = value]

(* A failing statement: the job skips the user, the command exits. *)
StatementFails(a, u) ==
    /\ errors < MaxErrors
    /\ errors' = errors + 1
    /\ Done(a, u)
    /\ UNCHANGED <<storeVars, cached, autoFix>>

(* SELECT id, credit_balance_micro FROM users: one snapshot of all balances. *)
StartHourly ==
    /\ "hourly" \in Audits /\ audit["hourly"].step = "idle"
    /\ audit' = [audit EXCEPT !["hourly"] =
                    [Idle EXCEPT !.step = "sum", !.todo = Users, !.read = balance]]
    /\ UNCHANGED <<storeVars, cached, autoFix, errors>>

(* ReconcileUserBalance: GetUser first. *)
StartCLI(u) ==
    /\ "cli" \in Audits /\ audit["cli"].step = "idle"
    /\ audit' = [audit EXCEPT !["cli"] =
                    [Idle EXCEPT !.step = "sum", !.todo = {u}, !.read[u] = balance[u]]]
    /\ UNCHANGED <<storeVars, cached, autoFix, errors>>

(* Mistake: in report-only mode the balance is repaired all the same. *)
AlwaysFixes(a) == TRUE

(* reconcile-user repairs unconditionally, the job only with RECONCILE_AUTO_FIX. *)
Fixes(a) == a = "cli" \/ autoFix

(* Mistake: a drift is repaired from the balance instead of the ledger. *)
CompareBalance(a, u) ==
    /\ audit[a].step = "sum" /\ u \in audit[a].todo
    /\ IF LedgerBalance(u) = audit[a].read[u] THEN Done(a, u)
       ELSE Goto(a, "fix", u, audit[a].read[u])
    /\ UNCHANGED <<storeVars, cached, autoFix, errors>>

(* Compare; on drift, repair from the ledger or publish the balance read. *)
Compare(a, u) ==
    /\ audit[a].step = "sum" /\ u \in audit[a].todo
    /\ IF LedgerBalance(u) = audit[a].read[u] THEN Done(a, u)
       ELSE IF Fixes(a) THEN Goto(a, "fix", u, LedgerBalance(u))
       ELSE Goto(a, "publish", u, audit[a].read[u])
    /\ UNCHANGED <<storeVars, cached, autoFix, errors>>

(* UPDATE users SET credit_balance_micro = $2, subject to CHECK (>= 0). *)
SetUserBalanceFromLedger(u, sum) ==
    /\ sum >= 0
    /\ balance' = [balance EXCEPT ![u] = sum]
    /\ UNCHANGED <<ledger, usageLog, session>>

Fix(a, u) ==
    /\ audit[a].step = "fix" /\ audit[a].user = u
    /\ \/ SetUserBalanceFromLedger(u, audit[a].value) /\ Goto(a, "publish", u, audit[a].value)
       \/ audit[a].value < 0 /\ Done(a, u) /\ UNCHANGED storeVars
    /\ UNCHANGED <<cached, autoFix, errors>>

Publish(a, u) ==
    /\ audit[a].step = "publish" /\ audit[a].user = u
    /\ cached' = [cached EXCEPT ![u] = audit[a].value]
    /\ Done(a, u)
    /\ UNCHANGED <<storeVars, autoFix, errors>>

AuditStep(a, u) ==
    \/ Compare(a, u) \/ Fix(a, u) \/ Publish(a, u)
    \/ audit[a].step = "sum" /\ u \in audit[a].todo /\ StatementFails(a, u)
    \/ audit[a].step = "fix" /\ audit[a].user = u /\ StatementFails(a, u)

Hourly == StartHourly \/ \E u \in Users : AuditStep("hourly", u)
CLI == \E u \in Users : StartCLI(u) \/ AuditStep("cli", u)

(* The store methods that move a balance, called by anybody at any time. *)
Transaction ==
    \/ \E u \in Users, a \in Amounts, k \in DepositKeys : DepositCredits(u, a, k)
    \/ \E u \in Users, a \in Amounts, r \in Requests : ApplyHold(u, a, r, <<"hold", r>>)
    \/ \E u \in Users, r \in Requests, c, l \in Amounts :
            CaptureAndRelease(u, r, c, l, "completed", NoKey)

ReconInit ==
    /\ StoreInit
    /\ audit = [a \in {"hourly", "cli"} |-> Idle]
    /\ cached = [u \in Users |-> Miss]
    /\ autoFix \in BOOLEAN
    /\ errors = 0

ReconNext ==
    \/ Transaction /\ UNCHANGED auditVars
    \/ Hourly
    \/ CLI

ReconSpec == ReconInit /\ [][ReconNext]_reconVars

(* The ticker fires every hour and each pass runs to its end. *)
FairReconSpec == ReconSpec /\ WF_reconVars(Hourly)

-----------------------------------------------------------------------------
Drift(u) == balance[u] # LedgerBalance(u)

(* An audit that is entitled to repair is about to overwrite u's balance. *)
Repairing(u) ==
    \E a \in Audits : audit[a].step = "fix" /\ audit[a].user = u /\ (a = "cli" \/ autoFix)

(***************************************************************************)
(* The transactions of the store keep balance and ledger sum equal, and an *)
(* audit in report-only mode does no harm: a drift appears only when an    *)
(* audit that repairs overwrites the balance.                              *)
(***************************************************************************)
DriftOnlyByRepair ==
    [][\A u \in Users : ~Drift(u) /\ Drift(u)' => Repairing(u)]_reconVars

(* u's transactions stop for good. *)
Quiet(u) == <>[][ledger'[u] = ledger[u]]_reconVars

(***************************************************************************)
(* With RECONCILE_AUTO_FIX the drift of a user whose transactions stop is  *)
(* repaired for good, drifts the audits caused themselves included, unless *)
(* the ledger is overdrawn: then CHECK rejects the repair.  Of a user      *)
(* whose transactions go on nothing is said: each repair may overwrite a   *)
(* commit that came after its sum and cause the next drift.                *)
(***************************************************************************)
DriftRepaired ==
    \A u \in Users :
        autoFix /\ Quiet(u) /\ <>[](LedgerBalance(u) >= 0) => <>[]~Drift(u)
=============================================================================
