------------------------------ MODULE Console ------------------------------
(***************************************************************************)
(* The browser application's store (consoleStore.ts, uiStore.tsx) as far   *)
(* as one operation page uses it: the phase of the page's draft, and the   *)
(* receipt rows with what watches them (FlowPage.tsx, useReceiptReconcile).*)
(* The store is written to localStorage after every change, so a reload    *)
(* loses none of it; what watches and what runs is lost.                   *)
(***************************************************************************)
EXTENDS Naturals, Sequences, FiniteSets

CONSTANTS
    MaxSent,        \* bound: transactions of a run
    MaxRows         \* MAX_PERSISTED_TRANSACTIONS

ASSUME ConsoleAssumption == MaxSent \in Nat /\ MaxRows \in Nat \ {0}

VARIABLES
    phase,          \* OperationDraft.phase
    rows,           \* the receipts, newest first: [id, state]
    watching,       \* waits for a receipt: [id, by]
    watchedRef,     \* ids the reconciler has taken up since the page was loaded
    sent,           \* transactions the wallet has broadcast: their hashes are 1..sent
    mined           \* what the chain made of each of them

chainVars == <<sent, mined>>
consoleVars == <<phase, rows, watching, watchedRef, sent, mined>>

Phases == {"draft", "review", "approval-required", "payment-required", "submitting",
           "receipt", "recoverable-error"}
SheetPhases == Phases \ {"draft", "receipt"}

Hashes == 1..MaxSent
NoHash == 0
Row == [id : Hashes \union {NoHash}, state : {"confirming", "confirmed", "reverted", "stale"}]

ConsoleTypeOK ==
    /\ phase \in Phases
    /\ rows \in Seq(Row) /\ Len(rows) <= MaxRows
    /\ watching \subseteq [id : Hashes, by : {"flow", "reconcile"}]
    /\ watchedRef \subseteq Hashes
    /\ sent \in 0..MaxSent
    /\ mined \in [Hashes -> {"pending", "success", "reverted"}]

IsReviewOpen == phase \in SheetPhases

RowsOf(list) == {list[i] : i \in DOMAIN list}

\* The states of a row that the reconciler takes up, at load and when a row comes in.
InFlightAtOnce == {"submitted"}
InFlight == {"confirming"}

Unwatched(list, watched) ==
    {row.id : row \in {r \in RowsOf(list) : r.state \in InFlight}} \ watched

Rewatch(list, watched, waits) ==
    LET ids == Unwatched(list, watched)
    IN  /\ watchedRef' = watched \union ids
        /\ watching' = waits \union [id : ids, by : {"reconcile"}]

AddTxUncapped(id, state) == <<[id |-> id, state |-> state]>> \o rows

\* A receipt row goes on top, the oldest beyond MaxRows falls out.
AddTx(id, state) ==
    SubSeq(<<[id |-> id, state |-> state]>> \o rows, 1,
           IF Len(rows) < MaxRows THEN Len(rows) + 1 ELSE MaxRows)

\* The page adds the receipt of a transaction and begins to wait for it; an approval's
\* receipt leaves the draft's phase to the page.
Settle(hash, nextPhase) ==
    /\ rows' = AddTx(hash, "confirming")
    /\ phase' = nextPhase
    /\ Rewatch(rows', watchedRef, watching \union {[id |-> hash, by |-> "flow"]})

\* A tick's receipt is the server's word, not a transaction this browser waits for.
SettleTick ==
    /\ rows' = AddTx(NoHash, "confirmed")
    /\ phase' = "receipt"
    /\ UNCHANGED <<watching, watchedRef>>

TxState(id, state) ==
    rows' = [i \in DOMAIN rows |->
                IF rows[i].id = id THEN [rows[i] EXCEPT !.state = state] ELSE rows[i]]

Outcome(receipt) == IF receipt = "success" THEN "confirmed" ELSE "reverted"
AlwaysConfirmed(receipt) == "confirmed"
TxOutcome(receipt) == Outcome(receipt)

\* A wait ends with the receipt, or after two minutes without one: the transaction is
\* not mined, or the node does not say so.
ReceiptComes(wait) ==
    /\ mined[wait.id] # "pending"
    /\ TxState(wait.id, TxOutcome(mined[wait.id]))
    /\ watching' = watching \ {wait}
    /\ UNCHANGED <<phase, watchedRef, sent, mined>>

ReceiptTimesOut(wait) ==
    /\ TxState(wait.id, "stale")
    /\ watching' = watching \ {wait}
    /\ UNCHANGED <<phase, watchedRef, sent, mined>>

Mined ==
    /\ \E id \in 1..sent : \E how \in {"success", "reverted"} :
          mined[id] = "pending" /\ mined' = [mined EXCEPT ![id] = how]
    /\ UNCHANGED <<phase, rows, watching, watchedRef, sent>>

SetDraftPhase(next) == phase' = next /\ UNCHANGED <<rows, watching, watchedRef>>

ConsoleInit ==
    /\ phase = "draft" /\ rows = << >>
    /\ watching = {} /\ watchedRef = {}
    /\ sent = 0 /\ mined = [id \in Hashes |-> "pending"]

\* The stored state comes back, the phase included, and the reconciler runs over it.
ConsoleReload == Rewatch(rows, {}, {}) /\ UNCHANGED <<phase, rows, sent, mined>>

(***************************************************************************)
(* What the receipt rows promise.                                          *)
(***************************************************************************)

Confirming(id) == [id |-> id, state |-> "confirming"] \in RowsOf(rows)

\* A row says confirmed or reverted only of what the chain did, whichever of its two
\* waits came first, before and after a reload.
RowsTellTheChain ==
    \A row \in {r \in RowsOf(rows) : r.id \in Hashes} :
        /\ row.state = "confirmed" => mined[row.id] = "success"
        /\ row.state = "reverted" => mined[row.id] = "reverted"

\* No row waits for ever: it is settled, given up as stale or pushed out, however the
\* page that sent it was left or reloaded.
RowSettles == \A id \in Hashes : Confirming(id) ~> ~Confirming(id)
=============================================================================
