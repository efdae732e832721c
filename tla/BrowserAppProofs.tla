-------------------------- MODULE BrowserAppProofs --------------------------
(***************************************************************************)
(* Theorems about the browser application: its receipt rows, the           *)
(* operations of its pages and the threads of its chat, for any number of  *)
(* users, operations, transactions, threads and tools.                     *)
(*                                                                         *)
(* The invariant has one part for each part of the state.  Few actions     *)
(* move a part, and in few ways: what the step of a part is proved from is *)
(* a list of these ways, and a lemma says that a step is one of them.      *)
(***************************************************************************)
EXTENDS BrowserApp, Sums, SequenceTheorems

-----------------------------------------------------------------------------
(* The store.                                                               *)

\* Of a transaction a row only tells what the chain did, and only a
\* transaction is waited for.
TruthOfRow(row) ==
    /\ row.state = "confirming" => row.id \in Hashes
    /\ row.id \in Hashes =>
          /\ row.state = "confirmed" => mined[row.id] = "success"
          /\ row.state = "reverted" => mined[row.id] = "reverted"

Waits == [id : Hashes, by : {"flow", "reconcile"}]

ConsoleInv == ConsoleTypeOK /\ \A i \in DOMAIN rows : TruthOfRow(rows[i])

\* A row goes on top and the oldest one may go.
LEMMA AddTxRows ==
    ASSUME ConsoleTypeOK, NEW id \in Hashes \union {NoHash},
           NEW state \in {"confirming", "confirmed", "reverted", "stale"}
    PROVE  /\ AddTx(id, state) \in Seq(Row) /\ Len(AddTx(id, state)) <= MaxRows
           /\ \A i \in DOMAIN AddTx(id, state) :
                 \/ AddTx(id, state)[i] = [id |-> id, state |-> state]
                 \/ i - 1 \in DOMAIN rows /\ AddTx(id, state)[i] = rows[i - 1]
<1> DEFINE row == [id |-> id, state |-> state]
           top == <<row>>
           all == top \o rows
           n == IF Len(rows) < MaxRows THEN Len(rows) + 1 ELSE MaxRows
           new == SubSeq(all, 1, n)
<1>1. row \in Row
  BY DEF Row
<1>2. rows \in Seq(Row) /\ Len(rows) \in Nat /\ DOMAIN rows = 1..Len(rows) /\ Len(rows) <= MaxRows
  BY LenProperties DEF ConsoleTypeOK
<1>3. top \in Seq(Row) /\ Len(top) = 1 /\ top[1] = row
  BY <1>1
<1> HIDE DEF row, top
<1>4. /\ all \in Seq(Row) /\ Len(all) = 1 + Len(rows)
      /\ \A i \in 1..(1 + Len(rows)) : all[i] = IF i <= 1 THEN top[i] ELSE rows[i - 1]
  <2>1. /\ all \in Seq(Row) /\ Len(all) = Len(top) + Len(rows)
        /\ \A i \in 1..(Len(top) + Len(rows)) :
              all[i] = IF i <= Len(top) THEN top[i] ELSE rows[i - Len(top)]
    BY <1>2, <1>3, ConcatProperties
  <2> HIDE DEF all
  <2> QED
    BY <1>3, <2>1
<1>5. n \in Nat /\ n <= MaxRows /\ n <= Len(rows) + 1 /\ n >= 1
  BY <1>2, ConsoleAssumption
<1> HIDE DEF all, n
<1>6. \A i \in 1..n : i \in 1..Len(all) /\ all[i] \in Row
  BY <1>4, <1>5, ElementOfSeq, <1>2
<1>7. /\ new \in Seq(Row) /\ Len(new) = n
      /\ \A i \in 1..n : new[i] = all[i]
  BY <1>5, <1>6, SubSeqProperties
<1>8. DOMAIN new = 1..n
  BY <1>7, LenProperties
<1>9. AddTx(id, state) = new
  BY DEF AddTx, new, all, n, top, row
<1>10. \A i \in 1..n : new[i] = row \/ (i - 1 \in DOMAIN rows /\ new[i] = rows[i - 1])
  <2> SUFFICES ASSUME NEW i \in 1..n PROVE new[i] = row \/ (i - 1 \in DOMAIN rows /\ new[i] = rows[i - 1])
    OBVIOUS
  <2>1. i \in 1..(1 + Len(rows))
    BY <1>2, <1>5
  <2>2. CASE i = 1
    BY <2>1, <2>2, <1>3, <1>4, <1>7
  <2>3. CASE i # 1
    BY <2>1, <2>3, <1>2, <1>4, <1>7
  <2> QED
    BY <2>2, <2>3
<1> HIDE DEF new
<1> QED
  BY <1>5, <1>7, <1>8, <1>9, <1>10 DEF row

\* What is taken up again are transactions.
LEMMA RewatchTypes ==
    ASSUME NEW list \in Seq(Row), \A i \in DOMAIN list : TruthOfRow(list[i]),
           NEW watched \in SUBSET Hashes, NEW waits \in SUBSET Waits,
           Rewatch(list, watched, waits)
    PROVE  watchedRef' \subseteq Hashes /\ watching' \subseteq Waits
<1>1. Unwatched(list, watched) \subseteq Hashes
  BY DEF Unwatched, RowsOf, InFlight, TruthOfRow
<1> QED
  BY <1>1 DEF Rewatch, Waits

\* The ways in which a step moves the store.
ConsoleMove ==
    \/ /\ phase' \in Phases /\ sent' \in 0..MaxSent
       /\ UNCHANGED <<rows, watching, watchedRef, mined>>
    \/ \E hash \in Hashes : \E next \in Phases :
          Settle(hash, next) /\ sent' \in 0..MaxSent /\ UNCHANGED mined
    \/ SettleTick /\ UNCHANGED chainVars
    \/ \E wait \in watching : ReceiptComes(wait) \/ ReceiptTimesOut(wait)
    \/ Mined
    \/ ConsoleReload

\* None of them breaks its invariant: no row ever tells what the chain did not do.
LEMMA ConsoleMoveKeeps ==
    ASSUME ConsoleInv, ConsoleMove
    PROVE  ConsoleInv'
<1>0. /\ phase \in Phases /\ rows \in Seq(Row) /\ Len(rows) <= MaxRows
      /\ watching \subseteq Waits /\ watchedRef \subseteq Hashes
      /\ sent \in 0..MaxSent /\ mined \in [Hashes -> {"pending", "success", "reverted"}]
      /\ ConsoleTypeOK /\ \A i \in DOMAIN rows : TruthOfRow(rows[i])
      /\ DOMAIN rows = 1..Len(rows)
      /\ "receipt" \in Phases /\ NoHash \notin Hashes
  BY LenProperties DEF ConsoleInv, ConsoleTypeOK, Waits, Phases, NoHash, Hashes
<1>1. ASSUME UNCHANGED <<rows, watching, watchedRef, mined>>,
             phase' \in Phases, sent' \in 0..MaxSent
      PROVE  ConsoleInv'
  BY <1>0, <1>1 DEF ConsoleInv, ConsoleTypeOK, TruthOfRow
<1>2. ASSUME NEW hash \in Hashes, NEW next \in Phases,
             Settle(hash, next), sent' \in 0..MaxSent, UNCHANGED mined
      PROVE  ConsoleInv'
  <2> DEFINE list == AddTx(hash, "confirming")
             waits == watching \union {[id |-> hash, by |-> "flow"]}
  <2>1. /\ list \in Seq(Row) /\ Len(list) <= MaxRows
        /\ \A i \in DOMAIN list : \/ list[i] = [id |-> hash, state |-> "confirming"]
                                  \/ i - 1 \in DOMAIN rows /\ list[i] = rows[i - 1]
    BY <1>0, AddTxRows
  <2>2. rows' = list /\ phase' = next /\ Rewatch(rows', watchedRef, waits)
    BY <1>2 DEF Settle
  <2> HIDE DEF list
  <2>3. \A i \in DOMAIN list : TruthOfRow(list[i])
    BY <2>1, <1>0 DEF TruthOfRow
  <2>4. waits \in SUBSET Waits
    BY <1>0 DEF Waits
  <2> HIDE DEF waits
  <2>5. Rewatch(list, watchedRef, waits)
    BY <2>2
  <2>6. watchedRef' \subseteq Hashes /\ watching' \subseteq Waits
    BY <2>1, <2>3, <2>4, <2>5, <1>0, RewatchTypes
  <2>7. \A i \in DOMAIN rows' : TruthOfRow(rows[i])'
    BY <2>3, <2>2, <1>2 DEF TruthOfRow
  <2> QED
    BY <2>1, <2>2, <2>6, <2>7, <1>0, <1>2 DEF ConsoleInv, ConsoleTypeOK, Waits
<1>3. ASSUME SettleTick, UNCHANGED chainVars PROVE ConsoleInv'
  <2> DEFINE list == AddTx(NoHash, "confirmed")
  <2>1. /\ list \in Seq(Row) /\ Len(list) <= MaxRows
        /\ \A i \in DOMAIN list : \/ list[i] = [id |-> NoHash, state |-> "confirmed"]
                                  \/ i - 1 \in DOMAIN rows /\ list[i] = rows[i - 1]
    BY <1>0, AddTxRows
  <2>2. /\ rows' = list /\ phase' = "receipt"
        /\ UNCHANGED <<watching, watchedRef, sent, mined>>
    BY <1>3 DEF SettleTick, chainVars
  <2> HIDE DEF list
  <2>3. \A i \in DOMAIN rows' : TruthOfRow(rows[i])'
    BY <2>1, <2>2, <1>0 DEF TruthOfRow
  <2> QED
    BY <2>1, <2>2, <2>3, <1>0 DEF ConsoleInv, ConsoleTypeOK
<1>4. ASSUME NEW wait \in watching, NEW state \in {"confirming", "confirmed", "reverted", "stale"},
             TxState(wait.id, state), watching' \subseteq watching,
             UNCHANGED <<phase, watchedRef, sent, mined>>,
             state = "confirmed" => mined[wait.id] = "success",
             state = "reverted" => mined[wait.id] = "reverted"
      PROVE  ConsoleInv'
  <2>1. wait.id \in Hashes
    BY <1>0 DEF Waits
  <2>2. \A i \in 1..Len(rows) : rows[i] \in Row
    BY <1>0, ElementOfSeq
  <2>3. rows' = [i \in 1..Len(rows) |->
                   IF rows[i].id = wait.id THEN [rows[i] EXCEPT !.state = state] ELSE rows[i]]
    BY <1>4, <1>0 DEF TxState
  <2>4. Len(rows) \in Nat
    BY <1>0, LenProperties
  <2>5. \A i \in 1..Len(rows) : rows'[i] \in Row
    BY <2>2, <2>3 DEF Row
  <2>6. rows' \in Seq(Row) /\ Len(rows') = Len(rows)
    <3>1. rows' \in [1..Len(rows) -> Row]
      BY <2>3, <2>5
    <3> QED
      BY <3>1, <2>4, SeqDef, LenProperties
  <2>7. \A i \in 1..Len(rows) :
           \/ rows'[i] = rows[i]
           \/ rows'[i].id = wait.id /\ rows'[i].state = state
    BY <2>2, <2>3 DEF Row
  <2>8. DOMAIN rows' = 1..Len(rows)
    BY <2>3
  <2>9. \A i \in DOMAIN rows' : TruthOfRow(rows[i])'
    BY <2>1, <2>7, <2>8, <1>0, <1>4 DEF TruthOfRow
  <2> QED
    BY <2>6, <2>9, <1>0, <1>4 DEF ConsoleInv, ConsoleTypeOK, Waits
<1>5. ASSUME NEW wait \in watching, ReceiptComes(wait) \/ ReceiptTimesOut(wait)
      PROVE  ConsoleInv'
  <2>1. wait.id \in Hashes
    BY <1>0 DEF Waits
  <2>2. CASE ReceiptComes(wait)
    <3> DEFINE state == TxOutcome(mined[wait.id])
    <3>1. /\ state \in {"confirming", "confirmed", "reverted", "stale"}
          /\ state = "confirmed" => mined[wait.id] = "success"
          /\ state = "reverted" => mined[wait.id] = "reverted"
      BY <2>1, <2>2, <1>0 DEF TxOutcome, Outcome, ReceiptComes
    <3>2. /\ TxState(wait.id, state) /\ watching' \subseteq watching
          /\ UNCHANGED <<phase, watchedRef, sent, mined>>
      BY <2>2 DEF ReceiptComes
    <3> HIDE DEF state
    <3> QED
      BY <3>1, <3>2, <1>4
  <2>3. CASE ReceiptTimesOut(wait)
    <3>1. /\ TxState(wait.id, "stale") /\ watching' \subseteq watching
          /\ UNCHANGED <<phase, watchedRef, sent, mined>>
      BY <2>3 DEF ReceiptTimesOut
    <3> QED
      BY <3>1, <1>4
  <2> QED
    BY <1>5, <2>2, <2>3
<1>6. CASE Mined
  <2>1. PICK id \in 1..sent : \E how \in {"success", "reverted"} :
           mined[id] = "pending" /\ mined' = [mined EXCEPT ![id] = how]
    BY <1>6 DEF Mined
  <2>2. PICK how \in {"success", "reverted"} :
           mined[id] = "pending" /\ mined' = [mined EXCEPT ![id] = how]
    BY <2>1
  <2>3. UNCHANGED <<phase, rows, watching, watchedRef, sent>>
    BY <1>6 DEF Mined
  <2>4. /\ mined' \in [Hashes -> {"pending", "success", "reverted"}]
        /\ \A h \in Hashes : mined[h] # "pending" => mined'[h] = mined[h]
    BY <2>2, <1>0
  <2>5. \A i \in DOMAIN rows' : TruthOfRow(rows[i])'
    BY <2>3, <2>4, <1>0 DEF TruthOfRow
  <2> QED
    BY <2>3, <2>4, <2>5, <1>0 DEF ConsoleInv, ConsoleTypeOK
<1>7. CASE ConsoleReload
  <2>1. Rewatch(rows, {}, {}) /\ UNCHANGED <<phase, rows, sent, mined>>
    BY <1>7 DEF ConsoleReload
  <2>2. watchedRef' \subseteq Hashes /\ watching' \subseteq Waits
    BY <2>1, <1>0, RewatchTypes
  <2>3. \A i \in DOMAIN rows' : TruthOfRow(rows[i])'
    BY <2>1, <1>0 DEF TruthOfRow
  <2> QED
    BY <2>1, <2>2, <2>3, <1>0 DEF ConsoleInv, ConsoleTypeOK, Waits
<1> QED
  BY <1>1, <1>2, <1>3, <1>5, <1>6, <1>7 DEF ConsoleMove

-----------------------------------------------------------------------------
(* The operations.                                                          *)

Operations ==
    [run : {"none", "execute", "cosign", "apply", "submit", "approve", "pay", "mint",
            "vault", "tick"},
     pc : {"idle", "challenge", "sign", "verify", "finalize", "wallet", "price",
           "approve", "approval", "refetch", "stream"},
     live : BOOLEAN, to : Users \union {None}, key : Keys \union {0},
     challenge : Challenges \union {0}, code : Given, old : Given, hash : 0..MaxSent]

\* The steps of a hand-over before its wallet prompt.
HandoffSteps == {"challenge", "sign", "verify", "finalize"}

\* What waits for a receipt has sent a transaction; what signs, is verified or is
\* finalized has a challenge and a recipient.
OperationOK(r) ==
    /\ r.pc \in {"approval", "refetch"} => r.hash \in Hashes
    /\ r.pc \in {"sign", "verify", "finalize"} => r.challenge # 0 /\ r.to # None

OpsInv ==
    /\ kind \in Kinds /\ hookFlags \subseteq {"running", "preparing", "writing"}
    /\ op \in [Ops -> Operations]
    /\ \A o \in Ops : OperationOK(op[o])

\* On any page but a transfer's no hand-over is under way, and the flag is up as long
\* as an operation of the page runs.
AloneInv ==
    kind # "transfer" =>
        /\ pending = NoAcceptance
        /\ \A o \in Ops : op[o].pc \notin HandoffSteps
        /\ \A o \in Ops : Running(o) /\ op[o].live => "running" \in hookFlags
        /\ OneAtATime

KeepsFlag == "running" \in hookFlags => "running" \in hookFlags'

\* On such a page an operation goes on, ends, or begins when nothing is busy.
MovesAlone(o, r) ==
    /\ r.pc \notin HandoffSteps
    /\ \/ Running(o) /\ r.live = op[o].live /\ KeepsFlag
       \/ Running(o) /\ r = Idle /\ (op[o].live \/ KeepsFlag)
       \/ ~Busy /\ "running" \in hookFlags'

\* The ways in which a step moves the operations.
OpMove ==
    /\ kind' = kind /\ hookFlags' \subseteq {"running", "preparing", "writing"}
    /\ \/ op' = op /\ (kind # "transfer" => KeepsFlag)
       \/ \E o \in Ops : \E r \in Operations :
             /\ op' = [op EXCEPT ![o] = r] /\ OperationOK(r)
             /\ kind # "transfer" => MovesAlone(o, r)
       \/ /\ kind = "transfer" /\ op' \in [Ops -> Operations]
          /\ \A o \in Ops : OperationOK(op'[o])
       \/ LeavePage \/ LosePage
    /\ kind # "transfer" => pending' = NoAcceptance

\* An operation that does not run has the type of one.
LEMMA IdleType == Idle \in Operations /\ OperationOK(Idle) /\ Idle.pc = "idle" /\ Idle.live
BY TransferAssumption, ConsoleAssumption DEF Operations, Idle, OperationOK, Given

\* None of them breaks the invariants of the operations.
LEMMA OpMoveKeeps ==
    ASSUME OpsInv, AloneInv, OpMove
    PROVE  OpsInv' /\ AloneInv'
<1>0. /\ kind' = kind /\ kind \in Kinds
      /\ hookFlags' \subseteq {"running", "preparing", "writing"}
      /\ kind # "transfer" => pending' = NoAcceptance
      /\ op \in [Ops -> Operations]
  BY DEF OpsInv, OpMove
<1>1. CASE op' = op /\ (kind # "transfer" => KeepsFlag)
  BY <1>0, <1>1 DEF OpsInv, AloneInv, KeepsFlag, OneAtATime, Running, OperationOK
<1>2. ASSUME NEW o \in Ops, NEW r \in Operations, op' = [op EXCEPT ![o] = r], OperationOK(r),
             kind # "transfer" => MovesAlone(o, r)
      PROVE  OpsInv' /\ AloneInv'
  <2>1. /\ op' \in [Ops -> Operations] /\ op'[o] = r
        /\ \A p \in Ops : p # o => op'[p] = op[p]
    BY <1>0, <1>2
  <2>2. OpsInv'
    <3>1. \A p \in Ops : OperationOK(op[p])'
      BY <2>1, <1>2 DEF OpsInv, OperationOK
    <3> QED
      BY <3>1, <2>1, <1>0 DEF OpsInv
  <2>3. ASSUME kind # "transfer"
        PROVE  /\ \A p \in Ops : op'[p].pc \notin HandoffSteps
               /\ \A p \in Ops : op'[p] # Idle /\ op'[p].live => "running" \in hookFlags'
               /\ \A p, q \in Ops : op'[p] # Idle /\ op'[p].live /\ op'[q] # Idle /\ op'[q].live
                                      => p = q
    <3>1. /\ \A p \in Ops : op[p].pc \notin HandoffSteps
          /\ \A p \in Ops : op[p] # Idle /\ op[p].live => "running" \in hookFlags
          /\ \A p, q \in Ops : op[p] # Idle /\ op[p].live /\ op[q] # Idle /\ op[q].live => p = q
      BY <2>3 DEF AloneInv, OneAtATime, Running
    <3>2. MovesAlone(o, r)
      BY <2>3, <1>2
    <3>3. CASE Running(o) /\ r.live = op[o].live /\ KeepsFlag
      BY <3>1, <3>2, <3>3, <2>1 DEF MovesAlone, Running, KeepsFlag
    <3>4. CASE Running(o) /\ r = Idle /\ (op[o].live \/ KeepsFlag)
      BY <3>1, <3>2, <3>4, <2>1 DEF MovesAlone, Running, KeepsFlag
    <3>5. CASE ~Busy /\ "running" \in hookFlags'
      <4>1. \A p \in Ops : ~(op[p] # Idle /\ op[p].live)
        BY <3>5, <3>1 DEF Busy, FlagsAndPhase
      <4> QED
        BY <4>1, <3>5, <3>1, <3>2, <2>1 DEF MovesAlone
    <3> QED
      BY <3>2, <3>3, <3>4, <3>5 DEF MovesAlone
  <2> QED
    BY <2>2, <2>3, <1>0 DEF AloneInv, OneAtATime, Running
<1>3. CASE LeavePage \/ LosePage
  <2>1. \A o \in Ops : [op[o] EXCEPT !.live = FALSE] \in Operations
    <3> SUFFICES ASSUME NEW o \in Ops PROVE [op[o] EXCEPT !.live = FALSE] \in Operations
      OBVIOUS
    <3>1. op[o] \in Operations
      BY <1>0
    <3> QED
      BY <3>1 DEF Operations
  <2>2. /\ op' \in [Ops -> Operations]
        /\ \A o \in Ops : op'[o] = Idle \/ op'[o] = [op[o] EXCEPT !.live = FALSE]
    BY <1>3, <2>1, IdleType DEF LeavePage, LosePage
  <2>3. \A o \in Ops : /\ op'[o].pc = "idle" \/ op'[o].pc = op[o].pc
                       /\ op'[o] = Idle \/ ~op'[o].live
                       /\ OperationOK(op[o])'
    BY <2>2, <1>0, IdleType DEF OpsInv, OperationOK, Operations
  <2>4. OpsInv'
    BY <2>2, <2>3, <1>0 DEF OpsInv
  <2>5. AloneInv'
    <3>1. \A o \in Ops : ~(op'[o] # Idle /\ op'[o].live)
      BY <2>3
    <3>2. \A o \in Ops : op'[o].pc = "idle" \/ op'[o].pc = op[o].pc
      BY <2>3
    <3>3. kind # "transfer" => \A o \in Ops : op'[o].pc \notin HandoffSteps
      <4>1. "idle" \notin HandoffSteps
        BY DEF HandoffSteps
      <4> QED
        BY <3>2, <4>1 DEF AloneInv
    <3> QED
      BY <3>1, <3>3, <1>0 DEF AloneInv, OneAtATime, Running
  <2> QED
    BY <2>4, <2>5
<1>4. CASE kind = "transfer" /\ op' \in [Ops -> Operations] /\ \A o \in Ops : OperationOK(op'[o])
  <2>1. \A o \in Ops : OperationOK(op[o])'
    BY <1>4 DEF OperationOK
  <2> QED
    BY <1>0, <1>4, <2>1 DEF OpsInv, AloneInv
<1> QED
  BY <1>1, <1>2, <1>3, <1>4 DEF OpMove

-----------------------------------------------------------------------------
(* How each action moves the store and the operations.                      *)

PageInv == ConsoleInv /\ OpsInv /\ AloneInv /\ TransferTypeOK
Moves == ConsoleMove /\ OpMove /\ TransferTypeOK'

\* A change of the phase is one of the ways the store moves.
LEMMA PhaseMove ==
    ASSUME ConsoleInv, NEW next \in Phases, SetDraftPhase(next), UNCHANGED chainVars
    PROVE  ConsoleMove
BY DEF ConsoleMove, SetDraftPhase, chainVars, ConsoleInv, ConsoleTypeOK

\* So is a step that leaves the store alone.
LEMMA StoreIdle ==
    ASSUME ConsoleInv, UNCHANGED consoleVars
    PROVE  ConsoleMove
BY DEF ConsoleMove, consoleVars, ConsoleInv, ConsoleTypeOK

\* So is a row that settles, with the phase its page goes to.
LEMMA SettleMove ==
    ASSUME ConsoleInv, NEW hash \in Hashes, NEW next \in Phases, Settle(hash, next),
           sent' \in 0..MaxSent, UNCHANGED mined
    PROVE  ConsoleMove
BY DEF ConsoleMove

\* An empty cache.
LEMMA NoQueries == [key \in Keys |-> NoQuery] \in [Keys -> Queries]
BY DEF NoQuery, Queries

\* What awaited a fetch is still an operation; only a hand-over awaits one.
LEMMA CancelledTyped ==
    ASSUME OpsInv, AloneInv, NEW keys
    PROVE  /\ Cancelled(keys) \in [Ops -> Operations]
           /\ \A o \in Ops : OperationOK(Cancelled(keys)[o])
           /\ kind # "transfer" => Cancelled(keys) = op
<1>1. /\ op \in [Ops -> Operations] /\ \A o \in Ops : op[o] \in Operations /\ OperationOK(op[o])
      /\ kind # "transfer" => \A o \in Ops : op[o].pc # "challenge"
  BY DEF OpsInv, AloneInv, HandoffSteps
<1>2. \A o \in Ops : Cancelled(keys)[o] = IF o \in Awaiting(keys) THEN [op[o] EXCEPT !.key = 0] ELSE op[o]
  BY DEF Cancelled
<1>3. \A o \in Ops : [op[o] EXCEPT !.key = 0] \in Operations /\ OperationOK([op[o] EXCEPT !.key = 0])
  BY <1>1 DEF Operations, OperationOK
<1>4. Cancelled(keys) \in [Ops -> Operations]
  BY <1>1, <1>3 DEF Cancelled
<1>5. kind # "transfer" => Cancelled(keys) = op
  BY <1>1 DEF Cancelled, Awaiting
<1> QED
  BY <1>1, <1>2, <1>3, <1>4, <1>5

\* The sheet is closed or the form is emptied: the hand-over's part of it.
LEMMA ResetMoves ==
    ASSUME PageInv, ResetHandoff, to' \in Users \union {None}, UNCHANGED <<kind, claim, handoffVars>>
    PROVE  OpMove /\ TransferTypeOK'
<1> USE DEF PageInv
<1>1. /\ op' = Cancelled(Keys) /\ hookFlags' = hookFlags \ {"preparing", "writing"}
      /\ cache' = [key \in Keys |-> NoQuery] /\ attempt' = attempt
      /\ pending' = NoAcceptance /\ proof' = NoAcceptance
      /\ blocked' = FALSE /\ applied' = FALSE /\ receiver' = None
  BY DEF ResetHandoff, ForgetsHandoff
<1>2. kind' = kind /\ hookFlags' \subseteq {"running", "preparing", "writing"}
  BY <1>1 DEF OpsInv
<1>3. OpMove
  <2>1. CASE kind = "transfer"
    BY <2>1, <1>1, <1>2, CancelledTyped DEF OpMove
  <2>2. CASE kind # "transfer"
    <3>1. op' = op /\ KeepsFlag
      BY <2>2, <1>1, CancelledTyped DEF KeepsFlag
    <3> QED
      BY <2>2, <3>1, <1>1, <1>2 DEF OpMove
  <2> QED
    BY <2>1, <2>2
<1>4. TransferTypeOK'
  BY <1>1, NoQueries DEF TransferTypeOK, Given, handoffVars
<1> QED
  BY <1>3, <1>4

\* What the user does with the form, the sheet and the page.
LEMMA UserMoves ==
    ASSUME PageInv, UserStep
    PROVE  Moves
<1> USE DEF PageInv
<1>0. /\ "draft" \in Phases /\ ReviewPhase \in Phases
      /\ hookFlags \subseteq {"running", "preparing", "writing"}
      /\ kind # "transfer" => pending = NoAcceptance
      /\ TransferTypeOK
  BY DEF Phases, ReviewPhase, OpsInv, AloneInv
<1>1. ASSUME NEW user \in Users, Edit(user) PROVE Moves
  <2>1. ConsoleMove
    BY <1>1, <1>0, PhaseMove DEF Edit
  <2>2. OpMove
    BY <1>1, <1>0 DEF Edit, OpMove, pageVars, hookVars, KeepsFlag
  <2>3. TransferTypeOK'
    BY <1>1, <1>0 DEF Edit, TransferTypeOK, hookVars, queryVars, handoffVars
  <2> QED
    BY <2>1, <2>2, <2>3 DEF Moves
<1>2. CASE Opens
  <2>1. SetDraftPhase(ReviewPhase) /\ UNCHANGED <<chainVars, pageVars, transferVars>>
    BY <1>2 DEF Opens, OpenReview, OpensFromLink, Retry
  <2>2. ConsoleMove
    BY <2>1, <1>0, PhaseMove
  <2>3. OpMove
    BY <2>1, <1>0 DEF OpMove, pageVars, transferVars, hookVars, KeepsFlag
  <2>4. TransferTypeOK'
    BY <2>1, <1>0 DEF TransferTypeOK, transferVars, hookVars, queryVars, handoffVars
  <2> QED
    BY <2>2, <2>3, <2>4 DEF Moves
<1>3. CASE Close
  <2>1. ConsoleMove
    BY <1>3, <1>0, PhaseMove DEF Close
  <2>2. CASE kind = "transfer"
    <3>1. ResetHandoff /\ UNCHANGED <<kind, to, claim, handoffVars>>
      BY <1>3, <2>2 DEF Close
    <3>2. to' \in Users \union {None}
      BY <3>1, <1>0 DEF TransferTypeOK
    <3> QED
      BY <3>1, <3>2, <2>1, ResetMoves DEF Moves
  <2>3. CASE kind # "transfer"
    <3>1. UNCHANGED <<kind, hookFlags, op, hookVars, queryVars, to, claim, handoffVars>>
      BY <1>3, <2>3 DEF Close
    <3>2. OpMove
      BY <3>1, <1>0 DEF OpMove, hookVars, KeepsFlag
    <3>3. TransferTypeOK'
      BY <3>1, <1>0 DEF TransferTypeOK, hookVars, queryVars, handoffVars
    <3> QED
      BY <2>1, <3>2, <3>3 DEF Moves
  <2> QED
    BY <2>2, <2>3
<1>4. CASE Restart
  <2>1. ConsoleMove
    BY <1>4, <1>0, PhaseMove DEF Restart
  <2>2. ResetHandoff /\ to' = None /\ UNCHANGED <<kind, claim, handoffVars>>
    BY <1>4 DEF Restart
  <2> QED
    BY <2>1, <2>2, ResetMoves DEF Moves
<1>5. CASE Remount
  <2>1. ConsoleMove
    BY <1>5, StoreIdle DEF Remount
  <2>2. OpMove
    BY <1>5, <1>0 DEF Remount, LeavePage, ForgetsHandoff, OpMove
  <2>3. TransferTypeOK'
    <3>1. /\ pending' = NoAcceptance /\ proof' = NoAcceptance /\ claim' = NoAcceptance
          /\ blocked' = FALSE /\ applied' = FALSE /\ receiver' = None
          /\ attempt' = 0 /\ UNCHANGED <<kind, to, cache, handoffVars>>
      BY <1>5 DEF Remount, ForgetsHandoff
    <3>2. attempt' \in 0..MaxAttempts
      BY <3>1, TransferAssumption
    <3> QED
      BY <3>1, <3>2, <1>0 DEF TransferTypeOK, handoffVars, Given
  <2> QED
    BY <2>1, <2>2, <2>3 DEF Moves
<1>6. ASSUME NEW opened \in {NoAcceptance} \union accepted, Reload(opened) PROVE Moves
  <2>1. ConsoleMove
    BY <1>6 DEF Reload, ConsoleMove
  <2>2. OpMove
    BY <1>6, <1>0 DEF Reload, LosePage, ForgetsHandoff, OpMove
  <2>3. TransferTypeOK'
    <3>1. /\ pending' = NoAcceptance /\ proof' = NoAcceptance /\ claim' = opened
          /\ blocked' = FALSE /\ applied' = FALSE /\ receiver' = None
          /\ attempt' = 0 /\ cache' = [key \in Keys |-> NoQuery]
          /\ UNCHANGED <<kind, to, handoffVars>>
      BY <1>6 DEF Reload, ForgetsHandoff
    <3>2. opened \in Given
      BY <1>6, <1>0 DEF TransferTypeOK, Given
    <3>3. cache' \in [Keys -> Queries] /\ attempt' \in 0..MaxAttempts
      BY <3>1, NoQueries, TransferAssumption
    <3> QED
      BY <3>1, <3>2, <3>3, <1>0 DEF TransferTypeOK, handoffVars, Given
  <2> QED
    BY <2>1, <2>2, <2>3 DEF Moves
<1> QED
  BY <1>1, <1>2, <1>3, <1>4, <1>5, <1>6 DEF UserStep

\* What runs is not idle.
LEMMA NotIdle ==
    ASSUME NEW o \in Ops, op[o].pc # "idle"
    PROVE  Running(o)
BY DEF Running, Idle

\* An operation is replaced by what it has become.
LEMMA OpChanges ==
    ASSUME OpsInv, AloneInv, NEW o \in Ops, NEW r \in Operations, OperationOK(r),
           op' = [op EXCEPT ![o] = r], kind' = kind,
           hookFlags' \subseteq {"running", "preparing", "writing"},
           kind # "transfer" => MovesAlone(o, r) /\ pending' = NoAcceptance
    PROVE  OpMove
BY DEF OpMove

\* An operation of another page than a transfer's begins.
LEMMA StartMoves ==
    ASSUME PageInv, NEW o \in Ops, NEW name \in {"approve", "pay", "mint", "vault", "tick"},
           NEW pc \in {"price", "wallet", "stream"}, Start(o, name, pc), UNCHANGED transferVars
    PROVE  Moves
<1> USE DEF PageInv
<1> DEFINE r == [Idle EXCEPT !.run = name, !.pc = pc]
<1>1. r \in Operations /\ OperationOK(r) /\ r.pc \notin HandoffSteps
  BY IdleType DEF Operations, Idle, OperationOK, HandoffSteps
<1>2. /\ op' = [op EXCEPT ![o] = r] /\ kind' = kind
      /\ hookFlags' = hookFlags \union {"running"} /\ ~Busy
      /\ SetDraftPhase("submitting") /\ UNCHANGED chainVars
  BY DEF Start, Begin
<1> HIDE DEF r
<1>3. ConsoleMove
  BY <1>2, PhaseMove DEF Phases
<1>4. hookFlags' \subseteq {"running", "preparing", "writing"}
  BY <1>2 DEF OpsInv
<1>5. kind # "transfer" => MovesAlone(o, r) /\ pending' = NoAcceptance
  BY <1>1, <1>2 DEF MovesAlone, AloneInv, transferVars, hookVars
<1>6. OpMove
  BY <1>1, <1>2, <1>4, <1>5, OpChanges
<1>7. TransferTypeOK'
  BY DEF TransferTypeOK, transferVars, hookVars, queryVars, handoffVars
<1> QED
  BY <1>3, <1>6, <1>7 DEF Moves

\* Such an operation goes on or ends.
LEMMA RunMoves ==
    ASSUME PageInv, NEW o \in Ops, NEW r \in Operations, OperationOK(r),
           op[o].pc \notin HandoffSteps \union {"idle"},
           op' = [op EXCEPT ![o] = r], kind' = kind, ConsoleMove, UNCHANGED transferVars,
           \/ /\ r.live = op[o].live /\ r.pc \notin HandoffSteps
              /\ hookFlags' = hookFlags
           \/ r = Idle /\ Lowers(o, "running")
    PROVE  Moves
<1> USE DEF PageInv
<1>1. Running(o)
  BY NotIdle
<1>2. hookFlags' \subseteq {"running", "preparing", "writing"}
  BY DEF OpsInv, Lowers
<1>3. kind # "transfer" => MovesAlone(o, r) /\ pending' = NoAcceptance
  BY <1>1, IdleType DEF MovesAlone, AloneInv, transferVars, hookVars, KeepsFlag, Lowers,
                        HandoffSteps
<1>4. OpMove
  BY <1>2, <1>3, OpChanges
<1>5. TransferTypeOK'
  BY DEF TransferTypeOK, transferVars, hookVars, queryVars, handoffVars
<1> QED
  BY <1>4, <1>5 DEF Moves

\* The operations of the other pages.
LEMMA OperationMoves ==
    ASSUME PageInv, OperationStep
    PROVE  Moves
<1> USE DEF PageInv
<1>0. /\ UNCHANGED transferVars
      /\ {"payment-required", "recoverable-error", "receipt"} \subseteq Phases
      /\ \A o \in Ops : op[o] \in Operations /\ OperationOK(op[o])
      /\ Idle \in Operations /\ OperationOK(Idle)
      /\ sent \in 0..MaxSent /\ MaxSent \in Nat /\ phase \in Phases
  BY IdleType, ConsoleAssumption DEF OperationStep, Phases, OpsInv, ConsoleInv, ConsoleTypeOK
<1>1. ASSUME NEW o \in Ops, Approve(o) \/ Pay(o) \/ MintOrVault(o) \/ Tick(o) PROVE Moves
  <2>1. CASE Approve(o)
    BY <2>1, <1>0, StartMoves DEF Approve
  <2>2. CASE Pay(o)
    BY <2>2, <1>0, StartMoves DEF Pay
  <2>3. CASE MintOrVault(o)
    <3>1. kind \in {"mint", "vault"} /\ Start(o, kind, "wallet")
      BY <2>3 DEF MintOrVault
    <3> QED
      BY <3>1, <1>0, StartMoves
  <2>4. CASE Tick(o)
    BY <2>4, <1>0, StartMoves DEF Tick
  <2> QED
    BY <1>1, <2>1, <2>2, <2>3, <2>4
<1>2. ASSUME NEW o \in Ops, NEW covered \in BOOLEAN, AllowanceRead(o, covered) PROVE Moves
  <2>1. /\ op[o].pc = "price" /\ UNCHANGED <<chainVars, kind>>
        /\ op[o].pc \notin HandoffSteps \union {"idle"}
    BY <1>2 DEF AllowanceRead, HandoffSteps
  <2>2. CASE covered /\ op[o].run = "approve"
    <3>1. Done(o) /\ Lowers(o, "running") /\ SetDraftPhase("payment-required")
      BY <1>2, <2>2 DEF AllowanceRead
    <3>2. ConsoleMove
      BY <3>1, <2>1, <1>0, PhaseMove
    <3> QED
      BY <3>1, <3>2, <2>1, <1>0, RunMoves DEF Done
  <2>3. CASE ~(covered /\ op[o].run = "approve")
    <3> DEFINE r == [op[o] EXCEPT !.pc = IF covered THEN "wallet" ELSE "approve"]
    <3>1. /\ op' = [op EXCEPT ![o] = r]
          /\ UNCHANGED <<phase, rows, watching, watchedRef, hookFlags>>
      BY <1>2, <2>3 DEF AllowanceRead
    <3>2. /\ r \in Operations /\ OperationOK(r) /\ r.live = op[o].live
          /\ r.pc \notin HandoffSteps
      BY <1>0 DEF Operations, OperationOK, HandoffSteps
    <3> HIDE DEF r
    <3>3. ConsoleMove
      BY <3>1, <2>1, StoreIdle DEF consoleVars, chainVars
    <3> QED
      BY <3>1, <3>2, <3>3, <2>1, <1>0, RunMoves
  <2> QED
    BY <2>2, <2>3
<1>3. ASSUME NEW o \in Ops, ApprovalSent(o) PROVE Moves
  <2> DEFINE r == [op[o] EXCEPT !.pc = "approval", !.hash = sent + 1]
  <2>1. /\ op[o].pc = "approve" /\ sent < MaxSent /\ sent' = sent + 1
        /\ op' = [op EXCEPT ![o] = r]
        /\ UNCHANGED <<phase, rows, watching, watchedRef, mined, kind, hookFlags>>
    BY <1>3 DEF ApprovalSent, OpsInv
  <2>2. sent + 1 \in Hashes /\ sent + 1 \in 0..MaxSent
    BY <2>1, <1>0 DEF Hashes
  <2>3. /\ r \in Operations /\ OperationOK(r) /\ r.live = op[o].live
        /\ r.pc \notin HandoffSteps
    <3>1. op[o] \in Operations
      BY <1>0
    <3>2. r \in Operations
      BY <3>1, <2>2 DEF Operations
    <3>3. r.pc = "approval" /\ r.hash = sent + 1 /\ r.live = op[o].live
      BY <3>1 DEF Operations
    <3> QED
      BY <3>2, <3>3, <2>2 DEF OperationOK, HandoffSteps
  <2>4. op[o].pc \notin HandoffSteps \union {"idle"}
    BY <2>1 DEF HandoffSteps
  <2> HIDE DEF r
  <2>5. ConsoleMove
    BY <2>1, <2>2, <1>0 DEF ConsoleMove
  <2> QED
    BY <2>1, <2>3, <2>4, <2>5, <1>0, RunMoves
<1>4. ASSUME NEW o \in Ops, ApprovalMined(o) PROVE Moves
  <2>1. /\ op[o].pc = "approval" /\ UNCHANGED <<chainVars, kind>>
        /\ op[o].pc \notin HandoffSteps \union {"idle"}
    BY <1>4 DEF ApprovalMined, HandoffSteps
  <2>2. op[o].hash \in Hashes
    BY <2>1, <1>0 DEF OperationOK
  <2>3. CASE op[o].run = "approve"
    <3>1. Done(o) /\ Lowers(o, "running") /\ Settle(op[o].hash, "payment-required")
      BY <1>4, <2>3 DEF ApprovalMined
    <3>2. ConsoleMove
      BY <3>1, <2>1, <2>2, <1>0, SettleMove DEF chainVars
    <3> QED
      BY <3>1, <3>2, <2>1, <1>0, RunMoves DEF Done
  <2>4. CASE op[o].run # "approve"
    <3> DEFINE r == [op[o] EXCEPT !.pc = "wallet"]
    <3>1. /\ op' = [op EXCEPT ![o] = r]
          /\ UNCHANGED <<phase, rows, watching, watchedRef, hookFlags>>
      BY <1>4, <2>4 DEF ApprovalMined
    <3>2. /\ r \in Operations /\ OperationOK(r) /\ r.live = op[o].live
          /\ r.pc \notin HandoffSteps
      BY <1>0 DEF Operations, OperationOK, HandoffSteps
    <3> HIDE DEF r
    <3>3. ConsoleMove
      BY <3>1, <2>1, StoreIdle DEF consoleVars, chainVars
    <3> QED
      BY <3>1, <3>2, <3>3, <2>1, <1>0, RunMoves
  <2> QED
    BY <2>3, <2>4
<1>5. ASSUME NEW o \in Ops, CallSent(o) PROVE Moves
  <2>1. /\ op[o].pc = "wallet" /\ sent < MaxSent /\ sent' = sent + 1
        /\ UNCHANGED <<mined, kind>> /\ op[o].pc \notin HandoffSteps \union {"idle"}
    BY <1>5 DEF CallSent, HandoffSteps
  <2>2. sent + 1 \in Hashes /\ sent + 1 \in 0..MaxSent
    BY <2>1, <1>0 DEF Hashes
  <2>3. CASE op[o].run = "vault"
    <3> DEFINE r == [op[o] EXCEPT !.pc = "refetch", !.hash = sent + 1]
    <3>1. /\ op' = [op EXCEPT ![o] = r]
          /\ UNCHANGED <<phase, rows, watching, watchedRef, hookFlags>>
      BY <1>5, <2>3 DEF CallSent, OpsInv
    <3>2. /\ r \in Operations /\ OperationOK(r) /\ r.live = op[o].live
          /\ r.pc \notin HandoffSteps
      <4>1. op[o] \in Operations
        BY <1>0
      <4>2. r \in Operations
        BY <4>1, <2>2 DEF Operations
      <4>3. r.pc = "refetch" /\ r.hash = sent + 1 /\ r.live = op[o].live
        BY <4>1 DEF Operations
      <4> QED
        BY <4>2, <4>3, <2>2 DEF OperationOK, HandoffSteps
    <3> HIDE DEF r
    <3>3. ConsoleMove
      BY <3>1, <2>1, <2>2, <1>0 DEF ConsoleMove
    <3> QED
      BY <3>1, <3>2, <3>3, <2>1, <1>0, RunMoves
  <2>4. CASE op[o].run # "vault"
    <3>1. Done(o) /\ Lowers(o, "running") /\ Settle(sent + 1, "receipt")
      BY <1>5, <2>4 DEF CallSent
    <3>2. ConsoleMove
      BY <3>1, <2>1, <2>2, <1>0, SettleMove
    <3> QED
      BY <3>1, <3>2, <2>1, <1>0, RunMoves DEF Done
  <2> QED
    BY <2>3, <2>4
<1>6. ASSUME NEW o \in Ops, Refetched(o) PROVE Moves
  <2>1. /\ op[o].pc = "refetch" /\ UNCHANGED <<chainVars, kind>>
        /\ Done(o) /\ Lowers(o, "running") /\ Settle(op[o].hash, "receipt")
    BY <1>6 DEF Refetched
  <2>2. op[o].hash \in Hashes /\ op[o].pc \notin HandoffSteps \union {"idle"}
    BY <2>1, <1>0 DEF OperationOK, HandoffSteps
  <2>3. ConsoleMove
    BY <2>1, <2>2, <1>0, SettleMove DEF chainVars
  <2> QED
    BY <2>1, <2>2, <2>3, <1>0, RunMoves DEF Done
<1>7. ASSUME NEW o \in Ops, TickCompletes(o) PROVE Moves
  <2>1. /\ op[o].pc \notin HandoffSteps \union {"idle"} /\ UNCHANGED <<chainVars, kind>>
        /\ Done(o) /\ Lowers(o, "running") /\ SettleTick
    BY <1>7 DEF TickCompletes, HandoffSteps
  <2>2. ConsoleMove
    BY <2>1 DEF ConsoleMove
  <2> QED
    BY <2>1, <2>2, <1>0, RunMoves DEF Done
<1>8. ASSUME NEW o \in Ops, OperationFails(o) PROVE Moves
  <2>1. /\ op[o].pc \notin HandoffSteps \union {"idle"} /\ UNCHANGED <<chainVars, kind>>
        /\ Done(o) /\ Lowers(o, "running") /\ SetDraftPhase("recoverable-error")
    BY <1>8 DEF OperationFails, HandoffSteps
  <2>2. ConsoleMove
    BY <2>1, <1>0, PhaseMove
  <2> QED
    BY <2>1, <2>2, <1>0, RunMoves DEF Done
<1> QED
  BY <1>1, <1>2, <1>3, <1>4, <1>5, <1>6, <1>7, <1>8 DEF OperationStep

\* An operation of a transfer's page begins, goes on or ends.
LEMMA HandoffMoves ==
    ASSUME PageInv, kind = "transfer", NEW o \in Ops, NEW r \in Operations, OperationOK(r),
           op' = [op EXCEPT ![o] = r], kind' = kind,
           hookFlags' \subseteq {"running", "preparing", "writing"}, ConsoleMove, TransferTypeOK'
    PROVE  Moves
BY OpChanges DEF PageInv, Moves

\* An acceptance is applied to the challenge that waits.
LEMMA ApplyMoves ==
    ASSUME PageInv, NEW o \in Ops, NEW code \in Acceptances, Apply(o, code),
           UNCHANGED <<chainVars, kind>>, TransferTypeOK'
    PROVE  Moves
<1> USE DEF PageInv
<1> DEFINE r == [Idle EXCEPT !.run = "apply", !.pc = "verify", !.to = pending[2],
                             !.challenge = pending[1], !.code = code]
<1>1. /\ op' = [op EXCEPT ![o] = r] /\ SetDraftPhase("submitting") /\ pending # NoAcceptance
      /\ hookFlags' = hookFlags \union {"preparing"}
  BY DEF Apply, Begin
<1>2. r \in Operations /\ OperationOK(r)
  <2>1. /\ pending[1] \in Challenges /\ pending[1] # 0 /\ code \in Given
        /\ pending[2] \in Users /\ pending[2] # None
    BY <1>1, PageAssumption DEF TransferTypeOK, Given, Acceptances, Challenges
  <2>2. Idle \in Operations
    BY IdleType
  <2>3. r \in Operations
    BY <2>1, <2>2 DEF Operations, Idle
  <2> QED
    BY <2>1, <2>3 DEF Idle, OperationOK
<1> HIDE DEF r
<1>3. kind = "transfer"
  BY <1>1 DEF AloneInv
<1>4. ConsoleMove
  BY <1>1, PhaseMove DEF Phases
<1>5. hookFlags' \subseteq {"running", "preparing", "writing"}
  BY <1>1 DEF OpsInv
<1> QED
  BY <1>1, <1>2, <1>3, <1>4, <1>5, HandoffMoves

\* The phases a hand-over goes to, and the types of what it reads.
HandoffTyped(o) ==
    /\ {"submitting", "review", "receipt", "recoverable-error"} \subseteq Phases
    /\ op \in [Ops -> Operations] /\ op[o] \in Operations /\ OperationOK(op[o])
    /\ Idle \in Operations /\ OperationOK(Idle)
    /\ sent \in 0..MaxSent /\ MaxSent \in Nat /\ MaxWork \in Nat /\ MaxAttempts \in Nat
    /\ phase \in Phases /\ hookFlags \subseteq {"running", "preparing", "writing"}
    /\ TransferTypeOK /\ to \in Users \union {None}
    /\ pending \in Given /\ proof \in Given /\ NoAcceptance \in Given
    /\ op[o].pc \in HandoffSteps => kind = "transfer"

LEMMA HandoffTypes == ASSUME PageInv, NEW o \in Ops PROVE HandoffTyped(o)
BY IdleType, ConsoleAssumption, TransferAssumption
   DEF HandoffTyped, PageInv, Phases, OpsInv, ConsoleInv, ConsoleTypeOK, TransferTypeOK, Given,
       AloneInv

\* A challenge is fetched or taken from the cache, and an operation has it.
LEMMA ChallengeArrivesMoves ==
    ASSUME PageInv, NEW o \in Ops, NEW challenge \in Challenges, ChallengeArrives(o, challenge)
    PROVE  Moves
<1> USE DEF PageInv, HandoffTyped
<1>0. HandoffTyped(o)
  BY HandoffTypes
<1>1. /\ op[o].pc = "challenge" /\ op[o].to # None /\ op[o].key # 0 /\ MoreWork
      /\ UNCHANGED <<kind, to, attempt, claim, shared, accepted, signed>>
  BY DEF ChallengeArrives
<1>2. kind = "transfer" /\ kind' = kind
  BY <1>0, <1>1 DEF HandoffSteps
<1>3. op[o].key \in Keys /\ op[o].to \in Users
  BY <1>0, <1>1 DEF Operations
<1>4. /\ cache' \in [Keys -> Queries]
      /\ challengeTo' \in Seq(Users) /\ Len(challengeTo') <= MaxWork
  <2>1. /\ cache \in [Keys -> Queries] /\ challengeTo \in Seq(Users)
        /\ Len(challengeTo) <= MaxWork /\ Len(challengeTo) \in Nat
    BY <1>0, LenProperties DEF TransferTypeOK
  <2>2. CASE UNCHANGED <<cache, challengeTo>>
    BY <2>1, <2>2
  <2>3. CASE Fetch(op[o].key, challenge)
    <3> DEFINE key == op[o].key
    <3>1. /\ cache' = [cache EXCEPT ![key] = [[@ EXCEPT !.asks = None] EXCEPT !.challenge = challenge]]
          /\ challengeTo' = Append(challengeTo, cache[key].asks)
          /\ cache[key].asks # None /\ cache[key] \in Queries
      BY <2>1, <2>3, <1>3 DEF Fetch, Queries
    <3>2. [[cache[key] EXCEPT !.asks = None] EXCEPT !.challenge = challenge] \in Queries
      BY <3>1 DEF Queries
    <3>3. cache[key].asks \in Users
      BY <3>1 DEF Queries
    <3>4. challengeTo' \in Seq(Users) /\ Len(challengeTo') = Len(challengeTo) + 1
      BY <3>1, <3>3, <2>1, AppendProperties
    <3>5. cache' \in [Keys -> Queries]
      BY <3>1, <3>2, <2>1
    <3>6. Len(challengeTo') <= MaxWork
      BY <3>4, <2>1, <1>0, <1>1 DEF MoreWork
    <3> QED
      BY <3>4, <3>5, <3>6
  <2> QED
    BY <2>2, <2>3 DEF ChallengeArrives
<1>5. CASE op[o].to = Owner
  <2> DEFINE r == [op[o] EXCEPT !.pc = "sign", !.key = 0, !.challenge = challenge]
  <2>1. /\ op' = [op EXCEPT ![o] = r]
        /\ UNCHANGED <<consoleVars, hookFlags, hookVars>>
    BY <1>5, <1>0 DEF ChallengeArrives, Operations
  <2>2. r \in Operations /\ OperationOK(r)
    <3>1. challenge # 0
      BY DEF Challenges
    <3> QED
      BY <3>1, <1>0, <1>1 DEF Operations, OperationOK
  <2> HIDE DEF r
  <2>3. ConsoleMove
    BY <2>1, StoreIdle
  <2>4. TransferTypeOK'
    BY <2>1, <1>1, <1>4, <1>0 DEF TransferTypeOK, hookVars
  <2>5. hookFlags' \subseteq {"running", "preparing", "writing"}
    BY <2>1, <1>0
  <2> QED
    BY <2>1, <2>2, <2>3, <2>4, <2>5, <1>2, HandoffMoves
<1>6. CASE op[o].to # Owner
  <2>1. /\ op' = [op EXCEPT ![o] = Idle] /\ Lowers(o, "preparing")
        /\ OnPage(o, pending' = <<challenge, op[o].to>> /\ receiver' = op[o].to,
                  <<pending, receiver>>)
        /\ SetDraftPhase("review")
        /\ UNCHANGED <<chainVars, proof, blocked, applied>>
    BY <1>6 DEF ChallengeArrives, Done
  <2>2. ConsoleMove
    BY <2>1, <1>0, PhaseMove
  <2>3. pending' \in Given /\ receiver' \in Users \union {None}
    <3>1. <<challenge, op[o].to>> \in Given
      BY <1>3 DEF Given, Acceptances
    <3> QED
      BY <3>1, <2>1, <1>3, <1>0 DEF OnPage, TransferTypeOK
  <2>4. TransferTypeOK'
    BY <2>1, <2>3, <1>1, <1>4, <1>0 DEF TransferTypeOK
  <2>5. hookFlags' \subseteq {"running", "preparing", "writing"}
    BY <2>1, <1>0 DEF Lowers
  <2> QED
    BY <2>1, <2>2, <2>4, <2>5, <1>2, <1>0, HandoffMoves
<1> QED
  BY <1>5, <1>6

\* A call of a hand-over fails, with those that await the same fetch.
LEMMA TransferFailsMoves ==
    ASSUME PageInv, NEW o \in Ops, TransferFails(o)
    PROVE  Moves
<1> USE DEF PageInv, HandoffTyped
<1>0. HandoffTyped(o)
  BY HandoffTypes
<1>1. /\ kind = "transfer" /\ Lowers(o, IF op[o].pc = "wallet" THEN "writing" ELSE "preparing")
      /\ SetDraftPhase(IF op[o].run = "apply" THEN "review" ELSE "recoverable-error")
      /\ UNCHANGED <<chainVars, kind, to, hookVars, attempt, claim, handoffVars>>
  BY DEF TransferFails
<1>2. ConsoleMove
  <2> DEFINE next == IF op[o].run = "apply" THEN "review" ELSE "recoverable-error"
  <2>1. next \in Phases /\ SetDraftPhase(next)
    BY <1>0, <1>1
  <2> HIDE DEF next
  <2> QED
    BY <2>1, <1>1, PhaseMove
<1>3. hookFlags' \subseteq {"running", "preparing", "writing"} /\ kind' = kind
  BY <1>0, <1>1 DEF Lowers
<1>4. CASE op[o].pc = "challenge" /\ op[o].key # 0
  <2> DEFINE others == Cancelled({op[o].key})
  <2>1. /\ cache' = [cache EXCEPT ![op[o].key] = NoQuery]
        /\ op' = [others EXCEPT ![o] = Idle]
    BY <1>4 DEF TransferFails
  <2>2. others \in [Ops -> Operations] /\ \A p \in Ops : OperationOK(others[p])
    BY CancelledTyped
  <2> HIDE DEF others
  <2>3. op' \in [Ops -> Operations] /\ \A p \in Ops : OperationOK(op'[p])
    BY <2>1, <2>2, <1>0
  <2>4. cache' \in [Keys -> Queries]
    <3>1. NoQuery \in Queries
      BY DEF NoQuery, Queries
    <3> QED
      BY <3>1, <2>1, <1>0 DEF TransferTypeOK
  <2>5. OpMove
    BY <2>3, <1>1, <1>3 DEF OpMove
  <2>6. TransferTypeOK'
    BY <2>4, <1>1, <1>0 DEF TransferTypeOK, hookVars, handoffVars
  <2> QED
    BY <2>5, <2>6, <1>2 DEF Moves
<1>5. CASE ~(op[o].pc = "challenge" /\ op[o].key # 0)
  <2>1. op' = [op EXCEPT ![o] = Idle] /\ UNCHANGED cache
    BY <1>5 DEF TransferFails, Done
  <2>2. TransferTypeOK'
    BY <2>1, <1>1, <1>0 DEF TransferTypeOK, hookVars, handoffVars
  <2> QED
    BY <2>1, <2>2, <1>1, <1>2, <1>3, <1>0, HandoffMoves
<1> QED
  BY <1>4, <1>5

\* The steps of a hand-over at the sender's page.
LEMMA HandoverMoves ==
    ASSUME PageInv, NEW o \in Ops,
           \/ Execute(o) \/ CoSign(o) \/ SubmitHandoff(o)
           \/ ReceiverUnavailable(o) \/ Signs(o) \/ Verified(o) \/ Finalized(o)
           \/ TransferSent(o) \/ TransferFails(o)
    PROVE  Moves
<1> USE DEF PageInv, HandoffTyped
<1>0. HandoffTyped(o)
  BY HandoffTypes
<1>1. CASE Execute(o)
  <2> DEFINE key == attempt + 1
             r == [Idle EXCEPT !.run = "execute", !.pc = "challenge", !.to = to, !.key = key,
                               !.old = proof]
  <2>1. /\ kind = "transfer" /\ op' = [op EXCEPT ![o] = r] /\ kind' = kind
        /\ SetDraftPhase("submitting") /\ UNCHANGED chainVars
        /\ attempt < MaxAttempts /\ attempt' = key
        /\ cache' = [cache EXCEPT ![key] = IF @ = NoQuery THEN [@ EXCEPT !.asks = to] ELSE @]
        /\ pending' = NoAcceptance /\ hookFlags' = hookFlags \union {"preparing"}
        /\ UNCHANGED <<to, proof, blocked, applied, receiver, claim, handoffVars>>
    BY <1>1 DEF Execute, Begin
  <2>2. attempt \in 0..MaxAttempts /\ cache \in [Keys -> Queries]
    BY <1>0 DEF TransferTypeOK
  <2>3. key \in Keys /\ key \in 0..MaxAttempts
    BY <2>1, <2>2, <1>0 DEF Keys
  <2> HIDE DEF key
  <2>4. r \in Operations /\ OperationOK(r)
    <3>1. r \in Operations
      BY <1>0, <2>3 DEF Operations, Idle
    <3>2. OperationOK(r)
      BY DEF OperationOK, Idle
    <3> QED
      BY <3>1, <3>2
  <2> HIDE DEF r
  <2>5. ConsoleMove
    BY <2>1, <1>0, PhaseMove
  <2>6. cache' \in [Keys -> Queries]
    <3>1. cache[key] \in Queries
      BY <2>2, <2>3
    <3>2. [cache[key] EXCEPT !.asks = to] \in Queries
      BY <3>1, <1>0 DEF Queries
    <3> QED
      BY <3>1, <3>2, <2>1, <2>2
  <2>7. TransferTypeOK'
    BY <2>1, <2>3, <2>6, <1>0 DEF TransferTypeOK, handoffVars
  <2>8. hookFlags' \subseteq {"running", "preparing", "writing"}
    BY <2>1, <1>0
  <2> QED
    BY <2>1, <2>4, <2>5, <2>7, <2>8, HandoffMoves
<1>2. CASE CoSign(o)
  <2> DEFINE r == [Idle EXCEPT !.run = "cosign", !.pc = "sign", !.to = to,
                               !.challenge = pending[1], !.old = proof]
  <2>1. /\ kind = "transfer" /\ op' = [op EXCEPT ![o] = r] /\ kind' = kind
        /\ SetDraftPhase("submitting") /\ UNCHANGED chainVars
        /\ hookFlags' = hookFlags \union {"preparing"}
        /\ UNCHANGED <<to, hookVars, queryVars, claim, handoffVars>>
    BY <1>2 DEF CoSign, Begin
  <2>2. r \in Operations /\ OperationOK(r)
    <3>1. pending # NoAcceptance /\ to # None
      BY <1>2 DEF CoSign, CoSignActive, ActiveReceiver
    <3>4. pending[1] \in Challenges /\ pending[1] # 0
      BY <3>1, <1>0 DEF Given, Acceptances, Challenges
    <3>2. r \in Operations
      BY <3>4, <1>0 DEF Operations, Idle
    <3>3. OperationOK(r)
      BY <3>1, <3>4 DEF OperationOK, Idle
    <3> QED
      BY <3>2, <3>3
  <2> HIDE DEF r
  <2>3. ConsoleMove
    BY <2>1, <1>0, PhaseMove
  <2>4. TransferTypeOK'
    BY <2>1, <1>0 DEF TransferTypeOK, hookVars, queryVars, handoffVars
  <2> QED
    BY <2>1, <2>2, <2>3, <2>4, <1>0, HandoffMoves
<1>3. CASE SubmitHandoff(o)
  <2> DEFINE r == [Idle EXCEPT !.run = "submit", !.pc = "wallet", !.to = to,
                               !.code = proof]
  <2>1. /\ kind = "transfer" /\ op' = [op EXCEPT ![o] = r] /\ kind' = kind
        /\ SetDraftPhase("submitting") /\ UNCHANGED chainVars
        /\ hookFlags' = hookFlags \union {"writing"}
        /\ UNCHANGED <<to, hookVars, queryVars, claim, handoffVars>>
    BY <1>3 DEF SubmitHandoff, Begin
  <2>2. r \in Operations /\ OperationOK(r)
    <3>2. r \in Operations
      BY <1>0 DEF Operations, Idle
    <3>3. OperationOK(r)
      BY DEF OperationOK, Idle
    <3> QED
      BY <3>2, <3>3
  <2> HIDE DEF r
  <2>3. ConsoleMove
    BY <2>1, <1>0, PhaseMove
  <2>4. TransferTypeOK'
    BY <2>1, <1>0 DEF TransferTypeOK, hookVars, queryVars, handoffVars
  <2> QED
    BY <2>1, <2>2, <2>3, <2>4, <1>0, HandoffMoves
<1>5. CASE ReceiverUnavailable(o)
  <2>1. /\ op[o].pc = "sign" /\ op' = [op EXCEPT ![o] = Idle] /\ Lowers(o, "preparing")
        /\ OnPage(o, blocked' = TRUE, blocked) /\ SetDraftPhase("review")
        /\ UNCHANGED <<chainVars, kind, to, pending, proof, applied, receiver, queryVars, claim,
                       handoffVars>>
    BY <1>5 DEF ReceiverUnavailable, Done
  <2>2. kind = "transfer" /\ kind' = kind
    BY <2>1, <1>0 DEF HandoffSteps
  <2>3. ConsoleMove
    BY <2>1, <1>0, PhaseMove
  <2>4. blocked' \in BOOLEAN
    BY <2>1, <1>0 DEF OnPage, TransferTypeOK
  <2>5. TransferTypeOK'
    BY <2>1, <2>4, <1>0 DEF TransferTypeOK, queryVars, handoffVars
  <2>6. hookFlags' \subseteq {"running", "preparing", "writing"}
    BY <2>1, <1>0 DEF Lowers
  <2> QED
    BY <2>1, <2>2, <2>3, <2>5, <2>6, <1>0, HandoffMoves
<1>6. CASE Signs(o) \/ Verified(o)
  <2> DEFINE r == [op[o] EXCEPT !.pc = "finalize", !.code = Awaited(o)]
  <2>1. /\ op[o].pc \in {"sign", "verify"}
        /\ UNCHANGED <<consoleVars, kind, hookFlags, to, hookVars, queryVars, claim,
                       challengeTo, shared, accepted>>
        /\ signed' \in {signed, signed \union {Awaited(o)}}
    BY <1>6 DEF Signs, Verified, transferVars, handoffVars
  <2>2. Awaited(o) \in Acceptances
    BY <2>1, <1>0 DEF Awaited, Acceptances, Operations, OperationOK
  <2>3. op' = [op EXCEPT ![o] = r]
    <3>1. CASE Signs(o)
      BY <3>1, <1>0 DEF Signs
    <3>2. CASE Verified(o)
      <4>1. op[o].code = Awaited(o) /\ op' = [op EXCEPT ![o].pc = "finalize"]
        BY <3>2 DEF Verified, AcceptanceFits, Recovers
      <4>2. [op[o] EXCEPT !.pc = "finalize"] = r
        BY <4>1, <1>0 DEF Operations
      <4> QED
        BY <4>1, <4>2
    <3> QED
      BY <1>6, <3>1, <3>2
  <2>4. r \in Operations /\ OperationOK(r)
    <3>1. r \in Operations
      BY <1>0, <2>2 DEF Operations, Given
    <3> QED
      BY <3>1, <2>1, <1>0 DEF Operations, OperationOK
  <2> HIDE DEF r
  <2>5. kind = "transfer" /\ kind' = kind
    BY <2>1, <1>0 DEF HandoffSteps
  <2>6. ConsoleMove
    BY <2>1, StoreIdle
  <2>7. TransferTypeOK'
    BY <2>1, <2>2, <1>0 DEF TransferTypeOK, hookVars, queryVars
  <2>8. hookFlags' \subseteq {"running", "preparing", "writing"}
    BY <2>1, <1>0
  <2> QED
    BY <2>3, <2>4, <2>5, <2>6, <2>7, <2>8, HandoffMoves
<1>7. CASE Finalized(o)
  <2>1. /\ op[o].pc = "finalize" /\ OnPage(o, proof' = Awaited(o), proof)
        /\ UNCHANGED <<kind, to, blocked, receiver, queryVars, claim, handoffVars>>
    BY <1>7 DEF Finalized
  <2>0. Awaited(o) \in Given /\ op[o].old \in Given
    BY <2>1, <1>0 DEF Awaited, Acceptances, Given, Operations, OperationOK
  <2>2. kind = "transfer" /\ kind' = kind
    BY <2>1, <1>0 DEF HandoffSteps
  <2>3. proof' \in Given
    BY <2>0, <2>1, <1>0 DEF OnPage, TransferTypeOK
  <2>4. CASE op[o].run = "apply"
    <3>1. /\ op' = [op EXCEPT ![o] = Idle] /\ Lowers(o, "preparing")
          /\ OnPage(o, pending' = NoAcceptance /\ applied' = TRUE, <<pending, applied>>)
          /\ SetDraftPhase("review") /\ UNCHANGED chainVars
      BY <1>7, <2>4 DEF Finalized, Done
    <3>2. ConsoleMove
      BY <3>1, <1>0, PhaseMove
    <3>3. pending' \in Given /\ applied' \in BOOLEAN
      BY <3>1, <1>0 DEF OnPage, TransferTypeOK
    <3>4. TransferTypeOK'
      BY <3>3, <2>1, <2>3, <1>0 DEF TransferTypeOK, queryVars, handoffVars
    <3>5. hookFlags' \subseteq {"running", "preparing", "writing"}
      BY <3>1, <1>0 DEF Lowers
    <3> QED
      BY <3>1, <3>2, <3>4, <3>5, <2>2, <1>0, HandoffMoves
  <2>5. CASE op[o].run # "apply"
    <3> DEFINE r == [op[o] EXCEPT !.pc = "wallet",
                       !.code = IF op[o].old # NoAcceptance THEN op[o].old ELSE Awaited(o)]
    <3>1. /\ op' = [op EXCEPT ![o] = r]
          /\ OnPage(o, hookFlags' = (hookFlags \ {"preparing"}) \union {"writing"}, hookFlags)
          /\ OnPage(o, pending' = IF op[o].run = "cosign" THEN NoAcceptance ELSE pending, pending)
          /\ UNCHANGED <<consoleVars, applied>>
      BY <1>7, <2>5, <1>0 DEF Finalized
    <3>2. r \in Operations /\ OperationOK(r)
      BY <1>0, <2>0 DEF Operations, OperationOK
    <3> HIDE DEF r
    <3>3. ConsoleMove
      BY <3>1, StoreIdle
    <3>4. pending' \in Given
      BY <3>1, <1>0 DEF OnPage, TransferTypeOK
    <3>5. TransferTypeOK'
      BY <3>1, <3>4, <2>1, <2>3, <1>0 DEF TransferTypeOK, queryVars, handoffVars
    <3>6. hookFlags' \subseteq {"running", "preparing", "writing"}
      BY <3>1, <1>0 DEF OnPage
    <3> QED
      BY <3>1, <3>2, <3>3, <3>5, <3>6, <2>2, HandoffMoves
  <2> QED
    BY <2>4, <2>5
<1>8. CASE TransferSent(o)
  <2>1. /\ kind = "transfer" /\ sent < MaxSent /\ sent' = sent + 1
        /\ Settle(sent + 1, "receipt") /\ op' = [op EXCEPT ![o] = Idle] /\ Lowers(o, "writing")
        /\ OnPage(o, applied' = (applied /\ op[o].run # "submit"), applied)
        /\ UNCHANGED <<mined, kind, to, pending, proof, blocked, receiver, queryVars, claim,
                       handoffVars>>
    BY <1>8 DEF TransferSent, Done
  <2>2. sent + 1 \in Hashes /\ sent' \in 0..MaxSent
    BY <2>1, <1>0 DEF Hashes
  <2>3. ConsoleMove
    BY <2>1, <2>2, <1>0, SettleMove
  <2>4. applied' \in BOOLEAN
    BY <2>1, <1>0 DEF OnPage, TransferTypeOK
  <2>5. TransferTypeOK'
    BY <2>1, <2>4, <1>0 DEF TransferTypeOK, queryVars, handoffVars
  <2>6. hookFlags' \subseteq {"running", "preparing", "writing"} /\ kind' = kind
    BY <2>1, <1>0 DEF Lowers
  <2> QED
    BY <2>1, <2>3, <2>5, <2>6, <1>0, HandoffMoves
<1>9. CASE TransferFails(o)
  BY <1>9, TransferFailsMoves
<1> QED
  BY <1>1, <1>2, <1>3, <1>5, <1>6, <1>7, <1>8, <1>9

\* The store's part of a page's step, when only the hand-over's variables move.
LEMMA OnlyHandoff ==
    ASSUME PageInv, UNCHANGED <<consoleVars, pageVars, pending>>, TransferTypeOK'
    PROVE  Moves
<1>1. ConsoleMove
  BY StoreIdle DEF PageInv
<1>2. OpMove
  BY DEF PageInv, OpMove, pageVars, OpsInv, AloneInv, KeepsFlag
<1> QED
  BY <1>1, <1>2 DEF Moves

\* The receiver's side and the ways back.
LEMMA ReceiverMoves ==
    ASSUME PageInv,
           \/ CopyHandoffLink
           \/ \E key \in Keys : ChallengeExpires(key)
           \/ \E code \in shared : ReceiverSignsElsewhere(code)
           \/ \E o \in Ops, code \in shared : StorageEvent(o, code)
           \/ \E o \in Ops, code \in accepted : PasteCode(o, code)
           \/ \E o \in Ops : ClaimApplies(o)
    PROVE  Moves
<1>0. /\ TransferTypeOK
      /\ shared \subseteq Acceptances /\ accepted \subseteq shared
      /\ pending \in Given /\ claim \in Given
  BY DEF PageInv, TransferTypeOK
<1>1. CASE CopyHandoffLink
  <2>1. /\ pending # NoAcceptance /\ shared' = shared \union {pending}
        /\ UNCHANGED <<consoleVars, pageVars, to, hookVars, queryVars, claim, challengeTo,
                       accepted, signed>>
    BY <1>1 DEF CopyHandoffLink
  <2>2. shared' \subseteq Acceptances /\ accepted' \subseteq shared'
    BY <2>1, <1>0 DEF Given
  <2>3. TransferTypeOK'
    BY <2>1, <2>2, <1>0 DEF TransferTypeOK, hookVars, queryVars
  <2> QED
    BY <2>1, <2>3, OnlyHandoff DEF hookVars
<1>2. ASSUME NEW code, ReceiverSigns(code) PROVE TransferTypeOK'
  BY <1>2, <1>0 DEF ReceiverSigns, TransferTypeOK, hookVars, queryVars
<1>3. ASSUME NEW code \in shared, ReceiverSignsElsewhere(code) PROVE Moves
  BY <1>2, <1>3, OnlyHandoff DEF ReceiverSignsElsewhere, ReceiverSigns, hookVars
<1>4. ASSUME NEW o \in Ops, NEW code \in shared, StorageEvent(o, code) PROVE Moves
  <2>1. Apply(o, code) /\ ReceiverSigns(code) /\ UNCHANGED <<chainVars, kind>>
    BY <1>4 DEF StorageEvent
  <2>2. code \in Acceptances
    BY <2>1, <1>0 DEF ReceiverSigns
  <2> QED
    BY <2>1, <2>2, <1>2, ApplyMoves
<1>5. ASSUME NEW o \in Ops, NEW code \in accepted, PasteCode(o, code) PROVE Moves
  <2>1. Apply(o, code) /\ UNCHANGED <<chainVars, kind, transferVars>>
    BY <1>5 DEF PasteCode
  <2>2. code \in Acceptances
    BY <1>0, <1>5
  <2>3. TransferTypeOK'
    BY <2>1, <1>0 DEF TransferTypeOK, transferVars, hookVars, queryVars, handoffVars
  <2> QED
    BY <2>1, <2>2, <2>3, ApplyMoves
<1>6. ASSUME NEW o \in Ops, ClaimApplies(o) PROVE Moves
  <2>1. claim # NoAcceptance /\ claim' = NoAcceptance
        /\ UNCHANGED <<to, hookVars, queryVars, handoffVars>>
    BY <1>6 DEF ClaimApplies
  <2>2. TransferTypeOK'
    BY <2>1, <1>0 DEF Given, TransferTypeOK, hookVars, queryVars, handoffVars
  <2>3. CASE Busy
    BY <1>6, <2>1, <2>2, <2>3, OnlyHandoff DEF ClaimApplies, hookVars
  <2>4. CASE ~Busy
    <3>1. Apply(o, claim) /\ UNCHANGED <<chainVars, kind>>
      BY <1>6, <2>4 DEF ClaimApplies
    <3>2. claim \in Acceptances
      BY <2>1, <1>0 DEF Given
    <3> QED
      BY <3>1, <3>2, <2>2, ApplyMoves
  <2> QED
    BY <2>3, <2>4
<1>7. ASSUME NEW key \in Keys, ChallengeExpires(key) PROVE Moves
  <2>1. /\ cache' = [cache EXCEPT ![key] = NoQuery]
        /\ UNCHANGED <<consoleVars, pageVars, to, hookVars, attempt, claim, handoffVars>>
    BY <1>7 DEF ChallengeExpires
  <2>2. NoQuery \in Queries
    BY DEF NoQuery, Queries
  <2>3. cache' \in [Keys -> Queries]
    BY <2>1, <2>2, <1>0 DEF TransferTypeOK
  <2>4. TransferTypeOK'
    BY <2>1, <2>3, <1>0 DEF TransferTypeOK, hookVars, handoffVars
  <2> QED
    BY <2>1, <2>4, OnlyHandoff DEF hookVars
<1> QED
  BY <1>1, <1>3, <1>4, <1>5, <1>6, <1>7

\* No step of the browser breaks the invariant of the store and the pages.
LEMMA PageStep ==
    ASSUME PageInv, [Next]_vars
    PROVE  PageInv'
<1>1. ASSUME Moves PROVE PageInv'
  BY <1>1, ConsoleMoveKeeps, OpMoveKeeps DEF PageInv, Moves
<1>2. ASSUME UNCHANGED <<consoleVars, pageVars, transferVars>> PROVE PageInv'
  <2>1. TransferTypeOK' /\ UNCHANGED pending
    BY <1>2 DEF PageInv, TransferTypeOK, transferVars, hookVars, queryVars, handoffVars
  <2> QED
    BY <2>1, <1>1, <1>2, OnlyHandoff
<1>3. CASE UserStep
  BY <1>1, <1>3, UserMoves
<1>4. CASE TransferStep
  BY <1>1, <1>4, HandoverMoves, ChallengeArrivesMoves, ReceiverMoves DEF TransferStep
<1>5. CASE OperationStep
  BY <1>1, <1>5, OperationMoves
<1>6. ASSUME ConsoleMove, UNCHANGED <<pageVars, transferVars>> PROVE PageInv'
  <2>1. ConsoleInv'
    BY <1>6, ConsoleMoveKeeps DEF PageInv
  <2>2. TransferTypeOK'
    BY <1>6 DEF PageInv, TransferTypeOK, transferVars, hookVars, queryVars, handoffVars
  <2>3. OpMove
    BY <1>6 DEF PageInv, OpMove, OpsInv, AloneInv, KeepsFlag, pageVars, transferVars, hookVars
  <2> QED
    BY <2>1, <2>2, <2>3, OpMoveKeeps DEF PageInv
<1>7. CASE ChainStep
  BY <1>6, <1>7 DEF ChainStep, ConsoleMove
<1>8. ASSUME NEW wait \in watching, WaitEnds(wait) PROVE PageInv'
  <2>1. ConsoleMove /\ UNCHANGED <<pageVars, transferVars>>
    BY <1>8 DEF WaitEnds, ConsoleMove
  <2> QED
    BY <2>1, <1>6
<1>9. CASE UNCHANGED vars
  BY <1>2, <1>9 DEF vars
<1> QED
  BY <1>2, <1>3, <1>4, <1>5, <1>7, <1>8, <1>9 DEF Next

\* The invariant holds of a browser that was just opened.
LEMMA PageInitial == Init => PageInv
<1> SUFFICES ASSUME Init PROVE PageInv
  OBVIOUS
<1>1. ConsoleInv
  <2>1. ConsoleInit
    BY DEF Init
  <2>2. << >> \in Seq(Row) /\ Len(<< >>) = 0 /\ DOMAIN << >> = {}
    BY EmptySeq
  <2>3. sent \in 0..MaxSent
    BY <2>1, ConsoleAssumption DEF ConsoleInit
  <2> QED
    BY <2>1, <2>2, <2>3, ConsoleAssumption DEF ConsoleInit, ConsoleInv, ConsoleTypeOK, Phases
<1>2. OpsInv
  BY IdleType DEF Init, PageInit, OpsInv
<1>3. TransferTypeOK
  <2>1. challengeTo \in Seq(Users) /\ Len(challengeTo) <= MaxWork
    <3>1. << >> \in Seq(Users) /\ Len(<< >>) = 0
      BY EmptySeq
    <3> QED
      BY <3>1, TransferAssumption DEF Init, TransferInit
  <2>2. /\ to = None /\ pending \in Given /\ proof \in Given /\ claim \in Given /\ receiver = None
        /\ blocked \in BOOLEAN /\ applied \in BOOLEAN /\ shared = {} /\ accepted = {}
        /\ signed = {} /\ attempt \in 0..MaxAttempts /\ cache \in [Keys -> Queries]
    <3>1. 0 \in 0..MaxAttempts
      BY TransferAssumption
    <3> QED
      BY <3>1, NoQueries DEF Init, TransferInit, Given
  <2> QED
    BY <2>1, <2>2 DEF TransferTypeOK
<1>4. AloneInv
  BY IdleType DEF Init, PageInit, TransferInit, AloneInv, OneAtATime, Running, HandoffSteps
<1> QED
  BY <1>1, <1>2, <1>3, <1>4 DEF PageInv

\* The invariant of the store and the pages holds throughout.
LEMMA PageAlways == Spec => []PageInv
<1>1. PageInv /\ [Next]_vars => PageInv'
  BY PageStep
<1> QED
  BY <1>1, PageInitial, PTL DEF Spec

\* A row says confirmed or reverted only of what the chain did, whichever of its two
\* waits came first, for any number of transactions, rows and reloads.
THEOREM RowsAreTrue == Spec => []RowsTellTheChain
<1>1. PageInv => RowsTellTheChain
  BY DEF PageInv, ConsoleInv, TruthOfRow, RowsTellTheChain, RowsOf
<1> QED
  BY <1>1, PageAlways, PTL

-----------------------------------------------------------------------------
(* What receivers have signed.                                              *)

Signed == signed \union accepted

\* A transfer's operation, given what is signed: the acceptance it is to verify has come
\* from its receiver, the one it finalizes is of its own challenge and recipient, and the
\* proof it began with, or sends, is one of them.
HandOK(r, given) ==
    /\ r.run \in {"none", "execute", "cosign", "apply", "submit"}
    /\ r.pc \in HandoffSteps \union {"idle", "wallet"}
    /\ r.old \in given \union {NoAcceptance}
    /\ r.pc \in {"verify", "finalize", "wallet"} => r.code \in given
    /\ r.pc = "finalize" => r.code = <<r.challenge, r.to>>

HandInv ==
    /\ claim \in accepted \union {NoAcceptance}
    /\ proof \in Signed \union {NoAcceptance}
    /\ kind = "transfer" => \A o \in Ops : HandOK(op[o], Signed)

\* What an operation that does not run has to do with it: nothing.
LEMMA IdleHand == \A given : HandOK(Idle, given)
BY DEF HandOK, Idle

\* More is signed, the page is left, or the query is removed.
LEMMA HandStays ==
    ASSUME NEW r \in Operations, NEW given, HandOK(r, given), NEW more, given \subseteq more
    PROVE  /\ HandOK(r, more) /\ HandOK([r EXCEPT !.live = FALSE], more)
           /\ HandOK([r EXCEPT !.key = 0], more)
<1>1. ASSUME NEW s, s.run = r.run, s.pc = r.pc, s.old = r.old, s.code = r.code,
             s.challenge = r.challenge, s.to = r.to
      PROVE  HandOK(s, more)
  BY <1>1 DEF HandOK
<1> DEFINE away == [r EXCEPT !.live = FALSE]
           alone == [r EXCEPT !.key = 0]
<1>2. /\ away.run = r.run /\ away.pc = r.pc /\ away.old = r.old /\ away.code = r.code
      /\ away.challenge = r.challenge /\ away.to = r.to
  BY DEF Operations
<1>3. /\ alone.run = r.run /\ alone.pc = r.pc /\ alone.old = r.old /\ alone.code = r.code
      /\ alone.challenge = r.challenge /\ alone.to = r.to
  BY DEF Operations
<1> HIDE DEF away, alone
<1>4. HandOK(r, more) /\ HandOK(away, more) /\ HandOK(alone, more)
  BY <1>1, <1>2, <1>3
<1> QED
  BY <1>4 DEF away, alone

\* What a step may do to keep it so. Nothing that was signed is forgotten.
LEMMA HandKeeps ==
    ASSUME PageInv, HandInv, kind' = kind, signed \subseteq signed', accepted \subseteq accepted',
           claim' \in {claim, NoAcceptance} \union accepted',
           proof' \in {proof, NoAcceptance} \union Signed',
           kind = "transfer" => \A o \in Ops : op'[o] = op[o] \/ HandOK(op'[o], Signed')
    PROVE  HandInv'
<1>1. Signed \subseteq Signed'
  BY DEF Signed
<1>2. \A o \in Ops : op[o] \in Operations
  BY DEF PageInv, OpsInv
<1>3. claim' \in accepted' \union {NoAcceptance} /\ proof' \in Signed' \union {NoAcceptance}
  BY <1>1 DEF HandInv
<1>4. ASSUME kind = "transfer", NEW o \in Ops PROVE HandOK(op'[o], Signed')
  <2>1. HandOK(op[o], Signed')
    BY <1>1, <1>2, <1>4, HandStays DEF HandInv
  <2> QED
    BY <2>1, <1>4
<1>5. (kind = "transfer" => \A o \in Ops : HandOK(op[o], Signed))'
  BY <1>4
<1> QED
  BY <1>3, <1>5 DEF HandInv

\* One operation is replaced by what it has become.
LEMMA HandReplaces ==
    ASSUME PageInv, HandInv, NEW o \in Ops, NEW r, op' = [op EXCEPT ![o] = r],
           kind' = kind, signed \subseteq signed', accepted \subseteq accepted',
           claim' \in {claim, NoAcceptance} \union accepted',
           proof' \in {proof, NoAcceptance} \union Signed', HandOK(r, Signed')
    PROVE  HandInv'
<1>1. op \in [Ops -> Operations]
  BY DEF PageInv, OpsInv
<1>2. \A p \in Ops : op'[p] = op[p] \/ HandOK(op'[p], Signed')
  BY <1>1
<1> QED
  BY <1>2, HandKeeps

\* The user, the chain and the chat sign nothing.
LEMMA UserHand ==
    ASSUME PageInv, HandInv, UserStep
    PROVE  HandInv'
<1>0. op \in [Ops -> Operations] /\ \A o \in Ops : op[o] \in Operations
  BY DEF PageInv, OpsInv
<1>1. ASSUME NEW user \in Users, Edit(user) PROVE HandInv'
  BY <1>1, HandKeeps DEF Edit, pageVars, hookVars, handoffVars
<1>2. CASE Opens
  BY <1>2, HandKeeps DEF Opens, pageVars, transferVars, hookVars, handoffVars
<1>3. ASSUME ResetHandoff, UNCHANGED <<kind, claim, handoffVars>> PROVE HandInv'
  <2>1. op' = Cancelled(Keys) /\ proof' = NoAcceptance /\ UNCHANGED <<signed, accepted>>
    BY <1>3 DEF ResetHandoff, ForgetsHandoff, handoffVars
  <2>2. Signed' = Signed
    BY <2>1 DEF Signed
  <2>3. ASSUME kind = "transfer", NEW o \in Ops PROVE op'[o] = op[o] \/ HandOK(op'[o], Signed')
    <3>1. op'[o] = op[o] \/ op'[o] = [op[o] EXCEPT !.key = 0]
      BY <2>1 DEF Cancelled
    <3>2. HandOK([op[o] EXCEPT !.key = 0], Signed')
      BY <1>0, <2>2, <2>3, HandStays DEF HandInv
    <3> QED
      BY <3>1, <3>2
  <2> QED
    BY <2>1, <2>3, <1>3, HandKeeps
<1>4. CASE Close
  <2>1. CASE kind = "transfer"
    BY <2>1, <1>3, <1>4 DEF Close
  <2>2. CASE kind # "transfer"
    BY <2>2, <1>4, HandKeeps DEF Close, hookVars, handoffVars
  <2> QED
    BY <2>1, <2>2
<1>5. CASE Restart
  BY <1>3, <1>5 DEF Restart
<1>6. CASE Remount
  <2>1. /\ LeavePage /\ proof' = NoAcceptance /\ claim' = NoAcceptance
        /\ UNCHANGED <<kind, signed, accepted>>
    BY <1>6 DEF Remount, ForgetsHandoff, handoffVars
  <2>2. Signed' = Signed
    BY <2>1 DEF Signed
  <2>3. ASSUME kind = "transfer", NEW o \in Ops PROVE HandOK(op'[o], Signed')
    <3>1. op'[o] = Idle \/ op'[o] = [op[o] EXCEPT !.live = FALSE]
      BY <2>1 DEF LeavePage
    <3>2. HandOK([op[o] EXCEPT !.live = FALSE], Signed')
      BY <1>0, <2>2, <2>3, HandStays DEF HandInv
    <3> QED
      BY <3>1, <3>2, IdleHand
  <2> QED
    BY <2>1, <2>3, HandKeeps
<1>7. ASSUME NEW opened \in {NoAcceptance} \union accepted, Reload(opened) PROVE HandInv'
  <2>1. /\ LosePage /\ proof' = NoAcceptance /\ claim' = opened
        /\ UNCHANGED <<kind, signed, accepted>>
    BY <1>7 DEF Reload, ForgetsHandoff, handoffVars
  <2>2. \A o \in Ops : HandOK(op'[o], Signed')
    BY <2>1, IdleHand DEF LosePage
  <2> QED
    BY <2>1, <2>2, HandKeeps
<1> QED
  BY <1>1, <1>2, <1>4, <1>5, <1>6, <1>7 DEF UserStep

\* The operations of the other pages are not a transfer's.
LEMMA OperationHand ==
    ASSUME PageInv, HandInv, OperationStep
    PROVE  HandInv'
<1>1. UNCHANGED transferVars /\ kind' = kind
  BY DEF OperationStep, Approve, Pay, MintOrVault, Tick, Start, AllowanceRead, ApprovalSent,
         ApprovalMined, CallSent, Refetched, TickCompletes, OperationFails
<1>2. UNCHANGED <<claim, proof, signed, accepted>>
  BY <1>1 DEF transferVars, hookVars, handoffVars
<1>3. kind # "transfer"
  <2> SUFFICES ASSUME kind = "transfer" PROVE FALSE
    OBVIOUS
  <2>1. \A o \in Ops : op[o].run \notin {"pay", "mint", "vault"}
    BY DEF HandInv, HandOK
  <2>2. \A o \in Ops : op[o].pc \notin {"price", "approve", "approval", "refetch", "stream"}
    BY DEF HandInv, HandOK, HandoffSteps
  <2> QED
    BY <2>1, <2>2 DEF OperationStep, Approve, Pay, MintOrVault, Tick, AllowanceRead,
         ApprovalSent, ApprovalMined, CallSent, Refetched, TickCompletes, OperationFails
<1> QED
  BY <1>1, <1>2, <1>3, HandKeeps

\* The steps of a hand-over at the sender's page.
LEMMA HandoverHand ==
    ASSUME PageInv, HandInv, NEW o \in Ops,
           \/ Execute(o) \/ CoSign(o) \/ SubmitHandoff(o)
           \/ \E challenge \in Challenges : ChallengeArrives(o, challenge)
           \/ ReceiverUnavailable(o) \/ Signs(o) \/ Verified(o) \/ Finalized(o)
           \/ TransferSent(o) \/ TransferFails(o)
    PROVE  HandInv'
<1>0. /\ op \in [Ops -> Operations] /\ \A p \in Ops : op[p] \in Operations
      /\ op[o].pc \in HandoffSteps => kind = "transfer"
      /\ kind = "transfer" => \A p \in Ops : HandOK(op[p], Signed)
      /\ proof \in Signed \union {NoAcceptance}
  BY DEF PageInv, OpsInv, AloneInv, HandInv
<1>1. CASE Execute(o)
  <2> DEFINE r == [Idle EXCEPT !.run = "execute", !.pc = "challenge", !.to = to,
                               !.key = attempt + 1, !.old = proof]
  <2>1. /\ op' = [op EXCEPT ![o] = r] /\ UNCHANGED <<kind, proof, claim, signed, accepted>>
    BY <1>1 DEF Execute, Begin, handoffVars
  <2>2. HandOK(r, Signed')
    <3>1. r.run = "execute" /\ r.pc = "challenge" /\ r.old = proof
      BY DEF Idle
    <3> HIDE DEF r
    <3> QED
      BY <3>1, <2>1, <1>0 DEF HandOK, HandoffSteps, Signed
  <2> HIDE DEF r
  <2> QED
    BY <2>1, <2>2, HandReplaces
<1>2. CASE CoSign(o)
  <2> DEFINE r == [Idle EXCEPT !.run = "cosign", !.pc = "sign", !.to = to,
                               !.challenge = pending[1], !.old = proof]
  <2>1. /\ op' = [op EXCEPT ![o] = r] /\ UNCHANGED <<kind, proof, claim, signed, accepted>>
    BY <1>2 DEF CoSign, Begin, hookVars, handoffVars
  <2>2. HandOK(r, Signed')
    <3>1. r.run = "cosign" /\ r.pc = "sign" /\ r.old = proof
      BY DEF Idle
    <3> HIDE DEF r
    <3> QED
      BY <3>1, <2>1, <1>0 DEF HandOK, HandoffSteps, Signed
  <2> HIDE DEF r
  <2> QED
    BY <2>1, <2>2, HandReplaces
<1>3. CASE SubmitHandoff(o)
  <2> DEFINE r == [Idle EXCEPT !.run = "submit", !.pc = "wallet", !.to = to, !.code = proof]
  <2>1. /\ op' = [op EXCEPT ![o] = r] /\ UNCHANGED <<kind, proof, claim, signed, accepted>>
        /\ proof # NoAcceptance
    BY <1>3 DEF SubmitHandoff, Begin, hookVars, handoffVars
  <2>2. HandOK(r, Signed')
    <3>1. r.run = "submit" /\ r.pc = "wallet" /\ r.old = NoAcceptance /\ r.code = proof
      BY DEF Idle
    <3> HIDE DEF r
    <3> QED
      BY <3>1, <2>1, <1>0 DEF HandOK, Signed
  <2> HIDE DEF r
  <2> QED
    BY <2>1, <2>2, HandReplaces
<1>4. ASSUME NEW challenge \in Challenges, ChallengeArrives(o, challenge) PROVE HandInv'
  <2>1. /\ op[o].pc = "challenge" /\ UNCHANGED <<kind, claim, signed, accepted>> /\ proof' = proof
    BY <1>4 DEF ChallengeArrives, hookVars
  <2>2. HandOK(op[o], Signed')
    BY <2>1, <1>0 DEF HandoffSteps, Signed
  <2>3. CASE op[o].to = Owner
    <3> DEFINE r == [op[o] EXCEPT !.pc = "sign", !.key = 0, !.challenge = challenge]
    <3>1. op' = [op EXCEPT ![o] = r]
      BY <1>0, <1>4, <2>3 DEF ChallengeArrives
    <3>2. r.run = op[o].run /\ r.pc = "sign" /\ r.old = op[o].old
      BY <1>0 DEF Operations
    <3> HIDE DEF r
    <3>3. HandOK(r, Signed')
      BY <3>2, <2>2 DEF HandOK, HandoffSteps
    <3> QED
      BY <3>1, <3>3, <2>1, HandReplaces
  <2>4. CASE op[o].to # Owner
    <3>1. op' = [op EXCEPT ![o] = Idle]
      BY <1>4, <2>4 DEF ChallengeArrives, Done
    <3> QED
      BY <3>1, <2>1, IdleHand, HandReplaces
  <2> QED
    BY <2>3, <2>4
<1>5. CASE ReceiverUnavailable(o)
  <2>1. op' = [op EXCEPT ![o] = Idle] /\ UNCHANGED <<kind, proof, claim, signed, accepted>>
    BY <1>5 DEF ReceiverUnavailable, Done, handoffVars
  <2> QED
    BY <2>1, IdleHand, HandReplaces
<1>6. CASE Signs(o)
  <2> DEFINE r == [op[o] EXCEPT !.pc = "finalize", !.code = Awaited(o)]
  <2>1. /\ op' = [op EXCEPT ![o] = r] /\ op[o].pc = "sign" /\ signed' = signed \union {Awaited(o)}
        /\ UNCHANGED <<kind, claim, accepted>> /\ proof' = proof
    BY <1>0, <1>6 DEF Signs, hookVars
  <2>2. HandOK(op[o], Signed)
    BY <2>1, <1>0 DEF HandoffSteps
  <2>3. /\ r.run = op[o].run /\ r.pc = "finalize" /\ r.old = op[o].old
        /\ r.code = <<r.challenge, r.to>> /\ r.code = Awaited(o)
    BY <1>0 DEF Operations, Awaited
  <2> HIDE DEF r
  <2>4. HandOK(r, Signed')
    <3>1. Signed' = Signed \union {Awaited(o)}
      BY <2>1 DEF Signed
    <3> QED
      BY <3>1, <2>2, <2>3 DEF HandOK, HandoffSteps
  <2> QED
    BY <2>1, <2>4, HandReplaces
<1>7. CASE Verified(o)
  <2> DEFINE r == [op[o] EXCEPT !.pc = "finalize"]
  <2>1. /\ op' = [op EXCEPT ![o] = r] /\ op[o].pc = "verify" /\ op[o].code = Awaited(o)
        /\ UNCHANGED <<kind, claim, proof, signed, accepted>>
    BY <1>0, <1>7 DEF Verified, AcceptanceFits, Recovers, transferVars, hookVars, handoffVars
  <2>2. HandOK(op[o], Signed)
    BY <2>1, <1>0 DEF HandoffSteps
  <2>3. /\ r.run = op[o].run /\ r.pc = "finalize" /\ r.old = op[o].old
        /\ r.code = op[o].code /\ r.code = <<r.challenge, r.to>>
    BY <2>1, <1>0 DEF Operations, Awaited
  <2> HIDE DEF r
  <2>4. HandOK(r, Signed')
    BY <2>1, <2>2, <2>3 DEF HandOK, HandoffSteps, Signed
  <2> QED
    BY <2>1, <2>4, HandReplaces
<1>8. CASE Finalized(o)
  <2>1. /\ op[o].pc = "finalize" /\ OnPage(o, proof' = Awaited(o), proof)
        /\ UNCHANGED <<kind, claim, signed, accepted>>
    BY <1>8 DEF Finalized, handoffVars
  <2>2. HandOK(op[o], Signed) /\ Signed' = Signed
    BY <2>1, <1>0 DEF HandoffSteps, Signed
  <2>3. Awaited(o) \in Signed /\ op[o].old \in Signed \union {NoAcceptance}
    BY <2>1, <2>2 DEF HandOK, Awaited
  <2>4. proof' \in {proof, NoAcceptance} \union Signed'
    BY <2>1, <2>2, <2>3 DEF OnPage
  <2>5. CASE op[o].run = "apply"
    <3>1. op' = [op EXCEPT ![o] = Idle]
      BY <1>8, <2>5 DEF Finalized, Done
    <3> QED
      BY <3>1, <2>1, <2>4, IdleHand, HandReplaces
  <2>6. CASE op[o].run # "apply"
    <3> DEFINE code == IF op[o].old # NoAcceptance THEN op[o].old ELSE Awaited(o)
               r == [op[o] EXCEPT !.pc = "wallet", !.code = code]
    <3>1. op' = [op EXCEPT ![o] = r]
      BY <1>0, <1>8, <2>6 DEF Finalized
    <3>2. code \in Signed
      BY <2>3
    <3> HIDE DEF code
    <3>3. r.run = op[o].run /\ r.pc = "wallet" /\ r.old = op[o].old /\ r.code = code
      BY <1>0 DEF Operations
    <3> HIDE DEF r
    <3>4. HandOK(r, Signed')
      BY <3>2, <3>3, <2>2 DEF HandOK
    <3> QED
      BY <3>1, <3>4, <2>1, <2>4, HandReplaces
  <2> QED
    BY <2>5, <2>6
<1>9. CASE TransferSent(o)
  <2>1. op' = [op EXCEPT ![o] = Idle] /\ UNCHANGED <<kind, proof, claim, signed, accepted>>
    BY <1>9 DEF TransferSent, Done, handoffVars
  <2> QED
    BY <2>1, IdleHand, HandReplaces
<1>10. CASE TransferFails(o)
  <2>1. kind = "transfer" /\ UNCHANGED <<kind, proof, claim, signed, accepted>>
    BY <1>10 DEF TransferFails, hookVars, handoffVars
  <2>2. Signed' = Signed
    BY <2>1 DEF Signed
  <2>3. CASE op[o].pc = "challenge" /\ op[o].key # 0
    <3> DEFINE others == Cancelled({op[o].key})
    <3>1. op' = [others EXCEPT ![o] = Idle]
      BY <1>10, <2>3 DEF TransferFails
    <3>2. DOMAIN others = Ops
      BY DEF Cancelled
    <3>3. ASSUME NEW p \in Ops PROVE op'[p] = op[p] \/ HandOK(op'[p], Signed')
      <4>1. others[p] = op[p] \/ others[p] = [op[p] EXCEPT !.key = 0]
        BY DEF Cancelled
      <4>2. HandOK([op[p] EXCEPT !.key = 0], Signed')
        BY <1>0, <2>1, <2>2, HandStays
      <4> HIDE DEF others
      <4>3. op'[p] = Idle \/ op'[p] = others[p]
        BY <3>1, <3>2
      <4> QED
        BY <4>1, <4>2, <4>3, IdleHand
    <3> QED
      BY <3>3, <2>1, HandKeeps
  <2>4. CASE ~(op[o].pc = "challenge" /\ op[o].key # 0)
    <3>1. op' = [op EXCEPT ![o] = Idle]
      BY <1>10, <2>4 DEF TransferFails, Done
    <3> QED
      BY <3>1, <2>1, IdleHand, HandReplaces
  <2> QED
    BY <2>3, <2>4
<1> QED
  BY <1>1, <1>2, <1>3, <1>4, <1>5, <1>6, <1>7, <1>8, <1>9, <1>10

\* An acceptance is applied to the challenge that waits: its receiver has signed it.
LEMMA ApplyHand ==
    ASSUME PageInv, HandInv, NEW o \in Ops, NEW code \in accepted', Apply(o, code),
           UNCHANGED <<kind, proof, signed>>, accepted \subseteq accepted',
           claim' \in {claim, NoAcceptance}
    PROVE  HandInv'
<1> DEFINE r == [Idle EXCEPT !.run = "apply", !.pc = "verify", !.to = pending[2],
                             !.challenge = pending[1], !.code = code]
<1>1. op' = [op EXCEPT ![o] = r]
  BY DEF Apply, Begin
<1>2. r.run = "apply" /\ r.pc = "verify" /\ r.old = NoAcceptance /\ r.code = code
  BY DEF Idle
<1> HIDE DEF r
<1>3. code \in Signed'
  BY DEF Signed
<1>4. HandOK(r, Signed')
  BY <1>2, <1>3 DEF HandOK, HandoffSteps
<1> QED
  BY <1>1, <1>4, HandReplaces

\* The receiver's side and the ways back.
LEMMA ReceiverHand ==
    ASSUME PageInv, HandInv,
           \/ CopyHandoffLink
           \/ \E key \in Keys : ChallengeExpires(key)
           \/ \E code \in shared : ReceiverSignsElsewhere(code)
           \/ \E o \in Ops, code \in shared : StorageEvent(o, code)
           \/ \E o \in Ops, code \in accepted : PasteCode(o, code)
           \/ \E o \in Ops : ClaimApplies(o)
    PROVE  HandInv'
<1>1. ASSUME UNCHANGED <<kind, op, proof, signed>>, accepted \subseteq accepted',
             claim' \in {claim, NoAcceptance}
      PROVE  HandInv'
  BY <1>1, HandKeeps
<1>2. CASE CopyHandoffLink
  BY <1>1, <1>2 DEF CopyHandoffLink, pageVars, hookVars
<1>3. CASE \E key \in Keys : ChallengeExpires(key)
  BY <1>1, <1>3 DEF ChallengeExpires, pageVars, hookVars, handoffVars
<1>4. ASSUME NEW code \in shared, ReceiverSignsElsewhere(code) PROVE HandInv'
  BY <1>1, <1>4 DEF ReceiverSignsElsewhere, ReceiverSigns, pageVars, hookVars
<1>5. ASSUME NEW o \in Ops, NEW code \in shared, StorageEvent(o, code) PROVE HandInv'
  <2>1. /\ Apply(o, code) /\ code \in accepted' /\ accepted \subseteq accepted'
        /\ UNCHANGED <<kind, proof, claim, signed>>
    BY <1>5 DEF StorageEvent, ReceiverSigns, hookVars
  <2> QED
    BY <2>1, ApplyHand
<1>6. ASSUME NEW o \in Ops, NEW code \in accepted, PasteCode(o, code) PROVE HandInv'
  <2>1. Apply(o, code) /\ UNCHANGED <<kind, proof, claim, signed, accepted>>
    BY <1>6 DEF PasteCode, transferVars, hookVars, handoffVars
  <2> QED
    BY <2>1, <1>6, ApplyHand
<1>7. ASSUME NEW o \in Ops, ClaimApplies(o) PROVE HandInv'
  <2>1. /\ claim \in accepted /\ claim' = NoAcceptance
        /\ UNCHANGED <<proof, signed, accepted>>
    BY <1>7 DEF ClaimApplies, HandInv, hookVars, handoffVars
  <2>2. CASE Busy
    BY <2>1, <2>2, <1>1, <1>7 DEF ClaimApplies, pageVars
  <2>3. CASE ~Busy
    <3>1. Apply(o, claim) /\ kind' = kind
      BY <2>3, <1>7 DEF ClaimApplies
    <3> QED
      BY <3>1, <2>1, ApplyHand
  <2> QED
    BY <2>2, <2>3
<1> QED
  BY <1>2, <1>3, <1>4, <1>5, <1>6, <1>7

\* No step of the browser breaks it.
LEMMA HandStep ==
    ASSUME PageInv, HandInv, [Next]_vars
    PROVE  HandInv'
<1>1. ASSUME UNCHANGED <<pageVars, transferVars>> PROVE HandInv'
  BY <1>1, HandKeeps DEF pageVars, transferVars, hookVars, handoffVars
<1>2. CASE TransferStep
  BY <1>2, HandoverHand, ReceiverHand DEF TransferStep
<1>3. CASE ChainStep
  BY <1>1, <1>3 DEF ChainStep
<1>4. ASSUME NEW wait \in watching, WaitEnds(wait) PROVE HandInv'
  BY <1>1, <1>4 DEF WaitEnds
<1>5. CASE UNCHANGED vars
  BY <1>1, <1>5 DEF vars
<1> QED
  BY <1>1, <1>2, <1>3, <1>4, <1>5, UserHand, OperationHand DEF Next

LEMMA HandAlways == Spec => []HandInv
<1>1. Init => HandInv
  BY IdleHand DEF Init, PageInit, TransferInit, HandInv
<1>2. PageInv /\ HandInv /\ [Next]_vars => HandInv'
  BY HandStep
<1> QED
  BY <1>1, <1>2, PageAlways, PTL DEF Spec

\* Proofs are kept, and sent, only for the challenge and the recipient their receiver
\* has signed, whatever an earlier visit left in the cache, over however many visits,
\* pages, attempts and hand-overs, and by whichever way the acceptance came.
THEOREM AcceptancesMatch == Spec => []ProofsAreAccepted
<1>1. HandInv => ProofsAreAccepted
  BY DEF HandInv, HandOK, Signed, ProofsAreAccepted
<1> QED
  BY <1>1, HandAlways, PTL

-----------------------------------------------------------------------------
(* What a page promises.                                                    *)

\* A page runs one operation at a time, for any number of operations that closed sheets,
\* left pages and reloads have let go on.
THEOREM OneOperation == Spec => []OneAtATime
<1>1. PageInv => OneAtATime
  BY DEF PageInv, AloneInv, OneAtATime
<1> QED
  BY <1>1, PageAlways, PTL

-----------------------------------------------------------------------------
(* Lists of messages.                                                       *)

Tools == {"read", "wallet", "ask"}
Messages == [role : {"user", "calls", "tool", "answer", "error"}, by : Threads, tools : Nat]

\* The messages of a thread. What the user says calls no tools.
MessagesOf(id) == {m \in Messages : m.by = id /\ (m.role = "user" => m.tools = 0)}

\* A list whose calls have their results, but for k that are still to come.
Awaits(list, k) ==
    \A i \in 1..Len(list) :
        \A n \in 1..list[i].tools :
            i + n <= Len(list) + k /\ (i + n <= Len(list) => list[i + n].role = "tool")

\* A list without open calls is one whose calls are answered.
LEMMA AwaitsNone ==
    ASSUME NEW id \in Threads, NEW list \in Seq(MessagesOf(id))
    PROVE  Answered(list) <=> Awaits(list, 0)
<1>1. DOMAIN list = 1..Len(list) /\ Len(list) \in Nat
  BY LenProperties
<1>2. \A i \in 1..Len(list) : list[i].tools \in Nat
  BY ElementOfSeq DEF MessagesOf, Messages
<1>3. \A i \in 1..Len(list) : \A n \in 1..list[i].tools :
         i + n \in DOMAIN list <=> i + n <= Len(list) + 0
  BY <1>1, <1>2
<1>4. \A i \in 1..Len(list) : \A n \in 1..list[i].tools :
         i + n <= Len(list) + 0 <=> i + n <= Len(list)
  BY <1>1
<1> QED
  BY <1>1, <1>3, <1>4 DEF Answered, Awaits

\* A message is added to a list without open calls; what it calls is then to come.
LEMMA AddMessage ==
    ASSUME NEW id \in Threads, NEW list \in Seq(MessagesOf(id)), NEW m \in MessagesOf(id)
    PROVE  /\ Append(list, m) \in Seq(MessagesOf(id)) /\ Append(list, m) # << >>
           /\ Awaits(list, 0) => Awaits(Append(list, m), m.tools)
<1> DEFINE new == Append(list, m)
<1>1. /\ new \in Seq(MessagesOf(id)) /\ Len(new) = Len(list) + 1 /\ Len(list) \in Nat
      /\ \A i \in 1..Len(list) : new[i] = list[i]
      /\ new[Len(list) + 1] = m
  BY AppendProperties, LenProperties
<1>2. m.tools \in Nat /\ \A i \in 1..Len(list) : list[i].tools \in Nat
  BY ElementOfSeq DEF MessagesOf, Messages
<1>3. new # << >>
  BY <1>1, EmptySeq
<1> HIDE DEF new
<1>4. ASSUME Awaits(list, 0) PROVE Awaits(new, m.tools)
  <2> SUFFICES ASSUME NEW i \in 1..Len(new), NEW n \in 1..new[i].tools
               PROVE  /\ i + n <= Len(new) + m.tools
                      /\ i + n <= Len(new) => new[i + n].role = "tool"
    BY DEF Awaits
  <2>1. CASE i = Len(list) + 1
    BY <2>1, <1>1, <1>2
  <2>2. CASE i # Len(list) + 1
    <3>1. i \in 1..Len(list) /\ n \in 1..list[i].tools
      BY <2>2, <1>1
    <3>2. i + n <= Len(list) /\ list[i + n].role = "tool"
      BY <3>1, <1>1, <1>2, <1>4 DEF Awaits
    <3>3. i + n \in 1..Len(list)
      BY <3>1, <3>2, <1>1, <1>2
    <3> QED
      BY <3>2, <3>3, <1>1, <1>2
  <2> QED
    BY <2>1, <2>2
<1> QED
  BY <1>1, <1>3, <1>4 DEF new

\* The results of a batch come in.
LEMMA AddResults ==
    ASSUME NEW id \in Threads, NEW list \in Seq(MessagesOf(id)), NEW b \in Nat,
           NEW results, results = [i \in 1..b |-> Message("tool", id)]
    PROVE  /\ list \o results \in Seq(MessagesOf(id))
           /\ Len(list \o results) = Len(list) + b
           /\ \A i \in 1..Len(list) : (list \o results)[i] = list[i]
           /\ \A k \in Nat : b <= k /\ Awaits(list, k) => Awaits(list \o results, k - b)
<1> DEFINE new == list \o results
<1>1. Message("tool", id) \in MessagesOf(id) /\ Message("tool", id).role = "tool"
         /\ Message("tool", id).tools = 0
  BY DEF Message, MessagesOf, Messages
<1>2. results \in Seq(MessagesOf(id)) /\ Len(results) = b
  <2>1. results \in [1..b -> MessagesOf(id)]
    BY <1>1
  <2> QED
    BY <2>1, SeqDef, LenProperties
<1>3. /\ new \in Seq(MessagesOf(id)) /\ Len(new) = Len(list) + b /\ Len(list) \in Nat
      /\ \A i \in 1..Len(list) : new[i] = list[i]
      /\ \A i \in 1..(Len(list) + b) : i > Len(list) => new[i] = Message("tool", id)
  <2>1. /\ new \in Seq(MessagesOf(id)) /\ Len(new) = Len(list) + Len(results)
        /\ \A i \in 1..(Len(list) + Len(results)) :
              new[i] = IF i <= Len(list) THEN list[i] ELSE results[i - Len(list)]
    BY <1>2, ConcatProperties
  <2>2. Len(list) \in Nat
    BY LenProperties
  <2> HIDE DEF new
  <2>3. ASSUME NEW i \in 1..(Len(list) + b), i > Len(list) PROVE new[i] = Message("tool", id)
    <3>1. i - Len(list) \in 1..b /\ new[i] = results[i - Len(list)]
      BY <2>1, <2>2, <2>3, <1>2
    <3> QED
      BY <3>1
  <2>4. ASSUME NEW i \in 1..Len(list) PROVE new[i] = list[i]
    <3>1. i \in 1..(Len(list) + Len(results)) /\ i <= Len(list)
      BY <2>2, <1>2
    <3> QED
      BY <3>1, <2>1
  <2> QED
    BY <2>1, <2>2, <2>3, <2>4, <1>2
<1>4. \A i \in 1..Len(list) : list[i].tools \in Nat
  BY ElementOfSeq DEF MessagesOf, Messages
<1> HIDE DEF new
<1>5. ASSUME NEW k \in Nat, b <= k, Awaits(list, k) PROVE Awaits(new, k - b)
  <2> SUFFICES ASSUME NEW i \in 1..Len(new), NEW n \in 1..new[i].tools
               PROVE  /\ i + n <= Len(new) + (k - b)
                      /\ i + n <= Len(new) => new[i + n].role = "tool"
    BY DEF Awaits
  <2>1. i \in 1..Len(list)
    <3>1. CASE i > Len(list)
      <4>1. new[i].tools = 0
        BY <3>1, <1>1, <1>3
      <4> QED
        BY <4>1
    <3> QED
      BY <3>1, <1>3
  <2>2. n \in 1..list[i].tools /\ n \in Nat /\ i \in Nat
    BY <2>1, <1>3, <1>4
  <2>3. i + n <= Len(list) + k /\ (i + n <= Len(list) => list[i + n].role = "tool")
    BY <2>1, <2>2, <1>5 DEF Awaits
  <2>4. i + n <= Len(new) => i + n \in 1..(Len(list) + b)
    BY <2>2, <1>3, <2>1
  <2>5. i + n <= Len(new) => new[i + n].role = "tool"
    <3>1. CASE i + n <= Len(list)
      <4>1. i + n \in 1..Len(list)
        BY <2>2, <3>1, <1>3, <2>1
      <4> QED
        BY <4>1, <2>3, <3>1, <1>3
    <3>2. CASE i + n > Len(list)
      BY <3>2, <2>4, <1>1, <1>3
    <3> QED
      BY <3>1, <3>2, <2>2, <1>3
  <2> QED
    BY <2>3, <2>5, <1>3, <1>5, <2>2
<1> QED
  BY <1>3, <1>5 DEF new

\* A list is cut after what the user said, or before what is not a result.
LEMMA CutList ==
    ASSUME NEW id \in Threads, NEW list \in Seq(MessagesOf(id)), NEW p \in 0..Len(list)
    PROVE  /\ SubSeq(list, 1, p) \in Seq(MessagesOf(id))
           /\ Len(SubSeq(list, 1, p)) = p
           /\ /\ Awaits(list, 0)
              /\ \/ p = 0 \/ list[p].role = "user"
                 \/ p < Len(list) /\ list[p + 1].role # "tool"
              => Awaits(SubSeq(list, 1, p), 0)
<1> DEFINE new == SubSeq(list, 1, p)
<1>1. Len(list) \in Nat /\ p \in Nat /\ p <= Len(list)
  BY LenProperties
<1>2. \A i \in 1..p : i \in 1..Len(list) /\ list[i] \in MessagesOf(id)
  BY <1>1, ElementOfSeq
<1>3. /\ new \in Seq(MessagesOf(id)) /\ Len(new) = p
      /\ \A i \in 1..p : new[i] = list[i]
  BY <1>1, <1>2, SubSeqProperties
<1> HIDE DEF new
<1>4. ASSUME p = 0 \/ list[p].role = "user" \/ (p < Len(list) /\ list[p + 1].role # "tool"),
             Awaits(list, 0)
      PROVE  Awaits(new, 0)
  <2>0. \A i \in 1..p : list[i].tools \in Nat
    BY <1>2 DEF MessagesOf, Messages
  <2> SUFFICES ASSUME NEW i \in 1..p, NEW n \in 1..list[i].tools
               PROVE  i + n <= p /\ list[i + n].role = "tool"
    <3>1. ASSUME NEW i \in 1..Len(new), NEW n \in 1..new[i].tools
          PROVE  i + n <= Len(new) + 0 /\ (i + n <= Len(new) => new[i + n].role = "tool")
      <4>1. i \in 1..p /\ n \in 1..list[i].tools /\ list[i].tools \in Nat
        BY <1>3, <2>0
      <4>2. i + n <= p /\ list[i + n].role = "tool" /\ i + n \in 1..p
        BY <4>1, <1>1
      <4> QED
        BY <4>2, <1>3, <1>1
    <3> QED
      BY <3>1 DEF Awaits
  <2>1. i \in 1..Len(list) /\ list[i].tools \in Nat /\ n \in Nat /\ i \in Nat
    BY <1>2 DEF MessagesOf, Messages
  <2>2. \A q \in 1..list[i].tools : i + q <= Len(list) /\ list[i + q].role = "tool"
    BY <2>1, <1>1, <1>4 DEF Awaits
  <2>3. CASE i + n <= p
    BY <2>2, <2>3
  <2>4. CASE i + n > p
    <3>1. CASE list[p].role = "user" /\ p # 0
      <4>1. list[p].tools = 0
        BY <3>1, <1>1, <1>2 DEF MessagesOf
      <4>2. i # p
        BY <4>1
      <4>3. p - i \in 1..list[i].tools /\ i + (p - i) = p
        BY <4>2, <2>1, <2>4, <1>1
      <4> QED
        BY <4>3, <2>2, <3>1
    <3>2. CASE p < Len(list) /\ list[p + 1].role # "tool"
      <4>1. (p + 1) - i \in 1..list[i].tools /\ i + ((p + 1) - i) = p + 1
        BY <2>1, <2>4, <1>1
      <4> QED
        BY <4>1, <2>2, <3>2
    <3> QED
      BY <3>1, <3>2, <1>4
  <2> QED
    BY <2>3, <2>4, <2>1, <1>1
<1> QED
  BY <1>3, <1>4 DEF new

\* A stop cuts a list after the last thing the user said.
LEMMA TrimCuts ==
    ASSUME NEW id \in Threads, NEW list \in Seq(MessagesOf(id)),
           \E i \in 1..Len(list) : list[i].role = "user"
    PROVE  /\ Trim(list) \in Seq(MessagesOf(id)) /\ Trim(list) # << >>
           /\ Awaits(list, 0) => Awaits(Trim(list), 0)
<1> DEFINE I == {i \in 1..Len(list) : list[i].role = "user"}
           p == CHOOSE x \in I : \A y \in I : x >= y
<1>1. Len(list) \in Nat /\ I \in SUBSET (1..Len(list)) /\ I # {}
  BY LenProperties
<1>2. \E x \in I : \A y \in I : x >= y
  <2> HIDE DEF I
  <2> QED
    BY <1>1, GreatestUpTo
<1>3. p \in I
  <2> HIDE DEF I
  <2> QED
    BY <1>2
<1>4. Trim(list) = SubSeq(list, 1, p)
  BY <1>1 DEF Trim, SelectLastInSeq, Max
<1>5. p \in 1..Len(list) /\ list[p].role = "user"
  BY <1>3
<1> HIDE DEF p, I
<1>6. p \in 0..Len(list) /\ p # 0
  BY <1>5
<1>7. /\ SubSeq(list, 1, p) \in Seq(MessagesOf(id)) /\ Len(SubSeq(list, 1, p)) = p
      /\ Awaits(list, 0) => Awaits(SubSeq(list, 1, p), 0)
  BY <1>5, <1>6, CutList
<1>8. SubSeq(list, 1, p) # << >>
  BY <1>6, <1>7, EmptySeq
<1> QED
  BY <1>4, <1>7, <1>8

-----------------------------------------------------------------------------
(* Batches of tools.                                                        *)

Batches == Seq(Seq(Tools))

\* upto counts the tools of the first batches, up to each of them.
Counts(upto, batches) ==
    /\ upto \in [0..Len(batches) -> Nat] /\ upto[0] = 0
    /\ \A i \in 1..Len(batches) : upto[i] = upto[i - 1] + Len(batches[i])

\* There are k tools in the batches.
Holds(batches, k) == \E upto : Counts(upto, batches) /\ upto[Len(batches)] = k

\* A new batch has its tools counted last.
LEMMA NewBatch ==
    ASSUME NEW batches \in Batches, NEW batch \in Seq(Tools), NEW k \in Nat, Holds(batches, k)
    PROVE  /\ Append(batches, batch) \in Batches
           /\ Holds(Append(batches, batch), k + Len(batch))
<1> DEFINE n == Len(batches)
           new == Append(batches, batch)
<1>1. /\ new \in Batches /\ Len(new) = n + 1 /\ n \in Nat /\ new[n + 1] = batch
      /\ \A i \in 1..n : new[i] = batches[i]
  BY AppendProperties, LenProperties DEF Batches
<1>2. Len(batch) \in Nat
  BY LenProperties
<1>3. PICK upto : Counts(upto, batches) /\ upto[n] = k
  BY DEF Holds
<1> HIDE DEF n, new
<1> DEFINE more == [i \in 0..(n + 1) |-> IF i = n + 1 THEN k + Len(batch) ELSE upto[i]]
<1>4. /\ upto \in [0..n -> Nat] /\ upto[0] = 0 /\ upto[n] = k
      /\ \A i \in 1..n : upto[i] = upto[i - 1] + Len(batches[i])
  BY <1>3 DEF Counts, n
<1>5. more \in [0..(n + 1) -> Nat] /\ more[0] = 0 /\ more[n + 1] = k + Len(batch)
      /\ \A i \in 0..n : more[i] = upto[i]
  <2>1. \A i \in 0..(n + 1) : i # n + 1 => i \in 0..n
    BY <1>1
  <2>2. \A i \in 0..n : i \in 0..(n + 1) /\ i # n + 1
    BY <1>1
  <2>3. k + Len(batch) \in Nat /\ n + 1 \in 0..(n + 1) /\ 0 \in 0..n
    BY <1>1, <1>2
  <2> QED
    BY <2>1, <2>2, <2>3, <1>4
<1> HIDE DEF more
<1>6. ASSUME NEW i \in 1..(n + 1) PROVE more[i] = more[i - 1] + Len(new[i])
  <2>1. CASE i = n + 1
    <3>1. more[i - 1] = k
      BY <2>1, <1>1, <1>4, <1>5
    <3> QED
      BY <3>1, <2>1, <1>1, <1>5
  <2>2. CASE i # n + 1
    <3>1. i \in 1..n /\ i \in 0..n /\ i - 1 \in 0..n
      BY <2>2, <1>1
    <3> QED
      BY <3>1, <1>1, <1>4, <1>5
  <2> QED
    BY <2>1, <2>2
<1>7. Counts(more, new) /\ more[Len(new)] = k + Len(batch)
  BY <1>1, <1>5, <1>6 DEF Counts
<1> QED
  BY <1>1, <1>7 DEF Holds, new

\* A tool that joins the last batch is counted once more.
LEMMA LongerBatch ==
    ASSUME NEW batches \in Batches, NEW tool \in Tools, NEW k \in Nat, Holds(batches, k),
           batches # << >>
    PROVE  LET new == Append(Front(batches), Append(Last(batches), tool))
           IN  new \in Batches /\ Holds(new, k + 1)
<1> DEFINE n == Len(batches)
           last == Append(batches[n], tool)
           front == SubSeq(batches, 1, n - 1)
           new == Append(front, last)
<1>1. n \in Nat /\ n # 0
  BY EmptySeq, LenProperties DEF Batches
<1>2. batches[n] \in Seq(Tools) /\ Len(batches[n]) \in Nat
  BY <1>1, ElementOfSeq, LenProperties DEF Batches
<1>3. last \in Seq(Tools) /\ Len(last) = Len(batches[n]) + 1
  BY <1>2, AppendProperties
<1> HIDE DEF last
<1>4. /\ front \in Batches /\ Len(front) = n - 1
      /\ \A i \in 1..(n - 1) : front[i] = batches[i]
  <2>1. \A i \in 1..(n - 1) : batches[i] \in Seq(Tools)
    BY <1>1, ElementOfSeq DEF Batches
  <2>2. n - 1 \in Int /\ 1 \in Int
    BY <1>1
  <2>3. /\ front \in Seq(Seq(Tools))
        /\ Len(front) = IF 1 <= n - 1 THEN n - 1 - 1 + 1 ELSE 0
        /\ \A i \in 1..(n - 1 - 1 + 1) : front[i] = batches[1 + i - 1]
    BY <2>1, <2>2, SubSeqProperties
  <2> HIDE DEF front, n
  <2> QED
    BY <2>3, <1>1 DEF Batches
<1> HIDE DEF front
<1>5. /\ new \in Batches /\ Len(new) = n /\ new[n] = last
      /\ \A i \in 1..(n - 1) : new[i] = batches[i]
  <2>1. /\ new \in Seq(Seq(Tools)) /\ Len(new) = Len(front) + 1
        /\ \A i \in 1..Len(front) : new[i] = front[i]
        /\ new[Len(front) + 1] = last
    BY <1>3, <1>4, AppendProperties DEF Batches
  <2> HIDE DEF new, n
  <2> QED
    BY <2>1, <1>1, <1>4 DEF Batches
<1>6. PICK upto : Counts(upto, batches) /\ upto[n] = k
  BY DEF Holds
<1>7. /\ upto \in [0..n -> Nat] /\ upto[0] = 0
      /\ \A i \in 1..n : upto[i] = upto[i - 1] + Len(batches[i])
  BY <1>6 DEF Counts
<1>8. Append(Front(batches), Append(Last(batches), tool)) = new
  BY DEF Front, Last, new, front, last
<1> HIDE DEF new, n
<1> DEFINE more == [upto EXCEPT ![n] = k + 1]
<1>9. /\ more \in [0..n -> Nat] /\ more[0] = 0 /\ more[n] = k + 1
      /\ \A i \in 0..(n - 1) : more[i] = upto[i]
  BY <1>1, <1>7
<1> HIDE DEF more
<1>10. ASSUME NEW i \in 1..n PROVE more[i] = more[i - 1] + Len(new[i])
  <2>1. CASE i = n
    <3>1. n \in 1..n /\ n - 1 \in 0..(n - 1) /\ upto[n - 1] \in Nat
      BY <1>1, <1>7
    <3>2. k = upto[n - 1] + Len(batches[n]) /\ more[n - 1] = upto[n - 1]
      BY <3>1, <1>6, <1>7, <1>9 DEF n
    <3>3. Len(new[n]) = Len(batches[n]) + 1
      BY <1>3, <1>5
    <3>4. k + 1 = upto[n - 1] + Len(new[n])
      BY <3>1, <3>2, <3>3, <1>2
    <3> QED
      BY <3>2, <3>4, <2>1, <1>9
  <2>2. CASE i # n
    <3>1. i \in 1..(n - 1) /\ i \in 0..(n - 1) /\ i - 1 \in 0..(n - 1)
      BY <2>2, <1>1
    <3> QED
      BY <3>1, <1>5, <1>7, <1>9
  <2> QED
    BY <2>1, <2>2
<1>11. Counts(more, new) /\ more[Len(new)] = k + 1
  BY <1>5, <1>9, <1>10 DEF Counts
<1> QED
  BY <1>5, <1>8, <1>11 DEF Holds

\* The first batch has been run.
LEMMA FirstBatch ==
    ASSUME NEW batches \in Batches, NEW k \in Nat, Holds(batches, k), batches # << >>
    PROVE  /\ Head(batches) \in Seq(Tools) /\ Tail(batches) \in Batches
           /\ Len(Head(batches)) \in Nat /\ Len(Head(batches)) <= k
           /\ Holds(Tail(batches), k - Len(Head(batches)))
           /\ Len(batches) = 1 => k = Len(Head(batches))
<1> DEFINE n == Len(batches)
           rest == Tail(batches)
           b == Len(Head(batches))
<1>1. n \in Nat /\ n # 0
  BY EmptySeq, LenProperties DEF Batches
<1>2. /\ Head(batches) \in Seq(Tools) /\ Head(batches) = batches[1] /\ b \in Nat
      /\ rest \in Batches /\ Len(rest) = n - 1
      /\ \A i \in 1..(n - 1) : rest[i] = batches[i + 1]
  <2>1. /\ Head(batches) \in Seq(Tools) /\ rest \in Seq(Seq(Tools)) /\ Len(rest) = n - 1
        /\ \A i \in 1..Len(rest) : rest[i] = batches[i + 1]
    BY HeadTailProperties DEF Batches
  <2>2. b \in Nat
    BY <2>1, LenProperties
  <2>3. Head(batches) = batches[1]
    BY <1>1 DEF Batches
  <2> QED
    BY <2>1, <2>2, <2>3 DEF Batches
<1>3. PICK upto : Counts(upto, batches) /\ upto[n] = k
  BY DEF Holds
<1>4. /\ upto \in [0..n -> Nat] /\ upto[0] = 0 /\ upto[n] = k
      /\ \A i \in 1..n : upto[i] = upto[i - 1] + Len(batches[i])
  BY <1>3 DEF Counts
<1>5. \A i \in 1..n : Len(batches[i]) \in Nat
  BY ElementOfSeq, LenProperties DEF Batches
<1> HIDE DEF n, rest, b
<1>6. 1 \in 1..n /\ upto[1] = b
  <2>1. 1 \in 1..n /\ upto[1] = upto[0] + Len(batches[1])
    BY <1>1, <1>4
  <2> QED
    BY <2>1, <1>2, <1>4 DEF b
<1>7. \A i \in 1..n : upto[i] >= b
  <2> DEFINE B == {i \in 1..n : ~(upto[i] >= b)}
  <2>1. CASE B # {}
    <3>1. PICK i \in B : \A m \in B : i <= m
      <4>1. B \in SUBSET Nat
        BY <1>1
      <4> HIDE DEF B
      <4> QED
        BY <4>1, <2>1, LeastNat
    <3>2. i \in 1..n /\ ~(upto[i] >= b)
      BY <3>1
    <3>3. i # 1
      BY <3>2, <1>6, <1>2
    <3>4. i - 1 \in 1..n /\ i - 1 \in 0..n /\ i \in 0..n /\ ~(i <= i - 1)
      BY <3>2, <3>3, <1>1
    <3>5. upto[i - 1] >= b
      BY <3>1, <3>4
    <3>6. upto[i] = upto[i - 1] + Len(batches[i]) /\ Len(batches[i]) \in Nat
          /\ upto[i - 1] \in Nat
      BY <3>2, <3>4, <1>4, <1>5
    <3> QED
      BY ONLY <3>2, <3>5, <3>6, <1>2
  <2> QED
    BY <2>1
<1> DEFINE less == [i \in 0..(n - 1) |-> upto[i + 1] - b]
<1>8. ASSUME NEW i \in 0..(n - 1) PROVE less[i] \in Nat /\ less[i] = upto[i + 1] - b
  <2>1. i + 1 \in 1..n /\ i + 1 \in 0..n
    BY <1>1
  <2>2. upto[i + 1] \in Nat /\ upto[i + 1] >= b
    BY <2>1, <1>4, <1>7
  <2>3. upto[i + 1] - b \in Nat
    BY ONLY <2>2, <1>2
  <2> QED
    BY <2>3
<1>9. less \in [0..(n - 1) -> Nat]
  BY <1>8
<1> HIDE DEF less
<1>10. 0 \in 0..(n - 1) /\ n - 1 \in 0..(n - 1) /\ n \in 1..n
  BY <1>1
<1>11. less[0] = 0
  BY <1>8, <1>10, <1>6, <1>2
<1>12. less[n - 1] = k - b
  BY <1>8, <1>10, <1>4, <1>1
<1>13. ASSUME NEW i \in 1..(n - 1) PROVE less[i] = less[i - 1] + Len(rest[i])
  <2>1. i \in 0..(n - 1) /\ i - 1 \in 0..(n - 1) /\ i + 1 \in 1..n /\ i \in 0..n /\ (i - 1) + 1 = i
    BY <1>1
  <2>2. less[i] = upto[i + 1] - b /\ less[i - 1] = upto[i] - b
    BY <2>1, <1>8
  <2>3. upto[i + 1] = upto[i] + Len(batches[i + 1]) /\ upto[i] \in Nat
        /\ Len(batches[i + 1]) \in Nat
    <3>1. (i + 1) - 1 = i
      BY <1>1
    <3> QED
      BY <3>1, <2>1, <1>4, <1>5
  <2>4. rest[i] = batches[i + 1]
    BY <1>2
  <2> QED
    BY ONLY <2>2, <2>3, <2>4, <1>2
<1>14. Counts(less, rest)
  BY <1>2, <1>9, <1>11, <1>13 DEF Counts
<1>15. Holds(rest, k - b)
  BY <1>14, <1>12, <1>2 DEF Holds
<1>16. b <= k
  BY <1>7, <1>10, <1>4, <1>2
<1>17. n = 1 => k = b
  BY <1>6, <1>4
<1> QED
  BY <1>2, <1>15, <1>16, <1>17 DEF n, rest, b

\* A tool goes to a batch and is counted once.
LEMMA BatchedHolds ==
    ASSUME NEW batches \in Batches, NEW tool \in Tools
    PROVE  /\ Batched(batches, tool) \in Batches
           /\ \A k \in Nat : Holds(batches, k) => Holds(Batched(batches, tool), k + 1)
<1>1. CASE tool # "wallet" /\ batches # <<>> /\ Last(batches)[1] # "wallet"
  <2> DEFINE new == Append(Front(batches), Append(Last(batches), tool))
  <2>1. Batched(batches, tool) = new
    BY <1>1 DEF Batched
  <2>2. ASSUME NEW k \in Nat, Holds(batches, k) PROVE new \in Batches /\ Holds(new, k + 1)
    BY <1>1, <2>2, LongerBatch
  <2>3. new \in Batches
    <3>1. /\ Front(batches) \in Batches /\ Last(batches) \in Seq(Tools)
      <4>1. Len(batches) \in Nat /\ Len(batches) # 0
        BY <1>1, EmptySeq, LenProperties DEF Batches
      <4>2. /\ 1 \in Int /\ Len(batches) - 1 \in Int /\ Len(batches) \in 1..Len(batches)
            /\ \A i \in 1..(Len(batches) - 1) : i \in 1..Len(batches)
        BY <4>1
      <4>3. \A i \in 1..Len(batches) : batches[i] \in Seq(Tools)
        BY ElementOfSeq DEF Batches
      <4>4. SubSeq(batches, 1, Len(batches) - 1) \in Seq(Seq(Tools))
        BY <4>2, <4>3, SubSeqProperties
      <4> QED
        BY <4>2, <4>3, <4>4 DEF Front, Last, Batches
    <3>2. Append(Last(batches), tool) \in Seq(Tools)
      BY <3>1, AppendProperties
    <3> QED
      BY <3>1, <3>2, AppendProperties DEF Batches
  <2> HIDE DEF new
  <2> QED
    BY <2>1, <2>2, <2>3
<1>2. CASE ~(tool # "wallet" /\ batches # <<>> /\ Last(batches)[1] # "wallet")
  <2>1. Batched(batches, tool) = Append(batches, <<tool>>)
    BY <1>2 DEF Batched
  <2>2. <<tool>> \in Seq(Tools) /\ Len(<<tool>>) = 1
    OBVIOUS
  <2>3. Append(batches, <<tool>>) \in Batches
    BY <2>2, AppendProperties DEF Batches
  <2>4. ASSUME NEW k \in Nat, Holds(batches, k)
        PROVE  Holds(Append(batches, <<tool>>), k + 1)
    BY <2>2, <2>4, NewBatch
  <2> QED
    BY <2>1, <2>3, <2>4
<1> QED
  BY <1>1, <1>2

\* However the calls are grouped, each is in one batch.
LEMMA GroupHolds ==
    ASSUME NEW tools \in Seq(Tools)
    PROVE  /\ GroupParallelTools(tools) \in Batches
           /\ Holds(GroupParallelTools(tools), Len(tools))
<1> DEFINE n == Len(tools)
           Rule(g) == [i \in 0..n |-> IF i = 0 THEN <<>> ELSE Batched(g[i - 1], tools[i])]
           next == [i \in 1..n |-> [v \in Batches |-> Batched(v, tools[i])]]
           grouped == CHOOSE g : g = Rule(g)
<1>1. n \in Nat /\ \A i \in 1..n : tools[i] \in Tools
  BY LenProperties, ElementOfSeq
<1>2. GroupParallelTools(tools) = grouped[n]
  BY DEF GroupParallelTools
<1>3. << >> \in Batches /\ Len(<< >>) = 0
  BY EmptySeq DEF Batches
<1> HIDE DEF n
<1>4. Steps(next, n, Batches)
  BY <1>1, BatchedHolds DEF Steps
<1>5. PICK f : Follows(f, << >>, next, n, Batches)
  BY <1>1, <1>3, <1>4, StepByStep
<1>6. f \in [0..n -> Batches] /\ f[0] = << >> /\ \A i \in 1..n : f[i] = Batched(f[i - 1], tools[i])
  <2>1. f \in [0..n -> Batches] /\ f[0] = << >> /\ \A i \in 1..n : f[i] = next[i][f[i - 1]]
    BY <1>5 DEF Follows
  <2>2. \A i \in 1..n : i - 1 \in 0..n
    BY <1>1
  <2> QED
    BY <2>1, <2>2
<1> HIDE DEF next
<1>7. f = Rule(f)
  <2>1. \A i \in 0..n : i # 0 => i \in 1..n
    BY <1>1
  <2>2. \A i \in 0..n : f[i] = Rule(f)[i]
    BY <1>6, <2>1
  <2> QED
    BY <2>2, <1>6
<1>8. grouped = Rule(grouped)
  BY <1>7
<1> HIDE DEF grouped
<1>9. grouped[0] = << >> /\ \A i \in 1..n : grouped[i] = Batched(grouped[i - 1], tools[i])
  <2>1. 0 \in 0..n /\ \A i \in 1..n : i \in 0..n /\ i # 0
    BY <1>1
  <2>2. \A i \in 0..n : grouped[i] = Rule(grouped)[i]
    BY <1>8
  <2> HIDE DEF Rule
  <2>3. grouped[0] = Rule(grouped)[0] /\ \A i \in 1..n : grouped[i] = Rule(grouped)[i]
    BY <2>1, <2>2
  <2> QED
    BY <2>1, <2>3 DEF Rule
<1> DEFINE B == {i \in 0..n : ~(grouped[i] \in Batches /\ Holds(grouped[i], i))}
<1>10. CASE B # {}
  <2>1. PICK i \in B : \A m \in B : i <= m
    <3>1. B \in SUBSET Nat
      BY <1>1
    <3> HIDE DEF B
    <3> QED
      BY <3>1, <1>10, LeastNat
  <2>2. i \in 0..n /\ ~(grouped[i] \in Batches /\ Holds(grouped[i], i))
    BY <2>1
  <2>3. CASE i = 0
    <3> DEFINE upto == [j \in 0..0 |-> 0]
    <3>1. Counts(upto, << >>) /\ upto[0] = 0
      BY <1>3 DEF Counts
    <3>2. Holds(<< >>, 0)
      BY <3>1, <1>3 DEF Holds
    <3> QED
      BY <3>2, <2>2, <2>3, <1>3, <1>9
  <2>4. CASE i # 0
    <3>1. i \in 1..n /\ i - 1 \in 0..n /\ ~(i <= i - 1) /\ i - 1 \in Nat /\ (i - 1) + 1 = i
      BY <2>2, <2>4, <1>1
    <3>2. grouped[i - 1] \in Batches /\ Holds(grouped[i - 1], i - 1)
      BY <3>1, <2>1
    <3>3. grouped[i] = Batched(grouped[i - 1], tools[i]) /\ tools[i] \in Tools
      BY <3>1, <1>1, <1>9
    <3>4. grouped[i] \in Batches /\ Holds(grouped[i], (i - 1) + 1)
      BY <3>1, <3>2, <3>3, BatchedHolds
    <3> QED
      BY <3>1, <3>4, <2>2
  <2> QED
    BY <2>3, <2>4
<1>11. CASE B = {}
  <2>1. n \in 0..n
    BY <1>1
  <2> QED
    BY <2>1, <1>2, <1>11 DEF n
<1> QED
  BY <1>10, <1>11

-----------------------------------------------------------------------------
(* The threads of the chat.                                                 *)

Runs == [pc : {"ask", "tools"}, thread : Threads, stale : BOOLEAN, aborted : BOOLEAN,
         list : Seq(Messages), loop : 0..MaxToolLoops, batches : Batches, asked : BOOLEAN]

\* The list of a thread: its own messages, and no call without its results unless the
\* thread was left while tools ran.
Lawful(list, id, gone) == list \in Seq(MessagesOf(id)) /\ (id \notin gone => Awaits(list, 0))

\* While its tools run, the thread of a run is stored with calls that wait for results.
AtTools(r) == r.pc = "tools" /\ ~r.stale

RunOK(r, here, gone) ==
    /\ r \in Runs /\ r.list \in Seq(MessagesOf(r.thread))
    /\ \E i \in 1..Len(r.list) : r.list[i].role = "user"
    /\ ~r.stale => r.thread = here
    /\ r.pc = "ask" => Lawful(r.list, r.thread, gone)
    /\ r.pc = "tools" /\ r.thread \notin gone =>
          \E k \in Nat : Holds(r.batches, k) /\ Awaits(r.list, k)

RunInv == run = NoRun \/ RunOK(run, thread, left)

StoreInv ==
    /\ threads \in [Threads -> Seq(Messages)] /\ removed \in [Threads -> Seq(Messages)]
    /\ thread \in Threads /\ left \subseteq Threads
    /\ \A id \in Threads : threads[id] \in Seq(MessagesOf(id)) /\ Lawful(removed[id], id, left)
    /\ \A id \in Threads : Lawful(threads[id], id, left) \/ (AtTools(run) /\ run.thread = id)
    /\ shown \in Seq(MessagesOf(thread))
    /\ Lawful(shown, thread, left) \/ AtTools(run)

ChatInv == StoreInv /\ RunInv /\ queue \in 0..MaxQueue /\ failed \in BOOLEAN

\* The messages of a thread are messages.
LEMMA OfThreadTyped ==
    ASSUME NEW id \in Threads, NEW list \in Seq(MessagesOf(id))
    PROVE  list \in Seq(Messages)
<1>1. MessagesOf(id) \subseteq Messages
  BY DEF MessagesOf
<1> QED
  BY <1>1, SeqMonotonic

\* A thread without messages has no open calls.
LEMMA NothingLawful ==
    ASSUME NEW id \in Threads, NEW gone
    PROVE  Lawful(<< >>, id, gone)
<1>1. << >> \in Seq(MessagesOf(id)) /\ Len(<< >>) = 0
  BY EmptySeq
<1> QED
  BY <1>1 DEF Lawful, Awaits

\* A list stays lawful as more threads are left.
LEMMA LawfulStays ==
    ASSUME NEW id, NEW list, NEW gone, NEW more, Lawful(list, id, gone), gone \subseteq more
    PROVE  Lawful(list, id, more)
BY DEF Lawful

\* A step keeps what is stored if what it stores is lawful, or waits for the tools of
\* the run, and if it does not end tools without their results.
LEMMA StoreKeeps ==
    ASSUME StoreInv, left \subseteq left', left' \subseteq Threads,
           DOMAIN threads' = Threads, DOMAIN removed' = Threads,
           threads' = [id \in Threads |-> threads'[id]],
           removed' = [id \in Threads |-> removed'[id]],
           \A id \in Threads :
               \/ threads'[id] = threads[id]
               \/ Lawful(threads'[id], id, left')
               \/ threads'[id] \in Seq(MessagesOf(id)) /\ AtTools(run') /\ run'.thread = id,
           \A id \in Threads : removed'[id] = removed[id] \/ Lawful(removed'[id], id, left'),
           AtTools(run) => \/ run.thread \in left'
                           \/ AtTools(run') /\ run'.thread = run.thread
                           \/ Lawful(threads'[run.thread], run.thread, left'),
           thread' \in Threads, shown' \in Seq(MessagesOf(thread')),
           Lawful(shown', thread', left') \/ AtTools(run')
    PROVE  StoreInv'
<1>1. \A id \in Threads : threads'[id] \in Seq(MessagesOf(id)) /\ Lawful(removed'[id], id, left')
  BY LawfulStays DEF StoreInv, Lawful
<1>2. ASSUME NEW id \in Threads
      PROVE  Lawful(threads'[id], id, left') \/ (AtTools(run') /\ run'.thread = id)
  <2>1. CASE Lawful(threads[id], id, left) /\ threads'[id] = threads[id]
    BY <2>1, LawfulStays
  <2>2. CASE AtTools(run) /\ run.thread = id /\ threads'[id] = threads[id]
    <3>1. id \in left' => Lawful(threads'[id], id, left')
      BY <1>1 DEF Lawful
    <3> QED
      BY <2>2, <3>1
  <2> QED
    BY <1>2, <2>1, <2>2 DEF StoreInv
<1>3. \A id \in Threads : threads'[id] \in Seq(Messages) /\ removed'[id] \in Seq(Messages)
  BY <1>1, OfThreadTyped DEF Lawful
<1>4. threads' \in [Threads -> Seq(Messages)] /\ removed' \in [Threads -> Seq(Messages)]
  BY <1>3
<1> QED
  BY <1>1, <1>2, <1>4 DEF StoreInv, Lawful, AtTools

\* A list is shown, and stored if it is not empty.
LEMMA ShowsKeeps ==
    ASSUME StoreInv, left \subseteq left', left' \subseteq Threads, removed' = removed,
           NEW id \in Threads, NEW list \in Seq(MessagesOf(id)), Shows(id, list),
           Lawful(list, id, left') \/ (AtTools(run') /\ run'.thread = id),
           AtTools(run) => run.thread \in left' \/ (run.thread = id /\ list # <<>>)
    PROVE  StoreInv'
<1>1. /\ thread' = id /\ shown' = list
      /\ threads \in [Threads -> Seq(Messages)] /\ removed \in [Threads -> Seq(Messages)]
      /\ threads' = IF list = <<>> THEN threads ELSE [threads EXCEPT ![id] = list]
  BY DEF Shows, StoreInv
<1>2. /\ DOMAIN threads' = Threads /\ threads' = [j \in Threads |-> threads'[j]]
      /\ \A j \in Threads : threads'[j] = IF j = id /\ list # <<>> THEN list ELSE threads[j]
  BY <1>1
<1>3. DOMAIN removed' = Threads /\ removed' = [j \in Threads |-> removed'[j]]
  BY <1>1
<1>4. \A j \in Threads :
               \/ threads'[j] = threads[j]
               \/ Lawful(threads'[j], j, left')
               \/ threads'[j] \in Seq(MessagesOf(j)) /\ AtTools(run') /\ run'.thread = j
  BY <1>2
<1>5. AtTools(run) => \/ run.thread \in left'
                      \/ AtTools(run') /\ run'.thread = run.thread
                      \/ Lawful(threads'[run.thread], run.thread, left')
  BY <1>2
<1> QED
  BY <1>1, <1>2, <1>3, <1>4, <1>5, StoreKeeps

\* Nothing is shown or stored.
LEMMA StoreStays ==
    ASSUME StoreInv, RunInv, left \subseteq left', left' \subseteq Threads,
           UNCHANGED <<threads, removed, thread, shown>>,
           AtTools(run) => run.thread \in left' \/ (AtTools(run') /\ run'.thread = run.thread)
    PROVE  StoreInv'
<1>1. AtTools(run) => run.thread = thread
  BY DEF RunInv, RunOK, AtTools, NoRun
<1>2. /\ DOMAIN threads' = Threads /\ threads' = [j \in Threads |-> threads'[j]]
      /\ DOMAIN removed' = Threads /\ removed' = [j \in Threads |-> removed'[j]]
      /\ thread' \in Threads /\ shown' \in Seq(MessagesOf(thread'))
  BY DEF StoreInv
<1>3. Lawful(shown', thread', left') \/ AtTools(run')
  <2>1. CASE AtTools(run)
    BY <2>1, <1>1, <1>2 DEF Lawful
  <2>2. CASE ~AtTools(run)
    BY <2>2, LawfulStays DEF StoreInv
  <2> QED
    BY <2>1, <2>2
<1> QED
  BY <1>2, <1>3, StoreKeeps

-----------------------------------------------------------------------------
(* A run of the chat.                                                       *)

\* A run goes on while nothing of it changes.
LEMMA RunStays ==
    ASSUME RunInv, left \subseteq left', UNCHANGED <<run, thread>>
    PROVE  RunInv'
BY LawfulStays DEF RunInv, RunOK

\* A run whose page was left goes on, of the thread it was started in; if its tools ran,
\* that thread keeps calls without results.
LEMMA EpochEnds ==
    ASSUME StoreInv, RunInv, NewEpoch
    PROVE  /\ left \subseteq left' /\ left' \subseteq Threads
           /\ ~AtTools(run') /\ RunInv'
           /\ AtTools(run) => run.thread \in left'
<1>1. left \subseteq left' /\ left' \subseteq Threads /\ (AtTools(run) => run.thread \in left')
  BY DEF NewEpoch, LeavesTools, StoreInv, RunInv, RunOK, Runs, NoRun, AtTools
<1>2. CASE run = NoRun
  BY <1>1, <1>2 DEF NewEpoch, Streaming, RunInv, AtTools, NoRun
<1>3. CASE run # NoRun
  <2>1. /\ run \in Runs /\ run.list \in Seq(MessagesOf(run.thread))
        /\ \E i \in 1..Len(run.list) : run.list[i].role = "user"
        /\ run.pc = "ask" => Lawful(run.list, run.thread, left)
        /\ run.pc = "tools" /\ run.thread \notin left =>
              \E k \in Nat : Holds(run.batches, k) /\ Awaits(run.list, k)
    BY <1>3 DEF RunInv, RunOK
  <2>2. run' = [run EXCEPT !.aborted = TRUE, !.stale = TRUE]
    BY <1>3 DEF NewEpoch, Streaming
  <2>3. /\ run' \in Runs /\ run'.list = run.list /\ run'.thread = run.thread
        /\ run'.stale /\ run'.pc = run.pc /\ run'.batches = run.batches
    BY <2>1, <2>2 DEF Runs
  <2>4. run.pc = "ask" => Lawful(run.list, run.thread, left')
    BY <2>1, <1>1, LawfulStays
  <2>5. RunOK(run', thread', left')
    BY <2>1, <2>3, <2>4, <1>1 DEF RunOK
  <2> QED
    BY <1>1, <2>3, <2>5 DEF RunInv, AtTools
<1> QED
  BY <1>2, <1>3

\* A run starts from messages without open calls.
LEMMA RunStarts ==
    ASSUME StoreInv, RunInv, NEW before, Lawful(before, thread, left), RunAgent(before)
    PROVE  StoreInv' /\ RunInv'
<1> DEFINE m == Message("user", thread)
           list == Append(before, m)
<1>1. thread \in Threads /\ before \in Seq(MessagesOf(thread)) /\ run = NoRun
  BY DEF StoreInv, Lawful, RunAgent, Streaming
<1>2. m \in MessagesOf(thread) /\ m.role = "user" /\ m.tools = 0
  BY <1>1 DEF MessagesOf, Messages, Message
<1>3. /\ run' = [NoRun EXCEPT !.pc = "ask", !.thread = thread, !.list = list, !.loop = 1]
      /\ Shows(thread, list) /\ removed' = removed /\ left' = left
  BY DEF RunAgent
<1>4. list[Len(before) + 1] = m /\ Len(list) = Len(before) + 1 /\ Len(before) \in Nat
  BY <1>1, <1>2, AppendProperties, LenProperties
<1> HIDE DEF m
<1>5. list \in Seq(MessagesOf(thread)) /\ list # << >> /\ Lawful(list, thread, left)
  BY <1>1, <1>2, AddMessage DEF Lawful
<1>6. \E i \in 1..Len(list) : list[i].role = "user"
  BY <1>2, <1>4
<1> HIDE DEF list
<1>7. list \in Seq(Messages)
  BY <1>1, <1>5, OfThreadTyped
<1>8. run' = [pc |-> "ask", thread |-> thread, stale |-> FALSE, aborted |-> FALSE,
              list |-> list, loop |-> 1, batches |-> <<>>, asked |-> FALSE]
  BY <1>3 DEF NoRun
<1>9. run' \in Runs
  <2>1. << >> \in Batches /\ 1 \in 0..MaxToolLoops
    BY EmptySeq, ChatAssumption DEF Batches
  <2> QED
    BY <1>1, <1>7, <1>8, <2>1 DEF Runs
<1>10. thread' = thread
  BY <1>3 DEF Shows
<1>11. RunInv'
  BY <1>3, <1>5, <1>6, <1>8, <1>9, <1>10 DEF RunInv, RunOK
<1>12. ~AtTools(run)
  BY <1>1 DEF AtTools, NoRun
<1>13. StoreInv'
  BY <1>1, <1>3, <1>5, <1>12, ShowsKeeps DEF StoreInv
<1> QED
  BY <1>11, <1>13

\* A run ends with messages without open calls, or its thread was left.
LEMMA RunEnds ==
    ASSUME StoreInv, RunInv, run # NoRun, NEW list, Ends(list), UNCHANGED <<removed, left>>,
           ~run.stale => Lawful(list, run.thread, left) /\ list # << >>
    PROVE  StoreInv' /\ RunInv'
<1>1. run' = NoRun /\ Commits(list) /\ RunInv'
  BY DEF Ends, RunInv
<1>2. RunOK(run, thread, left) /\ thread \in Threads /\ left \subseteq Threads
  BY DEF RunInv, StoreInv
<1>3. CASE run.stale
  <2>1. ~AtTools(run) /\ UNCHANGED <<threads, removed, thread, shown>>
    BY <1>1, <1>3 DEF AtTools, Commits, IsStale, storeVars
  <2> QED
    BY <2>1, <1>1, <1>2, StoreStays
<1>4. CASE ~run.stale
  <2>1. run.thread = thread /\ list \in Seq(MessagesOf(thread)) /\ Shows(thread, list)
    BY <1>1, <1>2, <1>4 DEF RunOK, Lawful, Commits, IsStale
  <2> QED
    BY <2>1, <1>1, <1>2, <1>4, ShowsKeeps
<1> QED
  BY <1>3, <1>4

\* A run goes on with a list that is shown and stored, unless the thread was left.
LEMMA RunCommits ==
    ASSUME StoreInv, RunInv, run # NoRun, NEW list, list # << >>, Commits(list),
           UNCHANGED <<removed, left>>, RunOK(run', thread, left), run'.list = list,
           run'.thread = run.thread, run'.stale = run.stale
    PROVE  StoreInv' /\ RunInv'
<1>1. RunOK(run, thread, left) /\ thread \in Threads /\ left \subseteq Threads
  BY DEF RunInv, StoreInv
<1>2. thread' = thread
  BY DEF Commits, Shows, storeVars
<1>3. CASE run.stale
  <2>1. ~AtTools(run) /\ UNCHANGED <<threads, removed, thread, shown>>
    BY <1>3 DEF AtTools, Commits, IsStale, storeVars
  <2> QED
    BY <2>1, <1>1, StoreStays DEF RunInv
<1>4. CASE ~run.stale
  <2>1. run.thread = thread /\ list \in Seq(MessagesOf(thread)) /\ Shows(thread, list)
    BY <1>1, <1>4 DEF RunOK, Commits, IsStale
  <2>2. Lawful(list, thread, left) \/ (AtTools(run') /\ run'.thread = thread)
    BY <2>1, <1>4 DEF RunOK, Runs, AtTools
  <2>3. StoreInv'
    BY <2>1, <2>2, <1>1, ShowsKeeps
  <2> QED
    BY <2>3, <1>2 DEF RunInv
<1> QED
  BY <1>3, <1>4

-----------------------------------------------------------------------------
(* The steps of a run.                                                      *)

\* What a run ends with may be followed by the notice of the turn limit.
LEMMA LimitKeeps ==
    ASSUME NEW list, RunOK(run, thread, left), Lawful(list, run.thread, left), list # << >>
    PROVE  Lawful(TurnLimit(list), run.thread, left) /\ TurnLimit(list) # << >>
<1> DEFINE m == Message("error", run.thread)
<1>1. run.thread \in Threads /\ list \in Seq(MessagesOf(run.thread))
  BY DEF RunOK, Runs, Lawful
<1>2. m \in MessagesOf(run.thread) /\ m.tools = 0
  BY <1>1 DEF MessagesOf, Messages, Message
<1>3. TurnLimit(list) = list \/ TurnLimit(list) = Append(list, m)
  BY DEF TurnLimit
<1> HIDE DEF m
<1>4. Lawful(Append(list, m), run.thread, left) /\ Append(list, m) # << >>
  BY <1>1, <1>2, AddMessage DEF Lawful
<1> QED
  BY <1>3, <1>4

\* An answer or an error is added to the list of a run that asks.
LEMMA SaysMore ==
    ASSUME NEW role \in {"answer", "error"}, RunOK(run, thread, left), run.pc = "ask"
    PROVE  /\ Lawful(Append(run.list, Message(role, run.thread)), run.thread, left)
           /\ Append(run.list, Message(role, run.thread)) # << >>
<1> DEFINE m == Message(role, run.thread)
<1>1. run.thread \in Threads /\ Lawful(run.list, run.thread, left)
  BY DEF RunOK, Runs
<1>2. m \in MessagesOf(run.thread) /\ m.tools = 0
  BY <1>1 DEF MessagesOf, Messages, Message
<1> HIDE DEF m
<1>3. Lawful(Append(run.list, m), run.thread, left) /\ Append(run.list, m) # << >>
  BY <1>1, <1>2, AddMessage DEF Lawful
<1> QED
  BY <1>3 DEF m

\* What a stop leaves of a list.
LEMMA TrimKeeps ==
    ASSUME NEW id \in Threads, NEW list, Lawful(list, id, left),
           \E i \in 1..Len(list) : list[i].role = "user"
    PROVE  Lawful(Trim(list), id, left) /\ Trim(list) # << >>
BY TrimCuts DEF Lawful

\* An answer without tools, a failed stream, an error and a stop end a run.
LEMMA AnswerEnds ==
    ASSUME StoreInv, RunInv, Answers \/ StreamFails \/ Throws \/ Aborts
    PROVE  StoreInv' /\ RunInv'
<1>1. run.pc = "ask" /\ run # NoRun /\ UNCHANGED <<removed, left>>
  BY DEF Answers, StreamFails, Throws, Aborts, NoRun
<1>2. RunOK(run, thread, left) /\ run.thread \in Threads /\ Lawful(run.list, run.thread, left)
  BY <1>1 DEF RunInv, RunOK, Runs
<1>3. PICK i \in 1..Len(run.list) : run.list[i].role = "user"
  BY <1>2 DEF RunOK
<1>4. CASE Answers
  <2> DEFINE list == Append(run.list, Message("answer", run.thread))
  <2>1. Lawful(list, run.thread, left) /\ list # << >>
    BY <1>1, <1>2, SaysMore
  <2>2. Ends(TurnLimit(list))
    BY <1>4 DEF Answers
  <2> HIDE DEF list
  <2> QED
    BY <2>1, <2>2, <1>1, <1>2, LimitKeeps, RunEnds
<1>5. CASE StreamFails
  <2>1. run.list # << >>
    <3>1. Len(run.list) # 0
      BY <1>2, <1>3 DEF Lawful
    <3> QED
      BY <3>1, EmptySeq
  <2>2. Ends(TurnLimit(run.list))
    BY <1>5 DEF StreamFails
  <2> QED
    BY <2>1, <2>2, <1>1, <1>2, LimitKeeps, RunEnds
<1>6. CASE Throws
  <2> DEFINE list == Append(run.list, Message("error", run.thread))
  <2>1. Lawful(list, run.thread, left) /\ list # << >>
    BY <1>1, <1>2, SaysMore
  <2>2. Ends(list)
    BY <1>6 DEF Throws
  <2> HIDE DEF list
  <2> QED
    BY <2>1, <2>2, <1>1, RunEnds
<1>7. CASE Aborts
  <2>1. Lawful(Trim(run.list), run.thread, left) /\ Trim(run.list) # << >>
    BY <1>2, <1>3, TrimKeeps
  <2>2. Ends(Trim(run.list))
    BY <1>7 DEF Aborts
  <2> QED
    BY <2>1, <2>2, <1>1, RunEnds
<1> QED
  BY <1>4, <1>5, <1>6, <1>7

\* The calls of an answer are stored before their results are in.
LEMMA ToolsAreCalled ==
    ASSUME StoreInv, RunInv, NEW tools \in CallLists, CallsTools(tools)
    PROVE  StoreInv' /\ RunInv'
<1> DEFINE m == Calls(tools, run.thread)
           list == Append(run.list, m)
           groups == GroupParallelTools(tools)
<1>1. run.pc = "ask" /\ run # NoRun /\ UNCHANGED <<removed, left>>
  BY DEF CallsTools, NoRun
<1>2. /\ RunOK(run, thread, left) /\ run.thread \in Threads /\ run \in Runs
      /\ Lawful(run.list, run.thread, left)
  BY <1>1 DEF RunInv, RunOK, Runs
<1>3. tools \in Seq(Tools) /\ Len(tools) \in Nat
  BY ChatAssumption, LenProperties DEF Tools
<1>4. m \in MessagesOf(run.thread) /\ m.tools = Len(tools)
  BY <1>2, <1>3 DEF Calls, Message, MessagesOf, Messages
<1>5. groups \in Batches /\ Holds(groups, Len(tools))
  BY <1>3, GroupHolds
<1>6. /\ run' = [run EXCEPT !.pc = "tools", !.list = list, !.batches = groups]
      /\ Commits(list)
  BY DEF CallsTools
<1>7. PICK i \in 1..Len(run.list) : run.list[i].role = "user"
  BY <1>2 DEF RunOK
<1>8. run.list \in Seq(MessagesOf(run.thread))
  BY <1>2 DEF Lawful
<1> HIDE DEF m, groups
<1>9. /\ list \in Seq(MessagesOf(run.thread)) /\ list # << >>
      /\ run.thread \notin left => Awaits(list, Len(tools))
  BY <1>2, <1>4, <1>8, AddMessage DEF Lawful
<1>10. \E j \in 1..Len(list) : list[j].role = "user"
  <2>1. i \in 1..Len(list) /\ list[i] = run.list[i]
    BY <1>4, <1>7, <1>8, AppendProperties, LenProperties
  <2> QED
    BY <2>1, <1>7
<1> HIDE DEF list
<1>11. list \in Seq(Messages)
  BY <1>2, <1>9, OfThreadTyped
<1>12. /\ run' \in Runs /\ run'.pc = "tools" /\ run'.list = list /\ run'.batches = groups
       /\ run'.thread = run.thread /\ run'.stale = run.stale
  BY <1>2, <1>5, <1>6, <1>11 DEF Runs
<1>13. RunOK(run', thread, left)
  BY <1>2, <1>3, <1>5, <1>9, <1>10, <1>12 DEF RunOK
<1> QED
  BY <1>1, <1>6, <1>9, <1>12, <1>13, RunCommits

\* The results of the batches come in one after the other; with the last the run asks
\* again or ends.
LEMMA ResultsComeIn ==
    ASSUME StoreInv, RunInv, BatchDone
    PROVE  StoreInv' /\ RunInv'
<1> DEFINE batch == Head(run.batches)
           asked == run.asked \/ Contains(batch, "ask")
           results == [i \in 1..Len(batch) |-> Message("tool", run.thread)]
           list == run.list \o results
<1>1. run.pc = "tools" /\ run # NoRun /\ UNCHANGED <<removed, left>>
  BY DEF BatchDone, NoRun
<1>2. /\ RunOK(run, thread, left) /\ run.thread \in Threads /\ run \in Runs
      /\ run.list \in Seq(MessagesOf(run.thread)) /\ run.batches \in Batches
  BY <1>1 DEF RunInv, RunOK, Runs
<1>3. PICK i \in 1..Len(run.list) : run.list[i].role = "user"
  BY <1>2 DEF RunOK
<1>4. \/ IsStale /\ Ends(list)
      \/ /\ ~IsStale /\ Len(run.batches) > 1
         /\ run' = [run EXCEPT !.batches = Tail(@), !.list = list, !.asked = asked]
         /\ UNCHANGED storeVars
      \/ /\ ~IsStale /\ Len(run.batches) = 1
         /\ IF asked \/ run.loop >= MaxToolLoops THEN Ends(TurnLimit(list))
            ELSE IF run.aborted THEN Ends(Trim(list))
            ELSE /\ run' = [run EXCEPT !.pc = "ask", !.loop = @ + 1, !.list = list,
                                       !.batches = <<>>]
                 /\ Commits(list)
  BY DEF BatchDone
<1>5. asked \in BOOLEAN
  BY <1>2 DEF Runs
<1> HIDE DEF asked, list
<1>6. CASE IsStale /\ Ends(list)
  BY <1>1, <1>6, RunEnds DEF IsStale
<1>7. ASSUME Len(run.batches) >= 1
      PROVE  /\ Len(batch) \in Nat /\ Tail(run.batches) \in Batches /\ run.batches # << >>
             /\ list \in Seq(MessagesOf(run.thread)) /\ list # << >>
             /\ \E j \in 1..Len(list) : list[j].role = "user"
  <2>1. run.batches # << >>
    BY <1>7, EmptySeq
  <2>2. Len(batch) \in Nat /\ Tail(run.batches) \in Batches
    <3>1. batch \in Seq(Tools) /\ Tail(run.batches) \in Batches
      BY <2>1, <1>2, HeadTailProperties DEF Batches
    <3> QED
      BY <3>1, LenProperties
  <2>3. /\ list \in Seq(MessagesOf(run.thread)) /\ Len(list) = Len(run.list) + Len(batch)
        /\ \A j \in 1..Len(run.list) : list[j] = run.list[j]
    <3> DEFINE b == Len(batch)
    <3>1. b \in Nat /\ results = [j \in 1..b |-> Message("tool", run.thread)]
      BY <2>2
    <3>2. list = run.list \o results
      BY DEF list
    <3> HIDE DEF b, results
    <3>3. /\ run.list \o results \in Seq(MessagesOf(run.thread))
          /\ Len(run.list \o results) = Len(run.list) + b
          /\ \A j \in 1..Len(run.list) : (run.list \o results)[j] = run.list[j]
      BY <1>2, <3>1, AddResults
    <3> QED
      BY <3>2, <3>3 DEF b
  <2>4. Len(run.list) \in Nat
    BY <1>2, LenProperties
  <2> HIDE DEF batch, results
  <2>5. i \in 1..Len(list) /\ list[i].role = "user"
    <3>1. list[i] = run.list[i]
      BY <2>3, <1>3
    <3> QED
      BY <2>2, <2>3, <2>4, <1>3, <3>1
  <2>6. list # << >>
    BY <2>5, EmptySeq
  <2> QED
    BY <2>1, <2>2, <2>3, <2>5, <2>6
<1>8. ASSUME Len(run.batches) >= 1, run.thread \notin left
      PROVE  \E k \in Nat : /\ Holds(Tail(run.batches), k) /\ Awaits(list, k)
                            /\ Len(run.batches) = 1 => k = 0
  <2>1. PICK k \in Nat : Holds(run.batches, k) /\ Awaits(run.list, k)
    BY <1>1, <1>2, <1>8 DEF RunOK
  <2>2. /\ Len(batch) <= k /\ Holds(Tail(run.batches), k - Len(batch))
        /\ Len(run.batches) = 1 => k = Len(batch)
    BY <1>2, <1>7, <1>8, <2>1, FirstBatch
  <2>3. Len(batch) \in Nat
    BY <1>7, <1>8
  <2>4. Awaits(list, k - Len(batch))
    <3> DEFINE b == Len(batch)
    <3>1. b \in Nat /\ results = [j \in 1..b |-> Message("tool", run.thread)] /\ b <= k
      BY <2>2, <2>3
    <3>2. list = run.list \o results
      BY DEF list
    <3> HIDE DEF b, results
    <3>3. Awaits(run.list \o results, k - b)
      BY <1>2, <2>1, <3>1, AddResults
    <3> QED
      BY <3>2, <3>3 DEF b
  <2>5. k - Len(batch) \in Nat /\ (Len(run.batches) = 1 => k - Len(batch) = 0)
    BY <2>2, <2>3
  <2> QED
    BY <2>2, <2>4, <2>5
<1> HIDE DEF batch, results
<1>9. CASE /\ ~IsStale /\ Len(run.batches) > 1
           /\ run' = [run EXCEPT !.batches = Tail(@), !.list = list, !.asked = asked]
           /\ UNCHANGED storeVars
  <2>1. Len(run.batches) >= 1 /\ ~run.stale
    BY <1>2, <1>9, LenProperties DEF IsStale, Batches
  <2>2. list \in Seq(Messages)
    BY <2>1, <1>2, <1>7, OfThreadTyped
  <2>3. /\ run' \in Runs /\ run'.pc = "tools" /\ run'.list = list /\ ~run'.stale
        /\ run'.batches = Tail(run.batches) /\ run'.thread = run.thread
    BY <1>1, <1>2, <1>5, <1>7, <1>9, <2>1, <2>2 DEF Runs
  <2>4. RunOK(run', thread, left)
    BY <1>2, <1>7, <1>8, <2>1, <2>3 DEF RunOK
  <2>5. UNCHANGED <<threads, removed, thread, shown>> /\ left \subseteq Threads
    BY <1>1, <1>9 DEF storeVars, StoreInv
  <2>6. StoreInv'
    BY <1>1, <2>3, <2>5, StoreStays DEF AtTools
  <2> QED
    BY <1>1, <2>4, <2>5, <2>6 DEF RunInv
<1>10. CASE ~IsStale /\ Len(run.batches) = 1
  <2>1. Len(run.batches) >= 1 /\ ~run.stale
    BY <1>10 DEF IsStale
  <2>2. Lawful(list, run.thread, left) /\ list # << >>
    BY <2>1, <1>7, <1>8, <1>10 DEF Lawful
  <2>3. CASE Ends(TurnLimit(list))
    BY <2>2, <2>3, <1>1, <1>2, LimitKeeps, RunEnds
  <2>4. CASE Ends(Trim(list))
    <3>1. Lawful(Trim(list), run.thread, left) /\ Trim(list) # << >>
      BY <2>1, <2>2, <1>2, <1>7, TrimKeeps
    <3> QED
      BY <3>1, <2>4, <1>1, RunEnds
  <2>5. CASE /\ ~(run.loop >= MaxToolLoops)
             /\ run' = [run EXCEPT !.pc = "ask", !.loop = @ + 1, !.list = list,
                                   !.batches = <<>>]
             /\ Commits(list)
    <3>1. list \in Seq(Messages) /\ << >> \in Batches
      BY <2>1, <1>2, <1>7, OfThreadTyped, EmptySeq DEF Batches
    <3>2. run.loop + 1 \in 0..MaxToolLoops
      BY <2>5, <1>2, ChatAssumption DEF Runs
    <3>3. /\ run' \in Runs /\ run'.pc = "ask" /\ run'.list = list /\ run'.stale = run.stale
          /\ run'.thread = run.thread
      BY <2>5, <3>1, <3>2, <1>2 DEF Runs
    <3>4. RunOK(run', thread, left)
      BY <1>2, <1>7, <2>1, <2>2, <3>3 DEF RunOK
    <3> QED
      BY <1>1, <2>2, <2>5, <3>3, <3>4, RunCommits
  <2> QED
    BY <2>3, <2>4, <2>5, <1>4, <1>10
<1> QED
  BY <1>4, <1>6, <1>9, <1>10

-----------------------------------------------------------------------------
(* The steps of the user of the chat.                                       *)

\* Without its first or last messages gone, a list is cut where nothing waits.
LEMMA CutKeeps ==
    ASSUME NEW id \in Threads, NEW list, NEW gone, Lawful(list, id, gone), NEW p \in 0..Len(list),
           p < Len(list), list[p + 1].role # "tool"
    PROVE  Lawful(SubSeq(list, 1, p), id, gone)
BY CutList DEF Lawful

\* A message is sent, a question is asked once more and a failed run is tried again.
LEMMA UserAsks ==
    ASSUME StoreInv, RunInv,
           SendMessage \/ ProcessQueue \/ Regenerate \/ RetryStream \/ CancelStream
    PROVE  StoreInv' /\ RunInv'
<1>1. ASSUME RunAgent(shown) PROVE StoreInv' /\ RunInv'
  <2>1. ~AtTools(run)
    BY <1>1 DEF RunAgent, Streaming, AtTools, NoRun
  <2>2. Lawful(shown, thread, left)
    BY <2>1 DEF StoreInv
  <2> QED
    BY <1>1, <2>2, RunStarts
<1>2. ASSUME Streaming, UNCHANGED <<threads, removed, thread, shown, run, left>>
      PROVE  StoreInv' /\ RunInv'
  BY <1>2, RunStays, StoreStays DEF StoreInv
<1>3. CASE Regenerate
  <2>1. ~AtTools(run) /\ RunAgent(Front(shown))
    BY <1>3 DEF Regenerate, RunAgent, Streaming, AtTools, NoRun
  <2>2. Lawful(shown, thread, left) /\ thread \in Threads /\ shown \in Seq(MessagesOf(thread))
    BY <2>1 DEF StoreInv
  <2>3. shown # << >> /\ shown[Len(shown)].role \in {"answer", "calls"}
    BY <1>3 DEF Regenerate, Last
  <2>4. Len(shown) \in Nat /\ Len(shown) # 0
    BY <2>2, <2>3, EmptySeq, LenProperties
  <2> DEFINE p == Len(shown) - 1
  <2>5. p \in 0..Len(shown) /\ p < Len(shown) /\ shown[p + 1].role # "tool"
    BY <2>3, <2>4
  <2>6. Front(shown) = SubSeq(shown, 1, p)
    BY DEF Front
  <2> HIDE DEF p
  <2>7. Lawful(Front(shown), thread, left)
    BY <2>2, <2>5, <2>6, CutKeeps
  <2> QED
    BY <2>1, <2>7, RunStarts
<1>4. CASE CancelStream
  <2>1. /\ run # NoRun /\ run' = [run EXCEPT !.aborted = TRUE]
        /\ UNCHANGED <<threads, removed, thread, shown, left>>
    BY <1>4 DEF CancelStream, Streaming
  <2>2. RunOK(run, thread, left)
    BY <2>1 DEF RunInv
  <2>3. /\ run' \in Runs /\ run'.list = run.list /\ run'.thread = run.thread
        /\ run'.stale = run.stale /\ run'.pc = run.pc /\ run'.batches = run.batches
    BY <2>1, <2>2 DEF RunOK, Runs
  <2>4. RunOK(run', thread, left)
    BY <2>2, <2>3 DEF RunOK
  <2>5. StoreInv'
    BY <2>1, <2>3, StoreStays DEF StoreInv, AtTools
  <2> QED
    BY <2>1, <2>4, <2>5 DEF RunInv
<1> QED
  BY <1>1, <1>2, <1>3, <1>4 DEF SendMessage, ProcessQueue, RetryStream

\* An earlier message is edited, and another thread or a new one is shown.
LEMMA UserLeaves ==
    ASSUME StoreInv, RunInv,
           \/ \E i \in DOMAIN shown : EditMessage(i)
           \/ StartNewChat
           \/ \E id \in Threads : OpenThread(id)
    PROVE  StoreInv' /\ RunInv'
<1>0. thread \in Threads /\ shown \in Seq(MessagesOf(thread))
  BY DEF StoreInv
<1>1. ASSUME NEW id \in Threads, NEW list \in Seq(MessagesOf(id)), Shows(id, list), NewEpoch,
             removed' = removed, Lawful(list, id, left')
      PROVE  StoreInv' /\ RunInv'
  <2>1. StoreInv'
    BY <1>1, EpochEnds, ShowsKeeps
  <2> QED
    BY <1>1, <2>1, EpochEnds
<1>2. ASSUME NEW i \in DOMAIN shown, EditMessage(i) PROVE StoreInv' /\ RunInv'
  <2>1. /\ i < Len(shown) /\ shown[i].role = "user" /\ NewEpoch
        /\ Shows(thread, SubSeq(shown, 1, i - 1)) /\ removed' = removed
    BY <1>2 DEF EditMessage
  <2> DEFINE p == i - 1
  <2>2. p \in 0..Len(shown) /\ p < Len(shown) /\ shown[p + 1].role # "tool"
    BY <1>0, <2>1, LenProperties
  <2>3. SubSeq(shown, 1, i - 1) = SubSeq(shown, 1, p)
    OBVIOUS
  <2> HIDE DEF p
  <2>4. SubSeq(shown, 1, p) \in Seq(MessagesOf(thread))
    BY <1>0, <2>2, CutList
  <2>5. Lawful(SubSeq(shown, 1, p), thread, left')
    <3>1. CASE AtTools(run)
      <4>1. thread \in left'
        BY <3>1, <2>1, EpochEnds DEF RunInv, RunOK, AtTools, NoRun
      <4> QED
        BY <4>1, <2>4 DEF Lawful
    <3>2. CASE ~AtTools(run)
      <4>1. Lawful(shown, thread, left')
        BY <3>2, <2>1, EpochEnds, LawfulStays DEF StoreInv
      <4> QED
        BY <4>1, <1>0, <2>2, CutKeeps
    <3> QED
      BY <3>1, <3>2
  <2> QED
    BY <1>0, <1>1, <2>1, <2>3, <2>4, <2>5
<1>3. CASE StartNewChat
  <2>1. PICK id \in Threads : Shows(id, << >>)
    BY <1>3 DEF StartNewChat
  <2>2. NewEpoch /\ removed' = removed
    BY <1>3 DEF StartNewChat
  <2>3. Lawful(<< >>, id, left') /\ << >> \in Seq(MessagesOf(id))
    BY NothingLawful DEF Lawful
  <2> QED
    BY <2>1, <2>2, <2>3, <1>1
<1>4. ASSUME NEW id \in Threads, OpenThread(id) PROVE StoreInv' /\ RunInv'
  <2>1. NewEpoch /\ Shows(id, threads[id]) /\ removed' = removed
    BY <1>4 DEF OpenThread
  <2>2. threads[id] \in Seq(MessagesOf(id))
    BY DEF StoreInv
  <2>3. Lawful(threads[id], id, left')
    <3>1. CASE AtTools(run) /\ run.thread = id
      BY <3>1, <2>1, <2>2, EpochEnds DEF Lawful
    <3>2. CASE ~(AtTools(run) /\ run.thread = id)
      BY <3>2, <2>1, EpochEnds, LawfulStays DEF StoreInv
    <3> QED
      BY <3>1, <3>2
  <2> QED
    BY <2>1, <2>2, <2>3, <1>1
<1> QED
  BY <1>2, <1>3, <1>4

\* A thread is deleted, the one on the page or another, and can be put back.
LEMMA ThreadGoes ==
    ASSUME StoreInv, RunInv, NEW id \in Threads, DeleteThread(id)
    PROVE  StoreInv' /\ RunInv'
<1> DEFINE others == {other \in Threads \ {id} : threads[other] # <<>>}
<1>1. /\ removed' = [removed EXCEPT ![id] = threads[id]]
      /\ threads' = [threads EXCEPT ![id] = <<>>]
  BY DEF DeleteThread
<1>2. \/ id # thread /\ UNCHANGED <<thread, shown, queue, run, left>>
      \/ /\ id = thread /\ NewEpoch
         /\ \/ thread' \in others /\ shown' = threads[thread']
            \/ thread' \in Threads /\ shown' = <<>>
  BY DEF DeleteThread
<1>3. /\ threads \in [Threads -> Seq(Messages)] /\ removed \in [Threads -> Seq(Messages)]
      /\ thread \in Threads /\ left \subseteq Threads /\ shown \in Seq(MessagesOf(thread))
      /\ \A j \in Threads : threads[j] \in Seq(MessagesOf(j))
  BY DEF StoreInv
<1>4. AtTools(run) => run.thread = thread
  BY DEF RunInv, RunOK, AtTools, NoRun
<1>5. left \subseteq left' /\ left' \subseteq Threads /\ RunInv'
  BY <1>2, <1>3, EpochEnds, RunStays
<1>6. /\ DOMAIN threads' = Threads /\ threads' = [j \in Threads |-> threads'[j]]
      /\ DOMAIN removed' = Threads /\ removed' = [j \in Threads |-> removed'[j]]
      /\ \A j \in Threads : threads'[j] = IF j = id THEN <<>> ELSE threads[j]
      /\ \A j \in Threads : removed'[j] = IF j = id THEN threads[id] ELSE removed[j]
  BY <1>1, <1>3
<1>7. ASSUME NEW j \in Threads, j # thread PROVE Lawful(threads[j], j, left')
  BY <1>4, <1>5, <1>7, LawfulStays DEF StoreInv
<1>8. Lawful(threads[id], id, left')
  <2>1. CASE id = thread /\ AtTools(run)
    BY <2>1, <1>2, <1>3, <1>4, EpochEnds DEF Lawful
  <2>2. CASE ~(id = thread /\ AtTools(run))
    BY <2>2, <1>4, <1>5, LawfulStays DEF StoreInv
  <2> QED
    BY <2>1, <2>2
<1>9. /\ \A j \in Threads : threads'[j] = threads[j] \/ Lawful(threads'[j], j, left')
      /\ \A j \in Threads : removed'[j] = removed[j] \/ Lawful(removed'[j], j, left')
  BY <1>6, <1>8, NothingLawful
<1>10. CASE id # thread /\ UNCHANGED <<thread, shown, queue, run, left>>
  <2>1. Lawful(shown', thread', left') \/ AtTools(run')
    BY <1>10 DEF StoreInv
  <2>2. AtTools(run) => AtTools(run') /\ run'.thread = run.thread
    BY <1>10
  <2>3. thread' \in Threads /\ shown' \in Seq(MessagesOf(thread'))
    BY <1>3, <1>10
  <2> QED
    BY <1>5, <1>6, <1>9, <2>1, <2>2, <2>3, StoreKeeps
<1>11. CASE /\ id = thread /\ NewEpoch
            /\ \/ thread' \in others /\ shown' = threads[thread']
               \/ thread' \in Threads /\ shown' = <<>>
  <2>1. AtTools(run) => run.thread \in left'
    BY <1>11, EpochEnds
  <2>2. thread' \in Threads /\ Lawful(shown', thread', left')
    BY <1>7, <1>11, NothingLawful
  <2>3. shown' \in Seq(MessagesOf(thread'))
    BY <2>2 DEF Lawful
  <2> QED
    BY <1>5, <1>6, <1>9, <2>1, <2>2, <2>3, StoreKeeps
<1> QED
  BY <1>2, <1>10, <1>11

\* A deleted thread is put back as it was.
LEMMA ThreadComesBack ==
    ASSUME StoreInv, RunInv, NEW id \in Threads, UndoDelete(id)
    PROVE  StoreInv' /\ RunInv'
<1>1. /\ threads' = [threads EXCEPT ![id] = removed[id]]
      /\ removed' = [removed EXCEPT ![id] = <<>>]
      /\ UNCHANGED <<thread, shown, run, left>>
  BY DEF UndoDelete
<1>2. /\ threads \in [Threads -> Seq(Messages)] /\ removed \in [Threads -> Seq(Messages)]
      /\ thread \in Threads /\ left \subseteq Threads /\ shown \in Seq(MessagesOf(thread))
      /\ Lawful(removed[id], id, left) /\ (Lawful(shown, thread, left) \/ AtTools(run))
  BY DEF StoreInv
<1>3. /\ DOMAIN threads' = Threads /\ threads' = [j \in Threads |-> threads'[j]]
      /\ DOMAIN removed' = Threads /\ removed' = [j \in Threads |-> removed'[j]]
      /\ \A j \in Threads : threads'[j] = IF j = id THEN removed[id] ELSE threads[j]
      /\ \A j \in Threads : removed'[j] = IF j = id THEN <<>> ELSE removed[j]
  BY <1>1, <1>2
<1>4. /\ \A j \in Threads : threads'[j] = threads[j] \/ Lawful(threads'[j], j, left')
      /\ \A j \in Threads : removed'[j] = removed[j] \/ Lawful(removed'[j], j, left')
  BY <1>1, <1>2, <1>3, NothingLawful
<1>5. /\ thread' \in Threads /\ shown' \in Seq(MessagesOf(thread'))
      /\ Lawful(shown', thread', left') \/ AtTools(run')
      /\ AtTools(run) => AtTools(run') /\ run'.thread = run.thread
      /\ left \subseteq left' /\ left' \subseteq Threads
  BY <1>1, <1>2
<1> QED
  BY <1>1, <1>3, <1>4, <1>5, StoreKeeps, RunStays

\* The page comes back, after another page or a reload.
LEMMA ChatComesBack ==
    ASSUME StoreInv, RunInv, NEW reload \in BOOLEAN, RemountChat(reload)
    PROVE  StoreInv' /\ RunInv'
<1>1. /\ run' = NoRun /\ LeavesTools /\ UNCHANGED <<threads, shown>>
      /\ removed' = IF reload THEN [id \in Threads |-> <<>>] ELSE removed
      /\ \/ shown # <<>> /\ thread' = thread
         \/ shown = <<>> /\ thread' \in Threads
  BY DEF RemountChat
<1>2. /\ threads \in [Threads -> Seq(Messages)] /\ removed \in [Threads -> Seq(Messages)]
      /\ thread \in Threads /\ left \subseteq Threads /\ shown \in Seq(MessagesOf(thread))
      /\ Lawful(shown, thread, left) \/ AtTools(run)
  BY DEF StoreInv
<1>3. left \subseteq left' /\ left' \subseteq Threads /\ (AtTools(run) => run.thread \in left')
  BY <1>1, <1>2 DEF LeavesTools, RunInv, RunOK, Runs, NoRun, AtTools
<1>4. AtTools(run) => run.thread = thread
  BY DEF RunInv, RunOK, AtTools, NoRun
<1>5. /\ DOMAIN threads' = Threads /\ threads' = [j \in Threads |-> threads'[j]]
      /\ DOMAIN removed' = Threads /\ removed' = [j \in Threads |-> removed'[j]]
      /\ \A j \in Threads : threads'[j] = threads[j]
      /\ \A j \in Threads : removed'[j] = removed[j] \/ removed'[j] = <<>>
  BY <1>1, <1>2
<1>6. \A j \in Threads : removed'[j] = removed[j] \/ Lawful(removed'[j], j, left')
  BY <1>5, NothingLawful
<1>7. thread' \in Threads /\ Lawful(shown', thread', left')
  <2>1. CASE shown = <<>> /\ thread' \in Threads
    BY <2>1, <1>1, NothingLawful
  <2>2. CASE shown # <<>> /\ thread' = thread
    <3>1. CASE AtTools(run)
      BY <3>1, <2>2, <1>1, <1>2, <1>3, <1>4 DEF Lawful
    <3>2. CASE ~AtTools(run)
      BY <3>2, <2>2, <1>1, <1>2, <1>3, LawfulStays
    <3> QED
      BY <3>1, <3>2
  <2> QED
    BY <2>1, <2>2, <1>1
<1>8. shown' \in Seq(MessagesOf(thread'))
  BY <1>7 DEF Lawful
<1>9. StoreInv'
  BY <1>3, <1>5, <1>6, <1>7, <1>8, StoreKeeps
<1> QED
  BY <1>1, <1>9 DEF RunInv

\* No step of the browser breaks the invariant of the chat.
LEMMA ChatStepKeeps ==
    ASSUME ChatInv, [Next]_vars
    PROVE  ChatInv'
<1> USE DEF ChatInv
<1>1. ASSUME UNCHANGED chatVars PROVE ChatInv'
  <2>1. UNCHANGED <<threads, removed, thread, shown, queue, failed, run, left>>
    BY <1>1 DEF chatVars
  <2> QED
    BY <2>1 DEF StoreInv, RunInv
<1>2. CASE ChatStep
  <2>1. StoreInv' /\ RunInv'
    BY <1>2, UserAsks, UserLeaves, ThreadGoes, ThreadComesBack, ChatComesBack, AnswerEnds,
       ResultsComeIn, ToolsAreCalled DEF ChatStep
  <2>2. queue' \in 0..MaxQueue
    <3>1. queue' = queue \/ queue' = 0 \/ (queue > 0 /\ queue' = queue - 1)
             \/ (queue < MaxQueue /\ queue' = queue + 1)
      BY <1>2 DEF ChatStep, SendMessage, ProcessQueue, Regenerate, RetryStream, CancelStream,
           EditMessage, StartNewChat, OpenThread, DeleteThread, UndoDelete, RemountChat,
           Answers, StreamFails, Throws, Aborts, BatchDone, CallsTools
    <3> QED
      BY <3>1, ChatAssumption
  <2>3. failed' \in BOOLEAN
    <3>1. failed' = failed \/ failed' = FALSE \/ failed' = (failed \/ ~IsStale)
      BY <1>2 DEF ChatStep, SendMessage, ProcessQueue, Regenerate, RetryStream, CancelStream,
           EditMessage, StartNewChat, OpenThread, DeleteThread, UndoDelete, RemountChat,
           Answers, StreamFails, Throws, Aborts, BatchDone, CallsTools, RunAgent
    <3> QED
      BY <3>1
  <2> QED
    BY <2>1, <2>2, <2>3
<1> QED
  BY <1>1, <1>2 DEF Next, WaitEnds, vars

\* The invariant holds of a chat that was just opened.
LEMMA ChatInitial == Init => ChatInv
<1> SUFFICES ASSUME Init PROVE ChatInv
  OBVIOUS
<1>1. /\ threads = [id \in Threads |-> <<>>] /\ removed = threads
      /\ thread \in Threads /\ shown = <<>>
      /\ queue = 0 /\ failed = FALSE
      /\ run = NoRun /\ left = {}
  BY ChatAssumption DEF Init, ChatInit
<1>2. \A id \in Threads : Lawful(<< >>, id, left) /\ << >> \in Seq(MessagesOf(id))
  BY NothingLawful DEF Lawful
<1>3. << >> \in Seq(Messages)
  BY EmptySeq
<1>4. StoreInv
  BY <1>1, <1>2, <1>3 DEF StoreInv
<1>5. queue \in 0..MaxQueue
  BY <1>1, ChatAssumption
<1>6. failed \in BOOLEAN /\ RunInv
  BY <1>1 DEF RunInv
<1> QED
  BY <1>4, <1>5, <1>6 DEF ChatInv

\* The invariant of the chat holds throughout.
LEMMA ChatAlways == Spec => []ChatInv
<1>1. ChatInv /\ [Next]_vars => ChatInv'
  BY ChatStepKeeps
<1> QED
  BY <1>1, ChatInitial, PTL DEF Spec

\* Every part of the state keeps its type, for any number of users, operations,
\* transactions, threads and tools.
THEOREM TypeCorrect == Spec => []TypeOK
<1>1. PageInv /\ ChatInv => TypeOK
  <2> SUFFICES ASSUME PageInv, ChatInv PROVE TypeOK
    OBVIOUS
  <2>1. /\ ConsoleTypeOK /\ TransferTypeOK /\ kind \in Kinds
        /\ hookFlags \subseteq {"running", "preparing", "writing"}
    BY DEF PageInv, ConsoleInv, OpsInv
  <2>2. op \in [Ops ->
           [run : {"none", "execute", "cosign", "apply", "submit", "approve", "pay", "mint",
                   "vault", "tick"},
            pc : {"idle", "challenge", "sign", "verify", "finalize", "wallet", "price",
                  "approve", "approval", "refetch", "stream"},
            live : BOOLEAN, to : Users \union {None}, key : Keys \union {0},
            challenge : Challenges \union {0}, code : Given, old : Given, hash : 0..MaxSent]]
    BY DEF PageInv, OpsInv, Operations
  <2>3. shown \in Seq(Messages)
    BY OfThreadTyped DEF ChatInv, StoreInv
  <2>4. /\ run.pc \in {"idle", "ask", "tools"} /\ run.thread \in Threads \union {None}
        /\ run.list \in Seq(Messages) /\ run.loop \in 0..MaxToolLoops
    <3>1. CASE run = NoRun
      <4>1. << >> \in Seq(Messages)
        BY EmptySeq
      <4> QED
        BY <3>1, <4>1, ChatAssumption DEF NoRun
    <3>2. CASE run # NoRun
      BY <3>2 DEF ChatInv, RunInv, RunOK, Runs
    <3> QED
      BY <3>1, <3>2
  <2>5. ChatTypeOK
    BY <2>3, <2>4 DEF ChatTypeOK, ChatInv, StoreInv, Messages
  <2> QED
    BY <2>1, <2>2, <2>5 DEF TypeOK
<1> QED
  BY <1>1, PageAlways, ChatAlways, PTL

\* What a run says never lands in another thread, however many threads are opened,
\* started, edited, deleted and put back while it streams or runs its tools.
THEOREM ThreadsKeepTheirOwn == Spec => []ThreadKeepsItsOwn
<1>1. ChatInv => ThreadKeepsItsOwn
  <2>1. \A id \in Threads : \A list \in Seq(MessagesOf(id)) :
           \A i \in DOMAIN list : list[i].by = id
    BY ElementOfSeq, LenProperties DEF MessagesOf
  <2> QED
    BY <2>1 DEF ChatInv, StoreInv, ThreadKeepsItsOwn
<1> QED
  BY <1>1, ChatAlways, PTL

\* No thread is stored with a call without its results, however the tools of an answer
\* are grouped and wherever a run stops, unless the thread is left while they run.
THEOREM CallsAreAnswered == Spec => []CallsAnswered
<1>1. ChatInv => CallsAnswered
  <2> SUFFICES ASSUME ChatInv, NEW id \in Threads \ left, run.thread # id
               PROVE  Answered(threads[id])
    BY DEF CallsAnswered
  <2>1. threads[id] \in Seq(MessagesOf(id)) /\ Awaits(threads[id], 0)
    BY DEF ChatInv, StoreInv, Lawful
  <2> QED
    BY <2>1, AwaitsNone
<1> QED
  BY <1>1, ChatAlways, PTL
=============================================================================
