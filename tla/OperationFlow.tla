--------------------------- MODULE OperationFlow ---------------------------
(***************************************************************************)
(* The other operations of the browser's pages: paying an agent (an        *)
(* approval leg and a payment leg, usePayment.ts), minting (useMintWizard),*)
(* the vault's deposits and withdrawals (useVaultWrite) and a streamed     *)
(* tick (useOrchestratorTick).                                             *)
(***************************************************************************)
EXTENDS Page

Start(o, run, pc) ==
    /\ ~Busy
    /\ Begin(o, [Idle EXCEPT !.run = run, !.pc = pc])
    /\ hookFlags' = hookFlags \union {"running"}
    /\ SetDraftPhase("submitting")
    /\ UNCHANGED <<chainVars, kind>>

Approve(o) ==
    /\ kind = "payment" /\ phase = "approval-required"
    /\ Start(o, "approve", "price")

Pay(o) ==
    /\ kind = "payment" /\ phase = "payment-required"
    /\ Start(o, "pay", "price")

\* The backend encodes the call, this wallet sends it.
MintOrVault(o) ==
    /\ kind \in {"mint", "vault"} /\ phase = "review"
    /\ Start(o, kind, "wallet")

Tick(o) == kind = "tick" /\ phase = "review" /\ Start(o, "tick", "stream")

\* priceAndApprove: an allowance that covers the amount needs no approval.  The
\* allowance is the chain's, it may have any value.
AllowanceRead(o, covered) ==
    /\ op[o].pc = "price"
    /\ IF covered /\ op[o].run = "approve"
       THEN Done(o) /\ Lowers(o, "running") /\ SetDraftPhase("payment-required")
       ELSE /\ op' = [op EXCEPT ![o].pc = IF covered THEN "wallet" ELSE "approve"]
            /\ UNCHANGED <<phase, rows, watching, watchedRef, hookFlags>>
    /\ UNCHANGED <<chainVars, kind>>

ApprovalSent(o) ==
    /\ op[o].pc = "approve" /\ sent < MaxSent /\ sent' = sent + 1
    /\ op' = [op EXCEPT ![o].pc = "approval", ![o].hash = sent + 1]
    /\ UNCHANGED <<phase, rows, watching, watchedRef, mined, kind, hookFlags>>

\* Any receipt will do, a reverted approval's too; only the approval leg shows a row.
ApprovalMined(o) ==
    /\ op[o].pc = "approval" /\ mined[op[o].hash] # "pending"
    /\ IF op[o].run = "approve"
       THEN Done(o) /\ Lowers(o, "running") /\ Settle(op[o].hash, "payment-required")
       ELSE /\ op' = [op EXCEPT ![o].pc = "wallet"]
            /\ UNCHANGED <<phase, rows, watching, watchedRef, hookFlags>>
    /\ UNCHANGED <<chainVars, kind>>

\* The vault's page reads the balance again before it shows the receipt.
CallSent(o) ==
    /\ op[o].run \in {"pay", "mint", "vault"} /\ op[o].pc = "wallet"
    /\ sent < MaxSent /\ sent' = sent + 1
    /\ IF op[o].run = "vault"
       THEN /\ op' = [op EXCEPT ![o].pc = "refetch", ![o].hash = sent + 1]
            /\ UNCHANGED <<phase, rows, watching, watchedRef, hookFlags>>
       ELSE Done(o) /\ Lowers(o, "running") /\ Settle(sent + 1, "receipt")
    /\ UNCHANGED <<mined, kind>>

Refetched(o) ==
    /\ op[o].pc = "refetch"
    /\ Done(o) /\ Lowers(o, "running") /\ Settle(op[o].hash, "receipt")
    /\ UNCHANGED <<chainVars, kind>>

\* The stream's socket is the page's: it ends with it.
TickCompletes(o) ==
    /\ op[o].pc = "stream" /\ op[o].live
    /\ Done(o) /\ Lowers(o, "running") /\ SettleTick
    /\ UNCHANGED <<chainVars, kind>>

\* A call fails, the wallet refuses, the approval is not seen in time, the stream is
\* cancelled, closed or out of time.
OperationFails(o) ==
    /\ kind # "transfer" /\ op[o].pc \in {"price", "approve", "approval", "wallet", "stream"}
    /\ Done(o) /\ Lowers(o, "running")
    /\ SetDraftPhase("recoverable-error")
    /\ UNCHANGED <<chainVars, kind>>

(***************************************************************************)
(* What a page promises of them.                                           *)
(***************************************************************************)

\* A page runs one of these at a time, also when its sheet was closed over a running
\* one and opened again: there is one wallet prompt to say yes to.
OneAtATime ==
    kind # "transfer" => \A o, p \in Ops : Running(o) /\ op[o].live /\ Running(p) /\ op[p].live
                                           => o = p
=============================================================================
