----------------------------- MODULE BrowserApp -----------------------------
(***************************************************************************)
(* An operation page of the browser application over its store: the user   *)
(* edits, reviews, executes, closes and reopens, leaves the page, reloads  *)
(* it or comes in by a link, while operations begun before go on.          *)
(***************************************************************************)
EXTENDS TransferFlow, OperationFlow, ChatThread

vars == <<consoleVars, pageVars, transferVars, chatVars>>

TypeOK ==
    /\ ConsoleTypeOK
    /\ kind \in Kinds
    /\ hookFlags \subseteq {"running", "preparing", "writing"}
    /\ op \in [Ops ->
           [run : {"none", "execute", "cosign", "apply", "submit", "approve", "pay", "mint",
                   "vault", "tick"},
            pc : {"idle", "challenge", "sign", "verify", "finalize", "wallet", "price",
                  "approve", "approval", "refetch", "stream"},
            live : BOOLEAN, to : Users \union {None}, key : Keys \union {0},
            challenge : Challenges \union {0}, code : Given, old : Given, hash : 0..MaxSent]]
    /\ TransferTypeOK /\ ChatTypeOK

\* The form takes an edit in the draft and under a receipt, and then shows a draft again.
Edit(user) ==
    /\ kind = "transfer" /\ phase \in {"draft", "receipt"} /\ to # user
    /\ to' = user /\ SetDraftPhase("draft")
    /\ UNCHANGED <<chainVars, pageVars, hookVars, queryVars, claim, handoffVars>>

Opens ==
    /\ \/ OpenReview(kind = "transfer" => to # None)
       \/ OpensFromLink
       \/ Retry
    /\ UNCHANGED <<chainVars, pageVars, transferVars>>

\* Closing the sheet stops nothing that runs but a hand-over's fetch, and of a transfer
\* forgets what waits.
Close ==
    /\ IsReviewOpen
    /\ IF kind = "transfer" THEN ResetHandoff
       ELSE UNCHANGED <<hookFlags, op, hookVars, queryVars>>
    /\ SetDraftPhase("draft")
    /\ UNCHANGED <<chainVars, kind, to, claim, handoffVars>>

Restart ==
    /\ phase = "receipt" /\ ResetHandoff
    /\ to' = None /\ SetDraftPhase("draft")
    /\ UNCHANGED <<chainVars, kind, claim, handoffVars>>

\* A visit counts its attempts from the start, over the queries of the visits before.
Remount ==
    /\ LeavePage /\ ForgetsHandoff /\ attempt' = 0 /\ claim' = NoAcceptance
    /\ UNCHANGED <<consoleVars, kind, to, cache, handoffVars>>

\* A claim link opens a page of its own, over the same store.
Reload(opened) ==
    /\ LosePage /\ ForgetsHandoff /\ ConsoleReload
    /\ attempt' = 0 /\ cache' = [key \in Keys |-> NoQuery]
    /\ claim' = opened
    /\ UNCHANGED <<kind, to, handoffVars>>

ChainStep == Mined /\ UNCHANGED <<pageVars, transferVars>>
WaitEnds(wait) ==
    /\ wait \in watching
    /\ ReceiptComes(wait) \/ ReceiptTimesOut(wait)
    /\ UNCHANGED <<pageVars, transferVars, chatVars>>

UserStep ==
    \/ \E user \in Users : Edit(user)
    \/ Opens \/ Close \/ Restart \/ Remount
    \/ \E opened \in {NoAcceptance} \union accepted : Reload(opened)

TransferStep ==
    \/ \E o \in Ops : Execute(o) \/ CoSign(o) \/ SubmitHandoff(o)
    \/ \E o \in Ops, challenge \in Challenges : ChallengeArrives(o, challenge)
    \/ \E key \in Keys : ChallengeExpires(key)
    \/ \E o \in Ops : ReceiverUnavailable(o) \/ Signs(o) \/ Verified(o)
                      \/ Finalized(o) \/ TransferSent(o) \/ TransferFails(o)
    \/ CopyHandoffLink
    \/ \E code \in shared : ReceiverSignsElsewhere(code)
    \/ \E o \in Ops, code \in shared : StorageEvent(o, code)
    \/ \E o \in Ops, code \in accepted : PasteCode(o, code)
    \/ \E o \in Ops : ClaimApplies(o)

OperationStep ==
    /\ \/ \E o \in Ops : Approve(o) \/ Pay(o) \/ MintOrVault(o) \/ Tick(o)
       \/ \E o \in Ops, covered \in BOOLEAN : AllowanceRead(o, covered)
       \/ \E o \in Ops : ApprovalSent(o) \/ ApprovalMined(o) \/ CallSent(o) \/ Refetched(o)
                         \/ TickCompletes(o) \/ OperationFails(o)
    /\ UNCHANGED transferVars

Init == ConsoleInit /\ PageInit /\ TransferInit /\ ChatInit
Next ==
    \/ /\ kind # "chat" /\ UNCHANGED chatVars
       /\ UserStep \/ TransferStep \/ OperationStep \/ ChainStep
    \/ \E wait \in watching : WaitEnds(wait)
    \/ kind = "chat" /\ ChatStep /\ UNCHANGED <<consoleVars, pageVars, transferVars>>
Spec == Init /\ [][Next]_vars

\* A wait polls every two seconds and gives up after two minutes: while a transaction is
\* waited for, one of its waits ends.
FairSpec ==
    /\ Spec
    /\ \A id \in Hashes :
          WF_vars(\E wait \in {w \in watching : w.id = id} : WaitEnds(wait))
=============================================================================
