---------------------------- MODULE TransferFlow ----------------------------
(***************************************************************************)
(* Handing an agent to another wallet from the browser (useTransfer.ts,    *)
(* the transfer half of FlowPage.tsx, transferHandoff.ts, CoSignPage.tsx). *)
(* The page asks the backend for a challenge, the receiver accepts it with *)
(* a signature, the backend turns that into proofs, and the sender's       *)
(* wallet sends them.  A receiver at another wallet accepts on a page of   *)
(* its own, reached by a link, and the acceptance comes back as a code, a  *)
(* storage event or a claim link.                                          *)
(*                                                                         *)
(* A challenge is its number, 0 is none, and names the receiver it was     *)
(* asked for.  What a receiver signs is a challenge with the recipient of  *)
(* the operation that holds it, who need not be the one it names: the page *)
(* takes challenges from a cache that outlives its visits.  Every          *)
(* challenge carries the nonce 0, which is what the backend gives a page   *)
(* that asks for none.                                                     *)
(***************************************************************************)
EXTENDS Page

CONSTANTS
    Owner,          \* the sender, connected throughout
    MaxWork,        \* bound: challenges and transfers of a run; none arrives after as many
    MaxAttempts     \* bound: hand-overs begun in one visit of the page

ASSUME TransferAssumption == Owner \in Users /\ MaxWork \in Nat /\ MaxAttempts \in Nat

VARIABLES
    to,             \* draft.value: the recipient
    pending,        \* pendingCoSign: the acceptance that is waited for
    proof,          \* signature and signatureRef: the acceptance in the proofs
    blocked,        \* coSignBlocked
    applied,        \* handoffApplied
    receiver,       \* handoffReceiver
    attempt,        \* attemptRef: the hand-overs begun in this visit
    cache,          \* the query client's entries under transfer-challenge, by attempt
    claim,          \* claimResult: an acceptance that came in the page's address
    challengeTo,    \* the receiver each challenge names
    shared,         \* the acceptances a link was copied for
    accepted,       \* those of them the receiver has signed
    signed          \* history: the acceptances signed in the sender's wallet

hookVars == <<pending, proof, blocked, applied, receiver>>
queryVars == <<attempt, cache>>
handoffVars == <<challengeTo, shared, accepted, signed>>
transferVars == <<to, hookVars, queryVars, claim, handoffVars>>

Keys == 1..MaxAttempts
Challenges == 1..MaxWork
Acceptances == Challenges \X Users
Given == Acceptances \union {NoAcceptance}
MoreWork == Len(challengeTo) + sent < MaxWork

\* An entry of the cache: the recipient its fetch asks for, and then what came.
NoQuery == [asks |-> None, challenge |-> 0]
Queries == [asks : Users \union {None}, challenge : Challenges \union {0}]

TransferTypeOK ==
    /\ to \in Users \union {None}
    /\ pending \in Given /\ proof \in Given /\ claim \in Given
    /\ blocked \in BOOLEAN /\ applied \in BOOLEAN
    /\ receiver \in Users \union {None}
    /\ attempt \in 0..MaxAttempts /\ cache \in [Keys -> Queries]
    /\ challengeTo \in Seq(Users) /\ Len(challengeTo) <= MaxWork
    /\ shared \subseteq Acceptances /\ accepted \subseteq shared
    /\ signed \subseteq Acceptances

\* The receiver the sheet shows the co-sign step for, if it is still the recipient.
ActiveReceiver ==
    CASE pending # NoAcceptance -> pending[2]
      [] pending = NoAcceptance /\ applied -> receiver
      [] OTHER -> None
CoSignActive == ActiveReceiver # None /\ ActiveReceiver = to

\* What awaits the answer to a fetch.
Awaiting(keys) == {o \in Ops : op[o].pc = "challenge" /\ op[o].key \in keys}
Cancelled(keys) == [o \in Ops |-> IF o \in Awaiting(keys) THEN [op[o] EXCEPT !.key = 0] ELSE op[o]]

ForgetsHandoff ==
    /\ pending' = NoAcceptance /\ proof' = NoAcceptance
    /\ blocked' = FALSE /\ applied' = FALSE /\ receiver' = None

\* reset also removes the queries: what awaits one of them can only fail. The number
\* of attempts goes on.
ResetHandoff ==
    /\ ForgetsHandoff
    /\ hookFlags' = hookFlags \ {"preparing", "writing"}
    /\ cache' = [key \in Keys |-> NoQuery] /\ op' = Cancelled(Keys)
    /\ UNCHANGED attempt

(***************************************************************************)
(* What the operations do.                                                 *)
(***************************************************************************)

\* prepare: the recipient's key and a challenge, under the number of the attempt. What
\* an earlier visit cached under it, or still fetches, is taken for this one's.
Execute(o) ==
    LET key == attempt + 1
    IN  /\ kind = "transfer" /\ phase = "review" /\ ~Busy /\ ~CoSignActive
        /\ attempt < MaxAttempts /\ attempt' = key
        /\ Begin(o, [Idle EXCEPT !.run = "execute", !.pc = "challenge", !.to = to,
                                 !.key = key, !.old = proof])
        /\ cache' = [cache EXCEPT ![key] = IF @ = NoQuery THEN [@ EXCEPT !.asks = to] ELSE @]
        /\ pending' = NoAcceptance /\ hookFlags' = hookFlags \union {"preparing"}
        /\ SetDraftPhase("submitting")
        /\ UNCHANGED <<chainVars, kind, to, proof, blocked, applied, receiver, claim,
                       handoffVars>>

\* The backend answers, for the recipient the fetch asked for, and the cache keeps it.
Fetch(key, challenge) ==
    /\ cache[key].challenge = 0 /\ cache[key].asks # None
    /\ challenge = Len(challengeTo) + 1
    /\ challengeTo' = Append(challengeTo, cache[key].asks)
    /\ cache' = [cache EXCEPT ![key].asks = None, ![key].challenge = challenge]

\* The sender accepts a challenge of its own at once; any other waits for its receiver.
ChallengeArrives(o, challenge) ==
    /\ op[o].pc = "challenge" /\ op[o].key # 0 /\ op[o].to # None /\ MoreWork
    /\ \/ Fetch(op[o].key, challenge)
       \/ cache[op[o].key].challenge = challenge /\ UNCHANGED <<cache, challengeTo>>
    /\ IF op[o].to = Owner
       THEN /\ op' = [op EXCEPT ![o].pc = "sign", ![o].key = 0, ![o].challenge = challenge]
            /\ UNCHANGED <<consoleVars, hookFlags, hookVars>>
       ELSE /\ Done(o) /\ Lowers(o, "preparing")
            /\ OnPage(o, pending' = <<challenge, op[o].to>> /\ receiver' = op[o].to,
                      <<pending, receiver>>)
            /\ SetDraftPhase("review")
            /\ UNCHANGED <<chainVars, proof, blocked, applied>>
    /\ UNCHANGED <<kind, to, attempt, claim, shared, accepted, signed>>

\* A challenge nobody waits for is dropped five minutes after it came.
ChallengeExpires(key) ==
    /\ cache[key].challenge # 0 /\ Awaiting({key}) = {}
    /\ cache' = [cache EXCEPT ![key] = NoQuery]
    /\ UNCHANGED <<consoleVars, pageVars, to, hookVars, attempt, claim, handoffVars>>

\* coSign: the receiver's account signs in this wallet, which must have it.
CoSign(o) ==
    /\ kind = "transfer" /\ phase = "review" /\ ~Busy
    /\ CoSignActive /\ ~applied /\ ~blocked
    /\ Begin(o, [Idle EXCEPT !.run = "cosign", !.pc = "sign", !.to = to,
                             !.challenge = pending[1], !.old = proof])
    /\ hookFlags' = hookFlags \union {"preparing"}
    /\ SetDraftPhase("submitting")
    /\ UNCHANGED <<chainVars, kind, to, hookVars, queryVars, claim, handoffVars>>

ReceiverUnavailable(o) ==
    /\ op[o].run = "cosign" /\ op[o].pc = "sign"
    /\ Done(o) /\ Lowers(o, "preparing")
    /\ OnPage(o, blocked' = TRUE, blocked)
    /\ SetDraftPhase("review")
    /\ UNCHANGED <<chainVars, kind, to, pending, proof, applied, receiver, queryVars, claim,
                   handoffVars>>

\* buildAccessProofMessage: what is signed, or has been, for this operation.
Awaited(o) == <<op[o].challenge, op[o].to>>

Signs(o) ==
    /\ op[o].pc = "sign"
    /\ op' = [op EXCEPT ![o].pc = "finalize", ![o].code = Awaited(o)]
    /\ signed' = signed \union {Awaited(o)}
    /\ UNCHANGED <<consoleVars, kind, hookFlags, to, hookVars, queryVars, claim,
                   challengeTo, shared, accepted>>

\* applyHandoffSignature: an acceptance from elsewhere, for the challenge that waits and
\* its recipient, whatever the form says by now.
Apply(o, code) ==
    /\ pending # NoAcceptance /\ ~Busy
    /\ Begin(o, [Idle EXCEPT !.run = "apply", !.pc = "verify", !.to = pending[2],
                             !.challenge = pending[1], !.code = code])
    /\ hookFlags' = hookFlags \union {"preparing"}
    /\ SetDraftPhase("submitting")

\* The signature must recover to the receiver over the message that is waited for.
Recovers(code, awaited) == code = awaited
EqualNonce(code, awaited) == TRUE
AcceptanceFits(code, awaited) == Recovers(code, awaited)

Verified(o) ==
    /\ op[o].pc = "verify" /\ AcceptanceFits(op[o].code, Awaited(o))
    /\ op' = [op EXCEPT ![o].pc = "finalize"]
    /\ UNCHANGED <<consoleVars, kind, hookFlags, transferVars>>

\* finalizePrepared: the proofs are kept; execute and coSign go on to confirm, in the
\* closure they began in, whose proof, if it had one, goes before the new one.
Finalized(o) ==
    /\ op[o].pc = "finalize"
    /\ OnPage(o, proof' = Awaited(o), proof)
    /\ IF op[o].run = "apply"
       THEN /\ Done(o) /\ Lowers(o, "preparing")
            /\ OnPage(o, pending' = NoAcceptance /\ applied' = TRUE, <<pending, applied>>)
            /\ SetDraftPhase("review") /\ UNCHANGED chainVars
       ELSE /\ op' = [op EXCEPT ![o].pc = "wallet",
                          ![o].code = IF op[o].old # NoAcceptance THEN op[o].old ELSE Awaited(o)]
            /\ OnPage(o, hookFlags' = (hookFlags \ {"preparing"}) \union {"writing"},
                      hookFlags)
            /\ OnPage(o, pending' = IF op[o].run = "cosign" THEN NoAcceptance ELSE pending,
                      pending)
            /\ UNCHANGED <<consoleVars, applied>>
    /\ UNCHANGED <<kind, to, blocked, receiver, queryVars, claim, handoffVars>>

\* submitHandoffTransfer: the acceptance is applied, the sender's wallet is next.
SubmitHandoff(o) ==
    /\ kind = "transfer" /\ phase = "review" /\ ~Busy
    /\ CoSignActive /\ applied /\ proof # NoAcceptance
    /\ Begin(o, [Idle EXCEPT !.run = "submit", !.pc = "wallet", !.to = to, !.code = proof])
    /\ hookFlags' = hookFlags \union {"writing"}
    /\ SetDraftPhase("submitting")
    /\ UNCHANGED <<chainVars, kind, to, hookVars, queryVars, claim, handoffVars>>

\* confirm: the wallet sends the proofs for the operation's own recipient.
TransferSent(o) ==
    LET hash == sent + 1
    IN  /\ kind = "transfer" /\ op[o].pc = "wallet" /\ sent < MaxSent /\ MoreWork
        /\ sent' = hash /\ Settle(hash, "receipt")
        /\ Done(o) /\ Lowers(o, "writing")
        /\ OnPage(o, applied' = (applied /\ op[o].run # "submit"), applied)
        /\ UNCHANGED <<mined, kind, to, pending, proof, blocked, receiver, queryVars, claim,
                       handoffVars>>

\* A call fails, or the wallet refuses: an acceptance that failed may be tried again in
\* the sheet, anything else shows as an error there. A fetch fails for all that await it.
TransferFails(o) ==
    /\ kind = "transfer" /\ Running(o)
    /\ IF op[o].pc = "challenge" /\ op[o].key # 0
       THEN /\ cache[op[o].key].challenge = 0
            /\ cache' = [cache EXCEPT ![op[o].key] = NoQuery]
            /\ op' = [Cancelled({op[o].key}) EXCEPT ![o] = Idle]
       ELSE Done(o) /\ UNCHANGED cache
    /\ Lowers(o, IF op[o].pc = "wallet" THEN "writing" ELSE "preparing")
    /\ SetDraftPhase(IF op[o].run = "apply" THEN "review" ELSE "recoverable-error")
    /\ UNCHANGED <<chainVars, kind, to, hookVars, attempt, claim, handoffVars>>

(***************************************************************************)
(* The receiver's side, and the three ways back.                           *)
(***************************************************************************)

CopyHandoffLink ==
    /\ kind = "transfer" /\ IsReviewOpen /\ CoSignActive /\ pending # NoAcceptance
    /\ shared' = shared \union {pending}
    /\ UNCHANGED <<consoleVars, pageVars, to, hookVars, queryVars, claim, challengeTo,
                   accepted, signed>>

\* CoSignPage prompts only the account the link names.
ReceiverSigns(code) ==
    /\ code \in shared \ accepted
    /\ accepted' = accepted \union {code}
    /\ UNCHANGED <<to, hookVars, queryVars, claim, challengeTo, shared, signed>>

ReceiverSignsElsewhere(code) ==
    ReceiverSigns(code) /\ UNCHANGED <<consoleVars, pageVars>>

\* Same browser: a storage event brings the acceptance to what waits, if anything does;
\* the nonce it is compared by is the nonce of them all.
StorageEvent(o, code) ==
    /\ pending # NoAcceptance /\ ~applied
    /\ Apply(o, code) /\ ReceiverSigns(code)
    /\ UNCHANGED <<chainVars, kind>>

PasteCode(o, code) ==
    /\ phase = "review" /\ CoSignActive /\ code \in accepted
    /\ Apply(o, code)
    /\ UNCHANGED <<chainVars, kind, transferVars>>

\* The claim the page was opened with is used on the first challenge that waits.
ClaimApplies(o) ==
    /\ claim # NoAcceptance /\ pending # NoAcceptance /\ ~applied
    /\ claim' = NoAcceptance
    /\ IF Busy THEN UNCHANGED <<consoleVars, pageVars>>
       ELSE Apply(o, claim) /\ UNCHANGED <<chainVars, kind>>
    /\ UNCHANGED <<to, hookVars, queryVars, handoffVars>>

TransferInit ==
    /\ to = None /\ pending = NoAcceptance /\ proof = NoAcceptance
    /\ blocked = FALSE /\ applied = FALSE /\ receiver = None
    /\ attempt = 0 /\ cache = [key \in Keys |-> NoQuery]
    /\ claim = NoAcceptance
    /\ challengeTo = << >> /\ shared = {} /\ accepted = {} /\ signed = {}

(***************************************************************************)
(* What a transfer promises.                                               *)
(***************************************************************************)

\* Proofs are kept, and the wallet is asked to send them, only for what their receiver
\* has signed: that challenge, for that recipient. All challenges carry one nonce, one
\* challenge may be waited for in two visits and for two recipients, and an acceptance
\* comes back late, twice, to another challenge or in a page opened since.
ProofsAreAccepted ==
    /\ proof \in signed \union accepted \union {NoAcceptance}
    /\ \A o \in Ops : kind = "transfer" /\ op[o].pc = "wallet"
                        => op[o].code \in signed \union accepted

\* The proofs the wallet is asked to send are for the recipient it sends the agent to.
SubmittedProofMatches ==
    \A o \in Ops : kind = "transfer" /\ op[o].pc = "wallet" => op[o].code[2] = op[o].to

\* The challenge an operation finalizes was asked for its own recipient. No run checks
\* it: a later visit is given the challenge of an earlier one (README, section 5).
ChallengeIsOwn ==
    \A o \in Ops : op[o].pc = "finalize" => challengeTo[op[o].challenge] = op[o].to
=============================================================================
