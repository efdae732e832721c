-------------------------------- MODULE Page --------------------------------
(***************************************************************************)
(* What the operation pages of the browser have in common (FlowPage.tsx):  *)
(* a draft whose review sheet opens, runs an operation and closes, and the *)
(* operations themselves, asynchronous functions that outlive the sheet,   *)
(* and the page, that started them. One page of one kind is open at a      *)
(* time.                                                                   *)
(***************************************************************************)
EXTENDS Console

CONSTANTS
    Kinds,          \* the kinds of page of a run
    Ops,            \* operations that can be running at once
    Users, None

ASSUME PageAssumption == None \notin Users

VARIABLES
    kind,           \* which page
    hookFlags,      \* busy flags the page's hooks have raised
    op              \* the operations under way

pageVars == <<kind, hookFlags, op>>

\* An acceptance of a transfer: the challenge that is signed, and for whom.
NoAcceptance == <<0, None>>

Idle == [run |-> "none", pc |-> "idle", live |-> TRUE, to |-> None, key |-> 0,
         challenge |-> 0, code |-> NoAcceptance, old |-> NoAcceptance, hash |-> 0]

Running(o) == op[o] # Idle
Done(o) == op' = [op EXCEPT ![o] = Idle]
Begin(o, run) == ~Running(o) /\ op' = [op EXCEPT ![o] = run]

\* isBusy: the draft says it is submitting, or a hook does.
FlagsAndPhase == phase = "submitting" \/ hookFlags # {}
PhaseOnly == phase = "submitting"
Busy == FlagsAndPhase

ReviewPhase == IF kind = "payment" THEN "approval-required" ELSE "review"

\* An operation writes the state of the page that started it only while that page is
\* open; the store it writes in any case.
OnPage(o, write, kept) == IF op[o].live THEN write ELSE UNCHANGED kept
Lowers(o, flag) == hookFlags' = IF op[o].live THEN hookFlags \ {flag} ELSE hookFlags

OpenReview(valid) ==
    /\ phase = "draft" /\ ~Busy /\ valid
    /\ SetDraftPhase(ReviewPhase)

\* A page opened by a link with an intent reviews whatever is in the draft, each time it
\* is one; any page may have been.
OpensFromLink == phase = "draft" /\ SetDraftPhase(ReviewPhase)

Retry == phase = "recoverable-error" /\ ~Busy /\ SetDraftPhase(ReviewPhase)

\* Leaving the page loses its hooks, not what they started; a reload loses both.
LeavePage ==
    /\ hookFlags' = {}
    /\ op' = [o \in Ops |-> IF Running(o) THEN [op[o] EXCEPT !.live = FALSE] ELSE Idle]
LosePage == hookFlags' = {} /\ op' = [o \in Ops |-> Idle]

PageInit ==
    /\ kind \in Kinds
    /\ hookFlags = {} /\ op = [o \in Ops |-> Idle]
=============================================================================
