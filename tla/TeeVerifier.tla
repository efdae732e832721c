----------------------------- MODULE TeeVerifier -----------------------------
(***************************************************************************)
(* AxiomTeeVerifier with its BaseVerifier: the allowlist of TEE signers,   *)
(* to which a signer is added through the timelock and from which it is    *)
(* removed at once, and the records that keep a transfer proof from being  *)
(* used twice until a keeper, or anyone, cleans them.                      *)
(*                                                                         *)
(* A proof stands for the two signed legs that agree on data, receiver and *)
(* deadline, the fields proofNonce hashes; its nonce stands for the others.  Any signer *)
(* may have signed any proof, and the receiver its leg, at any earlier     *)
(* time: what is submitted is chosen freely, what is accepted is not.      *)
(***************************************************************************)
EXTENDS Integers, Sequences

CONSTANTS
    Signers, FirstSigner,   \* TEE keys; the one given to initialize
    NoSigner,               \* address(0)
    MaxSigners,             \* MAX_SIGNERS
    Delay,                  \* TimelockManager.DELAY
    MaxProofAge,            \* maxProofAgeSeconds
    Users, Datas, Nonces,   \* receivers, data hashes, proof nonces
    Proofs,                 \* the proofs that may be submitted
    MaxTime                 \* bound: time

ASSUME VerifierAssumption ==
    /\ FirstSigner \in Signers /\ NoSigner \notin Signers
    /\ MaxSigners \in Nat \ {0}
    /\ Delay \in Nat
    /\ MaxProofAge \in Nat \ {0}
    /\ MaxTime \in Nat
    /\ Proofs \subseteq [data: Datas, to: Users, nonce: Nonces, validUntil: Nat]

VARIABLES
    now,
    signers,        \* _signers, in storage order
    isSigner,       \* _isSigner
    pendingSigner, proposedAt,  \* _signerTimelock
    used,           \* the proofs with a record, each with its timestamp
    accepted        \* history: how often each proof was accepted

allowlist == <<signers, isSigner>>
timelock == <<pendingSigner, proposedAt>>
verifierVars == <<now, allowlist, timelock, used, accepted>>

VerifierTypeOK ==
    /\ now \in 0..MaxTime
    /\ signers \in Seq(Signers)
    /\ isSigner \in SUBSET Signers
    /\ pendingSigner \in Signers \cup {NoSigner}
    /\ proposedAt \in 0..MaxTime
    /\ used \in SUBSET (Proofs \X (0..MaxTime))
    /\ accepted \in [Proofs -> Nat]

VerifierInit ==
    /\ now = 0
    /\ signers = <<FirstSigner>>
    /\ isSigner = {FirstSigner}
    /\ pendingSigner = NoSigner
    /\ proposedAt = 0
    /\ used = {}
    /\ accepted = [p \in Proofs |-> 0]

(***************************************************************************)
(* The allowlist                                                           *)
(***************************************************************************)
\* Mutant: the allowlist is not looked at when a signer is proposed.
ProposableAny(s) == s # NoSigner

Proposable(s) == s \notin isSigner

\* A proposal replaces the pending one and restarts its clock.
ProposeSigner(s) ==
    /\ Proposable(s)
    /\ pendingSigner' = s
    /\ proposedAt' = now
    /\ UNCHANGED <<now, allowlist, used, accepted>>

CancelSignerProposal ==
    /\ pendingSigner # NoSigner
    /\ pendingSigner' = NoSigner
    /\ proposedAt' = 0
    /\ UNCHANGED <<now, allowlist, used, accepted>>

ExecuteSigner ==
    /\ Len(signers) < MaxSigners
    /\ pendingSigner # NoSigner
    /\ now - proposedAt >= Delay
    /\ signers' = Append(signers, pendingSigner)
    /\ isSigner' = isSigner \cup {pendingSigner}
    /\ pendingSigner' = NoSigner
    /\ proposedAt' = 0
    /\ UNCHANGED <<now, used, accepted>>

\* The last entry takes the place of the removed one.
SwapAndPop(list, i) ==
    SubSeq([list EXCEPT ![i] = list[Len(list)]], 1, Len(list) - 1)

RevokeSigner(s) ==
    /\ s \in isSigner
    /\ Len(signers) # 1
    /\ isSigner' = isSigner \ {s}
    /\ LET at == {i \in DOMAIN signers : signers[i] = s}
       IN  signers' = IF at = {} THEN signers
                      ELSE SwapAndPop(signers, CHOOSE i \in at : \A j \in at : i <= j)
    /\ UNCHANGED <<now, timelock, used, accepted>>

(***************************************************************************)
(* Proofs                                                                  *)
(***************************************************************************)
HasRecord(p) == \E t \in 0..MaxTime : <<p, t>> \in used

\* Signed by s and by the receiver, neither past its deadline nor too far ahead
\* of it, and not used before.
Verifies(p, s) ==
    /\ now <= p.validUntil
    /\ p.validUntil - now <= MaxProofAge
    /\ s \in isSigner
    /\ ~HasRecord(p)

Mark(p) ==
    /\ used' = used \cup {<<p, now>>}
    /\ accepted' = [accepted EXCEPT ![p] = @ + 1]

\* Mutant: a record is cleaned in the last second of its proof.
ExpiredEarly(record) == now >= record[2] + MaxProofAge

Expired(record) == now > record[2] + MaxProofAge

\* Anyone may clean any records.
CleanExpiredProofs(nonces) ==
    /\ used' = {record \in used : ~(record[1] \in nonces /\ Expired(record))}
    /\ UNCHANGED <<now, allowlist, timelock, accepted>>

VerifierTick ==
    /\ now < MaxTime
    /\ now' = now + 1
    /\ UNCHANGED <<allowlist, timelock, used, accepted>>

VerifierNext ==
    \/ \E s \in Signers : ProposeSigner(s) \/ RevokeSigner(s)
    \/ CancelSignerProposal \/ ExecuteSigner
    \/ \E p \in Proofs : CleanExpiredProofs({p})
    \/ VerifierTick

(***************************************************************************)
(* Properties                                                              *)
(***************************************************************************)

\* A proof is accepted at most once, though its record may be cleaned.
NoReplay == \A p \in Proofs : accepted[p] <= 1

\* The list holds each allowlisted signer once and nothing else, and is neither
\* empty nor longer than its cap, over any order of proposals and revocations.
ListIsAllowlist ==
    /\ Len(signers) \in 1..MaxSigners
    /\ isSigner = {signers[i] : i \in DOMAIN signers}
    /\ \A i, j \in DOMAIN signers : signers[i] = signers[j] => i = j

\* "1-day propose/execute delay" (contract notice): a signer joins no earlier
\* than a day after it was proposed.
OneDay == 144 * Delay   \* DELAY is 10 minutes
SignerWaitsADay ==
    [][isSigner' \ isSigner # {} => now - proposedAt >= OneDay]_verifierVars

=============================================================================
