-------------------------- MODULE AgentTransferProofs --------------------------
(***************************************************************************)
(* Theorems about AgentTransfer and the verifier under it, for every set   *)
(* of accounts, data, signers and proofs, and every delay and proof age.   *)
(***************************************************************************)
EXTENDS AgentTransfer, FiniteSetTheorems, SequenceTheorems, TLAPS

-----------------------------------------------------------------------------
(* Type correctness.                                                        *)

\* Swap and pop: one entry less, every other entry where it was but the last,
\* which takes the place of the removed one.
LEMMA SwapAndPopIs ==
    ASSUME NEW S, NEW list \in Seq(S), NEW i \in DOMAIN list
    PROVE  /\ SwapAndPop(list, i) \in Seq(S)
           /\ Len(SwapAndPop(list, i)) = Len(list) - 1
           /\ \A k \in 1..(Len(list) - 1) :
                SwapAndPop(list, i)[k] = IF k = i THEN list[Len(list)] ELSE list[k]
<1> DEFINE n == Len(list)
           swapped == [list EXCEPT ![i] = list[n]]
<1>1. /\ n \in Nat /\ DOMAIN list = 1..n /\ 1 <= n
      /\ \A k \in 1..n : list[k] \in S
  OBVIOUS
<1>2. \A k \in 1..n : swapped[k] = IF k = i THEN list[n] ELSE list[k]
  BY <1>1
<1>3. \A k \in 1..(n - 1) : swapped[k] \in S
  BY <1>1, <1>2
<1> HIDE DEF swapped, n
<1>4. /\ SubSeq(swapped, 1, n - 1) \in Seq(S)
      /\ Len(SubSeq(swapped, 1, n - 1)) = IF 1 <= n - 1 THEN (n - 1) - 1 + 1 ELSE 0
      /\ \A k \in 1..((n - 1) - 1 + 1) : SubSeq(swapped, 1, n - 1)[k] = swapped[1 + k - 1]
  BY <1>1, <1>3, SubSeqProperties
<1>5. SwapAndPop(list, i) = SubSeq(swapped, 1, n - 1)
  BY DEF SwapAndPop, swapped, n
<1>6. \A k \in 1..(n - 1) : SubSeq(swapped, 1, n - 1)[k] = swapped[k]
  BY <1>1, <1>4
<1>7. QED
  BY <1>1, <1>2, <1>4, <1>5, <1>6 DEF n

-----------------------------------------------------------------------------
(* The verifier.                                                            *)

\* A pending signer is not on the list: only then may an execution append it.
PendingIsNew == pendingSigner \notin isSigner

VerifierInv == VerifierTypeOK /\ ListIsAllowlist /\ PendingIsNew

LEMMA VerifierInitInv == VerifierInit => VerifierInv
<1> SUFFICES ASSUME VerifierInit PROVE VerifierInv
  OBVIOUS
<1>1. /\ signers = <<FirstSigner>> /\ isSigner = {FirstSigner}
      /\ DOMAIN signers = {1} /\ Len(signers) = 1 /\ signers[1] = FirstSigner
  BY DEF VerifierInit
<1>2. ListIsAllowlist
  BY <1>1, VerifierAssumption DEF ListIsAllowlist
<1>3. VerifierTypeOK
  BY <1>1, VerifierAssumption DEF VerifierInit, VerifierTypeOK
<1>4. PendingIsNew
  BY <1>1, VerifierAssumption DEF VerifierInit, PendingIsNew
<1>5. QED
  BY <1>2, <1>3, <1>4 DEF VerifierInv

LEMMA ExecuteSignerInv == VerifierInv /\ ExecuteSigner => VerifierInv'
<1> SUFFICES ASSUME VerifierInv, ExecuteSigner PROVE VerifierInv'
  OBVIOUS
<1> DEFINE n == Len(signers)
<1>1. /\ signers \in Seq(Signers) /\ n \in Nat /\ n < MaxSigners /\ n \in 1..MaxSigners
      /\ pendingSigner \in Signers /\ pendingSigner \notin isSigner
      /\ isSigner = {signers[i] : i \in 1..n}
      /\ \A i, j \in 1..n : signers[i] = signers[j] => i = j
  BY DEF VerifierInv, VerifierTypeOK, ListIsAllowlist, PendingIsNew, ExecuteSigner
<1>2. /\ signers' \in Seq(Signers) /\ Len(signers') = n + 1 /\ DOMAIN signers' = 1..(n + 1)
      /\ \A i \in 1..n : signers'[i] = signers[i]
      /\ signers'[n + 1] = pendingSigner
  BY <1>1 DEF ExecuteSigner
<1>3. isSigner' = isSigner \cup {pendingSigner} /\ isSigner' \in SUBSET Signers
  BY <1>1 DEF ExecuteSigner, VerifierInv, VerifierTypeOK
<1> HIDE DEF n
<1>4. Len(signers') \in 1..MaxSigners
  BY <1>1, <1>2, VerifierAssumption
<1>5. isSigner' = {signers'[i] : i \in 1..(n + 1)}
  BY <1>1, <1>2, <1>3
<1>6. \A i, j \in 1..(n + 1) : signers'[i] = signers'[j] => i = j
  <2> SUFFICES ASSUME NEW i \in 1..(n + 1), NEW j \in 1..(n + 1), signers'[i] = signers'[j]
               PROVE  i = j
    OBVIOUS
  <2>1. \A k \in 1..n : signers'[k] # pendingSigner
    BY <1>1, <1>2
  <2>2. CASE i \in 1..n /\ j \in 1..n
    BY <1>1, <1>2, <2>2
  <2>3. CASE i = n + 1 \/ j = n + 1
    BY <1>1, <1>2, <2>1, <2>3
  <2>4. QED
    BY <1>1, <2>2, <2>3
<1>7. ListIsAllowlist'
  BY <1>2, <1>4, <1>5, <1>6 DEF ListIsAllowlist
<1>8. pendingSigner' = NoSigner /\ proposedAt' = 0 /\ UNCHANGED <<now, used, accepted>>
  BY DEF ExecuteSigner
<1>9. PendingIsNew'
  BY <1>3, <1>8, VerifierAssumption DEF PendingIsNew
<1>10. VerifierTypeOK'
  BY <1>2, <1>3, <1>8, VerifierAssumption DEF VerifierInv, VerifierTypeOK
<1>11. QED
  BY <1>7, <1>9, <1>10 DEF VerifierInv

\* A signer on the allowlist has one place in the list, which is given up.
LEMMA RevokeSignerIs ==
    ASSUME VerifierInv, NEW s \in Signers, RevokeSigner(s)
    PROVE  \E i \in DOMAIN signers :
                signers[i] = s /\ signers' = SwapAndPop(signers, i)
<1> DEFINE at == {i \in DOMAIN signers : signers[i] = s}
           first == CHOOSE i \in at : \A j \in at : i <= j
<1>1. PICK i \in DOMAIN signers : signers[i] = s
  BY DEF RevokeSigner, VerifierInv, ListIsAllowlist
<1>2. i \in Nat /\ \A j \in at : i = j
  BY <1>1 DEF VerifierInv, VerifierTypeOK, ListIsAllowlist
<1>3. i \in at /\ \A j \in at : i <= j
  BY <1>1, <1>2
<1>4. first \in at
  BY <1>3
<1>5. signers' = SwapAndPop(signers, first)
  BY <1>4 DEF RevokeSigner
<1>6. QED
  BY <1>4, <1>5

LEMMA RevokeSignerInv ==
    ASSUME VerifierInv, NEW s \in Signers, RevokeSigner(s)
    PROVE  VerifierInv'
<1> DEFINE n == Len(signers)
<1>1. PICK i \in DOMAIN signers : signers[i] = s /\ signers' = SwapAndPop(signers, i)
  BY RevokeSignerIs
<1>2. /\ signers \in Seq(Signers) /\ n \in Nat /\ DOMAIN signers = 1..n
      /\ n \in 1..MaxSigners /\ n # 1 /\ i \in 1..n
      /\ isSigner = {signers[k] : k \in 1..n}
      /\ \A k, j \in 1..n : signers[k] = signers[j] => k = j
  BY <1>1 DEF VerifierInv, VerifierTypeOK, ListIsAllowlist, RevokeSigner
<1>3. /\ signers' \in Seq(Signers) /\ Len(signers') = n - 1
      /\ \A k \in 1..(n - 1) : signers'[k] = IF k = i THEN signers[n] ELSE signers[k]
  BY <1>1, <1>2, SwapAndPopIs
<1> HIDE DEF n
<1>4. Len(signers') \in 1..MaxSigners /\ DOMAIN signers' = 1..(n - 1)
  BY <1>2, <1>3, VerifierAssumption
<1>5. isSigner' = isSigner \ {s} /\ UNCHANGED <<now, timelock, used, accepted>>
  BY DEF RevokeSigner
<1>6. isSigner' = {signers'[k] : k \in 1..(n - 1)}
  <2>1. ASSUME NEW t \in isSigner'
        PROVE  \E k \in 1..(n - 1) : signers'[k] = t
    <3>1. PICK j \in 1..n : signers[j] = t
      BY <1>2, <1>5
    <3>2. j # i
      BY <1>1, <1>5, <3>1
    <3>3. CASE j = n
      BY <1>2, <1>3, <3>1, <3>2, <3>3
    <3>4. CASE j # n
      BY <1>2, <1>3, <3>1, <3>2, <3>4
    <3>5. QED
      BY <3>3, <3>4
  <2>2. ASSUME NEW k \in 1..(n - 1)
        PROVE  signers'[k] \in isSigner'
    <3>1. PICK j \in 1..n : signers'[k] = signers[j] /\ j # i
      <4>1. CASE k = i
        BY <1>2, <1>3, <4>1
      <4>2. CASE k # i
        BY <1>2, <1>3, <4>2
      <4>3. QED
        BY <4>1, <4>2
    <3>2. signers[j] # s
      BY <1>1, <1>2, <3>1
    <3>3. QED
      BY <1>2, <1>5, <3>1, <3>2
  <2>3. QED
    BY <2>1, <2>2
<1>7. \A k, j \in 1..(n - 1) : signers'[k] = signers'[j] => k = j
  BY <1>2, <1>3
<1>8. ListIsAllowlist'
  BY <1>4, <1>6, <1>7 DEF ListIsAllowlist
<1>9. VerifierTypeOK'
  BY <1>3, <1>5 DEF VerifierInv, VerifierTypeOK, timelock
<1>10. PendingIsNew'
  BY <1>5 DEF VerifierInv, PendingIsNew, timelock
<1>11. QED
  BY <1>8, <1>9, <1>10 DEF VerifierInv

LEMMA VerifierNextInv == VerifierInv /\ VerifierNext => VerifierInv'
<1> SUFFICES ASSUME VerifierInv, VerifierNext PROVE VerifierInv'
  OBVIOUS
<1> USE DEF VerifierInv, VerifierTypeOK, PendingIsNew, allowlist, timelock
<1>1. ASSUME NEW s \in Signers, ProposeSigner(s)
      PROVE  VerifierInv'
  BY <1>1 DEF ProposeSigner, Proposable, ListIsAllowlist
<1>2. ASSUME NEW s \in Signers, RevokeSigner(s)
      PROVE  VerifierInv'
  <2> USE RevokeSignerInv
  <2>1. QED
    BY <1>2
<1>3. ASSUME CancelSignerProposal
      PROVE  VerifierInv'
  <2>1. /\ pendingSigner' = NoSigner /\ proposedAt' = 0
        /\ UNCHANGED <<now, signers, isSigner, used, accepted>>
    BY <1>3 DEF CancelSignerProposal
  <2>2. NoSigner \notin isSigner /\ 0 \in 0..MaxTime
    BY VerifierAssumption
  <2>3. QED
    BY <2>1, <2>2 DEF ListIsAllowlist
<1>4. ASSUME ExecuteSigner
      PROVE  VerifierInv'
  BY <1>4, ExecuteSignerInv
<1>5. ASSUME NEW p \in Proofs, CleanExpiredProofs({p})
      PROVE  VerifierInv'
  BY <1>5 DEF CleanExpiredProofs, ListIsAllowlist
<1>6. ASSUME VerifierTick
      PROVE  VerifierInv'
  BY <1>6, VerifierAssumption DEF VerifierTick, ListIsAllowlist
<1>7. QED
  BY <1>1, <1>2, <1>3, <1>4, <1>5, <1>6 DEF VerifierNext

-----------------------------------------------------------------------------
(* Proofs are accepted once.                                                *)

\* The records R and the counts A keep proofs from being accepted again: an
\* accepted proof has a record or is past its deadline, and a record is made no
\* earlier than MaxProofAge before the deadline of its proof.
Guarded(R, A) ==
    /\ R \in SUBSET (Proofs \X (0..MaxTime))
    /\ A \in [Proofs -> 0..1]
    /\ \A p \in Proofs :
        A[p] = 1 => (\E t \in 0..MaxTime : <<p, t>> \in R) \/ now > p.validUntil
    /\ \A p \in Proofs, t \in 0..MaxTime :
        <<p, t>> \in R => p.validUntil <= t + MaxProofAge

ReplayInv == Guarded(used, accepted)

LEMMA ProofFields == \A p \in Proofs : p.validUntil \in Nat
  BY VerifierAssumption

LEMMA AcceptKeepsGuard ==
    ASSUME VerifierTypeOK, ReplayInv, NEW p \in Proofs, NEW s \in Signers, Verifies(p, s)
    PROVE  Guarded(used \cup {<<p, now>>}, [accepted EXCEPT ![p] = @ + 1])
<1> DEFINE R == used \cup {<<p, now>>}
           A == [accepted EXCEPT ![p] = @ + 1]
<1>1. /\ now \in 0..MaxTime /\ now \in Nat /\ p.validUntil \in Nat
      /\ now <= p.validUntil /\ p.validUntil - now <= MaxProofAge
      /\ MaxProofAge \in Nat /\ MaxTime \in Nat
  BY VerifierAssumption, ProofFields DEF VerifierTypeOK, Verifies
<1>2. accepted[p] = 0
  BY <1>1 DEF ReplayInv, Guarded, Verifies, HasRecord
<1>3. A \in [Proofs -> 0..1] /\ A[p] = 1 /\ \A q \in Proofs : q # p => A[q] = accepted[q]
  BY <1>2 DEF ReplayInv, Guarded
<1>4. R \in SUBSET (Proofs \X (0..MaxTime))
  BY <1>1 DEF ReplayInv, Guarded
<1>5. ASSUME NEW q \in Proofs, A[q] = 1
      PROVE  (\E t \in 0..MaxTime : <<q, t>> \in R) \/ now > q.validUntil
  <2>1. CASE q = p
    BY <1>1, <2>1
  <2>2. CASE q # p
    BY <1>3, <1>5, <2>2 DEF ReplayInv, Guarded
  <2>3. QED
    BY <2>1, <2>2
<1>6. ASSUME NEW q \in Proofs, NEW t \in 0..MaxTime, <<q, t>> \in R
      PROVE  q.validUntil <= t + MaxProofAge
  <2>1. CASE <<q, t>> \in used
    BY <2>1 DEF ReplayInv, Guarded
  <2>2. CASE q = p /\ t = now
    BY <1>1, <2>2
  <2>3. QED
    BY <1>6, <2>1, <2>2
<1> HIDE DEF R, A
<1>7. Guarded(R, A)
  BY <1>3, <1>4, <1>5, <1>6 DEF Guarded
<1>8. QED
  BY <1>7 DEF R, A

\* Expired records may be cleaned: the deadlines of their proofs have passed.
LEMMA CleanKeepsGuard ==
    ASSUME VerifierTypeOK, NEW R, NEW A, Guarded(R, A), NEW nonces
    PROVE  Guarded({record \in R : ~(record[1] \in nonces /\ Expired(record))}, A)
<1> DEFINE Kept == {record \in R : ~(record[1] \in nonces /\ Expired(record))}
<1>1. Kept \subseteq R /\ Kept \in SUBSET (Proofs \X (0..MaxTime))
  BY DEF Guarded
<1>2. ASSUME NEW p \in Proofs, A[p] = 1
      PROVE  (\E t \in 0..MaxTime : <<p, t>> \in Kept) \/ now > p.validUntil
  <2>1. CASE now > p.validUntil
    BY <2>1
  <2>2. CASE \E t \in 0..MaxTime : <<p, t>> \in R
    <3>1. PICK t \in 0..MaxTime : <<p, t>> \in R
      BY <2>2
    <3>2. p.validUntil <= t + MaxProofAge
      BY <3>1 DEF Guarded
    <3>3. CASE <<p, t>> \in Kept
      BY <3>3
    <3>4. CASE <<p, t>> \notin Kept
      <4>1. Expired(<<p, t>>)
        BY <3>1, <3>4
      <4>2. now > t + MaxProofAge
        BY <4>1 DEF Expired
      <4>3. QED
        BY <3>2, <4>2, ProofFields, VerifierAssumption DEF VerifierTypeOK
    <3>5. QED
      BY <3>3, <3>4
  <2>3. QED
    BY <1>2, <2>1, <2>2 DEF Guarded
<1>3. \A p \in Proofs, t \in 0..MaxTime :
        <<p, t>> \in Kept => p.validUntil <= t + MaxProofAge
  BY <1>1 DEF Guarded
<1> HIDE DEF Kept
<1>4. Guarded(Kept, A)
  BY <1>1, <1>2, <1>3 DEF Guarded
<1>5. QED
  BY <1>4 DEF Kept

LEMMA ReplayNext == VerifierTypeOK /\ ReplayInv /\ [Next]_vars => ReplayInv'
<1> SUFFICES ASSUME VerifierTypeOK, ReplayInv, [Next]_vars PROVE ReplayInv'
  OBVIOUS
<1>1. ASSUME UNCHANGED <<now, used, accepted>>
      PROVE  ReplayInv'
  BY <1>1 DEF ReplayInv, Guarded
<1>2. ASSUME NEW p \in Proofs, NEW s \in Signers, Verifies(p, s), Mark(p), now' = now
      PROVE  ReplayInv'
  <2>1. /\ used' = used \cup {<<p, now>>}
        /\ accepted' = [accepted EXCEPT ![p] = @ + 1]
    BY <1>2 DEF Mark
  <2>2. Guarded(used', accepted')
    BY <1>2, <2>1, AcceptKeepsGuard
  <2>3. QED
    BY <1>2, <2>2 DEF ReplayInv, Guarded
<1>3. ASSUME VerifierNext
      PROVE  ReplayInv'
  <2>1. ASSUME NEW p \in Proofs, CleanExpiredProofs({p})
        PROVE  ReplayInv'
    <3>1. Guarded(used, accepted)
      BY DEF ReplayInv
    <3>2. Guarded(used', accepted)
      BY <2>1, <3>1, CleanKeepsGuard DEF CleanExpiredProofs
    <3>3. accepted' = accepted /\ now' = now
      BY <2>1 DEF CleanExpiredProofs
    <3>4. QED
      BY <3>2, <3>3 DEF ReplayInv, Guarded
  <2>2. ASSUME VerifierTick
        PROVE  ReplayInv'
    <3>1. used' = used /\ accepted' = accepted /\ now \in Nat /\ now' = now + 1
      BY <2>2 DEF VerifierTick, VerifierTypeOK
    <3>2. QED
      BY <3>1, ProofFields DEF ReplayInv, Guarded
  <2>3. QED
    BY <1>1, <1>3, <2>1, <2>2
       DEF VerifierNext, ProposeSigner, RevokeSigner, CancelSignerProposal,
           ExecuteSigner, timelock
<1>4. ASSUME NEW id \in Ids, NEW to \in Users, NEW p \in Proofs, NEW s \in Signers,
             ITransfer(id, to, p, s) \/ IClone(id, to, p, s)
      PROVE  ReplayInv'
  <2>1. Verifies(p, s) /\ Mark(p) /\ now' = now
    BY <1>4 DEF ITransfer, IClone, ProofCheck
  <2>2. QED
    BY <1>2, <2>1
<1>5. ASSUME NEW id \in Ids, NEW to \in Users, NEW p \in Proofs, NEW s \in Signers,
             TransferAndCleanExpiredProofs(id, to, p, s, Proofs)
      PROVE  ReplayInv'
  <2> DEFINE R == used \cup {<<p, now>>}
             A == [accepted EXCEPT ![p] = @ + 1]
  <2>1. Verifies(p, s) /\ now' = now /\ accepted' = A
        /\ used' = {record \in R : ~(record[1] \in Proofs /\ Expired(record))}
    BY <1>5 DEF TransferAndCleanExpiredProofs, ProofCheck
  <2>2. Guarded(R, A)
    BY <2>1, AcceptKeepsGuard
  <2> HIDE DEF R, A
  <2>3. Guarded(used', accepted')
    BY <2>1, <2>2, CleanKeepsGuard
  <2>4. QED
    BY <2>1, <2>3 DEF ReplayInv, Guarded
<1>6. ASSUME \/ \E to \in Users, data \in Datas : Mint(to, data)
             \/ \E id \in Ids, data \in Datas : Update(id, data)
             \/ \E id \in Ids, u \in Users : AuthorizeUsage(id, u) \/ RevokeAuthorization(id, u)
             \/ SetPaused
      PROVE  ReplayInv'
  BY <1>1, <1>6 DEF Mint, Update, AuthorizeUsage, RevokeAuthorization, SetPaused, verifierVars
<1>7. CASE UNCHANGED vars
  BY <1>1, <1>7 DEF vars, verifierVars
<1>8. QED
  BY <1>3, <1>4, <1>5, <1>6, <1>7 DEF Next

-----------------------------------------------------------------------------
(* The whole: types, the list, and the agents.                              *)

\* A step that accepts a proof leaves the allowlist and its timelock alone.
LEMMA VerifierUnderNext == VerifierInv /\ ReplayInv /\ [Next]_vars => VerifierInv'
<1> SUFFICES ASSUME VerifierInv, ReplayInv, [Next]_vars PROVE VerifierInv'
  OBVIOUS
<1>1. ReplayInv'
  BY ReplayNext DEF VerifierInv
<1>2. used' \in SUBSET (Proofs \X (0..MaxTime)) /\ accepted' \in [Proofs -> Nat]
  BY <1>1 DEF ReplayInv, Guarded
<1>3. ASSUME VerifierNext
      PROVE  VerifierInv'
  BY <1>3, VerifierNextInv
<1>4. ASSUME UNCHANGED <<now, allowlist, timelock>>
      PROVE  VerifierInv'
  BY <1>2, <1>4
     DEF VerifierInv, VerifierTypeOK, ListIsAllowlist, PendingIsNew, allowlist, timelock
<1>5. VerifierNext \/ UNCHANGED <<now, allowlist, timelock>>
  BY DEF Next, ITransfer, TransferAndCleanExpiredProofs, IClone, Mint, Update,
         AuthorizeUsage, RevokeAuthorization, SetPaused, vars, verifierVars
<1>6. QED
  BY <1>3, <1>4, <1>5

AgentsType ==
    /\ nextTokenId \in 0..Tokens
    /\ ownerOf \in [Ids -> Users \cup {NoUser}]
    /\ dataHash \in [Ids -> Datas \cup {NoData}]
    /\ authorized \in [Ids -> UserSets]
    /\ grants \in SUBSET (Ids \X Users)
    /\ keys \in SUBSET (Users \X Datas)
    /\ paused \in BOOLEAN

\* An agent that has an owner has data; the rest are the properties.
AgentsInv ==
    /\ AgentsType
    /\ \A id \in Ids : ownerOf[id] # NoUser => dataHash[id] \in Datas
    /\ OwnerHasKey
    /\ AuthorizedByOwner

LEMMA MintToInv ==
    ASSUME AgentsInv, NEW to \in Users, NEW data \in Datas, MintTo(to, data)
    PROVE  AgentsInv'
<1>1. nextTokenId \in Ids /\ nextTokenId' \in 0..Tokens
  BY TransferAssumption DEF AgentsInv, AgentsType, MintTo, Ids
<1>2. AgentsType'
  BY <1>1 DEF AgentsInv, AgentsType, MintTo
<1>3. OwnerHasKey' /\ \A id \in Ids : ownerOf'[id] # NoUser => dataHash'[id] \in Datas
  BY <1>1 DEF AgentsInv, AgentsType, MintTo, OwnerHasKey
<1>4. AuthorizedByOwner'
  BY DEF AgentsInv, MintTo, AuthorizedByOwner
<1>5. QED
  BY <1>2, <1>3, <1>4 DEF AgentsInv

LEMMA MoveInv ==
    ASSUME AgentsInv, NEW id \in Ids, NEW to \in Users, NEW p \in Proofs, NEW s \in Signers,
           ProofCheck(id, to, p, s), Move(id, to, p)
    PROVE  AgentsInv'
<1>1. p.data = dataHash[id] /\ p.data \in Datas /\ ownerOf[id] # NoUser
  BY VerifierAssumption DEF ProofCheck
<1>2. {} \in UserSets
  BY FS_EmptySet, TransferAssumption DEF UserSets
<1>3. AgentsType'
  BY <1>1, <1>2 DEF AgentsInv, AgentsType, Move
<1>4. OwnerHasKey' /\ \A i \in Ids : ownerOf'[i] # NoUser => dataHash'[i] \in Datas
  BY <1>1 DEF AgentsInv, AgentsType, Move, OwnerHasKey
<1>5. AuthorizedByOwner'
  <2> SUFFICES ASSUME NEW i \in Ids, NEW u \in authorized'[i]
               PROVE  <<i, u>> \in grants'
    BY DEF AuthorizedByOwner
  <2>1. i # id
    BY DEF Move, AgentsInv, AgentsType
  <2>2. u \in authorized[i]
    BY <2>1 DEF Move, AgentsInv, AgentsType
  <2>3. <<i, u>> \in grants
    BY <2>2 DEF AgentsInv, AuthorizedByOwner
  <2>4. QED
    BY <2>1, <2>3 DEF Move
<1>6. QED
  BY <1>3, <1>4, <1>5 DEF AgentsInv

LEMMA AuthorizeInv ==
    ASSUME AgentsInv, NEW id \in Ids, NEW u \in Users, AuthorizeUsage(id, u)
    PROVE  AgentsInv'
<1>1. authorized[id] \in UserSets /\ Cardinality(authorized[id]) < MaxAuthorized
  BY DEF AgentsInv, AgentsType, AuthorizeUsage, HasRoom
<1>2. Cardinality(authorized[id]) \in Nat
  BY <1>1, FS_CardinalityType DEF UserSets
<1>3. /\ IsFiniteSet(authorized[id] \cup {u})
      /\ Cardinality(authorized[id] \cup {u}) <= MaxAuthorized
  <2>1. IsFiniteSet(authorized[id])
    BY <1>1 DEF UserSets
  <2>2. /\ IsFiniteSet(authorized[id] \cup {u})
        /\ Cardinality(authorized[id] \cup {u}) =
             IF u \in authorized[id] THEN Cardinality(authorized[id])
                                     ELSE Cardinality(authorized[id]) + 1
    BY <2>1, FS_AddElement
  <2>3. QED
    BY <1>1, <1>2, <2>2, TransferAssumption
<1>4. authorized[id] \cup {u} \in UserSets
  BY <1>1, <1>3 DEF UserSets
<1>5. AgentsType'
  BY <1>4 DEF AgentsInv, AgentsType, AuthorizeUsage
<1>6. QED
  BY <1>5 DEF AgentsInv, AgentsType, AuthorizeUsage, OwnerHasKey, AuthorizedByOwner

LEMMA RevokeInv ==
    ASSUME AgentsInv, NEW id \in Ids, NEW u \in Users, RevokeAuthorization(id, u)
    PROVE  AgentsInv'
<1>1. authorized[id] \in UserSets
  BY DEF AgentsInv, AgentsType
<1>2. authorized[id] \ {u} \in UserSets
  <2>1. /\ IsFiniteSet(authorized[id] \ {u})
        /\ Cardinality(authorized[id] \ {u}) <= Cardinality(authorized[id])
    BY <1>1, FS_Subset DEF UserSets
  <2>2. /\ Cardinality(authorized[id] \ {u}) \in Nat
        /\ Cardinality(authorized[id]) \in Nat
    BY <1>1, <2>1, FS_CardinalityType DEF UserSets
  <2>3. QED
    BY <1>1, <2>1, <2>2, TransferAssumption DEF UserSets
<1>3. AgentsType'
  BY <1>2 DEF AgentsInv, AgentsType, RevokeAuthorization
<1>4. AuthorizedByOwner'
  BY DEF AgentsInv, AgentsType, RevokeAuthorization, AuthorizedByOwner
<1>5. QED
  BY <1>3, <1>4 DEF AgentsInv, RevokeAuthorization, OwnerHasKey

LEMMA AgentsNext == AgentsInv /\ [Next]_vars => AgentsInv'
<1> SUFFICES ASSUME AgentsInv, [Next]_vars PROVE AgentsInv'
  OBVIOUS
<1>1. ASSUME UNCHANGED <<agents, paused>>
      PROVE  AgentsInv'
  BY <1>1 DEF AgentsInv, AgentsType, OwnerHasKey, AuthorizedByOwner, agents
<1>2. ASSUME NEW to \in Users, NEW data \in Datas, Mint(to, data)
      PROVE  AgentsInv'
  BY <1>2, MintToInv DEF Mint
<1>3. ASSUME NEW id \in Ids, NEW data \in Datas, Update(id, data)
      PROVE  AgentsInv'
  <2>1. ownerOf[id] \in Users
    BY <1>3 DEF Update, AgentsInv, AgentsType
  <2>2. AgentsType'
    BY <1>3, <2>1 DEF Update, AgentsInv, AgentsType
  <2>3. QED
    BY <1>3, <2>1, <2>2 DEF Update, AgentsInv, AgentsType, OwnerHasKey, AuthorizedByOwner
<1>4. ASSUME NEW id \in Ids, NEW to \in Users, NEW p \in Proofs, NEW s \in Signers,
             ITransfer(id, to, p, s) \/ TransferAndCleanExpiredProofs(id, to, p, s, Proofs)
      PROVE  AgentsInv'
  BY <1>4, MoveInv DEF ITransfer, TransferAndCleanExpiredProofs
<1>5. ASSUME NEW id \in Ids, NEW to \in Users, NEW p \in Proofs, NEW s \in Signers,
             IClone(id, to, p, s)
      PROVE  AgentsInv'
  <2>1. dataHash[id] \in Datas /\ MintTo(to, dataHash[id])
    BY <1>5 DEF IClone, ProofCheck, AgentsInv
  <2>2. QED
    BY <2>1, MintToInv
<1>6. ASSUME NEW id \in Ids, NEW u \in Users,
             AuthorizeUsage(id, u) \/ RevokeAuthorization(id, u)
      PROVE  AgentsInv'
  BY <1>6, AuthorizeInv, RevokeInv
<1>7. ASSUME SetPaused
      PROVE  AgentsInv'
  BY <1>7 DEF SetPaused, AgentsInv, AgentsType, OwnerHasKey, AuthorizedByOwner, agents
<1>8. CASE UNCHANGED vars
  BY <1>1, <1>8 DEF vars
<1>9. QED
  BY <1>1, <1>2, <1>3, <1>4, <1>5, <1>6, <1>7, <1>8 DEF Next

IInv == VerifierInv /\ ReplayInv /\ AgentsInv

LEMMA InvHolds == Spec => []IInv
<1>1. Init => IInv
  <2> SUFFICES ASSUME Init PROVE IInv
    OBVIOUS
  <2>1. VerifierInv
    BY VerifierInitInv DEF Init
  <2>2. ReplayInv
    BY DEF Init, VerifierInit, ReplayInv, Guarded
  <2>3. {} \in UserSets
    BY FS_EmptySet, TransferAssumption DEF UserSets
  <2>4. AgentsInv
    <3>1. 0 \in 0..Tokens
      BY TransferAssumption
    <3>2. AgentsType
      BY <2>3, <3>1 DEF Init, AgentsType
    <3>3. \A id \in Ids : ownerOf[id] = NoUser /\ authorized[id] = {}
      BY DEF Init
    <3>4. QED
      BY <3>2, <3>3 DEF AgentsInv, OwnerHasKey, AuthorizedByOwner
  <2>5. QED
    BY <2>1, <2>2, <2>4 DEF IInv
<1>2. IInv /\ [Next]_vars => IInv'
  BY VerifierUnderNext, ReplayNext, AgentsNext DEF IInv, VerifierInv
<1>3. QED
  BY <1>1, <1>2, PTL DEF Spec

\* Every variable keeps its type; no agent has more authorized users than the cap.
THEOREM TypeCorrect == Spec => []TypeOK
<1>1. IInv => TypeOK
  BY DEF IInv, VerifierInv, AgentsInv, AgentsType, TypeOK
<1>2. QED
  BY <1>1, InvHolds, PTL

\* No proof is accepted twice, however records are cleaned and time passes.
THEOREM NoReplayHolds == Spec => []NoReplay
<1>1. IInv => NoReplay
  BY DEF IInv, ReplayInv, Guarded, NoReplay
<1>2. QED
  BY <1>1, InvHolds, PTL

\* The list and the mapping of signers agree, over any order of changes.
THEOREM ListHolds == Spec => []ListIsAllowlist
<1>1. IInv => ListIsAllowlist
  BY DEF IInv, VerifierInv
<1>2. QED
  BY <1>1, InvHolds, PTL

\* An agent's owner was given a key to the data the agent carries.
THEOREM OwnerHasKeyHolds == Spec => []OwnerHasKey
<1>1. IInv => OwnerHasKey
  BY DEF IInv, AgentsInv
<1>2. QED
  BY <1>1, InvHolds, PTL

\* Only users whom the present owner authorized are authorized.
THEOREM AuthorizedHolds == Spec => []AuthorizedByOwner
<1>1. IInv => AuthorizedByOwner
  BY DEF IInv, AgentsInv
<1>2. QED
  BY <1>1, InvHolds, PTL

=============================================================================
