---------------------------- MODULE AgentTransfer ----------------------------
(***************************************************************************)
(* AxiomAgentNFT over its verifier: minting, transfer and clone of agents, *)
(* the data hash an agent carries and the users its owner authorizes.      *)
(*                                                                         *)
(* A transfer is one transaction over two contracts: the verifier accepts  *)
(* the proof, the NFT compares its data hash with the token's and moves    *)
(* the token.  An agent carries one data hash here, so one proof.  Callers *)
(* are the owner or whom ERC-721 lets act for it, and are not kept; the    *)
(* receiver signs its leg with a key of its own, so it runs no code when   *)
(* the token arrives.                                                      *)
(***************************************************************************)
EXTENDS TeeVerifier, FiniteSets

CONSTANTS
    NoUser,         \* address(0)
    NoData,         \* what an id carries before it is minted
    Tokens,         \* bound: ids 0 .. Tokens - 1 can be minted
    MaxAuthorized   \* MAX_AUTHORIZED_USERS

ASSUME TransferAssumption ==
    NoUser \notin Users /\ NoData \notin Datas
    /\ Tokens \in Nat /\ MaxAuthorized \in Nat

Ids == 0..(Tokens - 1)

VARIABLES
    nextTokenId,
    ownerOf,        \* NoUser before the mint
    dataHash,       \* iDatas
    authorized,     \* authorizedUsers
    grants,         \* history: (id, user) pairs the present owner authorized
    keys,           \* history: (user, data) pairs a key was given for, by
                    \* minting, updating or an accepted proof
    paused

agents == <<nextTokenId, ownerOf, dataHash, authorized, grants, keys>>
vars == <<verifierVars, agents, paused>>

UserSets == {s \in SUBSET Users : IsFiniteSet(s) /\ Cardinality(s) <= MaxAuthorized}

TypeOK ==
    /\ VerifierTypeOK
    /\ nextTokenId \in 0..Tokens
    /\ ownerOf \in [Ids -> Users \cup {NoUser}]
    /\ dataHash \in [Ids -> Datas \cup {NoData}]
    /\ authorized \in [Ids -> UserSets]
    /\ grants \in SUBSET (Ids \X Users)
    /\ keys \in SUBSET (Users \X Datas)
    /\ paused \in BOOLEAN

Init ==
    /\ VerifierInit
    /\ nextTokenId = 0
    /\ ownerOf = [id \in Ids |-> NoUser]
    /\ dataHash = [id \in Ids |-> NoData]
    /\ authorized = [id \in Ids |-> {}]
    /\ grants = {} /\ keys = {}
    /\ paused = FALSE

\* mint, and _safeMint in a clone: _update clears what the id never had.
MintTo(to, data) ==
    /\ ~paused
    /\ nextTokenId < Tokens
    /\ nextTokenId' = nextTokenId + 1
    /\ ownerOf' = [ownerOf EXCEPT ![nextTokenId] = to]
    /\ dataHash' = [dataHash EXCEPT ![nextTokenId] = data]
    /\ keys' = keys \cup {<<to, data>>}
    /\ UNCHANGED <<authorized, grants, paused>>

Mint(to, data) == MintTo(to, data) /\ UNCHANGED verifierVars

Update(id, data) ==
    /\ ~paused
    /\ ownerOf[id] # NoUser
    /\ dataHash' = [dataHash EXCEPT ![id] = data]
    /\ keys' = keys \cup {<<ownerOf[id], data>>}
    /\ UNCHANGED <<verifierVars, nextTokenId, ownerOf, authorized, grants, paused>>

(***************************************************************************)
(* Proof-carrying calls                                                    *)
(***************************************************************************)
\* Mutant: the data hash is not compared.
ProofOfAny(id, to, p, s) ==
    /\ ownerOf[id] # NoUser
    /\ p.to = to
    /\ Verifies(p, s)

ProofCheck(id, to, p, s) ==
    /\ ownerOf[id] # NoUser
    /\ p.to = to
    /\ Verifies(p, s)
    /\ p.data = dataHash[id]

\* Mutant: _update leaves the authorized users.
MoveKeepingUsers(id, to, p) ==
    /\ ownerOf' = [ownerOf EXCEPT ![id] = to]
    /\ keys' = keys \cup {<<to, p.data>>}
    /\ grants' = {g \in grants : g[1] # id}
    /\ UNCHANGED <<authorized, nextTokenId, dataHash, paused>>

Move(id, to, p) ==
    /\ ownerOf' = [ownerOf EXCEPT ![id] = to]
    /\ keys' = keys \cup {<<to, p.data>>}
    /\ authorized' = [authorized EXCEPT ![id] = {}]
    /\ grants' = {g \in grants : g[1] # id}
    /\ UNCHANGED <<nextTokenId, dataHash, paused>>

ITransfer(id, to, p, s) ==
    /\ ~paused
    /\ ProofCheck(id, to, p, s)
    /\ Mark(p)
    /\ Move(id, to, p)
    /\ UNCHANGED <<now, allowlist, timelock>>

\* The cleaning sees the record the transfer has just made.
TransferAndCleanExpiredProofs(id, to, p, s, nonces) ==
    /\ ~paused
    /\ ProofCheck(id, to, p, s)
    /\ used' = {record \in used \cup {<<p, now>>} :
                    ~(record[1] \in nonces /\ Expired(record))}
    /\ accepted' = [accepted EXCEPT ![p] = @ + 1]
    /\ Move(id, to, p)
    /\ UNCHANGED <<now, allowlist, timelock>>

IClone(id, to, p, s) ==
    /\ ProofCheck(id, to, p, s)
    /\ Mark(p)
    /\ MintTo(to, dataHash[id])
    /\ UNCHANGED <<now, allowlist, timelock>>

(***************************************************************************)
(* Authorized users                                                        *)
(***************************************************************************)
HasRoom(id) == Cardinality(authorized[id]) < MaxAuthorized

AuthorizeUsage(id, u) ==
    /\ ownerOf[id] # NoUser
    /\ HasRoom(id)
    /\ u \notin authorized[id]
    /\ authorized' = [authorized EXCEPT ![id] = @ \cup {u}]
    /\ grants' = grants \cup {<<id, u>>}
    /\ UNCHANGED <<verifierVars, nextTokenId, ownerOf, dataHash, keys, paused>>

RevokeAuthorization(id, u) ==
    /\ ownerOf[id] # NoUser
    /\ u \in authorized[id]
    /\ authorized' = [authorized EXCEPT ![id] = @ \ {u}]
    /\ grants' = grants \ {<<id, u>>}
    /\ UNCHANGED <<verifierVars, nextTokenId, ownerOf, dataHash, keys, paused>>

SetPaused == paused' = ~paused /\ UNCHANGED <<verifierVars, agents>>

Next ==
    \/ VerifierNext /\ UNCHANGED <<agents, paused>>
    \/ \E to \in Users, data \in Datas : Mint(to, data)
    \/ \E id \in Ids, data \in Datas : Update(id, data)
    \/ \E id \in Ids, to \in Users, p \in Proofs, s \in Signers :
        \/ ITransfer(id, to, p, s)
        \/ TransferAndCleanExpiredProofs(id, to, p, s, Proofs)
        \/ IClone(id, to, p, s)
    \/ \E id \in Ids, u \in Users : AuthorizeUsage(id, u) \/ RevokeAuthorization(id, u)
    \/ SetPaused

Spec == Init /\ [][Next]_vars

(***************************************************************************)
(* Properties                                                              *)
(***************************************************************************)

\* Whoever owns an agent was given a key to the data it carries now, whatever
\* proofs were in flight when the data was updated.
OwnerHasKey ==
    \A id \in Ids : ownerOf[id] # NoUser => <<ownerOf[id], dataHash[id]>> \in keys

\* The users of an agent were authorized by its present owner.
AuthorizedByOwner ==
    \A id \in Ids : \A u \in authorized[id] : <<id, u>> \in grants

=============================================================================
