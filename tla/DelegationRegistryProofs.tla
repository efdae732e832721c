---------------------- MODULE DelegationRegistryProofs ----------------------
(***************************************************************************)
(* Proofs about DelegationRegistry: what ended stays ended, and a          *)
(* delegation keeps within its window, for any users, delegations and      *)
(* windows.                                                                *)
(***************************************************************************)
EXTENDS DelegationRegistry, TLAPS

\* A window's number is a natural number.
LEMMA WindowAtNat ==
    ASSUME NEW d \in Delegations, Windowed(d), NEW time \in Nat
    PROVE  WindowAt(d, time) \in Nat
BY RegistryAssumption DEF WindowAt, Windowed

\* A delegation put in the place of an agent's is in its own agent's.
OfAgent == \A a \in Agents : InForce(a) => delegation[a].agentTokenId = a

\* Why what ended stays ended: the nonce of whatever was ever in force is used.
NoncesUsed ==
    /\ \A a \in Agents : InForce(a) => delegation[a].nonce \in usedNonces[a]
    /\ \A d \in ended : d.nonce \in usedNonces[d.agentTokenId]

EndInv == TypeOK /\ OfAgent /\ NoncesUsed /\ EndedStaysEnded

\* Why a window is honoured: what the delegation in force has sent is in the counter,
\* and the counter is within its cap as far as it is of this window.
Counted ==
    \A a \in Agents :
        InForce(a) /\ Windowed(delegation[a]) /\ sent[a] # 0
            => /\ windowId[a] = WindowAt(delegation[a], now)
               /\ sent[a] <= spent[a]
               /\ spent[a] <= delegation[a].windowCap

WindowInv == TypeOK /\ Counted

-----------------------------------------------------------------------------

LEMMA InitTypeOK == Init => TypeOK
<1> SUFFICES ASSUME Init PROVE TypeOK
  OBVIOUS
<1>0. now \in 0..MaxTime
  BY RegistryAssumption DEF Init
<1>1. ended \subseteq Delegations /\ paused \in BOOLEAN
  BY DEF Init
<1>2. /\ delegation \in [Agents -> Delegations \union {NoDelegation}]
      /\ usedNonces \in [Agents -> SUBSET Nat]
  BY DEF Init
<1>3. /\ spent \in [Agents -> Nat] /\ windowId \in [Agents -> Nat]
      /\ sent \in [Agents -> Nat]
  BY DEF Init
<1> QED
  BY <1>0, <1>1, <1>2, <1>3 DEF Init, TypeOK

LEMMA NextTypeOK == TypeOK /\ [Next]_vars => TypeOK'
<1> SUFFICES ASSUME TypeOK, [Next]_vars PROVE TypeOK'
  OBVIOUS
<1> USE RegistryAssumption DEF TypeOK
<1>1. ASSUME NEW d \in Delegations, InstallDelegation(d) PROVE TypeOK'
  <2>1. d.agentTokenId \in Agents /\ d.nonce \in Nat
    OBVIOUS
  <2>2. usedNonces' \in [Agents -> SUBSET Nat]
    BY <1>1, <2>1 DEF InstallDelegation, UseNonce
  <2>3. ended' \subseteq Delegations
    BY <1>1, <2>1 DEF InstallDelegation, Ends, InForce
  <2> QED
    BY <1>1, <2>1, <2>2, <2>3 DEF InstallDelegation, window
<1>2. ASSUME NEW a \in Agents, RevokeDelegation(a) PROVE TypeOK'
  <2>1. ended' \subseteq Delegations
    BY <1>2 DEF RevokeDelegation, Ends, InForce
  <2> QED
    BY <1>2, <2>1 DEF RevokeDelegation, window
<1>3. ASSUME NEW a \in Agents, NEW target \in Targets, NEW value \in Values,
             DelegatedExecute(a, target, value)
      PROVE  TypeOK'
  <2>1. delegation[a] \in Delegations /\ value \in Nat /\ now \in Nat
    <3>1. delegation[a] \in Delegations
      BY <1>3 DEF DelegatedExecute, InForce
    <3>2. value \in Nat /\ now \in Nat
      OBVIOUS
    <3> QED
      BY <3>1, <3>2
  <2>2. sent' \in [Agents -> Nat]
    BY <1>3, <2>1 DEF DelegatedExecute
  <2>3. CASE Windowed(delegation[a])
    <3>1. WindowAt(delegation[a], now) \in Nat
      BY <2>1, <2>3, WindowAtNat
    <3>2. AlreadySpent(a, delegation[a]) \in Nat
      BY DEF AlreadySpent, SpentInWindow
    <3> QED
      BY <1>3, <2>1, <2>2, <2>3, <3>1, <3>2 DEF DelegatedExecute, Debit
  <2>4. CASE ~Windowed(delegation[a])
    BY <1>3, <2>2, <2>4 DEF DelegatedExecute, window
  <2> QED
    BY <2>3, <2>4
<1>4. ASSUME NEW a \in Agents, NEW to \in Users, Transfer(a, to) PROVE TypeOK'
  BY <1>4 DEF Transfer, window
<1>5. CASE SetPaused
  BY <1>5 DEF SetPaused, window
<1>6. CASE Tick
  BY <1>6 DEF Tick, window
<1>7. CASE UNCHANGED vars
  BY <1>7 DEF vars, window
<1> QED
  BY <1>1, <1>2, <1>3, <1>4, <1>5, <1>6, <1>7 DEF Next

\* Every state of the registry is well typed.
THEOREM TypeCorrect == Spec => []TypeOK
BY InitTypeOK, NextTypeOK, PTL DEF Spec

-----------------------------------------------------------------------------

LEMMA NextEndInv == EndInv /\ [Next]_vars => EndInv'
<1> SUFFICES ASSUME EndInv, [Next]_vars PROVE EndInv'
  OBVIOUS
<1> USE RegistryAssumption DEF EndInv
<1>t. TypeOK'
  BY NextTypeOK
<1>1. ASSUME NEW d \in Delegations, InstallDelegation(d) PROVE EndInv'
  <2> DEFINE a == d.agentTokenId
  <2>1. a \in Agents /\ d.nonce \in Nat /\ d # NoDelegation
    OBVIOUS
  <2>2. /\ delegation' = [delegation EXCEPT ![a] = d]
        /\ usedNonces' = [usedNonces EXCEPT ![a] = @ \union {d.nonce}]
        /\ d.nonce \notin usedNonces[a]
    BY <1>1 DEF InstallDelegation, UseNonce
  <2>3. ended' = IF InForce(a) THEN ended \union {delegation[a]} ELSE ended
    BY <1>1 DEF InstallDelegation, Ends
  <2>4. OfAgent'
    BY <2>1, <2>2 DEF OfAgent, InForce, TypeOK
  <2>5. \A e \in ended' : e.nonce \in usedNonces[e.agentTokenId]
    BY <2>1, <2>3 DEF NoncesUsed, OfAgent, InForce
  <2>6. ended' \subseteq Delegations
    BY <1>t DEF TypeOK
  <2>7. NoncesUsed'
    <3>1. \A b \in Agents : usedNonces[b] \subseteq usedNonces'[b]
      BY <2>1, <2>2 DEF TypeOK
    <3>2. \A e \in ended' : e.nonce \in usedNonces'[e.agentTokenId]
      BY <2>5, <2>6, <3>1
    <3>3. \A b \in Agents : InForce(b)' => delegation'[b].nonce \in usedNonces'[b]
      BY <2>1, <2>2, <3>1 DEF NoncesUsed, InForce, TypeOK
    <3> QED
      BY <3>2, <3>3 DEF NoncesUsed
  <2>8. d \notin ended'
    BY <2>2, <2>5
  <2>9. EndedStaysEnded'
    <3> SUFFICES ASSUME NEW b \in Agents, InForce(b)' PROVE delegation'[b] \notin ended'
      BY DEF EndedStaysEnded
    <3>1. CASE b = a
      BY <2>1, <2>2, <2>8, <3>1 DEF TypeOK
    <3>2. CASE b # a
      <4>1. delegation'[b] = delegation[b] /\ InForce(b)
        BY <2>1, <2>2, <3>2 DEF TypeOK, InForce
      <4>2. delegation[b] \notin ended
        BY <4>1 DEF EndedStaysEnded
      <4>3. InForce(a) => delegation[b] # delegation[a]
        BY <2>1, <3>2, <4>1 DEF OfAgent
      <4> QED
        BY <2>3, <4>1, <4>2, <4>3
    <3> QED
      BY <3>1, <3>2
  <2> QED
    BY <1>t, <2>4, <2>7, <2>9
<1>2. ASSUME NEW a \in Agents, RevokeDelegation(a) PROVE EndInv'
  <2>1. /\ delegation' = [delegation EXCEPT ![a] = NoDelegation]
        /\ usedNonces' = usedNonces
        /\ ended' = IF InForce(a) THEN ended \union {delegation[a]} ELSE ended
    BY <1>2 DEF RevokeDelegation, Ends
  <2>2. OfAgent'
    BY <2>1 DEF OfAgent, InForce, TypeOK
  <2>3. NoncesUsed'
    BY <2>1 DEF NoncesUsed, OfAgent, InForce, TypeOK
  <2>4. EndedStaysEnded'
    <3> SUFFICES ASSUME NEW b \in Agents, InForce(b)' PROVE delegation'[b] \notin ended'
      BY DEF EndedStaysEnded
    <3>1. b # a /\ delegation'[b] = delegation[b] /\ InForce(b)
      BY <2>1 DEF TypeOK, InForce
    <3>2. InForce(a) => delegation[b] # delegation[a]
      BY <3>1 DEF OfAgent
    <3> QED
      BY <2>1, <3>1, <3>2 DEF EndedStaysEnded
  <2> QED
    BY <1>t, <2>2, <2>3, <2>4
<1>3. ASSUME UNCHANGED <<delegation, usedNonces, ended>> PROVE EndInv'
  BY <1>t, <1>3 DEF OfAgent, NoncesUsed, EndedStaysEnded, InForce
<1> QED
  BY <1>1, <1>2, <1>3 DEF Next, DelegatedExecute, Transfer, SetPaused, Tick, vars

\* What was revoked or replaced never comes into force again.
THEOREM EndedHolds == Spec => []EndedStaysEnded
<1>1. Init => EndInv
  BY InitTypeOK DEF Init, EndInv, OfAgent, NoncesUsed, EndedStaysEnded, InForce
<1> QED
  BY <1>1, NextEndInv, PTL DEF Spec, EndInv

-----------------------------------------------------------------------------

LEMMA NextWindowInv == WindowInv /\ [Next]_vars => WindowInv'
<1> SUFFICES ASSUME WindowInv, [Next]_vars PROVE WindowInv'
  OBVIOUS
<1> USE RegistryAssumption DEF WindowInv
<1>t. TypeOK'
  BY NextTypeOK
<1> SUFFICES Counted'
  BY <1>t
<1>1. ASSUME NEW d \in Delegations, InstallDelegation(d) PROVE Counted'
  <2>1. /\ delegation' = [delegation EXCEPT ![d.agentTokenId] = d]
        /\ sent' = [sent EXCEPT ![d.agentTokenId] = 0]
        /\ UNCHANGED <<now, spent, windowId>>
    BY <1>1 DEF InstallDelegation, window
  <2> QED
    BY <2>1 DEF Counted, InForce, TypeOK
<1>2. ASSUME NEW a \in Agents, RevokeDelegation(a) PROVE Counted'
  <2>1. /\ delegation' = [delegation EXCEPT ![a] = NoDelegation]
        /\ sent' = [sent EXCEPT ![a] = 0]
        /\ UNCHANGED <<now, spent, windowId>>
    BY <1>2 DEF RevokeDelegation, window
  <2> QED
    BY <2>1 DEF Counted, InForce, TypeOK
<1>3. ASSUME NEW a \in Agents, NEW target \in Targets, NEW value \in Values,
             DelegatedExecute(a, target, value)
      PROVE  Counted'
  <2> DEFINE d == delegation[a]
  <2>1. d \in Delegations /\ value \in Nat /\ now \in Nat /\ now' = now
        /\ delegation' = delegation
    BY <1>3 DEF DelegatedExecute, InForce, TypeOK
  <2>2. CASE Windowed(d)
    <3>1. /\ AlreadySpent(a, d) + value <= d.windowCap
          /\ spent' = [spent EXCEPT ![a] = AlreadySpent(a, d) + value]
          /\ windowId' = [windowId EXCEPT ![a] = WindowAt(d, now)]
          /\ sent' = [sent EXCEPT ![a] = @ + value]
      BY <1>3, <2>2 DEF DelegatedExecute, Debit
    <3>2. sent[a] <= AlreadySpent(a, d)
      <4>1. CASE sent[a] = 0
        BY <4>1 DEF AlreadySpent, SpentInWindow, TypeOK
      <4>2. CASE sent[a] # 0
        BY <1>3, <2>2, <4>2 DEF Counted, DelegatedExecute, AlreadySpent, SpentInWindow
      <4> QED
        BY <4>1, <4>2
    <3>3. AlreadySpent(a, d) \in Nat
      BY DEF AlreadySpent, SpentInWindow, TypeOK
    <3>4. /\ windowId'[a] = WindowAt(d, now)
          /\ sent'[a] <= spent'[a] /\ spent'[a] <= d.windowCap
      BY <2>1, <3>1, <3>2, <3>3 DEF TypeOK
    <3>5. ASSUME NEW b \in Agents, b # a
          PROVE  /\ sent'[b] = sent[b] /\ spent'[b] = spent[b]
                 /\ windowId'[b] = windowId[b]
      BY <3>1, <3>5 DEF TypeOK
    <3> QED
      BY <2>1, <3>4, <3>5 DEF Counted, InForce, WindowAt
  <2>3. CASE ~Windowed(d)
    BY <1>3, <2>1, <2>3 DEF DelegatedExecute, window, Counted, InForce, TypeOK
  <2> QED
    BY <2>2, <2>3
<1>4. ASSUME NEW a \in Agents, NEW to \in Users, Transfer(a, to) PROVE Counted'
  BY <1>4 DEF Transfer, window, Counted, InForce
<1>5. CASE SetPaused
  BY <1>5 DEF SetPaused, window, Counted, InForce
<1>6. CASE Tick
  BY <1>6 DEF Tick, window, Counted, InForce, SamePeriod, TypeOK
<1>7. CASE UNCHANGED vars
  BY <1>7 DEF vars, window, Counted, InForce
<1> QED
  BY <1>1, <1>2, <1>3, <1>4, <1>5, <1>6, <1>7 DEF Next

\* No delegation sends more in one of its windows than it allows.
THEOREM WindowHolds == Spec => []WindowHonoured
<1>1. Init => WindowInv
  BY InitTypeOK DEF Init, WindowInv, Counted, InForce
<1>2. WindowInv => WindowHonoured
  <2> SUFFICES ASSUME WindowInv, NEW a \in Agents, InForce(a), Windowed(delegation[a])
               PROVE  sent[a] <= delegation[a].windowCap
    BY DEF WindowHonoured
  <2>1. delegation[a] \in Delegations /\ sent[a] \in Nat /\ spent[a] \in Nat
    BY DEF WindowInv, TypeOK, InForce
  <2> QED
    BY <2>1, RegistryAssumption DEF WindowInv, Counted
<1> QED
  BY <1>1, <1>2, NextWindowInv, PTL DEF Spec
=============================================================================
