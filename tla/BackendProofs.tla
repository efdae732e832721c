---------------------------- MODULE BackendProofs ----------------------------
(***************************************************************************)
(* Theorems about the backend's process: Backend, its handlers, for every  *)
(* set of requests, tokens, clients and blobs; and Indexer, the event      *)
(* pipeline beside them, for every chain, window, safe depth and limit of  *)
(* the store.                                                              *)
(***************************************************************************)
EXTENDS Backend, Indexer, Sums, SequenceTheorems

-----------------------------------------------------------------------------
(* The bytes of a sequence of blobs.                                        *)

Bytes(roots) == [i \in DOMAIN roots |-> sizeOf[roots[i]]]

\* They are a sum over a finite set, and a number.
LEMMA BytesType ==
    ASSUME NEW roots \in Seq(Blobs)
    PROVE  /\ DOMAIN roots = 1..Len(roots)
           /\ Summable(Bytes(roots), 1..Len(roots))
           /\ \A i \in 1..Len(roots) : Bytes(roots)[i] = sizeOf[roots[i]]
           /\ SizeOf(roots) = SumOver(Bytes(roots), 1..Len(roots))
           /\ SizeOf(roots) \in Nat
<1>1. DOMAIN roots = 1..Len(roots) /\ Len(roots) \in Nat
  BY LenProperties
<1>2. IsFiniteSet(1..Len(roots))
  BY <1>1, FS_Interval
<1>3. \A i \in 1..Len(roots) : roots[i] \in Blobs
  BY ElementOfSeq
<1>4. Bytes(roots) \in [1..Len(roots) -> Nat]
  BY <1>1, <1>3, CustodyAssumption DEF Bytes
<1>5. SizeOf(roots) = SumFunction(Bytes(roots))
  BY DEF SizeOf, Bytes
<1>6. SumFunction(Bytes(roots)) \in Nat
  BY <1>2, <1>4, SumBounds
<1>7. DOMAIN Bytes(roots) = 1..Len(roots)
  BY <1>4
<1> QED
  BY <1>1, <1>2, <1>4, <1>5, <1>6, <1>7, SumIsLast DEF Summable, SumOver, Bytes

\* No blobs.
LEMMA SizeOfNone == SizeOf(<< >>) = 0
<1>1. Bytes(<< >>) \in [{} -> Int] /\ IsFiniteSet({})
  BY FS_EmptySet DEF Bytes
<1>2. \A i \in {} : Bytes(<< >>)[i] = 0
  OBVIOUS
<1>3. SumFunction(Bytes(<< >>)) = 0
  BY <1>1, <1>2, SumZero
<1> QED
  BY <1>3 DEF SizeOf, Bytes

\* One blob more.
LEMMA SizeOfAppend ==
    ASSUME NEW roots \in Seq(Blobs), NEW root \in Blobs
    PROVE  SizeOf(Append(roots, root)) = SizeOf(roots) + sizeOf[root]
<1> DEFINE n == Len(roots)
           more == Append(roots, root)
           f == Bytes(roots)
           g == Bytes(more)
<1>1. n \in Nat
  BY LenProperties
<1>2. more \in Seq(Blobs) /\ Len(more) = n + 1
      /\ (\A i \in 1..n : more[i] = roots[i]) /\ more[n + 1] = root
  BY AppendProperties
<1>3. /\ Summable(f, 1..n) /\ SizeOf(roots) = SumOver(f, 1..n) /\ SizeOf(roots) \in Nat
      /\ \A i \in 1..n : f[i] = sizeOf[roots[i]]
  BY BytesType
<1>4. /\ Summable(g, 1..(n + 1)) /\ SizeOf(more) = SumOver(g, 1..(n + 1))
      /\ \A i \in 1..(n + 1) : g[i] = sizeOf[more[i]]
  BY <1>2, BytesType
<1>5. (\A i \in 1..n : f[i] = g[i]) /\ g[n + 1] = sizeOf[root]
  BY <1>1, <1>2, <1>3, <1>4
<1> HIDE DEF f, g, n, more
<1> DEFINE I == 1..n
           J == 1..(n + 1)
           x == n + 1
<1>6. x \in J /\ Without(J, x) = I /\ Part(J, J) /\ Part(I, I) /\ Part(I, J)
  BY <1>1 DEF Without, Part
<1>7. /\ Summable(f, I) /\ SizeOf(roots) = SumOver(f, I)
      /\ Summable(g, J) /\ SizeOf(more) = SumOver(g, J)
      /\ (\A i \in I : f[i] = g[i]) /\ g[x] = sizeOf[root]
  BY <1>3, <1>4, <1>5
<1> HIDE DEF I, J, x
<1>8. SumOver(g, J) = g[x] + SumOver(g, I)
  BY <1>6, <1>7, OverWithout
<1>9. SumOver(f, I) = SumOver(g, I)
  BY <1>6, <1>7, OverSame
<1>10. SizeOf(more) = sizeOf[root] + SizeOf(roots)
  BY <1>7, <1>8, <1>9
<1>11. sizeOf[root] \in Nat
  BY CustodyAssumption
<1> QED
  BY <1>3, <1>10, <1>11 DEF more

\* The first k of a sequence, and the others.
LEMMA Prefix ==
    ASSUME NEW roots \in Seq(Blobs), NEW k \in 0..Len(roots)
    PROVE  /\ SubSeq(roots, 1, k) \in Seq(Blobs) /\ Len(SubSeq(roots, 1, k)) = k
           /\ \A i \in 1..k : SubSeq(roots, 1, k)[i] = roots[i]
<1> DEFINE old == SubSeq(roots, 1, k)
<1>1. Len(roots) \in Nat /\ k \in Nat /\ k <= Len(roots)
  BY LenProperties
<1>2. 1 \in Int /\ k \in Int /\ \A i \in 1..k : roots[i] \in Blobs
  BY <1>1, ElementOfSeq
<1>3. /\ old \in Seq(Blobs)
      /\ Len(old) = IF 1 <= k THEN k - 1 + 1 ELSE 0
      /\ \A i \in 1..(k - 1 + 1) : old[i] = roots[1 + i - 1]
  BY <1>2, SubSeqProperties
<1>4. ASSUME NEW i \in 1..k PROVE old[i] = roots[i]
  <2>1. i \in 1..(k - 1 + 1) /\ 1 + i - 1 = i
    BY <1>1
  <2>2. old[i] = roots[1 + i - 1]
    BY <2>1, <1>3
  <2> QED
    BY <2>1, <2>2
<1>5. Len(old) = k
  BY <1>1, <1>3
<1> QED
  BY <1>3, <1>4, <1>5

\* What is left of a sequence when its first n elements are taken off.
LEMMA Suffix ==
    ASSUME NEW roots \in Seq(Blobs), NEW k \in 0..Len(roots)
    PROVE  /\ SubSeq(roots, k + 1, Len(roots)) \in Seq(Blobs)
           /\ Len(SubSeq(roots, k + 1, Len(roots))) = Len(roots) - k
           /\ \A i \in 1..(Len(roots) - k) :
                 SubSeq(roots, k + 1, Len(roots))[i] = roots[k + i]
<1> DEFINE n == Len(roots)
           new == SubSeq(roots, k + 1, n)
<1>1. n \in Nat /\ k \in Nat /\ k <= n
  BY LenProperties
<1>2. k + 1 \in Int /\ n \in Int /\ \A i \in (k + 1)..n : roots[i] \in Blobs
  BY <1>1, ElementOfSeq
<1>3. /\ new \in Seq(Blobs)
      /\ Len(new) = IF k + 1 <= n THEN n - (k + 1) + 1 ELSE 0
      /\ \A i \in 1..(n - (k + 1) + 1) : new[i] = roots[(k + 1) + i - 1]
  BY <1>2, SubSeqProperties
<1>4. Len(new) = n - k
  BY <1>1, <1>3
<1>5. ASSUME NEW i \in 1..(n - k) PROVE new[i] = roots[k + i]
  <2>1. i \in 1..(n - (k + 1) + 1) /\ (k + 1) + i - 1 = k + i
    BY <1>1
  <2>2. new[i] = roots[(k + 1) + i - 1]
    BY <1>3, <2>1
  <2> QED
    BY <2>1, <2>2
<1> QED
  BY <1>3, <1>4, <1>5

\* A sequence cut in two.
LEMMA SizeOfCut ==
    ASSUME NEW roots \in Seq(Blobs), NEW k \in 0..Len(roots)
    PROVE  /\ SubSeq(roots, 1, k) \in Seq(Blobs)
           /\ SubSeq(roots, k + 1, Len(roots)) \in Seq(Blobs)
           /\ Len(SubSeq(roots, k + 1, Len(roots))) = Len(roots) - k
           /\ SizeOf(roots) = SizeOf(SubSeq(roots, 1, k))
                                + SizeOf(SubSeq(roots, k + 1, Len(roots)))
<1> DEFINE n == Len(roots)
           old == SubSeq(roots, 1, k)
           new == SubSeq(roots, k + 1, n)
           f == Bytes(roots)
           fo == Bytes(old)
           fn == Bytes(new)
<1>1. n \in Nat /\ k \in Nat /\ k <= n
  BY LenProperties
<1>3. old \in Seq(Blobs) /\ Len(old) = k /\ \A i \in 1..k : old[i] = roots[i]
  BY Prefix
<1>4. new \in Seq(Blobs) /\ Len(new) = n - k /\ \A i \in 1..(n - k) : new[i] = roots[k + i]
  BY Suffix
<1>5. /\ Summable(f, 1..n) /\ SizeOf(roots) = SumOver(f, 1..n)
      /\ \A i \in 1..n : f[i] = sizeOf[roots[i]]
  BY BytesType
<1>6. /\ Summable(fo, 1..k) /\ SizeOf(old) = SumOver(fo, 1..k)
      /\ \A i \in 1..k : fo[i] = sizeOf[old[i]]
  BY <1>3, BytesType
<1>7. /\ Summable(fn, 1..(n - k)) /\ SizeOf(new) = SumOver(fn, 1..(n - k))
      /\ \A i \in 1..(n - k) : fn[i] = sizeOf[new[i]]
  BY <1>4, BytesType
<1>8. \A i \in 1..k : fo[i] = f[i]
  BY <1>1, <1>3, <1>5, <1>6
<1>9. \A i \in 1..(n - k) : fn[i] = f[k + i]
  <2> SUFFICES ASSUME NEW i \in 1..(n - k) PROVE fn[i] = f[k + i]
    OBVIOUS
  <2>1. k + i \in 1..n /\ new[i] = roots[k + i]
    BY <1>1, <1>4
  <2>2. fn[i] = sizeOf[new[i]] /\ f[k + i] = sizeOf[roots[k + i]]
    BY <2>1, <1>5, <1>7
  <2> QED
    BY <2>1, <2>2
<1> HIDE DEF f, fo, fn, n, old, new
<1> DEFINE I == 1..n
           K == 1..k
           L == (k + 1)..n
           M == 1..(n - k)
<1>10. /\ Summable(f, I) /\ SizeOf(roots) = SumOver(f, I)
       /\ Summable(fo, K) /\ SizeOf(old) = SumOver(fo, K)
       /\ Summable(fn, M) /\ SizeOf(new) = SumOver(fn, M)
       /\ \A i \in K : fo[i] = f[i]
  BY <1>5, <1>6, <1>7, <1>8
<1>10a. /\ Part(K, K) /\ Part(K, I) /\ Part(L, I) /\ Part(M, M)
        /\ K \cap L = {} /\ I = K \cup L
  BY <1>1 DEF Part
<1> DEFINE h == [i \in M |-> k + i]
<1>11. /\ h \in [M -> I]
       /\ \A i, m \in M : h[i] = h[m] => i = m
       /\ \A i \in M : fn[i] = f[h[i]]
  BY <1>1, <1>9
<1>12. {h[i] : i \in M} = L
  <2>1. ASSUME NEW m \in L PROVE \E i \in M : m = h[i]
    <3>1. m - k \in M /\ m = k + (m - k)
      BY <1>1
    <3> QED
      BY <3>1
  <2>2. \A i \in M : h[i] \in L
    BY <1>1
  <2> HIDE DEF h, L, M
  <2> QED
    BY <2>1, <2>2
<1> HIDE DEF I, K, L, M, h
<1>13. SumOver(f, I) = SumOver(f, K) + SumOver(f, L)
  BY <1>10, <1>10a, OverUnion
<1>14. SumOver(fo, K) = SumOver(f, K)
  BY <1>10, <1>10a, OverSame
<1>15. SumOver(fn, M) = SumOver(f, L)
  BY <1>10, <1>10a, <1>11, <1>12, OverImage
<1>16. SizeOf(roots) = SizeOf(old) + SizeOf(new)
  BY <1>10, <1>13, <1>14, <1>15
<1> QED
  BY <1>3, <1>4, <1>16 DEF old, new, n

\* A blob brought to the end of a sequence: it has the same blobs and the same bytes.
LEMMA SizeOfTouched ==
    ASSUME NEW roots \in Seq(Blobs), NEW i \in 1..Len(roots)
    PROVE  /\ Append(RemoveAt(roots, i), roots[i]) \in Seq(Blobs)
           /\ Len(Append(RemoveAt(roots, i), roots[i])) = Len(roots)
           /\ SizeOf(Append(RemoveAt(roots, i), roots[i])) = SizeOf(roots)
           /\ \E h \in [1..Len(roots) -> 1..Len(roots)] :
                /\ \A a, b \in 1..Len(roots) : h[a] = h[b] => a = b
                /\ \A a \in 1..Len(roots) :
                      Append(RemoveAt(roots, i), roots[i])[a] = roots[h[a]]
<1> DEFINE n == Len(roots)
           old == SubSeq(roots, 1, i - 1)
           new == SubSeq(roots, i + 1, n)
           rest == RemoveAt(roots, i)
           q == Append(rest, roots[i])
           J == 1..n
           h == [a \in J |-> IF a < i THEN a ELSE IF a < n THEN a + 1 ELSE i]
<1>1. n \in Nat /\ i \in Nat /\ 1 <= i /\ i <= n /\ i \in J
  BY LenProperties
<1>2. roots[i] \in Blobs
  BY <1>1, ElementOfSeq
<1>3. old \in Seq(Blobs) /\ Len(old) = i - 1 /\ \A a \in 1..(i - 1) : old[a] = roots[a]
  <2>1. i - 1 \in 0..Len(roots)
    BY <1>1
  <2> QED
    BY <2>1, Prefix
<1>4. new \in Seq(Blobs) /\ Len(new) = n - i /\ \A a \in 1..(n - i) : new[a] = roots[i + a]
  <2>1. i \in 0..Len(roots)
    BY <1>1
  <2> QED
    BY <2>1, Suffix
<1>5. rest = old \o new
  BY DEF RemoveAt
<1> HIDE DEF old, new
<1>7. /\ rest \in Seq(Blobs) /\ Len(rest) = n - 1
      /\ \A a \in 1..(n - 1) : rest[a] = IF a < i THEN old[a] ELSE new[a - (i - 1)]
  <2>1. rest \in Seq(Blobs) /\ Len(rest) = (i - 1) + (n - i)
        /\ \A a \in 1..(i - 1) + (n - i) :
              rest[a] = IF a <= i - 1 THEN old[a] ELSE new[a - (i - 1)]
    <3>1. /\ old \o new \in Seq(Blobs) /\ Len(old \o new) = Len(old) + Len(new)
          /\ \A a \in 1..Len(old) + Len(new) :
                (old \o new)[a] = IF a <= Len(old) THEN old[a] ELSE new[a - Len(old)]
      BY <1>3, <1>4, ConcatProperties
    <3> HIDE DEF rest
    <3> QED
      BY <3>1, <1>3, <1>4, <1>5
  <2>2. (i - 1) + (n - i) = n - 1
    BY <1>1
  <2> HIDE DEF rest, n
  <2>3. ASSUME NEW a \in 1..(n - 1)
        PROVE  rest[a] = IF a < i THEN old[a] ELSE new[a - (i - 1)]
    <3>1. a \in 1..((i - 1) + (n - i)) /\ (a <= i - 1 <=> a < i)
      BY <1>1
    <3> QED
      BY <3>1, <2>1
  <2> QED
    BY <2>1, <2>2, <2>3
<1> HIDE DEF rest
<1>8. /\ q \in Seq(Blobs) /\ Len(q) = n
      /\ (\A a \in 1..(n - 1) : q[a] = rest[a]) /\ q[n] = roots[i]
  <2>1. /\ q \in Seq(Blobs) /\ Len(q) = (n - 1) + 1
        /\ (\A a \in 1..(n - 1) : q[a] = rest[a]) /\ q[(n - 1) + 1] = roots[i]
    BY <1>2, <1>7, AppendProperties
  <2>2. (n - 1) + 1 = n
    BY <1>1
  <2> HIDE DEF q, n
  <2> QED
    BY <2>1, <2>2
<1> HIDE DEF q, n
<1>9. h \in [J -> J]
  BY <1>1
<1>10. \A a, b \in J : h[a] = h[b] => a = b
  BY <1>1
<1>11. \A m \in J : \E a \in J : m = h[a]
  <2> TAKE m \in J
  <2>1. CASE m < i
    BY <2>1, <1>1
  <2>2. CASE m = i
    <3>1. n \in J /\ h[n] = i
      BY <1>1
    <3> QED
      BY <3>1, <2>2
  <2>3. CASE m > i
    <3>1. m - 1 \in J /\ h[m - 1] = m
      BY <2>3, <1>1
    <3> QED
      BY <3>1
  <2> QED
    BY <2>1, <2>2, <2>3, <1>1
<1>12. ASSUME NEW a \in J PROVE q[a] = roots[h[a]]
  <2>1. CASE a < i
    <3>1. a \in 1..(i - 1) /\ a \in 1..(n - 1) /\ h[a] = a
      BY <2>1, <1>1
    <3> QED
      BY <3>1, <2>1, <1>3, <1>7, <1>8
  <2>2. CASE a = n
    <3>1. h[a] = i
      BY <2>2, <1>1
    <3> QED
      BY <3>1, <2>2, <1>8
  <2>3. CASE i <= a /\ a < n
    <3>1. a \in 1..(n - 1) /\ h[a] = a + 1 /\ ~(a < i)
      BY <2>3, <1>1
    <3>2. a - (i - 1) \in 1..(n - i) /\ i + (a - (i - 1)) = a + 1
      BY <2>3, <1>1
    <3>3. q[a] = new[a - (i - 1)]
      BY <3>1, <1>7, <1>8
    <3>4. new[a - (i - 1)] = roots[i + (a - (i - 1))]
      BY <3>2, <1>4
    <3> QED
      BY <3>1, <3>2, <3>3, <3>4
  <2> QED
    BY <2>1, <2>2, <2>3, <1>1
<1> DEFINE f == Bytes(q)
           g == Bytes(roots)
<1>13. /\ Summable(f, J) /\ SizeOf(q) = SumOver(f, J)
       /\ \A a \in J : f[a] = sizeOf[q[a]]
  BY <1>8, BytesType
<1>14. /\ Summable(g, J) /\ SizeOf(roots) = SumOver(g, J)
       /\ \A a \in J : g[a] = sizeOf[roots[a]]
  BY BytesType DEF n
<1> HIDE DEF f, g, h, J
<1>15. \A a \in J : f[a] = g[h[a]]
  BY <1>9, <1>12, <1>13, <1>14
<1>16. J = {h[a] : a \in J}
  BY <1>9, <1>11
<1>17. Part(J, J)
  BY DEF Part
<1>18. SumOver(f, J) = SumOver(g, J)
  BY <1>9, <1>10, <1>13, <1>14, <1>15, <1>16, <1>17, OverImage
<1>19. SizeOf(q) = SizeOf(roots)
  BY <1>13, <1>14, <1>18
<1> QED
  BY <1>8, <1>9, <1>10, <1>12, <1>19 DEF q, n, J, rest

-----------------------------------------------------------------------------
(* The clients and their index.                                             *)

HubInv == HubTypeOK /\ IndexIsClients

\* What a step of the process does to the clients.
LEMMA HubMoves ==
    ASSUME Next
    PROVE  \/ UNCHANGED hubVars \/ HubNext \/ HubRestart
           \/ \E gone : Terminate(gone)
<1>1. ASSUME NEW j \in Jobs, Request(j)
      PROVE  UNCHANGED hubVars
  BY <1>1 DEF Request, RequestTick, KeepTicks
<1>2. ASSUME NEW j \in Jobs, TickStep(j)
      PROVE  UNCHANGED hubVars \/ \E gone : Terminate(gone)
  BY <1>2 DEF TickStep, RefuseTick, NoSubscriber, StartTick, InferHold, InferAct,
       SkipSettlement, TakeNonce, SendFails, Broadcast, Receipt, Settle, SendToTopic
<1>3. ASSUME NEW j \in Jobs, Continue(j)
      PROVE  UNCHANGED hubVars \/ \E gone : Terminate(gone)
  BY <1>2, <1>3 DEF Continue, KeepTicks
<1>4. ASSUME NEW j \in Jobs, Falter(j)
      PROVE  UNCHANGED hubVars \/ \E gone : Terminate(gone)
  <2>1. CASE BroadcastLost(j) \/ StreamToken(j)
    BY <2>1 DEF BroadcastLost, StreamToken, Settle, SendToTopic
  <2> QED
    BY <1>4, <2>1 DEF Falter, KeepTicks
<1>5. CASE Account \/ Keeper
  BY <1>5 DEF Account, Keeper, Mine, StartSweep, KeeperStep, DeriveCandidates, GasPrice,
       CleanExpiredProofs
<1>6. CASE Sockets
  BY <1>6 DEF Sockets
<1>7. CASE Restart
  BY <1>7 DEF Restart
<1> QED
  BY <1>1, <1>3, <1>4, <1>5, <1>6, <1>7 DEF Next

\* A broadcaster without clients satisfies its invariant.
LEMMA HubInitial == HubInit => HubInv
BY BroadcasterAssumption DEF HubInit, HubInv, HubTypeOK, IndexIsClients

\* Nobody who is terminated stays in the index, and nobody else leaves it.
LEMMA HubTerminate ==
    ASSUME HubInv, NEW gone, Unregister(gone),
           socket' = [c \in Clients |-> IF c \in gone THEN "closing" ELSE socket[c]]
    PROVE  IndexIsClients' /\ clients' \subseteq Clients
           /\ topicIndex' \in [IndexKeys -> SUBSET Clients]
           /\ socket' \in [Clients -> {"none", "open", "closing"}]
BY DEF HubInv, HubTypeOK, IndexIsClients, Unregister, IndexRemove, IndexKeys, PrefixesOf

\* No upgrade, message, closing socket, heartbeat or send breaks it.
LEMMA HubStep ==
    ASSUME HubInv, Next
    PROVE  HubInv'
<1> USE BroadcasterAssumption
<1>1. CASE UNCHANGED hubVars
  BY <1>1 DEF HubInv, HubTypeOK, IndexIsClients, hubVars, IndexKeys, PrefixesOf
<1>2. CASE HubRestart
  BY <1>2 DEF HubRestart, HubInv, HubTypeOK, IndexIsClients
<1>3. ASSUME NEW gone, Terminate(gone) PROVE HubInv'
  BY <1>3, HubTerminate DEF Terminate, HubInv, HubTypeOK
<1>4. CASE Heartbeat
  <2> DEFINE open == {c \in clients : socket[c] = "open"}
             silent == {c \in open : Silent(c)}
  <2>1. /\ Unregister(silent)
        /\ socket' = [c \in Clients |-> IF c \in silent THEN "closing" ELSE socket[c]]
        /\ missedPings' = [c \in Clients |-> IF c \in silent THEN 0
                                              ELSE IF c \in open THEN missedPings[c] + 1
                                              ELSE missedPings[c]]
    BY <1>4 DEF Heartbeat
  <2>2. missedPings' \in [Clients -> 0..MaxMissed]
    BY <2>1 DEF HubInv, HubTypeOK, Silent
  <2> HIDE DEF open, silent
  <2> QED
    BY <2>1, <2>2, HubTerminate DEF HubInv, HubTypeOK
<1>5. ASSUME NEW c \in Clients, Upgrade(c) PROVE HubInv'
  <2>1. HubTypeOK'
    BY <1>5 DEF Upgrade, HubInv, HubTypeOK, IndexAdd
  <2>2. c \notin clients
    BY <1>5 DEF Upgrade, HubInv, IndexIsClients
  <2>3. ASSUME NEW p \in IndexKeys
        PROVE  topicIndex'[p] = {d \in clients' : p \in PrefixesOf(d)'}
    BY <1>5 DEF Upgrade, HubInv, HubTypeOK, IndexIsClients, IndexAdd, PrefixesOf
  <2>4. \A d \in clients' : socket'[d] # "none"
    BY <1>5 DEF Upgrade, HubInv, HubTypeOK, IndexIsClients
  <2> QED
    BY <2>1, <2>3, <2>4 DEF HubInv, IndexIsClients, IndexKeys
<1>6. ASSUME NEW c \in Clients, Pong(c) \/ PeerCloses(c) PROVE HubInv'
  BY <1>6 DEF Pong, PeerCloses, HubInv, HubTypeOK, IndexIsClients, IndexKeys, PrefixesOf
<1>7. ASSUME NEW c \in Clients, SocketClose(c) PROVE HubInv'
  BY <1>7 DEF SocketClose, Unregister, IndexRemove, HubInv, HubTypeOK, IndexIsClients,
       IndexKeys, PrefixesOf
<1>8. ASSUME NEW c \in Clients, SocketError(c) PROVE HubInv'
  BY <1>3, <1>8 DEF SocketError
<1> QED
  BY HubMoves, <1>1, <1>2, <1>3, <1>4, <1>5, <1>6, <1>7, <1>8 DEF HubNext

-----------------------------------------------------------------------------
(* The ticks, their slots and the account.                                  *)

TickInv ==
    /\ TickTypeOK
    /\ IsFiniteSet(pool)
    /\ \A j \in Jobs : tick[j].pc # "none" => tick[j].token \in Tokens
    /\ SlotIsRun

\* What a step of the process does to them.
LEMMA TickMoves ==
    ASSUME Next
    PROVE  \/ UNCHANGED orchestratorVars \/ Mine \/ StartSweep \/ KeeperStep
           \/ OrchestratorRestart
           \/ \E j \in Jobs : \/ \E t \in Tokens, stream \in BOOLEAN : RequestTick(j, t, stream)
                              \/ TickStep(j) \/ BroadcastLost(j)
<1>1. ASSUME NEW j \in Jobs, Request(j)
      PROVE  \/ UNCHANGED orchestratorVars
             \/ \E t \in Tokens, stream \in BOOLEAN : RequestTick(j, t, stream)
  BY <1>1 DEF Request, KeepTicks
<1>2. ASSUME NEW j \in Jobs, Continue(j)
      PROVE  UNCHANGED orchestratorVars \/ TickStep(j)
  BY <1>2 DEF Continue, KeepTicks
<1>3. ASSUME NEW j \in Jobs, Falter(j)
      PROVE  UNCHANGED orchestratorVars \/ BroadcastLost(j)
  BY <1>3 DEF Falter, KeepTicks, StreamToken
<1>4. CASE Sockets \/ Account \/ Keeper \/ Restart
  BY <1>4 DEF Sockets, Account, Keeper, Restart
<1> QED
  BY <1>1, <1>2, <1>3, <1>4 DEF Next

\* The node has a number to answer with: the first one, from the mined ones on, that
\* no transaction waits with.
LEMMA PendingIsFirst ==
    ASSUME TickInv
    PROVE  /\ Pending \in Nat /\ mined <= Pending /\ Pending \notin pool
           /\ \A k \in mined..(Pending - 1) : k \in pool
<1> DEFINE top == mined + Cardinality(pool)
           Open == {n \in mined..top : n \notin pool}
<1>1. mined \in Nat /\ IsFiniteSet(pool) /\ Cardinality(pool) \in Nat
  BY FS_CardinalityType DEF TickInv, TickTypeOK
<1>2. Open # {}
  <2>1. SUFFICES ASSUME mined..top \subseteq pool PROVE FALSE
    OBVIOUS
  <2>2. Cardinality(mined..top) <= Cardinality(pool)
    BY <1>1, <2>1, FS_Subset
  <2>3. Cardinality(mined..top) = top - mined + 1
    BY <1>1, FS_Interval
  <2> QED
    BY <1>1, <2>2, <2>3
<1>3. Open \in SUBSET Nat
  BY <1>1
<1>4. PICK n \in Open : \A k \in Open : n <= k
  BY <1>2, <1>3, LeastNat
<1>5. n \in mined..top /\ n \notin pool /\ \A k \in mined..(n - 1) : k \in pool
  BY <1>1, <1>4
<1> HIDE DEF Open
<1>6. /\ Pending \in mined..top /\ Pending \notin pool
      /\ \A k \in mined..(Pending - 1) : k \in pool
  BY <1>5 DEF Pending
<1> QED
  BY <1>1, <1>6

\* A process that has just started runs no tick.
LEMMA TickInitial == OrchestratorInit => TickInv
BY FS_EmptySet, OrchestratorAssumption
   DEF OrchestratorInit, TickInv, TickTypeOK, SlotIsRun, NoTick, Running

\* A tick that ends frees its slot, and no other.
LEMMA TickEnds ==
    ASSUME TickInv, NEW j \in Jobs, tick[j].pc # "none",
           tick' = [tick EXCEPT ![j] = NoTick],
           inFlightTicks' = IF Running(j) THEN inFlightTicks \ {tick[j].token}
                                          ELSE inFlightTicks
    PROVE  /\ SlotIsRun' /\ inFlightTicks' \subseteq Tokens
           /\ \A k \in Jobs : tick'[k].pc # "none" => tick'[k].token \in Tokens
           /\ tick' \in [Jobs -> [pc : {"none", "root", "infer", "settle", "send", "receipt"},
                                  token : Tokens \union {None}, stream : BOOLEAN,
                                  nonce : Nat]]
<1>1. \A k \in Jobs : tick'[k] = IF k = j THEN NoTick ELSE tick[k]
  BY DEF TickInv, TickTypeOK
<1>2. \A k \in Jobs : Running(k)' <=> k # j /\ Running(k)
  BY <1>1 DEF Running, NoTick
<1>3. SlotIsRun
  BY DEF TickInv
<1>4. inFlightTicks' = {tick'[k].token : k \in {i \in Jobs : Running(i)'}}
  BY <1>1, <1>2, <1>3 DEF SlotIsRun
<1>5. SlotIsRun'
  BY <1>1, <1>2, <1>3, <1>4 DEF SlotIsRun
<1>6. tick' \in [Jobs -> [pc : {"none", "root", "infer", "settle", "send", "receipt"},
                          token : Tokens \union {None}, stream : BOOLEAN, nonce : Nat]]
  BY DEF TickInv, TickTypeOK, NoTick
<1> QED
  BY <1>1, <1>5, <1>6 DEF TickInv, TickTypeOK, NoTick

\* A tick that goes on keeps its slot and its token.
LEMMA TickGoesOn ==
    ASSUME TickInv, NEW j \in Jobs, Running(j), NEW stage \in {"settle", "send", "receipt"},
           NEW n \in Nat,
           tick' = [tick EXCEPT ![j].pc = stage, ![j].nonce = n],
           inFlightTicks' = inFlightTicks
    PROVE  /\ SlotIsRun' /\ inFlightTicks' \subseteq Tokens
           /\ \A k \in Jobs : tick'[k].pc # "none" => tick'[k].token \in Tokens
           /\ tick' \in [Jobs -> [pc : {"none", "root", "infer", "settle", "send", "receipt"},
                                  token : Tokens \union {None}, stream : BOOLEAN,
                                  nonce : Nat]]
<1>1. \A k \in Jobs : tick'[k].token = tick[k].token
  BY DEF TickInv, TickTypeOK
<1>2. \A k \in Jobs : k # j => tick'[k] = tick[k]
  BY DEF TickInv, TickTypeOK
<1>3. tick'[j].pc = stage
  BY DEF TickInv, TickTypeOK
<1>4. \A k \in Jobs : Running(k)' <=> Running(k)
  BY <1>2, <1>3 DEF Running
<1>5. SlotIsRun'
  <2>1. {i \in Jobs : Running(i)'} = {i \in Jobs : Running(i)}
    BY <1>4
  <2>2. {tick'[k].token : k \in {i \in Jobs : Running(i)'}}
          = {tick[k].token : k \in {i \in Jobs : Running(i)}}
    BY <1>1, <2>1
  <2>3. \A i, k \in Jobs : Running(i)' /\ Running(k)' /\ tick'[i].token = tick'[k].token
                             => i = k
    BY <1>1, <1>4 DEF TickInv, SlotIsRun
  <2> QED
    BY <2>2, <2>3 DEF TickInv, SlotIsRun
<1>6. tick' \in [Jobs -> [pc : {"none", "root", "infer", "settle", "send", "receipt"},
                          token : Tokens \union {None}, stream : BOOLEAN, nonce : Nat]]
  BY DEF TickInv, TickTypeOK
<1> QED
  BY <1>1, <1>2, <1>5, <1>6 DEF TickInv, TickTypeOK, Running

\* No step of a tick, of the keeper or of the chain breaks the types and the slots.
LEMMA TickStepKeeps ==
    ASSUME TickInv, NEW j \in Jobs, TickStep(j) \/ BroadcastLost(j)
    PROVE  TickInv'
<1> USE OrchestratorAssumption
<1>0. /\ TickTypeOK /\ SlotIsRun /\ IsFiniteSet(pool)
      /\ mined \in Nat /\ tick[j].nonce \in Nat
  BY DEF TickInv, TickTypeOK
<1>1. CASE RefuseTick(j)
  <2>1. tick[j].pc = "root" /\ ~Running(j)
    BY <1>1 DEF RefuseTick, Running
  <2>2. tick' = [tick EXCEPT ![j] = NoTick] /\ inFlightTicks' = inFlightTicks
    BY <1>1 DEF RefuseTick
  <2> QED
    BY <1>0, <1>1, <2>1, <2>2, TickEnds
       DEF RefuseTick, accountVars, sweepVars, TickInv, TickTypeOK
<1>2. CASE NoSubscriber(j)
  <2>1. tick[j].pc = "root" /\ ~Running(j)
    BY <1>2 DEF NoSubscriber, Running
  <2>2. tick' = [tick EXCEPT ![j] = NoTick] /\ inFlightTicks' = inFlightTicks
    BY <1>2 DEF NoSubscriber, ReleaseTickSlot
  <2> QED
    BY <1>0, <1>2, <2>1, <2>2, TickEnds
       DEF NoSubscriber, accountVars, sweepVars, TickInv, TickTypeOK
<1>3. CASE StartTick(j)
  <2>1. /\ tick[j].pc = "root" /\ tick[j].token \in Tokens /\ ~Running(j)
        /\ tick[j].token \notin inFlightTicks
    BY <1>3 DEF StartTick, TryAcquireTickSlot, TickInv, Running
  <2>2. /\ inFlightTicks' = inFlightTicks \union {tick[j].token}
        /\ tick' = [tick EXCEPT ![j].pc = "infer"]
        /\ UNCHANGED <<nextNonce, mined, pool, sweep, sweepNonce, sweeps>>
    BY <1>3 DEF StartTick, accountVars, sweepVars
  <2>3. /\ \A k \in Jobs : tick'[k].token = tick[k].token
        /\ \A k \in Jobs : k # j => tick'[k] = tick[k]
        /\ tick'[j].pc = "infer"
    BY <1>0, <2>2 DEF TickTypeOK
  <2>4. \A k \in Jobs : Running(k)' <=> k = j \/ Running(k)
    BY <2>3 DEF Running
  <2>5. TickTypeOK'
    BY <1>0, <2>1, <2>2 DEF TickTypeOK
  <2>6. inFlightTicks' = {tick'[k].token : k \in {i \in Jobs : Running(i)'}}
    BY <1>0, <2>2, <2>3, <2>4 DEF SlotIsRun
  <2>7. ASSUME NEW k \in Jobs, Running(k) PROVE tick[k].token # tick[j].token
    BY <1>0, <2>1, <2>7 DEF SlotIsRun
  <2>8. \A i, k \in Jobs : Running(i)' /\ Running(k)' /\ tick'[i].token = tick'[k].token
                             => i = k
    BY <1>0, <2>3, <2>4, <2>7 DEF SlotIsRun
  <2> QED
    BY <1>0, <2>1, <2>2, <2>3, <2>5, <2>6, <2>8 DEF TickInv, SlotIsRun
<1>4. ASSUME Settle(j), Running(j), UNCHANGED <<nextNonce, sweepVars>>,
             mined' = mined, pool' \in {pool, pool \union {tick[j].nonce}},
             pool' # pool => tick[j].nonce >= mined
      PROVE  TickInv'
  <2>1. /\ tick' = [tick EXCEPT ![j] = NoTick]
        /\ inFlightTicks' = inFlightTicks \ {tick[j].token}
        /\ tick[j].pc # "none"
    BY <1>4 DEF Settle, ReleaseTickSlot, Running
  <2>2. IsFiniteSet(pool') /\ \A n \in pool' : n \in Nat /\ n >= mined'
    BY <1>0, <1>4, FS_AddElement DEF TickTypeOK
  <2> QED
    BY <1>0, <1>4, <2>1, <2>2, TickEnds DEF sweepVars, TickInv, TickTypeOK
<1>5. CASE InferHold(j) \/ SkipSettlement(j) \/ SendFails(j) \/ Receipt(j)
  BY <1>4, <1>5
     DEF InferHold, SkipSettlement, SendFails, Receipt, Running, accountVars
<1>6. CASE BroadcastLost(j)
  BY <1>0, <1>4, <1>6 DEF BroadcastLost, Running, Refuses
<1>7. CASE InferAct(j)
  <2>1. Running(j) /\ inFlightTicks' = inFlightTicks
        /\ tick' = [tick EXCEPT ![j].pc = "settle", ![j].nonce = tick[j].nonce]
    BY <1>0, <1>7 DEF InferAct, Running, TickTypeOK
  <2> QED
    BY <1>0, <1>7, <2>1, TickGoesOn
       DEF InferAct, accountVars, sweepVars, TickInv, TickTypeOK
<1>8. CASE TakeNonce(j)
  <2> DEFINE n == IF nextNonce = -1 THEN Pending ELSE nextNonce
  <2>1. n \in Nat
    BY <1>0, PendingIsFirst DEF TickTypeOK
  <2>2. /\ Running(j) /\ inFlightTicks' = inFlightTicks /\ nextNonce' = n + 1
        /\ tick' = [tick EXCEPT ![j].pc = "send", ![j].nonce = n]
    BY <1>8 DEF TakeNonce, Running
  <2>3. UNCHANGED <<mined, pool, sweep, sweepNonce, sweeps>>
    BY <1>8 DEF TakeNonce, accountVars, sweepVars
  <2> HIDE DEF n
  <2>4. /\ SlotIsRun' /\ inFlightTicks' \subseteq Tokens
        /\ \A k \in Jobs : tick'[k].pc # "none" => tick'[k].token \in Tokens
        /\ tick' \in [Jobs -> [pc : {"none", "root", "infer", "settle", "send", "receipt"},
                               token : Tokens \union {None}, stream : BOOLEAN, nonce : Nat]]
    BY <2>1, <2>2, TickGoesOn
  <2>5. nextNonce' \in Nat \union {-1}
    BY <2>1, <2>2
  <2> QED
    BY <1>0, <2>3, <2>4, <2>5 DEF TickInv, TickTypeOK
<1>9. CASE Broadcast(j)
  <2>1. Running(j) /\ inFlightTicks' = inFlightTicks
        /\ tick' = [tick EXCEPT ![j].pc = "receipt", ![j].nonce = tick[j].nonce]
    BY <1>0, <1>9 DEF Broadcast, Running, TickTypeOK
  <2>2. /\ pool' = pool \union {tick[j].nonce} /\ tick[j].nonce >= mined
        /\ UNCHANGED <<nextNonce, mined, sweep, sweepNonce, sweeps>>
    BY <1>0, <1>9 DEF Broadcast, Refuses, sweepVars
  <2>3. IsFiniteSet(pool') /\ \A n \in pool' : n \in Nat /\ n >= mined'
    BY <1>0, <2>2, FS_AddElement DEF TickTypeOK
  <2> QED
    BY <1>0, <2>1, <2>2, <2>3, TickGoesOn DEF TickInv, TickTypeOK
<1> QED
  BY <1>1, <1>2, <1>3, <1>5, <1>6, <1>7, <1>8, <1>9 DEF TickStep

\* The invariant of the orchestrator, the order of its pending numbers included.
LEMMA TickInvStep ==
    ASSUME TickInv, Next
    PROVE  TickInv'
<1> USE OrchestratorAssumption
<1>0. TickTypeOK /\ SlotIsRun /\ IsFiniteSet(pool) /\ mined \in Nat
  BY DEF TickInv, TickTypeOK
<1>1. ASSUME UNCHANGED tickVars, sweep' \in {"idle", "derive", "gas", "send"},
             sweepNonce' \in Nat, sweeps' \in 0..MaxSweeps,
             mined' \in Nat, IsFiniteSet(pool'),
             \A n \in pool' : n \in Nat /\ n >= mined'
      PROVE  TickInv'
  BY <1>0, <1>1 DEF TickInv, TickTypeOK, SlotIsRun, Running, tickVars
<1>2. CASE UNCHANGED orchestratorVars
  BY <1>0, <1>1, <1>2 DEF TickTypeOK, orchestratorVars, accountVars, sweepVars
<1>3. CASE Mine
  <2>1. IsFiniteSet(pool') /\ mined' = mined + 1 /\ pool' = pool \ {mined}
    BY <1>0, <1>3, FS_RemoveElement DEF Mine
  <2> QED
    BY <1>0, <1>1, <1>3, <2>1 DEF Mine, TickTypeOK, sweepVars
<1>4. CASE StartSweep \/ DeriveCandidates
  BY <1>0, <1>1, <1>4 DEF StartSweep, DeriveCandidates, TickTypeOK, accountVars
<1>5. CASE GasPrice
  BY <1>0, <1>1, <1>5, PendingIsFirst DEF GasPrice, TickTypeOK, accountVars
<1>6. CASE CleanExpiredProofs
  <2>1. IsFiniteSet(pool') /\ mined' = mined /\ \A n \in pool' : n \in Nat /\ n >= mined
    BY <1>0, <1>6, FS_AddElement DEF CleanExpiredProofs, Refuses, TickTypeOK
  <2> QED
    BY <1>0, <1>1, <1>6, <2>1 DEF CleanExpiredProofs, TickTypeOK
<1>7. CASE OrchestratorRestart
  BY <1>0, <1>7 DEF OrchestratorRestart, accountVars, TickInv, TickTypeOK, SlotIsRun,
     Running, NoTick
<1>8. ASSUME NEW j \in Jobs, NEW t \in Tokens, NEW stream \in BOOLEAN,
             RequestTick(j, t, stream)
      PROVE  TickInv'
  <2> DEFINE new == [NoTick EXCEPT !.pc = "root", !.token = t, !.stream = stream]
  <2>1. /\ new \in [pc : {"none", "root", "infer", "settle", "send", "receipt"},
                    token : Tokens \union {None}, stream : BOOLEAN, nonce : Nat]
        /\ new.pc = "root" /\ new.token = t
    BY DEF NoTick
  <2>2. tick' = [tick EXCEPT ![j] = new] /\ ~Running(j)
        /\ UNCHANGED <<inFlightTicks, nextNonce, mined, pool, sweep, sweepNonce, sweeps>>
    BY <1>8 DEF RequestTick, Running, accountVars, sweepVars
  <2> HIDE DEF new
  <2>3. \A k \in Jobs : tick'[k] = IF k = j THEN new ELSE tick[k]
    BY <1>0, <2>2 DEF TickTypeOK
  <2>4. \A k \in Jobs : Running(k)' <=> Running(k)
    BY <2>1, <2>2, <2>3 DEF Running
  <2>5. {i \in Jobs : Running(i)'} = {i \in Jobs : Running(i)}
    BY <2>4
  <2>6. {tick'[k].token : k \in {i \in Jobs : Running(i)'}}
          = {tick[k].token : k \in {i \in Jobs : Running(i)}}
    BY <2>2, <2>3, <2>5
  <2>7. \A i, k \in Jobs : Running(i)' /\ Running(k)' /\ tick'[i].token = tick'[k].token
                             => i = k
    BY <1>0, <2>2, <2>3, <2>4 DEF SlotIsRun
  <2>8. SlotIsRun'
    BY <1>0, <2>2, <2>6, <2>7 DEF SlotIsRun
  <2>9. TickTypeOK'
    BY <1>0, <2>1, <2>2 DEF TickTypeOK
  <2> QED
    BY <1>0, <2>1, <2>2, <2>3, <2>8, <2>9 DEF TickInv
<1> QED
  BY TickMoves, TickStepKeeps, <1>2, <1>3, <1>4, <1>5, <1>6, <1>7, <1>8 DEF KeeperStep

-----------------------------------------------------------------------------
(* The cache of blobs.                                                      *)

CacheTypeOK ==
    /\ blobCache \in Seq(Blobs) /\ blobCacheBytes \in Nat
    /\ loading \in [Jobs -> Blobs \union {None}]

CacheInv == CacheTypeOK /\ CacheBounded

OnceEach(roots) == \A i, k \in DOMAIN roots : roots[i] = roots[k] => i = k

\* As many of the oldest go as it takes, or all of them.
LEMMA ExcessIsEnough ==
    ASSUME NEW roots \in Seq(Blobs), NEW bytes \in Nat
    PROVE  /\ Excess(roots, bytes) \in 0..Len(roots)
           /\ \/ Excess(roots, bytes) = Len(roots)
              \/ /\ Len(roots) - Excess(roots, bytes) <= MaxEntries
                 /\ bytes - SizeOf(SubSeq(roots, 1, Excess(roots, bytes))) <= MaxBytes
<1> DEFINE Fits(k) == /\ Len(roots) - k <= MaxEntries
                      /\ bytes - SizeOf(SubSeq(roots, 1, k)) <= MaxBytes
           Enough == {k \in 0..Len(roots) : Fits(k)}
<1>1. Excess(roots, bytes) = IF \E k \in 0..Len(roots) : Fits(k) THEN Min(Enough)
                             ELSE Len(roots)
  BY DEF Excess
<1>2. Len(roots) \in Nat
  BY LenProperties
<1>3. Enough \in SUBSET Nat
  BY <1>2
<1>4. CASE Enough # {}
  <2>1. PICK n \in Enough : \A k \in Enough : n <= k
    BY <1>3, <1>4, LeastNat
  <2>2. Min(Enough) \in Enough
    <3> HIDE DEF Enough
    <3> QED
      BY <2>1 DEF Min
  <2>3. Excess(roots, bytes) = Min(Enough)
    BY <1>1, <1>4
  <2>4. Excess(roots, bytes) \in 0..Len(roots) /\ Fits(Excess(roots, bytes))
    BY <2>2, <2>3
  <2> QED
    BY <2>4
<1>5. CASE Enough = {}
  <2>1. Excess(roots, bytes) = Len(roots)
    BY <1>1, <1>5
  <2> QED
    BY <2>1, <1>2
<1> QED
  BY <1>4, <1>5

\* What is left is within the bounds, and the bytes counted for it are no fewer than
\* it has.
LEMMA EvictionBounds ==
    ASSUME NEW roots \in Seq(Blobs), NEW bytes \in Nat, SizeOf(roots) <= bytes,
           OnceEach(roots),
           NEW k, k = Excess(roots, bytes),
           NEW left, left = SubSeq(roots, k + 1, Len(roots)),
           NEW rest, rest = bytes - SizeOf(SubSeq(roots, 1, k))
    PROVE  /\ left \in Seq(Blobs) /\ rest \in Nat /\ OnceEach(left)
           /\ Len(left) <= MaxEntries /\ SizeOf(left) <= rest /\ SizeOf(left) <= MaxBytes
<1> DEFINE old == SubSeq(roots, 1, k)
<1>0. \/ k = Len(roots)
      \/ Len(roots) - k <= MaxEntries /\ rest <= MaxBytes
  BY ExcessIsEnough
<1>1. k \in 0..Len(roots) /\ Len(roots) \in Nat
  BY ExcessIsEnough, LenProperties
<1>2. /\ left \in Seq(Blobs) /\ Len(left) = Len(roots) - k
      /\ \A i \in 1..(Len(roots) - k) : left[i] = roots[k + i]
  BY <1>1, Suffix
<1>3. /\ old \in Seq(Blobs) /\ SizeOf(roots) = SizeOf(old) + SizeOf(left)
  BY <1>1, SizeOfCut
<1>4. SizeOf(roots) \in Nat /\ SizeOf(old) \in Nat /\ SizeOf(left) \in Nat
  BY <1>2, <1>3, BytesType
<1>5. SizeOf(left) <= rest /\ rest \in Nat
  <2> HIDE DEF old
  <2>1. rest = bytes - SizeOf(old)
    BY DEF old
  <2> QED
    BY ONLY <2>1, <1>3, <1>4, bytes \in Nat, SizeOf(roots) <= bytes
<1>6. DOMAIN left = 1..(Len(roots) - k) /\ DOMAIN roots = 1..Len(roots)
  BY <1>2, LenProperties
<1>7. OnceEach(left)
  <2> SUFFICES ASSUME NEW i \in 1..(Len(roots) - k), NEW m \in 1..(Len(roots) - k),
                      left[i] = left[m]
               PROVE  i = m
    BY <1>6 DEF OnceEach
  <2> DEFINE n == Len(roots)
  <2>0. i \in 1..(n - k) /\ m \in 1..(n - k) /\ k \in 0..n /\ n \in Nat
    BY <1>1
  <2> HIDE DEF n
  <2>1. k + i \in 1..n /\ k + m \in 1..n
    BY ONLY <2>0
  <2>2. roots[k + i] = roots[k + m]
    BY <1>2
  <2>3. k + i = k + m
    BY <2>1, <2>2, <1>6 DEF OnceEach, n
  <2> QED
    BY <2>0, <2>3
<1>8. CASE k = Len(roots)
  <2>1. Len(left) = 0
    BY <1>1, <1>2, <1>8
  <2>2. left = << >>
    BY <1>2, <2>1, EmptySeq
  <2>3. SizeOf(left) = 0
    BY <2>2, SizeOfNone
  <2> QED
    BY <2>1, <2>3, <1>2, <1>5, <1>7, CustodyAssumption
<1>9. CASE Len(roots) - k <= MaxEntries /\ rest <= MaxBytes
  <2>1. SizeOf(left) <= MaxBytes
    BY <1>4, <1>5, <1>9, CustodyAssumption
  <2> QED
    BY <2>1, <1>2, <1>5, <1>7, <1>9
<1> QED
  BY <1>0, <1>8, <1>9

\* An empty cache satisfies its invariant.
LEMMA CacheInitial == blobCache = << >> /\ blobCacheBytes = 0
                        /\ loading = [j \in Jobs |-> None] => CacheInv
<1> SUFFICES ASSUME blobCache = << >>, blobCacheBytes = 0,
                    loading = [j \in Jobs |-> None]
             PROVE  CacheInv
  OBVIOUS
<1>1. << >> \in Seq(Blobs) /\ Len(<< >>) = 0
  BY EmptySeq
<1>2. SizeOf(<< >>) = 0
  BY SizeOfNone
<1> QED
  BY <1>1, <1>2, CustodyAssumption DEF CacheInv, CacheTypeOK, CacheBounded

\* A miss is put into the cache and room is made for it.
LEMMA FillKeepsBounds ==
    ASSUME CacheInv, NEW root \in Blobs, FillCache(root)
    PROVE  /\ blobCache' \in Seq(Blobs) /\ blobCacheBytes' \in Nat /\ CacheBounded'
<1> DEFINE roots == IF Cached(root) THEN blobCache ELSE Append(blobCache, root)
           bytes == blobCacheBytes + sizeOf[root]
           k == Excess(roots, bytes)
<1>1. /\ blobCache \in Seq(Blobs) /\ blobCacheBytes \in Nat
      /\ SizeOf(blobCache) <= blobCacheBytes /\ OnceEach(blobCache)
  BY DEF CacheInv, CacheTypeOK, CacheBounded, OnceEach
<1>2. sizeOf[root] \in Nat /\ bytes \in Nat /\ SizeOf(blobCache) \in Nat
  BY <1>1, CustodyAssumption, BytesType
<1>3. roots \in Seq(Blobs) /\ SizeOf(roots) <= bytes
  <2>1. CASE Cached(root)
    BY <1>1, <1>2, <2>1
  <2>2. CASE ~Cached(root)
    <3>1. Append(blobCache, root) \in Seq(Blobs)
      BY <1>1, AppendProperties
    <3>2. SizeOf(Append(blobCache, root)) = SizeOf(blobCache) + sizeOf[root]
      BY <1>1, SizeOfAppend
    <3>3. SizeOf(blobCache) + sizeOf[root] <= bytes
      BY <1>1, <1>2
    <3> QED
      BY <2>2, <3>1, <3>2, <3>3
  <2> QED
    BY <2>1, <2>2
<1>4. OnceEach(roots)
  <2>1. CASE Cached(root)
    BY <1>1, <2>1
  <2>2. CASE ~Cached(root)
    <3> DEFINE n == Len(blobCache)
               more == Append(blobCache, root)
    <3>1. /\ n \in Nat /\ DOMAIN blobCache = 1..n /\ DOMAIN more = 1..(n + 1)
          /\ (\A i \in 1..n : more[i] = blobCache[i]) /\ more[n + 1] = root
      BY <1>1, AppendProperties, LenProperties
    <3>2. \A i \in 1..n : blobCache[i] # root
      BY <2>2, <3>1 DEF Cached
    <3>3. \A i, m \in 1..n : blobCache[i] = blobCache[m] => i = m
      BY <1>1, <3>1 DEF OnceEach
    <3> HIDE DEF n, more
    <3>4. \A i, m \in 1..(n + 1) : more[i] = more[m] => i = m
      BY <3>1, <3>2, <3>3
    <3>5. OnceEach(more)
      BY <3>1, <3>4 DEF OnceEach
    <3> QED
      BY <2>2, <3>5 DEF more
  <2> QED
    BY <2>1, <2>2
<1>5. /\ blobCache' = SubSeq(roots, k + 1, Len(roots))
      /\ blobCacheBytes' = bytes - SizeOf(SubSeq(roots, 1, k))
  BY DEF FillCache, AddedBytes
<1> HIDE DEF roots, bytes
<1>6. /\ blobCache' \in Seq(Blobs) /\ blobCacheBytes' \in Nat /\ OnceEach(blobCache')
      /\ Len(blobCache') <= MaxEntries /\ SizeOf(blobCache') <= blobCacheBytes'
      /\ SizeOf(blobCache') <= MaxBytes
  BY <1>2, <1>3, <1>4, <1>5, EvictionBounds
<1> QED
  BY <1>6 DEF CacheBounded, OnceEach, SizeOf

\* A hit changes the order of the cache only.
LEMMA DownloadKeepsBounds ==
    ASSUME CacheInv, NEW j \in Jobs, NEW root \in Blobs, Download(j, root)
    PROVE  CacheInv'
<1>1. /\ blobCache \in Seq(Blobs) /\ OnceEach(blobCache)
  BY DEF CacheInv, CacheTypeOK, CacheBounded, OnceEach
<1>2. DOMAIN blobCache = 1..Len(blobCache)
  BY <1>1, LenProperties
<1>3. CASE Cached(root)
  <2> DEFINE n == Len(blobCache)
             i == CHOOSE m \in DOMAIN blobCache : blobCache[m] = root
  <2>1. i \in 1..n /\ blobCache[i] = root
    BY <1>2, <1>3 DEF Cached
  <2>2. blobCache' = Append(RemoveAt(blobCache, i), root)
        /\ UNCHANGED <<blobCacheBytes, loading>>
    BY <1>3 DEF Download, Touch
  <2> HIDE DEF i
  <2> DEFINE touched == Append(RemoveAt(blobCache, i), blobCache[i])
  <2>3. /\ touched \in Seq(Blobs) /\ Len(touched) = n
        /\ SizeOf(touched) = SizeOf(blobCache)
        /\ \E h \in [1..n -> 1..n] : /\ \A a, b \in 1..n : h[a] = h[b] => a = b
                                     /\ \A a \in 1..n : touched[a] = blobCache[h[a]]
    BY <1>1, <2>1, SizeOfTouched
  <2>9. blobCache' = touched
    BY <2>1, <2>2
  <2> HIDE DEF touched
  <2>4. /\ blobCache' \in Seq(Blobs) /\ Len(blobCache') = n
        /\ SizeOf(blobCache') = SizeOf(blobCache)
        /\ \E h \in [1..n -> 1..n] : /\ \A a, b \in 1..n : h[a] = h[b] => a = b
                                     /\ \A a \in 1..n : blobCache'[a] = blobCache[h[a]]
    BY <2>3, <2>9
  <2>5. DOMAIN blobCache' = 1..n
    BY <2>4, LenProperties
  <2>6. PICK h \in [1..n -> 1..n] : /\ \A a, b \in 1..n : h[a] = h[b] => a = b
                                    /\ \A a \in 1..n : blobCache'[a] = blobCache[h[a]]
    BY <2>4
  <2>7. ASSUME NEW a \in 1..n, NEW b \in 1..n, blobCache'[a] = blobCache'[b]
        PROVE  a = b
    BY <1>1, <1>2, <2>6, <2>7 DEF OnceEach
  <2>8. CacheBounded'
    BY <2>2, <2>4, <2>5, <2>7 DEF CacheInv, CacheBounded, SizeOf
  <2> QED
    BY <2>2, <2>4, <2>8 DEF CacheInv, CacheTypeOK
<1>4. CASE ~Cached(root)
  BY <1>4 DEF Download, CacheInv, CacheTypeOK, CacheBounded, SizeOf
<1> QED
  BY <1>3, <1>4

-----------------------------------------------------------------------------
(* The vault and the re-keys.                                               *)

\* A key that the file does not have, either, was not lost by a write: unless one was
\* refused and none has succeeded since.
FileKept ==
    \A t \in Tokens : keys[t] > 0 /\ dekFile[t] = 0 /\ t \notin unsaved \union lost =>
        uploaded[t] # {}

VaultTypeOK ==
    /\ rekey \in [Jobs -> [pc : {"none", "hash", "download", "upload", "possess", "register"},
                           token : Tokens \union {None}, row : 0..MaxKeys]]
    /\ {entries, dekFile, keys} \subseteq [Tokens -> 0..MaxKeys]
    /\ {uploaded, delivered} \subseteq [Tokens -> SUBSET (1..MaxKeys)]
    /\ unsaved \subseteq Tokens /\ lost \subseteq Tokens

VaultInv ==
    /\ VaultTypeOK
    /\ \A j \in Jobs : rekey[j].pc # "none" => rekey[j].token \in Tokens
    /\ KeyKept /\ FileKept

vaultState == <<rekey, vaultVars, uploaded, delivered>>

\* A vault without keys satisfies its invariant.
LEMMA VaultInitial == CustodyInit => VaultInv
BY CustodyAssumption DEF CustodyInit, VaultInv, VaultTypeOK, KeyKept, FileKept, NoRekey

\* A request's step that leaves the vault alone.
LEMMA VaultUntouched ==
    ASSUME VaultInv, NEW j \in Jobs, NEW r, rekey' = [rekey EXCEPT ![j] = r],
           r \in [pc : {"none", "hash", "download", "upload", "possess", "register"},
                  token : Tokens \union {None}, row : 0..MaxKeys],
           r.pc # "none" => r.token \in Tokens,
           UNCHANGED <<vaultVars, uploaded, delivered>>
    PROVE  VaultInv'
<1>1. \A k \in Jobs : rekey'[k] = IF k = j THEN r ELSE rekey[k]
  BY DEF VaultInv, VaultTypeOK
<1>2. VaultTypeOK'
  BY DEF VaultInv, VaultTypeOK, vaultVars
<1>3. KeyKept' /\ FileKept'
  BY DEF VaultInv, KeyKept, FileKept, vaultVars
<1> QED
  BY <1>1, <1>2, <1>3 DEF VaultInv

\* A step that leaves the vault and its file alone keeps their invariant.
LEMMA VaultIdle ==
    ASSUME VaultInv, UNCHANGED vaultState
    PROVE  VaultInv'
BY DEF VaultInv, VaultTypeOK, KeyKept, FileKept, vaultState, vaultVars

\* A key is registered, and with it its token has one again.
LEMMA VaultRegister ==
    ASSUME VaultInv, NEW j \in Jobs, NEW fails \in BOOLEAN, RegisterKey(j, fails)
    PROVE  VaultInv'
<1> DEFINE token == rekey[j].token
<1>1. token \in Tokens /\ keys[token] < MaxKeys /\ keys[token] \in Nat
  BY CustodyAssumption DEF RegisterKey, VaultInv, VaultTypeOK
<1>2. /\ keys' = [keys EXCEPT ![token] = keys[token] + 1]
      /\ entries' = [entries EXCEPT ![token] = keys[token] + 1]
      /\ lost' = lost \ {token}
      /\ dekFile' = IF fails THEN dekFile ELSE entries'
      /\ unsaved' = IF fails THEN unsaved \union {token} ELSE {}
      /\ rekey' = [rekey EXCEPT ![j] = NoRekey]
      /\ UNCHANGED <<uploaded, delivered>>
  BY DEF RegisterKey, Persist, WriteEntries
<1> HIDE DEF token
<1>3. /\ entries \in [Tokens -> 0..MaxKeys] /\ dekFile \in [Tokens -> 0..MaxKeys]
      /\ keys \in [Tokens -> 0..MaxKeys] /\ MaxKeys \in Nat
  BY CustodyAssumption DEF VaultInv, VaultTypeOK
<1>4. keys[token] + 1 \in 0..MaxKeys /\ keys[token] + 1 > 0
  BY <1>1, <1>3
<1>5. /\ entries' \in [Tokens -> 0..MaxKeys] /\ dekFile' \in [Tokens -> 0..MaxKeys]
      /\ keys' \in [Tokens -> 0..MaxKeys]
  BY <1>2, <1>3, <1>4
<1>6. /\ rekey' \in [Jobs -> [pc : {"none", "hash", "download", "upload", "possess",
                                    "register"},
                              token : Tokens \union {None}, row : 0..MaxKeys]]
      /\ \A k \in Jobs : rekey'[k].pc # "none" => rekey'[k].token \in Tokens
  BY <1>2, <1>3 DEF VaultInv, VaultTypeOK, NoRekey
<1>7. VaultTypeOK'
  BY <1>1, <1>2, <1>5, <1>6 DEF VaultInv, VaultTypeOK
<1>8. /\ entries'[token] # 0
      /\ \A t \in Tokens : t # token => entries'[t] = entries[t] /\ keys'[t] = keys[t]
  BY <1>1, <1>2, <1>3, <1>4
<1>9. KeyKept'
  BY <1>2, <1>8 DEF VaultInv, KeyKept
<1>10. FileKept'
  BY <1>2, <1>8, <1>9 DEF VaultInv, KeyKept, FileKept
<1> QED
  BY <1>6, <1>7, <1>9, <1>10 DEF VaultInv

\* A row goes only with an upload for its token.
LEMMA VaultBurn ==
    ASSUME VaultInv, NEW j \in Jobs, NEW fails \in BOOLEAN, NEW seals \in BOOLEAN,
           UploadRekeyed(j, fails, seals)
    PROVE  VaultInv'
<1> DEFINE token == rekey[j].token
           row   == rekey[j].row
           used  == IF row = 0 THEN {} ELSE {row}
<1>1. token \in Tokens /\ row \in 0..MaxKeys /\ MaxKeys \in Nat
  BY CustodyAssumption DEF UploadRekeyed, VaultInv, VaultTypeOK
<1>2. /\ IF row = 0 THEN UNCHANGED vaultVars ELSE Delete(token, fails)
      /\ uploaded' = [uploaded EXCEPT ![token] = @ \union used]
      /\ delivered' = [delivered EXCEPT ![token] = IF seals THEN @ \union used ELSE @]
      /\ rekey' = [rekey EXCEPT ![j] = NoRekey]
  BY DEF UploadRekeyed
<1>3. used \in SUBSET (1..MaxKeys) /\ (row # 0 => used # {})
  BY <1>1
<1> HIDE DEF token, row, used
<1>4. /\ entries \in [Tokens -> 0..MaxKeys] /\ dekFile \in [Tokens -> 0..MaxKeys]
      /\ keys \in [Tokens -> 0..MaxKeys]
      /\ uploaded \in [Tokens -> SUBSET (1..MaxKeys)]
      /\ delivered \in [Tokens -> SUBSET (1..MaxKeys)]
  BY DEF VaultInv, VaultTypeOK
<1>5. /\ uploaded' \in [Tokens -> SUBSET (1..MaxKeys)]
      /\ delivered' \in [Tokens -> SUBSET (1..MaxKeys)]
      /\ \A t \in Tokens : uploaded[t] \subseteq uploaded'[t]
      /\ row # 0 => uploaded'[token] # {}
  BY <1>1, <1>2, <1>3, <1>4
<1>6. /\ rekey' \in [Jobs -> [pc : {"none", "hash", "download", "upload", "possess",
                                    "register"},
                              token : Tokens \union {None}, row : 0..MaxKeys]]
      /\ \A k \in Jobs : rekey'[k].pc # "none" => rekey'[k].token \in Tokens
  BY <1>1, <1>2 DEF VaultInv, VaultTypeOK, NoRekey
<1>7. CASE row = 0
  <2>1. UNCHANGED vaultVars
    BY <1>2, <1>7
  <2>2. VaultTypeOK'
    BY <2>1, <1>5, <1>6 DEF VaultInv, VaultTypeOK, vaultVars
  <2>3. KeyKept' /\ FileKept'
    BY <2>1, <1>5 DEF VaultInv, KeyKept, FileKept, vaultVars
  <2> QED
    BY <2>2, <2>3, <1>6 DEF VaultInv
<1>8. CASE row # 0
  <2>1. /\ entries' = [entries EXCEPT ![token] = 0]
        /\ IF entries[token] = 0
           THEN UNCHANGED <<dekFile, unsaved>>
           ELSE /\ dekFile' = IF fails THEN dekFile ELSE entries'
                /\ unsaved' = IF fails THEN unsaved \union {token} ELSE {}
        /\ UNCHANGED <<keys, lost>>
    BY <1>2, <1>8 DEF Delete, WriteEntries
  <2>2. entries' \in [Tokens -> 0..MaxKeys] /\ dekFile' \in [Tokens -> 0..MaxKeys]
    BY <2>1, <1>1, <1>4
  <2>3. VaultTypeOK'
    BY <2>1, <2>2, <1>1, <1>5, <1>6 DEF VaultInv, VaultTypeOK
  <2>4. \A t \in Tokens : t # token => entries'[t] = entries[t]
    BY <2>1, <1>1, <1>4
  <2>5. KeyKept'
    BY <2>1, <2>4, <1>5, <1>8 DEF VaultInv, KeyKept
  <2>6. FileKept'
    BY <2>1, <2>4, <2>5, <1>5, <1>8 DEF VaultInv, KeyKept, FileKept
  <2> QED
    BY <2>3, <2>5, <2>6, <1>6 DEF VaultInv
<1> QED
  BY <1>7, <1>8

\* A new process has what the file has.
LEMMA VaultRestart ==
    ASSUME VaultInv, CustodyRestart
    PROVE  VaultInv'
<1>1. /\ entries' = dekFile /\ unsaved' = {}
      /\ lost' = lost \union {t \in unsaved : entries[t] # 0 /\ dekFile[t] = 0}
      /\ UNCHANGED <<dekFile, keys, uploaded, delivered>>
      /\ rekey' = [j \in Jobs |-> NoRekey]
  BY DEF CustodyRestart
<1>2. VaultTypeOK'
  BY <1>1, CustodyAssumption DEF VaultInv, VaultTypeOK, NoRekey
<1>3. ASSUME NEW t \in Tokens, keys[t] > 0, dekFile[t] = 0, t \notin lost'
      PROVE  uploaded[t] # {}
  <2>1. CASE t \in unsaved
    BY <2>1, <1>1, <1>3 DEF VaultInv, KeyKept
  <2>2. CASE t \notin unsaved
    BY <2>2, <1>1, <1>3 DEF VaultInv, FileKept
  <2> QED
    BY <2>1, <2>2
<1>4. KeyKept' /\ FileKept'
  BY <1>1, <1>3 DEF KeyKept, FileKept
<1> QED
  BY <1>1, <1>2, <1>4 DEF VaultInv, NoRekey

-----------------------------------------------------------------------------
(* The chats.                                                               *)

\* The history of a wallet is a sequence of transcripts' roots.
LEMMA HistoryType ==
    ASSUME transcripts \in Seq(Transcript), NEW wallet
    PROVE  HistoryOf(wallet) \in Seq(TurnBlobs)
<1> DEFINE shown == GetAll(HistoryLimit)
           n == Len(shown)
           V == Seq(TurnBlobs)
           Rule(own) == [i \in 0..n |->
               IF i = 0 THEN << >>
               ELSE IF shown[i].wallet = wallet THEN Append(own[i - 1], shown[i].root)
               ELSE own[i - 1]]
<1>1. shown \in Seq(Transcript) /\ n \in Nat
  <2> DEFINE m == IF Len(transcripts) < HistoryLimit THEN Len(transcripts) ELSE HistoryLimit
  <2>1. m \in Int /\ \A i \in 1..m : transcripts[i] \in Transcript
    BY ElementOfSeq, LenProperties, ChatAssumption
  <2>2. SubSeq(transcripts, 1, m) \in Seq(Transcript)
    BY <2>1, SubSeqProperties
  <2> QED
    BY <2>2, LenProperties DEF GetAll
<1>2. ASSUME NEW i \in 1..n PROVE shown[i].root \in TurnBlobs
  <2>1. shown[i] \in Transcript
    <3> HIDE DEF shown
    <3> QED
      BY <1>1, ElementOfSeq
  <2> QED
    BY <2>1 DEF Transcript
<1>3. \A v \in V, root \in TurnBlobs : Append(v, root) \in V
  BY AppendProperties
<1>4. << >> \in V
  BY EmptySeq
<1>5. HistoryOf(wallet) = (CHOOSE own : own = Rule(own))[n]
  BY DEF HistoryOf
<1> HIDE DEF shown, V, n
<1> DEFINE next == [i \in 1..n |-> [v \in V |->
               IF shown[i].wallet = wallet THEN Append(v, shown[i].root) ELSE v]]
<1>6. Steps(next, n, V)
  BY <1>2, <1>3 DEF Steps
<1>7. PICK f \in [0..n -> V] : f[0] = << >> /\ \A i \in 1..n : f[i] = next[i][f[i - 1]]
  <2> HIDE DEF next
  <2>1. \E f : Follows(f, << >>, next, n, V)
    BY <1>1, <1>4, <1>6, StepByStep
  <2> QED
    BY <2>1 DEF Follows
<1>8. f = Rule(f)
  <2>1. \A i \in 0..n : i # 0 => i \in 1..n /\ i - 1 \in 0..n
    BY <1>1
  <2>2. \A i \in 0..n : f[i] = Rule(f)[i]
    BY <1>7, <2>1
  <2> QED
    BY <2>2, <1>7
<1> DEFINE own == CHOOSE own : own = Rule(own)
<1>9. own = Rule(own)
  BY <1>8
<1> HIDE DEF own, next
<1>10. /\ own[0] = << >>
       /\ \A i \in 1..n : own[i] = IF shown[i].wallet = wallet
                                   THEN Append(own[i - 1], shown[i].root) ELSE own[i - 1]
  <2>1. 0 \in 0..n /\ \A i \in 1..n : i \in 0..n /\ i # 0
    BY <1>1
  <2>2. \A i \in 0..n : own[i] = Rule(own)[i]
    BY <1>9
  <2> HIDE DEF Rule
  <2>3. own[0] = Rule(own)[0] /\ \A i \in 1..n : own[i] = Rule(own)[i]
    BY <2>1, <2>2
  <2> QED
    BY <2>1, <2>3 DEF Rule
<1> DEFINE B == {i \in 0..n : own[i] \notin V}
<1>11. CASE B # {}
  <2>0. B \in SUBSET Nat
    BY <1>1
  <2>1. PICK i \in B : \A m \in B : i <= m
    BY <1>11, <2>0, LeastNat
  <2>2. i \in 0..n /\ own[i] \notin V
    BY <2>1
  <2>3. i \in 1..n /\ i - 1 \in 0..n /\ ~(i <= i - 1)
    BY <2>2, <1>1, <1>4, <1>10
  <2>4. own[i - 1] \in V
    BY <2>1, <2>3
  <2> QED
    BY <2>2, <2>3, <2>4, <1>2, <1>3, <1>10
<1>12. CASE B = {}
  <2>1. n \in 0..n
    BY <1>1
  <2>2. own[n] \in V
    BY <2>1, <1>12
  <2> QED
    BY <2>2, <1>5 DEF own, V
<1> QED
  BY <1>11, <1>12

ChatInv ==
    /\ ChatTypeOK
    /\ \A j \in Jobs : turn[j].pc # "none" => turn[j].wallet \in Wallets

\* What a step of the process does to the chats.
LEMMA ChatMoves ==
    ASSUME Next
    PROVE  \/ UNCHANGED chatVars \/ ChatRestart
           \/ \E j \in Jobs : \/ \E w \in Wallets : StartTurn(j, w) \/ RequestHistory(j, w)
                              \/ StreamFails(j) \/ StreamEnds(j) \/ PersistFails(j)
                              \/ \E b \in TurnBlobs : PersistTranscript(j, b)
                              \/ NextTranscript(j)
<1>1. ASSUME NEW j \in Jobs, Request(j)
      PROVE  \/ UNCHANGED chatVars
             \/ \E w \in Wallets : StartTurn(j, w) \/ RequestHistory(j, w)
  BY <1>1 DEF Request, KeepChat
<1>2. ASSUME NEW j \in Jobs, Continue(j)
      PROVE  \/ UNCHANGED chatVars
             \/ StreamFails(j) \/ StreamEnds(j) \/ PersistFails(j) \/ NextTranscript(j)
             \/ \E b \in TurnBlobs : PersistTranscript(j, b)
  BY <1>2 DEF Continue, KeepChat
<1>3. ASSUME NEW j \in Jobs, Falter(j) PROVE UNCHANGED chatVars
  BY <1>3 DEF Falter, KeepChat
<1>4. CASE Sockets \/ Account \/ Keeper \/ Restart
  BY <1>4 DEF Sockets, Account, Keeper, Restart
<1> QED
  BY <1>1, <1>2, <1>3, <1>4 DEF Next

\* Without turns the transcripts are well-formed.
LEMMA ChatInitial == ChatInit => ChatInv
<1>1. << >> \in Seq(Transcript) /\ << >> \in Seq(TurnBlobs) /\ Len(<< >>) = 0
  BY EmptySeq
<1> QED
  BY <1>1, ChatAssumption DEF ChatInit, ChatInv, ChatTypeOK, NoTurn

\* No step of a turn, of an upload or of a history request breaks that.
LEMMA ChatStep ==
    ASSUME ChatInv, Next
    PROVE  ChatInv'
<1> USE ChatAssumption
<1>0. /\ turn \in [Jobs -> [pc : {"none", "stream", "upload"},
                            wallet : Wallets \union {None}]]
      /\ history \in [Jobs -> Seq(TurnBlobs)]
      /\ transcripts \in Seq(Transcript) /\ Len(transcripts) <= StoreLimit
      /\ Len(transcripts) \in Nat /\ << >> \in Seq(TurnBlobs)
  BY LenProperties, EmptySeq DEF ChatInv, ChatTypeOK
<1>1. CASE UNCHANGED chatVars
  BY <1>1 DEF ChatInv, ChatTypeOK, chatVars
<1>2. CASE ChatRestart
  BY <1>0, <1>2 DEF ChatRestart, ChatInv, ChatTypeOK, NoTurn
<1>3. ASSUME NEW j \in Jobs, NEW w \in Wallets, StartTurn(j, w) PROVE ChatInv'
  BY <1>0, <1>3 DEF StartTurn, ChatInv, ChatTypeOK
<1>4. ASSUME NEW j \in Jobs, NEW w \in Wallets, RequestHistory(j, w) PROVE ChatInv'
  <2>1. HistoryOf(w) \in Seq(TurnBlobs)
    BY <1>0, HistoryType
  <2> QED
    BY <1>0, <1>4, <2>1 DEF RequestHistory, ChatInv, ChatTypeOK
<1>5. ASSUME NEW j \in Jobs, StreamFails(j) \/ StreamEnds(j) \/ PersistFails(j)
      PROVE  ChatInv'
  <2>1. PICK stage \in {"none", "upload"}, w \in Wallets \union {None} :
          /\ turn' = [turn EXCEPT ![j] = [pc |-> stage, wallet |-> w]]
          /\ stage # "none" => w \in Wallets
    <3>1. CASE StreamFails(j) \/ PersistFails(j)
      BY <3>1 DEF StreamFails, PersistFails, NoTurn
    <3>2. CASE StreamEnds(j)
      <4>1. turn' = [turn EXCEPT ![j] = [pc |-> "upload", wallet |-> turn[j].wallet]]
        <5>1. turn[j] \in [pc : {"none", "stream", "upload"},
                           wallet : Wallets \union {None}]
          BY <1>0
        <5>2. [turn[j] EXCEPT !.pc = "upload"] = [pc |-> "upload", wallet |-> turn[j].wallet]
          BY <5>1
        <5>3. turn' = [turn EXCEPT ![j] = [turn[j] EXCEPT !.pc = "upload"]]
          BY <3>2 DEF StreamEnds
        <5> QED
          BY ONLY <5>2, <5>3
      <4>2. turn[j].wallet \in Wallets
        BY <3>2 DEF StreamEnds, ChatInv
      <4> QED
        BY <4>1, <4>2
    <3> QED
      BY <1>5, <3>1, <3>2
  <2>2. UNCHANGED <<history, transcripts>>
    BY <1>5 DEF StreamFails, StreamEnds, PersistFails
  <2>3. /\ turn' \in [Jobs -> [pc : {"none", "stream", "upload"},
                             wallet : Wallets \union {None}]]
        /\ \A k \in Jobs : turn'[k].pc # "none" => turn'[k].wallet \in Wallets
    BY <1>0, <2>1 DEF ChatInv
  <2> QED
    BY <1>0, <2>2, <2>3 DEF ChatInv, ChatTypeOK
<1>6. ASSUME NEW j \in Jobs, NEW root \in TurnBlobs, PersistTranscript(j, root)
      PROVE  ChatInv'
  <2> DEFINE e == [wallet |-> turn[j].wallet, root |-> root]
             kept == IF Len(transcripts) >= StoreLimit THEN Tail(transcripts)
                                                       ELSE transcripts
  <2>1. e \in Transcript
    BY <1>6 DEF PersistTranscript, ChatInv, Transcript
  <2>2. kept \in Seq(Transcript) /\ Len(kept) < StoreLimit
    <3>1. CASE Len(transcripts) >= StoreLimit
      <4>1. transcripts # << >>
        BY <1>0, <3>1, EmptySeq
      <4>2. Tail(transcripts) \in Seq(Transcript)
            /\ Len(Tail(transcripts)) = Len(transcripts) - 1
        BY <1>0, <4>1, HeadTailProperties
      <4> QED
        BY <1>0, <3>1, <4>2
    <3> QED
      BY <1>0, <3>1
  <2>3. /\ transcripts' = Append(kept, e) /\ turn' = [turn EXCEPT ![j] = NoTurn]
        /\ history' = history
    BY <1>6 DEF PersistTranscript
  <2> HIDE DEF kept, e
  <2>4. transcripts' \in Seq(Transcript) /\ Len(transcripts') = Len(kept) + 1
        /\ Len(kept) \in Nat
    BY <2>1, <2>2, <2>3, AppendProperties, LenProperties
  <2> QED
    BY <1>0, <2>2, <2>3, <2>4 DEF ChatInv, ChatTypeOK, NoTurn
<1>7. ASSUME NEW j \in Jobs, NextTranscript(j) PROVE ChatInv'
  <2>1. Tail(history[j]) \in Seq(TurnBlobs)
    BY <1>0, <1>7, HeadTailProperties DEF NextTranscript
  <2> QED
    BY <1>0, <1>7, <2>1 DEF NextTranscript, ChatInv, ChatTypeOK
<1> QED
  BY ChatMoves, <1>1, <1>2, <1>3, <1>4, <1>5, <1>6, <1>7

-----------------------------------------------------------------------------
(* What the steps of the process do to the vault and to the cache.          *)

\* A step of the oracle leaves the other parts of the process alone or moves the vault.
LEMMA VaultMoves ==
    ASSUME Next
    PROVE  \/ UNCHANGED vaultState \/ CustodyRestart
           \/ \E j \in Jobs :
                \/ \E t \in Tokens : RequestMint(j, t) \/ RequestTransfer(j, t)
                \/ CustodyStep(j)
                \/ \E fails \in BOOLEAN : RegisterKey(j, fails)
                \/ \E fails \in BOOLEAN, seals \in BOOLEAN : UploadRekeyed(j, fails, seals)
<1> USE DEF custodyVars, vaultState
<1>1. ASSUME NEW j \in Jobs, Request(j)
      PROVE  \/ UNCHANGED vaultState
             \/ \E t \in Tokens : RequestMint(j, t) \/ RequestTransfer(j, t)
  BY <1>1 DEF Request, KeepCustody
<1>2. ASSUME NEW j \in Jobs, Continue(j)
      PROVE  \/ UNCHANGED vaultState \/ CustodyStep(j) \/ RegisterKey(j, FALSE)
             \/ \E seals \in BOOLEAN : UploadRekeyed(j, FALSE, seals)
  BY <1>2 DEF Continue, KeepCustody
<1>3. ASSUME NEW j \in Jobs, Falter(j)
      PROVE  \/ UNCHANGED vaultState \/ RegisterKey(j, TRUE) \/ UploadRekeyed(j, TRUE, TRUE)
  BY <1>3 DEF Falter, KeepCustody
<1>4. CASE Sockets \/ Account \/ Keeper \/ Restart
  BY <1>4 DEF Sockets, Account, Keeper, Restart
<1> QED
  BY <1>1, <1>2, <1>3, <1>4 DEF Next

\* No step of a re-key, a registration or the persisting of the vault breaks the invariant.
LEMMA VaultStep ==
    ASSUME VaultInv, Next
    PROVE  VaultInv'
<1> USE CustodyAssumption
<1>1. ASSUME NEW j \in Jobs, NEW t \in Tokens, RequestMint(j, t) PROVE VaultInv'
  <2> DEFINE r == [pc |-> IF Cached(rootOf[t]) THEN "register" ELSE "possess",
                   token |-> t, row |-> 0]
  <2>1. rekey' = [rekey EXCEPT ![j] = r] /\ UNCHANGED <<vaultVars, uploaded, delivered>>
    BY <1>1 DEF RequestMint
  <2>2. /\ r \in [pc : {"none", "hash", "download", "upload", "possess", "register"},
                 token : Tokens \union {None}, row : 0..MaxKeys]
        /\ r.token \in Tokens
    OBVIOUS
  <2> HIDE DEF r
  <2> QED
    BY <2>1, <2>2, VaultUntouched
<1>2. ASSUME NEW j \in Jobs, NEW t \in Tokens, RequestTransfer(j, t) PROVE VaultInv'
  <2> DEFINE r == [pc |-> "hash", token |-> t, row |-> 0]
  <2>1. rekey' = [rekey EXCEPT ![j] = r] /\ UNCHANGED <<vaultVars, uploaded, delivered>>
    BY <1>2 DEF RequestTransfer
  <2>2. /\ r \in [pc : {"none", "hash", "download", "upload", "possess", "register"},
                 token : Tokens \union {None}, row : 0..MaxKeys]
        /\ r.token \in Tokens
    OBVIOUS
  <2> HIDE DEF r
  <2> QED
    BY <2>1, <2>2, VaultUntouched
<1>3. ASSUME NEW j \in Jobs, LookupKey(j) PROVE VaultInv'
  <2>1. rekey[j].token \in Tokens /\ rekey \in [Jobs ->
            [pc : {"none", "hash", "download", "upload", "possess", "register"},
             token : Tokens \union {None}, row : 0..MaxKeys]]
        /\ entries[rekey[j].token] \in 0..MaxKeys /\ 0 \in 0..MaxKeys
    BY <1>3 DEF LookupKey, VaultInv, VaultTypeOK
  <2>2. PICK row \in {0, entries[rekey[j].token]}, stage \in {"upload", "download"} :
          rekey' = [rekey EXCEPT ![j] = [pc |-> stage, token |-> rekey[j].token, row |-> row]]
    BY <1>3, <2>1 DEF LookupKey
  <2> QED
    BY <1>3, <2>1, <2>2, VaultUntouched DEF LookupKey
<1>4. ASSUME NEW j \in Jobs, RekeyFails(j) \/ DownloadFails(j) PROVE VaultInv'
  <2>1. rekey' = [rekey EXCEPT ![j] = NoRekey] /\ UNCHANGED <<vaultVars, uploaded, delivered>>
    BY <1>4 DEF RekeyFails, DownloadFails
  <2>2. /\ NoRekey \in [pc : {"none", "hash", "download", "upload", "possess", "register"},
                       token : Tokens \union {None}, row : 0..MaxKeys]
        /\ NoRekey.pc = "none"
    BY DEF NoRekey
  <2> QED
    BY <2>1, <2>2, VaultUntouched
<1>5. ASSUME NEW j \in Jobs, DownloadDone(j) PROVE VaultInv'
  <2>1. rekey[j] \in [pc : {"none", "hash", "download", "upload", "possess", "register"},
                      token : Tokens \union {None}, row : 0..MaxKeys]
        /\ (rekey[j].pc # "none" => rekey[j].token \in Tokens)
    BY DEF VaultInv, VaultTypeOK
  <2>2. PICK stage \in {"none", "hash", "download", "upload", "possess", "register"} :
          /\ stage # "none" => rekey[j].pc # "none"
          /\ rekey' = [rekey EXCEPT ![j] = [rekey[j] EXCEPT !.pc = stage]]
    <3> DEFINE stage == CASE rekey[j].pc = "download" -> "upload"
                       [] rekey[j].pc = "possess" -> "register"
                       [] OTHER -> rekey[j].pc
    <3>1. rekey' = [rekey EXCEPT ![j] = [rekey[j] EXCEPT !.pc = stage]]
      BY <1>5 DEF DownloadDone, VaultInv, VaultTypeOK
    <3>2. stage \in {"none", "hash", "download", "upload", "possess", "register"}
          /\ (stage # "none" => rekey[j].pc # "none")
      BY <2>1
    <3> HIDE DEF stage
    <3> QED
      BY <3>1, <3>2
  <2>3. UNCHANGED <<vaultVars, uploaded, delivered>>
    BY <1>5 DEF DownloadDone
  <2> QED
    BY <2>1, <2>2, <2>3, VaultUntouched
<1> QED
  BY VaultMoves, VaultIdle, VaultRestart, VaultRegister, VaultBurn, <1>1, <1>2, <1>3, <1>4,
     <1>5 DEF CustodyStep

\* Whatever is downloaded is a blob.
LEMMA CacheMoves ==
    ASSUME Next, VaultInv, ChatInv
    PROVE  \/ UNCHANGED cacheVars \/ CustodyRestart
           \/ \E j \in Jobs : \/ \E root \in Blobs : Download(j, root)
                              \/ DownloadDone(j) \/ DownloadFails(j)
<1> USE CustodyAssumption, ChatAssumption
<1>1. ASSUME NEW j \in Jobs, Request(j)
      PROVE  UNCHANGED cacheVars \/ \E root \in Blobs : Download(j, root)
  BY <1>1 DEF Request, KeepCustody, RequestMint, RequestTransfer, custodyVars
<1>2. ASSUME NEW j \in Jobs, Continue(j)
      PROVE  \/ UNCHANGED cacheVars \/ \E root \in Blobs : Download(j, root)
             \/ DownloadDone(j) \/ DownloadFails(j)
  <2>1. CASE LookupKey(j)
    BY <2>1 DEF LookupKey, VaultInv
  <2>2. CASE NextTranscript(j)
    <3>1. Head(history[j]) \in TurnBlobs
      BY <2>2, HeadTailProperties DEF NextTranscript, ChatInv, ChatTypeOK
    <3> QED
      BY <2>2, <3>1 DEF NextTranscript
  <2>3. CASE RegisterKey(j, FALSE) \/ \E seals \in BOOLEAN : UploadRekeyed(j, FALSE, seals)
    BY <2>3 DEF RegisterKey, UploadRekeyed
  <2> QED
    BY <1>2, <2>1, <2>2, <2>3 DEF Continue, CustodyStep, RekeyFails, KeepCustody, custodyVars
<1>3. ASSUME NEW j \in Jobs, Falter(j) PROVE UNCHANGED cacheVars
  BY <1>3 DEF Falter, KeepCustody, RegisterKey, UploadRekeyed, custodyVars
<1>4. CASE Sockets \/ Account \/ Keeper \/ Restart
  BY <1>4 DEF Sockets, Account, Keeper, Restart, custodyVars
<1> QED
  BY <1>1, <1>2, <1>3, <1>4 DEF Next

\* No upload, read or restart breaks the bounds of the cache.
LEMMA CacheStep ==
    ASSUME CacheInv, Next, VaultInv, ChatInv
    PROVE  CacheInv'
<1>1. CASE UNCHANGED cacheVars
  BY <1>1 DEF cacheVars, CacheInv, CacheTypeOK, CacheBounded, SizeOf
<1>2. CASE CustodyRestart
  <2>1. << >> \in Seq(Blobs) /\ Len(<< >>) = 0 /\ DOMAIN << >> = {}
    BY EmptySeq
  <2>2. /\ blobCache' = << >> /\ blobCacheBytes' = 0
        /\ loading' = [j \in Jobs |-> None]
    BY <1>2 DEF CustodyRestart
  <2> QED
    BY <2>1, <2>2, SizeOfNone, CustodyAssumption
       DEF CacheInv, CacheTypeOK, CacheBounded, SizeOf
<1>3. ASSUME NEW j \in Jobs, DownloadDone(j) PROVE CacheInv'
  <2>1. loading[j] \in Blobs /\ FillCache(loading[j])
        /\ loading' = [loading EXCEPT ![j] = None]
    BY <1>3 DEF DownloadDone, CacheInv, CacheTypeOK
  <2>2. blobCache' \in Seq(Blobs) /\ blobCacheBytes' \in Nat /\ CacheBounded'
    BY <2>1, FillKeepsBounds
  <2> QED
    BY <2>1, <2>2 DEF CacheInv, CacheTypeOK
<1>4. ASSUME NEW j \in Jobs, DownloadFails(j) PROVE CacheInv'
  BY <1>4 DEF DownloadFails, CacheInv, CacheTypeOK, CacheBounded, SizeOf
<1> QED
  BY CacheMoves, DownloadKeepsBounds, <1>1, <1>2, <1>3, <1>4

-----------------------------------------------------------------------------
(* The process.                                                             *)

BackendInv ==
    /\ HubInv /\ TickInv /\ VaultInv /\ CacheInv /\ ChatInv
    /\ requests \in 0..MaxRequests /\ faults \in 0..MaxFaults /\ load \in Loads

\* The initial states satisfy the inductive invariant.
LEMMA BackendInitial == Init => BackendInv
<1> SUFFICES ASSUME Init PROVE BackendInv
  OBVIOUS
<1>1. HubInv /\ TickInv /\ VaultInv /\ ChatInv
  BY HubInitial, TickInitial, VaultInitial, ChatInitial DEF Init
<1>2. CacheInv
  BY CacheInitial DEF Init, CustodyInit
<1> QED
  BY <1>1, <1>2, BackendAssumption DEF Init, BackendInv

\* Every step of the process preserves the inductive invariant.
LEMMA BackendStep == BackendInv /\ [Next]_vars => BackendInv'
<1> SUFFICES ASSUME BackendInv, [Next]_vars PROVE BackendInv'
  OBVIOUS
<1>1. CASE Next
  <2>1. HubInv' /\ TickInv' /\ VaultInv' /\ CacheInv' /\ ChatInv'
    BY <1>1, HubStep, TickInvStep, VaultStep, CacheStep, ChatStep DEF BackendInv
  <2>2. requests' \in 0..MaxRequests /\ faults' \in 0..MaxFaults /\ load' \in Loads
    <3>1. /\ \/ requests' = requests
             \/ requests < MaxRequests /\ requests' = requests + 1
          /\ load' = load
          /\ faults' = faults \/ (faults < MaxFaults /\ faults' = faults + 1)
      <4>1. ASSUME NEW j \in Jobs, Request(j) PROVE <3>1!:
        BY <4>1 DEF Request, Admit, NoFault
      <4>2. ASSUME NEW j \in Jobs, Continue(j) PROVE <3>1!:
        BY <4>2 DEF Continue, NoFault
      <4>3. ASSUME NEW j \in Jobs, Falter(j) PROVE <3>1!:
        BY <4>3 DEF Falter, Fault
      <4>4. CASE Sockets \/ Account \/ Keeper \/ Restart
        BY <4>4 DEF Sockets, Account, Keeper, Restart, Fault
      <4> QED
        BY <1>1, <4>1, <4>2, <4>3, <4>4 DEF Next
    <3> QED
      BY <3>1, BackendAssumption DEF BackendInv
  <2> QED
    BY <2>1, <2>2 DEF BackendInv
<1>2. CASE UNCHANGED vars
  <2>1. UNCHANGED hubVars /\ UNCHANGED orchestratorVars /\ UNCHANGED vaultState
        /\ UNCHANGED cacheVars /\ UNCHANGED chatVars
        /\ UNCHANGED <<requests, faults, load>>
    BY <1>2 DEF vars, custodyVars, vaultState
  <2>2. HubInv' /\ ChatInv'
    BY <2>1 DEF BackendInv, HubInv, HubTypeOK, IndexIsClients, hubVars, IndexKeys, PrefixesOf,
       ChatInv, ChatTypeOK, chatVars
  <2>3. TickInv'
    BY <2>1 DEF BackendInv, TickInv, TickTypeOK, SlotIsRun, Running, orchestratorVars, tickVars,
       accountVars, sweepVars
  <2>4. VaultInv' /\ CacheInv'
    BY <2>1, VaultIdle DEF BackendInv, cacheVars, CacheInv, CacheTypeOK, CacheBounded, SizeOf
  <2> QED
    BY <2>1, <2>2, <2>3, <2>4 DEF BackendInv
<1> QED
  BY <1>1, <1>2

\* The inductive invariant holds in every state of every behaviour.
LEMMA BackendAlways == Spec => []BackendInv
BY BackendInitial, BackendStep, PTL DEF Spec

-----------------------------------------------------------------------------
(* The theorems.                                                            *)

\* Every variable of the backend keeps its type; among them the number the node answers
\* with, the roots of a history, and the bytes of the cache.
THEOREM TypeCorrect == Spec => []TypeOK
<1>1. BackendInv => TypeOK
  BY DEF BackendInv, TypeOK, HubInv, TickInv, VaultInv, VaultTypeOK, CacheInv, CacheTypeOK,
     ChatInv, CustodyTypeOK
<1> QED
  BY <1>1, BackendAlways, PTL

\* A token's slot is taken exactly while one tick of that token runs, and never two of
\* them: through every way out of the handler of POST /v1/orchestrator/tick.
THEOREM SlotsAreRuns == Spec => []SlotIsRun
<1>1. BackendInv => SlotIsRun
  BY DEF BackendInv, TickInv
<1> QED
  BY <1>1, BackendAlways, PTL

\* The broadcaster's index holds a client under its own prefixes, exactly while it is
\* registered, and whoever is registered has a live socket.
THEOREM IndexFollowsClients == Spec => []IndexIsClients
<1>1. BackendInv => IndexIsClients
  BY DEF BackendInv, HubInv
<1> QED
  BY <1>1, BackendAlways, PTL

\* No token is left without its data key, by re-keys that fail on either side of the
\* upload, registrations in the middle of one, refused writes and restarts: only by an
\* upload under a fresh key, or by a refused write that a restart made final.
THEOREM KeysAreKept == Spec => []KeyKept
<1>1. BackendInv => KeyKept
  BY DEF BackendInv, VaultInv
<1> QED
  BY <1>1, BackendAlways, PTL

\* The blob cache stays within its entries and its bytes, has every root once, and
\* counts no fewer bytes than it has, however many misses of one root overlap.
THEOREM CacheStaysBounded == Spec => []CacheBounded
<1>1. BackendInv => CacheBounded
  BY DEF BackendInv, CacheInv
<1> QED
  BY <1>1, BackendAlways, PTL

-----------------------------------------------------------------------------
(* The event store.                                                         *)

\* What holds of 0, and of each number up to n if of the one before, holds up to n.
LEMMA UpTo ==
    ASSUME NEW n \in Nat, NEW T, 0 \in T, \A i \in 1..n : i - 1 \in T => i \in T
    PROVE  \A i \in 0..n : i \in T
<1> DEFINE B == {i \in 0..n : i \notin T}
<1>1. SUFFICES ASSUME B # {} PROVE FALSE
  OBVIOUS
<1>2. B \in SUBSET Nat
  OBVIOUS
<1>3. PICK i \in B : \A m \in B : i <= m
  <2> HIDE DEF B
  <2> QED
    BY <1>1, <1>2, LeastNat
<1>4. i \in 0..n /\ i \notin T
  BY <1>3
<1>5. i # 0 /\ i - 1 \in 0..n /\ i \in 1..n
  BY <1>4
<1>6. i - 1 \in B
  BY <1>4, <1>5
<1> QED
  BY <1>3, <1>5, <1>6

\* The events that are held.
Held(bs) == UNION {{bs[k][i] : i \in DOMAIN bs[k]} : k \in Kinds}

\* Events of one kind, as many as a bucket takes, no two with the same key.
IsBucket(bucket, k) ==
    /\ bucket \in Seq(Event) /\ Len(bucket) <= Cap
    /\ \A i \in 1..Len(bucket) : kindOf[bucket[i].key] = k
    /\ \A i, j \in 1..Len(bucket) : bucket[i].key = bucket[j].key => i = j

Placed(bs) == bs \in [Kinds -> Seq(Event)] /\ \A k \in Kinds : IsBucket(bs[k], k)

WellKept(store) ==
    store \in Store /\ Placed(store.buckets) /\ store.seenKeys = KeysOf(store.buckets)

\* What is in the store, or was pushed out of it.
Known(store) == store.seenKeys \union store.pushedOut

\* What is held, and under which keys, bucket by bucket.
LEMMA KeysAre ==
    ASSUME NEW bs \in [Kinds -> Seq(Event)]
    PROVE  /\ \A k \in Kinds : Len(bs[k]) \in Nat /\ DOMAIN bs[k] = 1..Len(bs[k])
           /\ \A k \in Kinds : \A i \in 1..Len(bs[k]) :
                bs[k][i] \in Event /\ bs[k][i] \in Held(bs) /\ bs[k][i].key \in KeysOf(bs)
           /\ \A e \in Held(bs) : \E k \in Kinds : \E i \in 1..Len(bs[k]) : bs[k][i] = e
           /\ \A x \in KeysOf(bs) : \E k \in Kinds : \E i \in 1..Len(bs[k]) : bs[k][i].key = x
           /\ \A x : x \in KeysOf(bs) <=> \E e \in Held(bs) : e.key = x
           /\ Held(bs) \subseteq Event /\ KeysOf(bs) \subseteq Keys
<1>1. \A k \in Kinds : Len(bs[k]) \in Nat /\ DOMAIN bs[k] = 1..Len(bs[k])
  BY LenProperties
<1>2. \A k \in Kinds : \A i \in 1..Len(bs[k]) : bs[k][i] \in Event
  BY ElementOfSeq
<1>3. \A e : e \in Held(bs) <=> \E k \in Kinds : \E i \in 1..Len(bs[k]) : bs[k][i] = e
  BY <1>1 DEF Held
<1>4. \A x : x \in KeysOf(bs) <=> \E k \in Kinds : \E i \in 1..Len(bs[k]) : bs[k][i].key = x
  BY <1>1 DEF KeysOf, KeysIn
<1>5. \A x : x \in KeysOf(bs) <=> \E e \in Held(bs) : e.key = x
  BY <1>3, <1>4
<1>6. \A e \in Held(bs) : e \in Event
  BY <1>2, <1>3
<1>7. \A e \in Event : e.key \in Keys
  BY DEF Event
<1>8. \A x \in KeysOf(bs) : x \in Keys
  BY <1>5, <1>6, <1>7
<1> QED
  BY <1>1, <1>2, <1>3, <1>4, <1>5, <1>6, <1>8

\* A full bucket loses its first event, and then there is room for one.
LEMMA EvictKeeps ==
    ASSUME NEW k \in Kinds, NEW bucket, IsBucket(bucket, k)
    PROVE  /\ IsBucket(Evict(bucket), k) /\ Len(Evict(bucket)) < Cap
           /\ \A i \in 1..Len(Evict(bucket)) :
                \E j \in 1..Len(bucket) :
                    /\ Evict(bucket)[i] = bucket[j]
                    /\ bucket[j].key \notin Evicted(bucket)
           /\ \A j \in 1..Len(bucket) :
                \/ bucket[j].key \in Evicted(bucket)
                \/ \E i \in 1..Len(Evict(bucket)) : Evict(bucket)[i] = bucket[j]
           /\ \A x \in Evicted(bucket) : \E j \in 1..Len(bucket) : bucket[j].key = x
<1>1. /\ bucket \in Seq(Event) /\ Len(bucket) <= Cap /\ Len(bucket) \in Nat
      /\ \A i \in 1..Len(bucket) : kindOf[bucket[i].key] = k
      /\ \A i, j \in 1..Len(bucket) : bucket[i].key = bucket[j].key => i = j
  BY LenProperties DEF IsBucket
<1>2. Cap \in Nat \ {0}
  BY StoreAssumption
<1>3. CASE Len(bucket) < Cap
  <2>1. Evict(bucket) = bucket /\ Evicted(bucket) = {}
    BY <1>1, <1>2, <1>3 DEF Evict, Evicted
  <2> QED
    BY <2>1, <1>1, <1>3 DEF IsBucket
<1>4. CASE Len(bucket) >= Cap
  <2> DEFINE t == Tail(bucket)
  <2>1. Evict(bucket) = t /\ Evicted(bucket) = {Head(bucket).key}
    BY <1>4 DEF Evict, Evicted
  <2>2. bucket # << >>
    BY <1>2, <1>4, EmptySeq
  <2>3. /\ t \in Seq(Event) /\ Len(t) = Len(bucket) - 1
        /\ \A i \in 1..Len(t) : t[i] = bucket[i + 1]
    BY <1>1, <2>2, HeadTailProperties
  <2>4. Head(bucket) = bucket[1]
    BY <1>1
  <2> HIDE DEF t
  <2>5. \A i \in 1..Len(t) : i + 1 \in 1..Len(bucket)
    BY <1>1, <2>3
  <2>6. 1 \in 1..Len(bucket) /\ Len(t) < Cap /\ Len(t) \in Nat
    BY <1>1, <1>2, <1>4, <2>3
  <2>7. IsBucket(t, k)
    <3>1. \A i \in 1..Len(t) : kindOf[t[i].key] = k
      BY <1>1, <2>3, <2>5
    <3>2. ASSUME NEW i \in 1..Len(t), NEW j \in 1..Len(t), t[i].key = t[j].key PROVE i = j
      <4>1. i + 1 = j + 1
        BY <3>2, <1>1, <2>3, <2>5
      <4> QED
        BY <4>1, <2>6
    <3> QED
      BY <3>1, <3>2, <2>3, <2>6, <1>2 DEF IsBucket
  <2>8. \A i \in 1..Len(t) : bucket[i + 1].key # bucket[1].key
    BY <1>1, <2>5, <2>6
  <2>9. ASSUME NEW j \in 1..Len(bucket), bucket[j].key # bucket[1].key
        PROVE  \E i \in 1..Len(t) : t[i] = bucket[j]
    <3>1. j # 1
      BY <2>9
    <3>2. j - 1 \in 1..Len(t) /\ (j - 1) + 1 = j
      BY <3>1, <2>3, <1>1
    <3> QED
      BY <3>2, <2>3
  <2>10. \A i \in 1..Len(t) : \E j \in 1..Len(bucket) : t[i] = bucket[j] /\ bucket[j].key # bucket[1].key
    BY <2>3, <2>5, <2>8
  <2> QED
    BY <2>1, <2>4, <2>6, <2>7, <2>9, <2>10
<1> QED
  BY <1>1, <1>2, <1>3, <1>4

\* A new event goes where its key says, at most one older event goes, and no key is
\* forgotten but that one's.
LEMMA AppendKeeps ==
    ASSUME NEW store, WellKept(store), NEW event \in Event
    PROVE  /\ WellKept(Append1(store, event))
           /\ Held(Append1(store, event).buckets) \subseteq Held(store.buckets) \union {event}
           /\ Known(store) \subseteq Known(Append1(store, event))
           /\ event.key \in Known(Append1(store, event))
           /\ store.pushedOut \subseteq Append1(store, event).pushedOut
<1> DEFINE key == event.key
           bs == store.buckets
           kind == kindOf[key]
           E == Evict(bs[kind])
           gone == Evicted(bs[kind])
           A == Append(E, event)
           new == [bs EXCEPT ![kind] = A]
<1>1. /\ bs \in [Kinds -> Seq(Event)] /\ \A k \in Kinds : IsBucket(bs[k], k)
      /\ store.seenKeys = KeysOf(bs) /\ store.pushedOut \in SUBSET Keys
      /\ store \in Store
  BY DEF WellKept, Placed, Store
<1>2. key \in Keys /\ kind \in Kinds
  BY StoreAssumption DEF Event, Keys
<1>3. CASE key \in store.seenKeys
  <2>1. Append1(store, event) = store
    BY <1>3 DEF Append1
  <2> QED
    BY <2>1, <1>3 DEF Known
<1>4. CASE key \notin store.seenKeys
  <2>1. Append1(store, event) = [buckets |-> new, seenKeys |-> (store.seenKeys \ gone) \union {key},
                                 pushedOut |-> store.pushedOut \union gone]
    BY <1>4 DEF Append1
  <2>2. /\ IsBucket(E, kind) /\ Len(E) < Cap
        /\ \A i \in 1..Len(E) : \E j \in 1..Len(bs[kind]) :
              E[i] = bs[kind][j] /\ bs[kind][j].key \notin gone
        /\ \A j \in 1..Len(bs[kind]) :
              bs[kind][j].key \in gone \/ \E i \in 1..Len(E) : E[i] = bs[kind][j]
        /\ \A x \in gone : \E j \in 1..Len(bs[kind]) : bs[kind][j].key = x
    BY <1>1, <1>2, EvictKeeps
  <2>3. E \in Seq(Event) /\ Len(E) \in Nat
    BY <2>2, LenProperties DEF IsBucket
  <2> HIDE DEF E, gone
  <2>4. /\ A \in Seq(Event) /\ Len(A) = Len(E) + 1 /\ A[Len(E) + 1] = event
        /\ \A i \in 1..Len(E) : A[i] = E[i]
    BY <2>3, AppendProperties
  <2>5. /\ \A k \in Kinds : DOMAIN bs[k] = 1..Len(bs[k])
        /\ \A k \in Kinds : \A i \in 1..Len(bs[k]) :
             bs[k][i] \in Event /\ bs[k][i] \in Held(bs) /\ bs[k][i].key \in KeysOf(bs)
        /\ \A x \in KeysOf(bs) : \E k \in Kinds : \E i \in 1..Len(bs[k]) : bs[k][i].key = x
        /\ KeysOf(bs) \subseteq Keys
    BY <1>1, KeysAre
  <2> HIDE DEF A
  <2>6. \A i \in 1..Len(A) : (i \in 1..Len(E) /\ A[i] = E[i]) \/ (i = Len(E) + 1 /\ A[i] = event)
    BY <2>3, <2>4
  <2>7. \A i \in 1..Len(E) : E[i].key # key /\ E[i] \in Held(bs) /\ E[i].key \in KeysOf(bs) \ gone
    <3>1. key \notin KeysOf(bs)
      BY <1>1, <1>4
    <3> HIDE DEF bs, kind, key
    <3>2. ASSUME NEW i \in 1..Len(E)
          PROVE  E[i].key # key /\ E[i] \in Held(bs) /\ E[i].key \in KeysOf(bs) \ gone
      <4>1. PICK j \in 1..Len(bs[kind]) : E[i] = bs[kind][j] /\ bs[kind][j].key \notin gone
        BY <2>2, <3>2
      <4>2. bs[kind][j] \in Held(bs) /\ bs[kind][j].key \in KeysOf(bs)
        BY <4>1, <2>5, <1>2
      <4> QED
        BY <4>1, <4>2, <3>1
    <3> QED
      BY <3>2
  <2>8. IsBucket(A, kind)
    <3>1. \A i \in 1..Len(A) : kindOf[A[i].key] = kind
      BY <2>6, <2>2 DEF IsBucket
    <3>2. ASSUME NEW i \in 1..Len(A), NEW j \in 1..Len(A), A[i].key = A[j].key PROVE i = j
      <4>1. CASE i \in 1..Len(E) /\ j \in 1..Len(E)
        <5>1. E[i].key = E[j].key
          BY <4>1, <3>2, <2>4
        <5> QED
          BY <5>1, <4>1, <2>2 DEF IsBucket
      <4>2. CASE i \in 1..Len(E) /\ j = Len(E) + 1
        BY <4>2, <3>2, <2>4, <2>7
      <4>3. CASE i = Len(E) + 1 /\ j \in 1..Len(E)
        BY <4>3, <3>2, <2>4, <2>7
      <4>4. CASE i = Len(E) + 1 /\ j = Len(E) + 1
        BY <4>4
      <4> QED
        BY <4>1, <4>2, <4>3, <4>4, <2>6
    <3>3. Len(A) <= Cap
      BY <2>2, <2>3, <2>4, StoreAssumption
    <3> QED
      BY <3>1, <3>2, <3>3, <2>4 DEF IsBucket
  <2> HIDE DEF bs, kind, key
  <2>9. /\ new \in [Kinds -> Seq(Event)] /\ new[kind] = A
        /\ \A k \in Kinds \ {kind} : new[k] = bs[k]
    BY <1>1, <1>2, <2>4
  <2>10. Placed(new)
    BY <2>9, <2>8, <1>1 DEF Placed
  <2> HIDE DEF new
  <2>11. /\ \A k \in Kinds : \A i \in 1..Len(new[k]) : new[k][i] \in Held(new) /\ new[k][i].key \in KeysOf(new)
         /\ \A e \in Held(new) : \E k \in Kinds : \E i \in 1..Len(new[k]) : new[k][i] = e
         /\ \A x \in KeysOf(new) : \E k \in Kinds : \E i \in 1..Len(new[k]) : new[k][i].key = x
    BY <2>9, KeysAre
  <2>12. \A i \in 1..Len(A) : A[i] \in Held(bs) \union {event}
    BY <2>6, <2>7
  <2>13. ASSUME NEW e \in Held(new) PROVE e \in Held(bs) \union {event}
    <3>1. PICK k \in Kinds : \E i \in 1..Len(new[k]) : new[k][i] = e
      BY <2>11
    <3>2. CASE k = kind
      BY <3>1, <3>2, <2>9, <2>12
    <3>3. CASE k # kind
      BY <3>1, <3>3, <2>9, <2>5
    <3> QED
      BY <3>2, <3>3
  <2>14. ASSUME NEW k \in Kinds, NEW i \in 1..Len(bs[k]), k # kind PROVE bs[k][i].key \notin gone
    <3>1. kindOf[bs[k][i].key] = k /\ \A j \in 1..Len(bs[kind]) : kindOf[bs[kind][j].key] = kind
      BY <1>1, <1>2 DEF IsBucket
    <3> QED
      BY <3>1, <2>14, <2>2
  <2>15. ASSUME NEW x \in KeysOf(new) PROVE x \in (KeysOf(bs) \ gone) \union {key}
    <3>0. PICK k \in Kinds : \E i \in 1..Len(new[k]) : new[k][i].key = x
      BY <2>11
    <3>1. PICK i \in 1..Len(new[k]) : new[k][i].key = x
      BY <3>0
    <3>2. CASE k = kind
      BY <3>1, <3>2, <2>9, <2>6, <2>7 DEF key
    <3>3. CASE k # kind
      BY <3>1, <3>3, <2>9, <2>5, <2>14
    <3> QED
      BY <3>2, <3>3
  <2>16. key \in KeysOf(new)
    <3>1. Len(E) + 1 \in 1..Len(A)
      BY <2>3, <2>4
    <3> QED
      BY <3>1, <2>4, <2>9, <2>11, <1>2 DEF key
  <2>17. ASSUME NEW x \in KeysOf(bs) \ gone PROVE x \in KeysOf(new)
    <3>0. PICK k \in Kinds : \E j \in 1..Len(bs[k]) : bs[k][j].key = x
      BY <2>5
    <3>1. PICK j \in 1..Len(bs[k]) : bs[k][j].key = x
      BY <3>0
    <3>2. CASE k # kind
      BY <3>1, <3>2, <2>9, <2>11
    <3>3. CASE k = kind
      <4>1. PICK i \in 1..Len(E) : E[i] = bs[kind][j]
        BY <3>1, <3>3, <2>2
      <4>2. i \in 1..Len(A) /\ A[i] = E[i]
        BY <2>3, <2>4
      <4> QED
        BY <4>1, <4>2, <3>1, <3>3, <2>9, <2>11, <1>2
    <3> QED
      BY <3>2, <3>3
  <2>18. KeysOf(new) = (KeysOf(bs) \ gone) \union {key}
    BY <2>15, <2>16, <2>17
  <2>19. gone \subseteq Keys
    BY <2>2, <2>5, <1>2
  <2>20. WellKept(Append1(store, event))
    <3>1. Append1(store, event) \in Store
      BY <2>1, <2>9, <2>19, <2>5, <1>1, <1>2 DEF Store
    <3> QED
      BY <3>1, <2>1, <2>10, <2>18, <1>1 DEF WellKept
  <2> QED
    BY <2>20, <2>1, <2>13, <1>1 DEF Known, bs, key
<1> QED
  BY <1>3, <1>4

\* A roll-back of a bucket: what is below the cutoff stays, in its order.
BelowIs(bucket, cutoff, n, kept) ==
    /\ kept \in Seq(Event) /\ Len(kept) <= n
    /\ \A i \in 1..Len(kept) : \E j \in 1..n : kept[i] = bucket[j] /\ bucket[j].blockNumber < cutoff
    /\ \A j \in 1..n : bucket[j].blockNumber < cutoff => \E i \in 1..Len(kept) : kept[i] = bucket[j]
    /\ \A i, j \in 1..Len(kept) : kept[i].key = kept[j].key => i = j

\* One more event of the bucket is looked at.
LEMMA BelowNext ==
    ASSUME NEW bucket \in Seq(Event), NEW cutoff \in Nat, NEW n \in 1..Len(bucket),
           \A i, j \in 1..Len(bucket) : bucket[i].key = bucket[j].key => i = j,
           NEW kept, BelowIs(bucket, cutoff, n - 1, kept),
           NEW next, next = IF bucket[n].blockNumber < cutoff THEN Append(kept, bucket[n]) ELSE kept
    PROVE  BelowIs(bucket, cutoff, n, next)
<1>1. /\ Len(bucket) \in Nat /\ n \in Nat /\ n >= 1 /\ bucket[n] \in Event
      /\ kept \in Seq(Event) /\ Len(kept) \in Nat
  BY LenProperties, ElementOfSeq DEF BelowIs
<1>2. \A j \in 1..n : j \in 1..(n - 1) \/ j = n
  BY <1>1
<1>3. \A j \in 1..(n - 1) : j \in 1..n /\ j # n /\ j \in 1..Len(bucket)
  BY <1>1
<1>4. CASE ~(bucket[n].blockNumber < cutoff)
  <2>1. next = kept
    BY <1>4
  <2>2. kept \in Seq(Event) /\ Len(kept) <= n
    BY <1>1 DEF BelowIs
  <2>3. \A i \in 1..Len(kept) : \E j \in 1..n : kept[i] = bucket[j] /\ bucket[j].blockNumber < cutoff
    BY <1>3 DEF BelowIs
  <2>4. \A j \in 1..n : bucket[j].blockNumber < cutoff => \E i \in 1..Len(kept) : kept[i] = bucket[j]
    BY <1>2, <1>4 DEF BelowIs
  <2>5. \A i, j \in 1..Len(kept) : kept[i].key = kept[j].key => i = j
    BY DEF BelowIs
  <2>6. BelowIs(bucket, cutoff, n, kept)
    BY <2>2, <2>3, <2>4, <2>5, Zenon DEF BelowIs
  <2> QED
    BY <2>1, <2>6, Zenon
<1>5. CASE bucket[n].blockNumber < cutoff
  <2>1. /\ next \in Seq(Event) /\ Len(next) = Len(kept) + 1 /\ next[Len(kept) + 1] = bucket[n]
        /\ \A i \in 1..Len(kept) : next[i] = kept[i]
    BY <1>1, <1>5, AppendProperties
  <2>2. \A i \in 1..Len(next) : i \in 1..Len(kept) \/ i = Len(kept) + 1
    BY <1>1, <2>1
  <2>3. \A i \in 1..Len(kept) : i \in 1..Len(next)
    BY <1>1, <2>1
  <2>4. Len(kept) + 1 \in 1..Len(next) /\ Len(next) <= n
    BY <1>1, <2>1 DEF BelowIs
  <2>5. \A i \in 1..Len(next) : \E j \in 1..n : next[i] = bucket[j] /\ bucket[j].blockNumber < cutoff
    <3>1. \A i \in 1..Len(kept) : \E j \in 1..(n - 1) : kept[i] = bucket[j] /\ bucket[j].blockNumber < cutoff
      BY DEF BelowIs
    <3>2. n \in 1..n
      BY <1>1
    <3> QED
      BY <3>1, <3>2, <2>1, <2>2, <1>3, <1>5
  <2>6. \A j \in 1..n : bucket[j].blockNumber < cutoff => \E i \in 1..Len(next) : next[i] = bucket[j]
    <3>1. ASSUME NEW j \in 1..(n - 1), bucket[j].blockNumber < cutoff
          PROVE  \E i \in 1..Len(next) : next[i] = bucket[j]
      <4>1. PICK i \in 1..Len(kept) : kept[i] = bucket[j]
        BY <3>1 DEF BelowIs
      <4> QED
        BY <4>1, <2>1, <2>3
    <3>2. \E i \in 1..Len(next) : next[i] = bucket[n]
      BY <2>1, <2>4
    <3> QED
      BY <3>1, <3>2, <1>2, Zenon
  <2>7. ASSUME NEW i \in 1..Len(kept) PROVE next[i].key # bucket[n].key
    <3>1. PICK j \in 1..(n - 1) : kept[i] = bucket[j]
      BY DEF BelowIs
    <3>2. j \in 1..Len(bucket) /\ j # n /\ n \in 1..Len(bucket)
      BY <3>1, <1>3
    <3>3. bucket[j].key # bucket[n].key
      BY <3>2
    <3> QED
      BY <3>1, <3>3, <2>1
  <2>8. ASSUME NEW i \in 1..Len(next), NEW j \in 1..Len(next), next[i].key = next[j].key PROVE i = j
    <3>1. CASE i \in 1..Len(kept) /\ j \in 1..Len(kept)
      BY <3>1, <2>8, <2>1 DEF BelowIs
    <3>2. CASE i = Len(kept) + 1 /\ j = Len(kept) + 1
      BY <3>2
    <3>3. CASE i \in 1..Len(kept) /\ j = Len(kept) + 1
      BY <3>3, <2>8, <2>1, <2>7
    <3>4. CASE i = Len(kept) + 1 /\ j \in 1..Len(kept)
      BY <3>4, <2>8, <2>1, <2>7
    <3> QED
      BY <3>1, <3>2, <3>3, <3>4, <2>2
  <2>9. next \in Seq(Event) /\ Len(next) <= n
    BY <2>1, <2>4
  <2> QED
    BY <2>5, <2>6, <2>8, <2>9, Zenon DEF BelowIs
<1> QED
  BY <1>4, <1>5

\* The loop over a bucket keeps what is below the cutoff.
LEMMA BelowHolds ==
    ASSUME NEW bucket \in Seq(Event), NEW cutoff \in Nat,
           \A i, j \in 1..Len(bucket) : bucket[i].key = bucket[j].key => i = j
    PROVE  BelowIs(bucket, cutoff, Len(bucket), Below(bucket, cutoff))
<1> DEFINE len == Len(bucket)
           Body(v, n) == IF bucket[n].blockNumber < cutoff THEN Append(v, bucket[n]) ELSE v
           Rule(g) == [n \in 0..len |-> IF n = 0 THEN << >> ELSE
                         IF bucket[n].blockNumber < cutoff THEN Append(g[n - 1], bucket[n])
                         ELSE g[n - 1]]
           next == [n \in 1..len |-> [v \in Seq(Event) |-> Body(v, n)]]
           kept == CHOOSE g : g = Rule(g)
<1>1. len \in Nat /\ \A n \in 1..len : bucket[n] \in Event
  BY LenProperties, ElementOfSeq
<1>2. Below(bucket, cutoff) = kept[len]
  BY DEF Below
<1>3. << >> \in Seq(Event) /\ Len(<< >>) = 0
  BY EmptySeq
<1>4. \A n \in 1..len : \A v \in Seq(Event) : Body(v, n) \in Seq(Event)
  BY <1>1, AppendProperties
<1> HIDE DEF len
<1>5. Steps(next, len, Seq(Event))
  BY <1>4 DEF Steps
<1>6. PICK f : Follows(f, << >>, next, len, Seq(Event))
  BY <1>1, <1>3, <1>5, StepByStep
<1>7. \A n \in 1..len : n - 1 \in 0..len /\ n \in 0..len /\ n # 0
  BY <1>1
<1>8. f \in [0..len -> Seq(Event)] /\ f[0] = << >> /\ \A n \in 1..len : f[n] = Body(f[n - 1], n)
  <2>1. f \in [0..len -> Seq(Event)] /\ f[0] = << >> /\ \A n \in 1..len : f[n] = next[n][f[n - 1]]
    BY <1>6 DEF Follows
  <2> QED
    BY <2>1, <1>7
<1>9. f = Rule(f)
  <2>1. \A n \in 0..len : n # 0 => n \in 1..len
    BY <1>1
  <2>2. \A n \in 0..len : f[n] = Rule(f)[n]
    BY <1>8, <2>1
  <2> QED
    BY <2>2, <1>8
<1>10. kept = Rule(kept)
  BY <1>9
<1> HIDE DEF kept
<1>11. kept[0] = << >> /\ \A n \in 1..len : kept[n] = Body(kept[n - 1], n)
  <2>1. 0 \in 0..len
    BY <1>1
  <2>2. \A n \in 0..len : kept[n] = Rule(kept)[n]
    BY <1>10
  <2> HIDE DEF Rule
  <2>3. kept[0] = Rule(kept)[0] /\ \A n \in 1..len : kept[n] = Rule(kept)[n]
    BY <2>1, <2>2, <1>7
  <2> QED
    BY <2>1, <2>3, <1>7 DEF Rule
<1> DEFINE T == {n \in 0..len : BelowIs(bucket, cutoff, n, kept[n])}
<1>12. 0 \in T
  <2>1. 0 \in 0..len
    BY <1>1
  <2>2. BelowIs(bucket, cutoff, 0, << >>)
    BY <1>3 DEF BelowIs
  <2> QED
    BY <2>1, <2>2, <1>11
<1>13. ASSUME NEW n \in 1..len, n - 1 \in T PROVE n \in T
  <2>1. BelowIs(bucket, cutoff, n, kept[n])
    BY <1>13, <1>11, BelowNext DEF len
  <2> QED
    BY <2>1, <1>7
<1> HIDE DEF T
<1>14. len \in T
  <2>1. \A n \in 0..len : n \in T
    BY <1>1, <1>12, <1>13, UpTo
  <2> QED
    BY <2>1, <1>1
<1> QED
  BY <1>14, <1>2 DEF T, len

\* A roll-back keeps what it read below the cutoff, and the keys of that.
LEMMA RollbackKeeps ==
    ASSUME NEW store, WellKept(store), NEW cutoff \in Nat,
           NEW after, after = RollbackToBlock(store, cutoff)
    PROVE  /\ WellKept(after)
           /\ Held(after.buckets) \subseteq Held(store.buckets)
           /\ \A e \in Held(store.buckets) : e.blockNumber < cutoff => e \in Held(after.buckets)
           /\ \A e \in Held(after.buckets) : e.blockNumber < cutoff
           /\ after.pushedOut = store.pushedOut
<1> DEFINE bs == store.buckets
           kept == [k \in Kinds |-> Below(bs[k], cutoff)]
<1>1. /\ store \in Store /\ bs \in [Kinds -> Seq(Event)]
      /\ \A k \in Kinds : IsBucket(bs[k], k)
      /\ store.pushedOut \in SUBSET Keys
  BY DEF WellKept, Placed, Store
<1>2. \A k \in Kinds : bs[k] \in Seq(Event) /\ Len(bs[k]) \in Nat /\ kept[k] = Below(bs[k], cutoff)
  BY <1>1, LenProperties
<1> HIDE DEF kept
<1>3. \A k \in Kinds : BelowIs(bs[k], cutoff, Len(bs[k]), kept[k])
  <2>1. ASSUME NEW k \in Kinds PROVE BelowIs(bs[k], cutoff, Len(bs[k]), kept[k])
    <3>1. \A i, j \in 1..Len(bs[k]) : bs[k][i].key = bs[k][j].key => i = j
      BY <1>1 DEF IsBucket
    <3> QED
      BY <3>1, <1>2, BelowHolds
  <2> QED
    BY <2>1
<1>4. kept \in [Kinds -> Seq(Event)]
  BY <1>3 DEF kept, BelowIs
<1>5. after.buckets = kept /\ after.seenKeys = KeysOf(kept) /\ after.pushedOut = store.pushedOut
  <2>1. after = [store EXCEPT !.buckets = kept, !.seenKeys = KeysOf(kept)]
    BY DEF RollbackToBlock, kept
  <2> QED
    BY <2>1, <1>1 DEF Store
<1>6. Placed(kept)
  <2>1. ASSUME NEW k \in Kinds PROVE IsBucket(kept[k], k)
    <3>1. kept[k] \in Seq(Event) /\ Len(kept[k]) \in Nat /\ Len(kept[k]) <= Len(bs[k])
      BY <1>3, LenProperties DEF BelowIs
    <3>2. Len(kept[k]) <= Cap
      BY <3>1, <1>1, <1>2, StoreAssumption DEF IsBucket
    <3>3. \A i \in 1..Len(kept[k]) : \E j \in 1..Len(bs[k]) : kept[k][i] = bs[k][j]
      BY <1>3 DEF BelowIs
    <3>4. \A j \in 1..Len(bs[k]) : kindOf[bs[k][j].key] = k
      BY <1>1 DEF IsBucket
    <3>5. \A i \in 1..Len(kept[k]) : kindOf[kept[k][i].key] = k
      BY <3>3, <3>4
    <3>6. \A i, j \in 1..Len(kept[k]) : kept[k][i].key = kept[k][j].key => i = j
      BY <1>3 DEF BelowIs
    <3> QED
      BY <3>1, <3>2, <3>5, <3>6 DEF IsBucket
  <2> QED
    BY <2>1, <1>4 DEF Placed
<1>7. KeysOf(kept) \subseteq Keys
  BY <1>4, KeysAre
<1>8. WellKept(after)
  <2>1. after \in Store
    <3>1. after = [store EXCEPT !.buckets = kept, !.seenKeys = KeysOf(kept)]
      BY DEF RollbackToBlock, kept
    <3> QED
      BY <3>1, <1>1, <1>4, <1>7 DEF Store
  <2> QED
    BY <2>1, <1>5, <1>6 DEF WellKept
<1>9. /\ \A k \in Kinds : \A i \in 1..Len(bs[k]) : bs[k][i] \in Held(bs)
      /\ \A e \in Held(bs) : \E k \in Kinds : \E i \in 1..Len(bs[k]) : bs[k][i] = e
      /\ \A k \in Kinds : \A i \in 1..Len(kept[k]) : kept[k][i] \in Held(kept)
      /\ \A e \in Held(kept) : \E k \in Kinds : \E i \in 1..Len(kept[k]) : kept[k][i] = e
  BY <1>1, <1>4, KeysAre
<1>10. \A e \in Held(kept) : e \in Held(bs) /\ e.blockNumber < cutoff
  <2>1. ASSUME NEW e \in Held(kept) PROVE e \in Held(bs) /\ e.blockNumber < cutoff
    <3>1. PICK k \in Kinds : \E i \in 1..Len(kept[k]) : kept[k][i] = e
      BY <1>9
    <3>2. \E j \in 1..Len(bs[k]) : e = bs[k][j] /\ bs[k][j].blockNumber < cutoff
      <4>1. \A i \in 1..Len(kept[k]) : \E j \in 1..Len(bs[k]) :
               kept[k][i] = bs[k][j] /\ bs[k][j].blockNumber < cutoff
        BY <1>3 DEF BelowIs
      <4> HIDE DEF bs
      <4> QED
        BY <4>1, <3>1
    <3> QED
      BY <3>2, <1>9
  <2> QED
    BY <2>1
<1>11. \A e \in Held(bs) : e.blockNumber < cutoff => e \in Held(kept)
  <2>1. ASSUME NEW e \in Held(bs), e.blockNumber < cutoff PROVE e \in Held(kept)
    <3>1. PICK k \in Kinds : \E j \in 1..Len(bs[k]) : bs[k][j] = e
      BY <1>9
    <3>2. \E i \in 1..Len(kept[k]) : kept[k][i] = e
      <4>1. \A j \in 1..Len(bs[k]) : bs[k][j].blockNumber < cutoff =>
                \E i \in 1..Len(kept[k]) : kept[k][i] = bs[k][j]
        BY <1>3 DEF BelowIs
      <4> HIDE DEF bs
      <4> QED
        BY <4>1, <3>1, <2>1
    <3> QED
      BY <3>2, <1>9
  <2> QED
    BY <2>1
<1> QED
  BY <1>5, <1>8, <1>10, <1>11

-----------------------------------------------------------------------------
(* The delivery of a window.                                                *)

\* The event that block n of the chain makes.
ReadAt(n) == {e \in Event : e.blockNumber = n /\ e.key \in chain[n].logs}

\* What the blocks from the first one up to n, but for the unread one, have made of the store.
Delivered(from, n, unread, store) ==
    /\ WellKept(store)
    /\ \A e \in Held(store.buckets) : e \in Held(buckets) \/ \E m \in 1..n : e \in ReadAt(m)
    /\ Known(Stored) \subseteq Known(store) /\ pushedOut \subseteq store.pushedOut
    /\ \A m \in 1..n : from <= m /\ m # unread => chain[m].logs \subseteq Known(store)

\* Of an empty block nothing is read, of another one its log.
LEMMA BlockIs ==
    ASSUME chain \in Seq(Blocks), NEW n \in 1..Head1
    PROVE  /\ chain[n] \in Blocks /\ chain[n].fork \in Nat
           /\ chain[n].logs \subseteq Logs /\ Resync \notin chain[n].logs
           /\ \A l \in Foreign : l \notin chain[n].logs
           /\ chain[n].logs # {} =>
                LET e == Decode(CHOOSE l \in chain[n].logs : TRUE, n)
                IN  e \in ReadAt(n) /\ chain[n].logs = {e.key}
<1>1. chain[n] \in Blocks
  BY ElementOfSeq DEF Head1
<1>2. chain[n].fork \in Nat /\ (chain[n].logs = {} \/ \E l \in OnChain : chain[n].logs = {l})
  BY <1>1 DEF Blocks
<1>3. /\ chain[n].logs \subseteq Logs /\ Resync \notin chain[n].logs
      /\ \A l \in Foreign : l \notin chain[n].logs
  BY <1>2, StoreAssumption DEF OnChain
<1>4. ASSUME chain[n].logs # {}
      PROVE  LET e == Decode(CHOOSE l \in chain[n].logs : TRUE, n)
             IN  e \in ReadAt(n) /\ chain[n].logs = {e.key}
  <2>1. PICK l \in OnChain : chain[n].logs = {l}
    BY <1>2, <1>4
  <2>2. (CHOOSE x \in chain[n].logs : TRUE) = l
    BY <2>1
  <2>3. l \in Keys /\ n \in Nat
    BY <2>1, <1>3, LenProperties DEF OnChain, Keys, Head1
  <2> DEFINE e == [key |-> l, blockNumber |-> n]
  <2>4. e \in Event /\ e.blockNumber = n /\ e.key = l
    BY <2>3 DEF Event
  <2> HIDE DEF e
  <2>5. e \in ReadAt(n) /\ chain[n].logs = {e.key}
    BY <2>1, <2>4 DEF ReadAt
  <2>6. Decode(CHOOSE x \in chain[n].logs : TRUE, n) = e
    BY <2>2 DEF Decode, e
  <2> QED
    BY <2>5, <2>6
<1> QED
  BY <1>1, <1>2, <1>3, <1>4

\* The next block of the window.
DeliverOne(from, unread, v, n) ==
    IF n < from \/ n = unread \/ chain[n].logs = {} THEN v
    ELSE Append1(v, Decode(CHOOSE l \in chain[n].logs : TRUE, n))

\* One block more is delivered, skipped or fails.
LEMMA DeliverNext ==
    ASSUME chain \in Seq(Blocks), NEW from \in Nat, NEW unread \in Nat, NEW n \in 1..Head1,
           NEW v, Delivered(from, n - 1, unread, v)
    PROVE  Delivered(from, n, unread, DeliverOne(from, unread, v, n))
<1>1. n \in Nat /\ n >= 1
  BY LenProperties DEF Head1
<1>2. \A m \in 1..n : m \in 1..(n - 1) \/ m = n
  BY <1>1
<1>3. \A m \in 1..(n - 1) : m \in 1..n
  BY <1>1
<1>4. n \in 1..n
  BY <1>1
<1>5. CASE n < from \/ n = unread \/ chain[n].logs = {}
  <2>1. DeliverOne(from, unread, v, n) = v
    BY <1>5 DEF DeliverOne
  <2>2. \A e \in Held(v.buckets) : e \in Held(buckets) \/ \E m \in 1..n : e \in ReadAt(m)
    BY <1>3 DEF Delivered
  <2>3. ASSUME NEW m \in 1..n, from <= m, m # unread PROVE chain[m].logs \subseteq Known(v)
    <3>1. CASE m = n
      <4>1. ~(n < from) /\ n # unread
        BY <3>1, <2>3, <1>1
      <4> QED
        BY <3>1, <4>1, <1>5
    <3>2. CASE m \in 1..(n - 1)
      BY <3>2, <2>3 DEF Delivered
    <3> QED
      BY <3>1, <3>2, <1>2
  <2> QED
    BY <2>1, <2>2, <2>3 DEF Delivered
<1>6. CASE ~(n < from \/ n = unread \/ chain[n].logs = {})
  <2> DEFINE e == Decode(CHOOSE l \in chain[n].logs : TRUE, n)
             next == Append1(v, e)
  <2>1. DeliverOne(from, unread, v, n) = next
    BY <1>6 DEF DeliverOne
  <2>2. e \in ReadAt(n) /\ chain[n].logs = {e.key}
    BY <1>6, BlockIs
  <2>3. e \in Event
    BY <2>2 DEF ReadAt
  <2>4. WellKept(v)
    BY DEF Delivered
  <2> HIDE DEF e
  <2>5. /\ WellKept(next) /\ Held(next.buckets) \subseteq Held(v.buckets) \union {e}
        /\ Known(v) \subseteq Known(next) /\ e.key \in Known(next)
        /\ v.pushedOut \subseteq next.pushedOut
    BY <2>3, <2>4, AppendKeeps
  <2> HIDE DEF next
  <2>6. \A x \in Held(next.buckets) : x \in Held(buckets) \/ \E m \in 1..n : x \in ReadAt(m)
    <3>1. \A x \in Held(v.buckets) : x \in Held(buckets) \/ \E m \in 1..n : x \in ReadAt(m)
      BY <1>3 DEF Delivered
    <3> QED
      BY <3>1, <2>2, <2>5, <1>4
  <2>7. Known(Stored) \subseteq Known(next) /\ pushedOut \subseteq next.pushedOut
    BY <2>5 DEF Delivered
  <2>8. ASSUME NEW m \in 1..n, from <= m, m # unread PROVE chain[m].logs \subseteq Known(next)
    <3>1. CASE m = n
      BY <3>1, <2>2, <2>5
    <3>2. CASE m \in 1..(n - 1)
      BY <3>2, <2>8, <2>5 DEF Delivered
    <3> QED
      BY <3>1, <3>2, <1>2
  <2> QED
    BY <2>1, <2>5, <2>6, <2>7, <2>8 DEF Delivered
<1> QED
  BY <1>5, <1>6

\* The loop over a window delivers every block of it but the unread one.
LEMMA DeliverHolds ==
    ASSUME chain \in Seq(Blocks), WellKept(Stored),
           NEW from \in Nat, NEW to \in 0..Head1, NEW unread \in Nat
    PROVE  Delivered(from, to, unread, Deliver(from, to, unread))
<1> DEFINE Body(v, n) == IF n < from \/ n = unread \/ chain[n].logs = {} THEN v
                         ELSE Append1(v, Decode(CHOOSE l \in chain[n].logs : TRUE, n))
           Rule(g) == [n \in 0..to |-> IF n = 0 THEN Stored ELSE
                         IF n < from \/ n = unread \/ chain[n].logs = {} THEN g[n - 1]
                         ELSE Append1(g[n - 1], Decode(CHOOSE l \in chain[n].logs : TRUE, n))]
           V == {s \in Store : WellKept(s)}
           next == [n \in 1..to |-> [v \in V |-> DeliverOne(from, unread, v, n)]]
           store == CHOOSE g : g = Rule(g)
<1>1. Deliver(from, to, unread) = store[to]
  BY DEF Deliver
<1>2. to \in Nat /\ Head1 \in Nat /\ \A n \in 1..to : n \in 1..Head1 /\ n \in Nat
  BY LenProperties DEF Head1
<1>3. Stored \in V
  BY DEF WellKept
<1>4. \A n \in 1..to : \A v \in V : DeliverOne(from, unread, v, n) \in V
  <2>1. ASSUME NEW n \in 1..to, NEW v \in V PROVE DeliverOne(from, unread, v, n) \in V
    <3>1. CASE n < from \/ n = unread \/ chain[n].logs = {}
      BY <3>1 DEF DeliverOne
    <3>2. CASE ~(n < from \/ n = unread \/ chain[n].logs = {})
      <4> DEFINE e == Decode(CHOOSE l \in chain[n].logs : TRUE, n)
      <4>1. e \in Event
        BY <3>2, <1>2, BlockIs DEF ReadAt
      <4>2. DeliverOne(from, unread, v, n) = Append1(v, e)
        BY <3>2 DEF DeliverOne
      <4> HIDE DEF e
      <4>3. WellKept(v)
        BY <2>1
      <4>4. WellKept(Append1(v, e))
        BY <4>1, <4>3, AppendKeeps
      <4> QED
        BY <4>2, <4>4 DEF WellKept
    <3> QED
      BY <3>1, <3>2
  <2> QED
    BY <2>1
<1> HIDE DEF V
<1>5. Steps(next, to, V)
  BY <1>4 DEF Steps
<1>6. PICK f : Follows(f, Stored, next, to, V)
  BY <1>2, <1>3, <1>5, StepByStep
<1>7. \A n \in 1..to : n - 1 \in 0..to /\ n \in 0..to /\ n # 0
  BY <1>2
<1>8. f \in [0..to -> V] /\ f[0] = Stored /\ \A n \in 1..to : f[n] = DeliverOne(from, unread, f[n - 1], n)
  <2>1. f \in [0..to -> V] /\ f[0] = Stored /\ \A n \in 1..to : f[n] = next[n][f[n - 1]]
    BY <1>6 DEF Follows
  <2> QED
    BY <2>1, <1>7
<1>9. f = Rule(f)
  <2>1. \A n \in 0..to : n # 0 => n \in 1..to
    BY <1>2
  <2>2. \A n \in 0..to : f[n] = Rule(f)[n]
    BY <1>8, <2>1 DEF DeliverOne
  <2> QED
    BY <2>2, <1>8
<1>10. store = Rule(store)
  BY <1>9
<1> HIDE DEF store
<1>11. store[0] = Stored /\ \A n \in 1..to : store[n] = DeliverOne(from, unread, store[n - 1], n)
  <2>1. 0 \in 0..to
    BY <1>2
  <2>2. \A n \in 0..to : store[n] = Rule(store)[n]
    BY <1>10
  <2> HIDE DEF Rule
  <2>3. store[0] = Rule(store)[0] /\ \A n \in 1..to : store[n] = Rule(store)[n]
    BY <2>1, <2>2, <1>7
  <2> QED
    BY <2>1, <2>3, <1>7 DEF Rule, DeliverOne
<1> DEFINE T == {n \in 0..to : Delivered(from, n, unread, store[n])}
<1>12. 0 \in T
  <2>1. 0 \in 0..to
    BY <1>2
  <2>2. Stored.buckets = buckets /\ Stored.pushedOut = pushedOut
    BY DEF Stored
  <2>3. Delivered(from, 0, unread, Stored)
    BY <2>2 DEF Delivered
  <2> QED
    BY <2>1, <2>3, <1>11
<1>13. ASSUME NEW n \in 1..to, n - 1 \in T PROVE n \in T
  <2>1. Delivered(from, n, unread, store[n])
    BY <1>13, <1>2, <1>11, DeliverNext
  <2> QED
    BY <2>1, <1>7
<1> HIDE DEF T
<1>14. to \in T
  <2>1. \A n \in 0..to : n \in T
    BY <1>2, <1>12, <1>13, UpTo
  <2> QED
    BY <2>1, <1>2
<1> QED
  BY <1>14, <1>1 DEF T

-----------------------------------------------------------------------------
(* The invariant of the indexer.                                            *)

\* No event from block since on and below block to is missing among the keys.
Covered(blocks, since, ids, to) ==
    \A n \in 1..Len(blocks) : since <= n /\ n < to => blocks[n].logs \subseteq ids

\* What is held was read from a block there is.
Low(blocks, bs) == \A e \in Held(bs) : e.blockNumber <= Len(blocks)

\* An event is held at a block not so far above the one it is in now that a roll-back
\* would drop it without going back to where it is.
Near(blocks, bs) ==
    \A e \in Held(bs) : \A n \in 1..Len(blocks) :
        e.key \in blocks[n].logs => e.blockNumber <= n \/ e.blockNumber < n + 2 * SafeDepth

MemoryInv ==
    /\ WellKept(Stored) /\ Low(chain, buckets)
    /\ Placed(file) /\ Low(chain, file)
    /\ writing # << >> => Placed(writing[1]) /\ Low(chain, writing[1])

NearInv ==
    deep # "missed" =>
        /\ Near(chain, buckets) /\ Near(chain, file)
        /\ writing # << >> => Near(chain, writing[1])

\* The cursor is not above what is deep enough, unless it still waits for its first
\* block to be mined.
Deep(head) == Monus(head, SafeDepth) + 1
Jumped == floor = nextBlock /\ checkpoint = 0 /\ lastBlockHash = 0

CursorInv ==
    /\ checkpoint <= Deep(Head1)
    /\ nextBlock <= Deep(Head1) \/ Jumped
    /\ pc \in {"check", "logs", "flush"} =>
          poll.latest <= Head1 /\ (nextBlock <= Deep(poll.latest) \/ Jumped)
    /\ pc \in {"logs", "flush"} =>
          /\ poll.from = Least(nextBlock, poll.latest)
          /\ poll.to = Least(poll.from + Window - 1, poll.latest)
    /\ pc \in {"hash", "save"} => nextBlock # 0 /\ nextBlock <= Deep(Head1)
    /\ deep = "none" => checkpoint <= nextBlock

\* A log is in one block; the remembered hash is that of the block below the cursor,
\* but for a reorganisation that is open.
ChainInv ==
    /\ \A n \in 1..Head1 : chain[n].fork <= fork
    /\ lastBlockHash <= fork + 1
    /\ \A n, m \in 1..Head1 : \A l \in chain[n].logs : l \in chain[m].logs => n = m
    /\ pc # "hash" /\ lastBlockHash # 0 => nextBlock - 1 \in 1..Head1
    /\ pc \notin {"flush", "hash"} /\ deep \in {"none", "noticed"} /\ lastBlockHash # 0 =>
          Hash(nextBlock - 1) = lastBlockHash
    /\ deep = "open" =>
          pc \in {"idle", "check"} /\ lastBlockHash # 0 /\ Hash(nextBlock - 1) # lastBlockHash

Good == deep \in {"none", "noticed"}

MemoryHas(to) == Covered(chain, floor, seenKeys \union pushedOut, to)
FileHas(to) == written => Covered(chain, floor, KeysOf(file) \union pushedOut, to)
SnapshotHas(to) ==
    writing # << >> => Covered(chain, floor, KeysOf(writing[1]) \union pushedOut, to)

CoverInv ==
    /\ Good => MemoryHas(nextBlock) /\ MemoryHas(Settled)
    /\ deep = "open" => MemoryHas(Monus(nextBlock - 1, 2 * SafeDepth))

\* What the checkpoint says, and what it is about to say.
FileInv ==
    /\ deep = "none" => FileHas(checkpoint) /\ SnapshotHas(checkpoint)
    /\ Good /\ pc = "flush" =>
          (flushing = 0 => FileHas(Settled)) /\ (flushing <= 1 => SnapshotHas(Settled))
    /\ Good /\ pc \in {"hash", "save"} => FileHas(nextBlock) /\ SnapshotHas(nextBlock)

IndexerInv ==
    IndexerTypeOK /\ MemoryInv /\ NearInv /\ CursorInv /\ ChainInv /\ CoverInv /\ FileInv

\* More keys cover as much, and less.
LEMMA CoveredMore ==
    ASSUME NEW blocks \in Seq(Blocks), NEW since \in Nat, NEW ids, NEW more, ids \subseteq more,
           NEW to \in Nat, NEW less \in Nat, less <= to, Covered(blocks, since, ids, to)
    PROVE  Covered(blocks, since, more, less)
BY LenProperties DEF Covered

\* Below where the promise begins nothing need be there.
LEMMA NothingCovered ==
    ASSUME NEW blocks \in Seq(Blocks), NEW since \in Nat, NEW ids, NEW to \in Nat, to <= since
    PROVE  Covered(blocks, since, ids, to)
BY LenProperties DEF Covered

\* The cursor after the window of a tick.
LEMMA SettledIs ==
    ASSUME IndexerTypeOK, CursorInv
    PROVE  /\ Head1 \in Nat /\ Settled \in Nat /\ (Settled <= Deep(Head1) \/ Jumped)
           /\ pc \in {"logs", "flush"} =>
                LET to == Monus(poll.to, SafeDepth) + 1
                IN  /\ poll.to \in 0..Head1 /\ to \in Nat
                    /\ nextBlock <= to \/ Jumped
                    /\ poll.from <= nextBlock /\ to <= poll.to + 1 /\ to <= Deep(Head1)
<1>1. /\ Head1 \in Nat /\ nextBlock \in Nat /\ poll.latest \in Nat /\ poll.from \in Nat
      /\ poll.to \in Nat /\ Window \in Nat /\ SafeDepth \in Nat /\ Window > SafeDepth
  BY IndexerAssumption, LenProperties DEF IndexerTypeOK, Head1
<1>2. ASSUME pc \in {"logs", "flush"}
      PROVE  LET to == Monus(poll.to, SafeDepth) + 1
             IN  /\ poll.to \in 0..Head1 /\ to \in Nat
                 /\ nextBlock <= to \/ Jumped
                 /\ poll.from <= nextBlock /\ to <= poll.to + 1 /\ to <= Deep(Head1)
  <2>1. /\ poll.latest <= Head1 /\ (nextBlock <= Deep(poll.latest) \/ Jumped)
        /\ poll.from = Least(nextBlock, poll.latest)
        /\ poll.to = Least(poll.from + Window - 1, poll.latest)
    BY <1>2 DEF CursorInv
  <2> QED
    BY <1>1, <2>1 DEF Least, Monus, Deep
<1>3. Settled \in Nat /\ (Settled <= Deep(Head1) \/ Jumped)
  <2>1. CASE pc = "flush"
    BY <2>1, <1>2 DEF Settled
  <2>2. CASE pc # "flush"
    BY <2>2, <1>1 DEF Settled, CursorInv
  <2> QED
    BY <2>1, <2>2
<1> QED
  BY <1>1, <1>2, <1>3

-----------------------------------------------------------------------------
(* The chain.                                                               *)

LEMMA MineKeeps ==
    ASSUME IndexerInv, MineBlock
    PROVE  IndexerInv'
<1>1. PICK logs \in {{}} \union {{l} : l \in OnChain \ Mined(chain)} :
         chain' = Append(chain, Block(logs))
  BY DEF MineBlock
<1>2. /\ IndexerTypeOK /\ MemoryInv /\ NearInv /\ CursorInv /\ ChainInv /\ CoverInv /\ FileInv
      /\ UNCHANGED <<fork, storeVars, watcherVars, floor, deep, written, failures>>
  BY DEF IndexerInv, MineBlock
<1>3. Block(logs) \in Blocks /\ Block(logs).fork = fork /\ Block(logs).logs = logs
  BY <1>2 DEF Block, Blocks, IndexerTypeOK
<1>4. chain \in Seq(Blocks) /\ Head1 \in Nat /\ DOMAIN chain = 1..Head1
  BY <1>2, LenProperties DEF IndexerTypeOK, Head1
<1>5. /\ chain' \in Seq(Blocks) /\ Head1' = Head1 + 1
      /\ \A n \in 1..Head1 : chain'[n] = chain[n]
      /\ chain'[Head1 + 1].fork = fork /\ chain'[Head1 + 1].logs = logs
  BY <1>1, <1>3, <1>4, AppendProperties DEF Head1
<1>6. \A n \in 1..Head1 : \A l \in logs : l \notin chain[n].logs
  BY <1>4 DEF Mined
<1>7. \A n \in 1..Head1' : n \in 1..Head1 \/ n = Head1 + 1
  BY <1>4, <1>5
<1>8. \A n \in 1..Head1 : n \in 1..Head1' /\ n <= Head1
  BY <1>4, <1>5
<1>9. IndexerTypeOK'
  BY <1>2, <1>5 DEF IndexerTypeOK, StoreTypeOK, storeVars, memoryVars, persistVars, watcherVars
<1>10. \A bs \in [Kinds -> Seq(Event)] : Low(chain, bs) => Low(chain', bs)
  <2>1. ASSUME NEW bs \in [Kinds -> Seq(Event)], Low(chain, bs), NEW e \in Held(bs)
        PROVE  e.blockNumber <= Len(chain')
    <3>1. e.blockNumber \in Nat
      BY <2>1, KeysAre DEF Event
    <3> QED
      BY <3>1, <2>1, <1>4, <1>5 DEF Low, Head1
  <2> QED
    BY <2>1 DEF Low
<1>11. \A bs \in [Kinds -> Seq(Event)] : Low(chain, bs) /\ Near(chain, bs) => Near(chain', bs)
  <2>1. ASSUME NEW bs \in [Kinds -> Seq(Event)], Low(chain, bs), Near(chain, bs),
               NEW e \in Held(bs), NEW n \in 1..Len(chain'), e.key \in chain'[n].logs
        PROVE  e.blockNumber <= n \/ e.blockNumber < n + 2 * SafeDepth
    <3>1. e.blockNumber \in Nat
      BY <2>1, KeysAre DEF Event
    <3>2. CASE n \in 1..Head1
      BY <3>2, <2>1, <1>5 DEF Near, Head1
    <3>3. CASE n = Head1 + 1
      BY <3>1, <3>3, <2>1, <1>4 DEF Low, Head1
    <3> QED
      BY <3>2, <3>3, <1>7 DEF Head1
  <2> QED
    BY <2>1 DEF Near
<1>12. /\ buckets \in [Kinds -> Seq(Event)] /\ file \in [Kinds -> Seq(Event)]
       /\ writing # << >> => writing[1] \in [Kinds -> Seq(Event)]
  BY <1>2 DEF IndexerTypeOK, StoreTypeOK
<1>13. MemoryInv'
  BY <1>2, <1>10, <1>12 DEF MemoryInv, storeVars, memoryVars, persistVars, Stored
<1>14. NearInv'
  BY <1>2, <1>11, <1>12 DEF NearInv, MemoryInv, storeVars, memoryVars, persistVars
<1>15. /\ SafeDepth \in Nat /\ nextBlock \in Nat /\ checkpoint \in Nat /\ floor \in Nat
       /\ poll.latest \in Nat /\ lastBlockHash \in Nat /\ fork \in Nat /\ poll.to \in Nat
  BY <1>2, IndexerAssumption DEF IndexerTypeOK
<1>16. Deep(Head1) <= Deep(Head1 + 1) /\ Deep(Head1) \in Nat /\ Deep(Head1) <= Head1 + 1
       /\ Deep(Head1 + 1) \in Nat
  BY <1>4, <1>15 DEF Deep, Monus
<1>17. CursorInv'
  <2>1. checkpoint' <= Deep(Head1')
    BY <1>2, <1>5, <1>15, <1>16 DEF CursorInv, watcherVars
  <2>2. Deep(Head1)' = Deep(Head1') /\ Jumped' = Jumped /\ Deep(poll.latest)' = Deep(poll.latest)
    BY <1>2 DEF Deep, Jumped, watcherVars
  <2> QED
    BY <2>1, <2>2, <1>2, <1>4, <1>5, <1>15, <1>16 DEF CursorInv, watcherVars
<1>18. ChainInv'
  <2>1. ASSUME NEW n \in 1..Head1' PROVE chain'[n].fork <= fork'
    <3>1. fork' = fork
      BY <1>2
    <3>2. CASE n \in 1..Head1
      <4>1. chain[n].fork <= fork
        BY <3>2, <1>2 DEF ChainInv
      <4> QED
        BY <4>1, <3>1, <3>2, <1>5
    <3>3. CASE n = Head1 + 1
      BY <3>1, <3>3, <1>5, <1>15
    <3> QED
      BY <3>2, <3>3, <1>7
  <2>2. \A n, m \in 1..Head1' : \A l \in chain'[n].logs : l \in chain'[m].logs => n = m
    BY <1>2, <1>5, <1>6, <1>7 DEF ChainInv
  <2>3. pc # "hash" /\ lastBlockHash # 0 =>
           nextBlock - 1 \in 1..Head1 /\ nextBlock - 1 \in 1..Head1'
           /\ Hash(nextBlock - 1)' = Hash(nextBlock - 1)
    BY <1>2, <1>5, <1>8 DEF ChainInv, watcherVars, Hash
  <2>4. nextBlock' = nextBlock /\ lastBlockHash' = lastBlockHash /\ pc' = pc /\ deep' = deep
        /\ fork' = fork
    BY <1>2 DEF watcherVars
  <2> QED
    BY <2>1, <2>2, <2>3, <2>4, <1>2 DEF ChainInv
<1>19. ASSUME NEW ids, NEW to \in Nat, to <= Deep(Head1) \/ to <= floor,
              Covered(chain, floor, ids, to)
       PROVE  Covered(chain', floor, ids, to)
  <2>1. ASSUME NEW n \in 1..Len(chain'), floor <= n, n < to PROVE chain'[n].logs \subseteq ids
    <3>1. n # Head1 + 1
      BY <2>1, <1>4, <1>15, <1>16, <1>19
    <3> QED
      BY <3>1, <2>1, <1>5, <1>7, <1>19 DEF Covered, Head1
  <2> QED
    BY <2>1 DEF Covered
<1>20. /\ floor' = floor /\ seenKeys' = seenKeys /\ pushedOut' = pushedOut /\ file' = file
       /\ writing' = writing /\ written' = written /\ flushing' = flushing /\ deep' = deep
       /\ nextBlock' = nextBlock /\ checkpoint' = checkpoint /\ pc' = pc /\ poll' = poll
  BY <1>2 DEF watcherVars, storeVars, memoryVars, persistVars
<1>21. Settled' = Settled
  BY <1>20 DEF Settled
<1>22. \A to \in Nat : to <= Deep(Head1) \/ to <= floor =>
          /\ MemoryHas(to) => (MemoryHas(to))'
          /\ FileHas(to) => (FileHas(to))'
          /\ SnapshotHas(to) => (SnapshotHas(to))'
  BY <1>19, <1>20 DEF MemoryHas, FileHas, SnapshotHas
<1>23. /\ Settled \in Nat /\ (Settled <= Deep(Head1) \/ Settled <= floor)
       /\ nextBlock <= Deep(Head1) \/ nextBlock <= floor
       /\ checkpoint <= Deep(Head1)
  <2>1. Settled \in Nat /\ (Settled <= Deep(Head1) \/ Jumped)
    BY <1>2, SettledIs
  <2>2. CASE pc = "flush"
    <3>1. Settled <= Deep(Head1)
      BY <2>2, <1>2, SettledIs DEF Settled
    <3> QED
      BY <3>1, <2>1, <1>2, <1>15 DEF CursorInv, Jumped
  <2>3. CASE pc # "flush"
    BY <2>1, <2>3, <1>2, <1>15 DEF CursorInv, Jumped, Settled
  <2> QED
    BY <2>2, <2>3
<1>24. CoverInv'
  <2> DEFINE back == Monus(nextBlock - 1, 2 * SafeDepth)
  <2>1. back' = back
    BY <1>20 DEF Monus
  <2>2. deep = "open" => back \in Nat /\ (back <= Deep(Head1) \/ back <= floor)
    <3>1. deep = "open" => nextBlock - 1 \in 1..Head1
      BY <1>2 DEF ChainInv
    <3> QED
      BY <3>1, <1>15, <1>23, <1>16 DEF Monus
  <2> HIDE DEF back
  <2>3. CoverInv = ((Good => MemoryHas(nextBlock) /\ MemoryHas(Settled)) /\ (deep = "open" => MemoryHas(back)))
    BY DEF CoverInv, back
  <2>4. deep = "open" => (MemoryHas(back))'
    BY <2>1, <2>2, <2>3, <1>2, <1>22 DEF MemoryHas
  <2>5. Good => (MemoryHas(nextBlock))' /\ (MemoryHas(Settled))'
    BY <1>2, <1>15, <1>20, <1>21, <1>22, <1>23 DEF CoverInv
  <2> QED
    BY <2>4, <2>5, <1>20 DEF CoverInv, Good, back
<1>25. FileInv'
  BY <1>2, <1>15, <1>20, <1>21, <1>22, <1>23 DEF FileInv, Good
<1> QED
  BY <1>9, <1>13, <1>14, <1>17, <1>18, <1>24, <1>25 DEF IndexerInv

\* A reorganisation leaves the blocks below its first one alone, and the others come from
\* the new fork; no log is in two of them.
LEMMA ReorgIs ==
    ASSUME IndexerTypeOK, ChainInv, Reorg
    PROVE  \E first \in 1..Head1 :
              /\ chain' \in Seq(Blocks) /\ Len(chain') = Head1
              /\ \A n \in 1..Head1 : n < first => chain'[n] = chain[n]
              /\ \A n \in first..Head1 : chain'[n].fork = fork + 1
              /\ \A n, m \in 1..Head1 : \A l \in chain'[n].logs : l \in chain'[m].logs => n = m
              /\ DeepReorg(first)
<1>1. chain \in Seq(Blocks) /\ Head1 \in Nat /\ fork \in Nat /\ DOMAIN chain = 1..Head1
  BY LenProperties DEF IndexerTypeOK, Head1
<1>2. PICK depth \in 1..Least(MaxDepth, Head1) :
         LET first == Head1 - depth + 1
             kept  == SubSeq(chain, 1, first - 1)
             free  == OnChain \ Mined(kept)
         IN  /\ \E l \in {{}} \union {{x} : x \in free} : \E n \in first..Head1 :
                   chain' = kept \o [i \in 1..depth |->
                       [fork |-> fork + 1, logs |-> IF first + i - 1 = n THEN l ELSE {}]]
             /\ DeepReorg(first)
  BY DEF Reorg
<1> DEFINE first == Head1 - depth + 1
           kept  == SubSeq(chain, 1, first - 1)
           free  == OnChain \ Mined(kept)
<1>3. PICK l \in {{}} \union {{x} : x \in free} : \E n \in first..Head1 :
                   chain' = kept \o [i \in 1..depth |->
                       [fork |-> fork + 1, logs |-> IF first + i - 1 = n THEN l ELSE {}]]
  BY <1>2
<1>4. PICK at \in first..Head1 :
         chain' = kept \o [i \in 1..depth |->
                       [fork |-> fork + 1, logs |-> IF first + i - 1 = at THEN l ELSE {}]]
  BY <1>3
<1> DEFINE new == [i \in 1..depth |->
                     [fork |-> fork + 1, logs |-> IF first + i - 1 = at THEN l ELSE {}]]
<1>5. DeepReorg(first)
  BY <1>2
<1>6. depth \in Nat /\ depth >= 1 /\ depth <= Head1 /\ first \in 1..Head1 /\ first - 1 \in Nat
      /\ first - 1 <= Head1 /\ (first - 1) + depth = Head1
  <2>1. MaxDepth \in Nat
    BY IndexerAssumption
  <2> QED
    BY <1>1, <2>1 DEF Least
<1> HIDE DEF first
<1>7. /\ kept \in Seq(Blocks) /\ Len(kept) = first - 1
      /\ \A i \in 1..(first - 1) : kept[i] = chain[i]
  <2>1. \A i \in 1..(first - 1) : chain[i] \in Blocks
    <3>1. \A i \in 1..(first - 1) : i \in 1..Len(chain)
      BY <1>1, <1>6 DEF Head1
    <3> QED
      BY <3>1, <1>1, ElementOfSeq
  <2>2. /\ kept \in Seq(Blocks) /\ Len(kept) = IF 1 <= first - 1 THEN (first - 1) - 1 + 1 ELSE 0
        /\ \A i \in 1..((first - 1) - 1 + 1) : kept[i] = chain[1 + i - 1]
    BY <2>1, <1>6, SubSeqProperties
  <2> HIDE DEF kept
  <2>3. Len(kept) = first - 1
    BY <2>2, <1>6
  <2>4. \A i \in 1..(first - 1) : 1 + i - 1 = i /\ i \in 1..((first - 1) - 1 + 1)
    BY <1>6
  <2> QED
    BY <2>2, <2>3, <2>4
<1>8. l \subseteq free /\ l \in {{}} \union {{x} : x \in OnChain} /\ \A x, y \in l : x = y
  OBVIOUS
<1>9. \A i \in 1..(first - 1) : \A x \in l : x \notin chain[i].logs
  <2>1. DOMAIN kept = 1..(first - 1)
    BY <1>7, LenProperties
  <2> HIDE DEF kept
  <2> QED
    BY <2>1, <1>7, <1>8 DEF Mined
<1>10. new \in Seq(Blocks) /\ Len(new) = depth
  <2>1. \A i \in 1..depth : new[i] \in Blocks
    BY <1>1, <1>8 DEF Blocks
  <2>2. new \in [1..depth -> Blocks]
    BY <2>1
  <2> HIDE DEF new
  <2> QED
    BY <2>2, <1>6
<1> HIDE DEF kept, free
<1>11. chain' \in Seq(Blocks) /\ Len(chain') = (first - 1) + depth
       /\ \A i \in 1..((first - 1) + depth) :
            chain'[i] = IF i <= first - 1 THEN kept[i] ELSE new[i - (first - 1)]
  <2>1. chain' = kept \o new
    BY <1>4
  <2> HIDE DEF new
  <2>2. /\ kept \o new \in Seq(Blocks) /\ Len(kept \o new) = Len(kept) + Len(new)
        /\ \A i \in 1..(Len(kept) + Len(new)) :
             (kept \o new)[i] = IF i <= Len(kept) THEN kept[i] ELSE new[i - Len(kept)]
    BY <1>7, <1>10, ConcatProperties
  <2> QED
    BY <2>1, <2>2, <1>7, <1>10
<1>12. \A n \in 1..Head1 : n < first => chain'[n] = chain[n]
  <2>1. \A n \in 1..Head1 : n < first => n \in 1..(first - 1) /\ n <= first - 1
    BY <1>1, <1>6
  <2> QED
    BY <2>1, <1>6, <1>7, <1>11
<1>13. \A n \in first..Head1 :
          n \in 1..Head1 /\ ~(n <= first - 1) /\ n - (first - 1) \in 1..depth
          /\ first + (n - (first - 1)) - 1 = n
  BY <1>1, <1>6
<1>14. \A n \in first..Head1 :
          chain'[n].fork = fork + 1 /\ chain'[n].logs = IF n = at THEN l ELSE {}
  <2>1. \A n \in first..Head1 : chain'[n] = new[n - (first - 1)]
    BY <1>13, <1>11, <1>6
  <2>2. \A i \in 1..depth : new[i] = [fork |-> fork + 1, logs |-> IF first + i - 1 = at THEN l ELSE {}]
    OBVIOUS
  <2> HIDE DEF new
  <2>3. \A n \in first..Head1 :
           chain'[n] = [fork |-> fork + 1,
                        logs |-> IF first + (n - (first - 1)) - 1 = at THEN l ELSE {}]
    BY <2>1, <2>2, <1>13
  <2>4. \A n \in first..Head1 : chain'[n] = [fork |-> fork + 1, logs |-> IF n = at THEN l ELSE {}]
    BY <2>3, <1>13
  <2>5. ASSUME NEW n \in first..Head1
        PROVE  chain'[n].fork = fork + 1 /\ chain'[n].logs = IF n = at THEN l ELSE {}
    <3> DEFINE logs == IF n = at THEN l ELSE {}
    <3>1. chain'[n] = [fork |-> fork + 1, logs |-> logs]
      BY <2>4
    <3> HIDE DEF logs
    <3>2. chain'[n].fork = fork + 1 /\ chain'[n].logs = logs
      BY <3>1
    <3> QED
      BY <3>2 DEF logs
  <2> QED
    BY <2>5
<1>15. \A n \in 1..Head1 : n < first \/ n \in first..Head1
  BY <1>1, <1>6
<1>16. ASSUME NEW n \in 1..Head1, NEW m \in 1..Head1, NEW x \in chain'[n].logs, x \in chain'[m].logs
       PROVE  n = m
  <2>1. \A i \in 1..Head1 : i < first => i \in 1..(first - 1)
    BY <1>1, <1>6
  <2>2. CASE n < first /\ m < first
    BY <2>2, <1>12, <1>16 DEF ChainInv
  <2>3. CASE n < first /\ m \in first..Head1
    BY <2>1, <2>3, <1>9, <1>12, <1>14, <1>16
  <2>4. CASE n \in first..Head1 /\ m < first
    BY <2>1, <2>4, <1>9, <1>12, <1>14, <1>16
  <2>5. CASE n \in first..Head1 /\ m \in first..Head1
    BY <2>5, <1>14, <1>16
  <2> QED
    BY <2>2, <2>3, <2>4, <2>5, <1>15
<1> QED
  BY <1>5, <1>6, <1>11, <1>12, <1>14, <1>16

\* A reorganisation at any depth, at any await of a poll.
LEMMA ReorgKeeps ==
    ASSUME IndexerInv, Reorg
    PROVE  IndexerInv'
<1>1. /\ IndexerTypeOK /\ MemoryInv /\ NearInv /\ CursorInv /\ ChainInv /\ CoverInv /\ FileInv
      /\ UNCHANGED <<storeVars, watcherVars, floor, written, failures>>
      /\ fork' = fork + 1
  BY DEF IndexerInv, Reorg
<1>2. PICK first \in 1..Head1 :
              /\ chain' \in Seq(Blocks) /\ Len(chain') = Head1
              /\ \A n \in 1..Head1 : n < first => chain'[n] = chain[n]
              /\ \A n \in first..Head1 : chain'[n].fork = fork + 1
              /\ \A n, m \in 1..Head1 : \A l \in chain'[n].logs : l \in chain'[m].logs => n = m
              /\ DeepReorg(first)
  BY <1>1, ReorgIs
<1>3. /\ floor' = floor /\ seenKeys' = seenKeys /\ pushedOut' = pushedOut /\ file' = file
      /\ buckets' = buckets /\ lastBlockHash' = lastBlockHash
      /\ writing' = writing /\ written' = written /\ flushing' = flushing
      /\ nextBlock' = nextBlock /\ checkpoint' = checkpoint /\ pc' = pc /\ poll' = poll
  BY <1>1 DEF watcherVars, storeVars, memoryVars, persistVars
<1>4. /\ SafeDepth \in Nat /\ nextBlock \in Nat /\ checkpoint \in Nat /\ floor \in Nat
      /\ poll.latest \in Nat /\ lastBlockHash \in Nat /\ fork \in Nat /\ poll.to \in Nat
      /\ Head1 \in Nat /\ chain \in Seq(Blocks)
  BY <1>1, IndexerAssumption, LenProperties DEF IndexerTypeOK, Head1
<1>5. /\ Head1' = Head1 /\ Settled' = Settled /\ Settled \in Nat /\ first \in Nat /\ first >= 1
      /\ first <= Head1
  BY <1>1, <1>2, <1>3, <1>4, SettledIs DEF Head1, Settled
<1>6. deep' = IF Head1 - first >= 2 * SafeDepth THEN "missed"
              ELSE IF first >= Settled THEN deep
              ELSE IF /\ pc = "idle" /\ lastBlockHash # 0 /\ deep # "missed"
                      /\ first >= Monus(nextBlock - 1, 2 * SafeDepth)
                   THEN "open" ELSE "missed"
  BY <1>2 DEF DeepReorg
<1>7. /\ deep' # "missed" => deep # "missed" /\ Head1 - first < 2 * SafeDepth
      /\ Good' => deep' = deep /\ Good /\ first >= Settled
      /\ deep' = "open" =>
            \/ deep = "open" /\ first >= Settled
            \/ /\ pc = "idle" /\ lastBlockHash # 0 /\ (Good \/ deep = "open") /\ first < Settled
               /\ first >= Monus(nextBlock - 1, 2 * SafeDepth)
  <2>1. deep \in {"none", "open", "noticed", "missed"}
    BY <1>1 DEF IndexerTypeOK
  <2>2. CASE Head1 - first >= 2 * SafeDepth
    BY <2>2, <1>6 DEF Good
  <2>3. CASE ~(Head1 - first >= 2 * SafeDepth) /\ first >= Settled
    <3>1. deep' = deep /\ Head1 - first < 2 * SafeDepth
      BY <2>3, <1>4, <1>5, <1>6
    <3> QED
      BY <3>1, <2>3 DEF Good
  <2>4. CASE ~(Head1 - first >= 2 * SafeDepth) /\ ~(first >= Settled)
    <3>1. Head1 - first < 2 * SafeDepth /\ first < Settled
      BY <2>4, <1>4, <1>5
    <3> QED
      BY <3>1, <2>1, <2>4, <1>6 DEF Good
  <2> QED
    BY <2>2, <2>3, <2>4
<1>8. IndexerTypeOK'
  <2>1. StoreTypeOK'
    BY <1>1 DEF IndexerTypeOK, StoreTypeOK, storeVars, memoryVars, persistVars
  <2>2. deep' \in {"none", "open", "noticed", "missed"}
    BY <1>1, <1>6 DEF IndexerTypeOK
  <2> QED
    BY <2>1, <2>2, <1>1, <1>2, <1>4 DEF IndexerTypeOK, watcherVars
<1>9. /\ buckets \in [Kinds -> Seq(Event)] /\ file \in [Kinds -> Seq(Event)]
      /\ writing # << >> => writing[1] \in [Kinds -> Seq(Event)]
  BY <1>1 DEF IndexerTypeOK, StoreTypeOK
<1>10. \A bs : Low(chain, bs) => Low(chain', bs)
  BY <1>2 DEF Low, Head1
<1>11. MemoryInv'
  BY <1>1, <1>3, <1>10 DEF MemoryInv, Stored
<1>12. \A n \in 1..Head1 : n < first \/ n \in first..Head1
  BY <1>4, <1>5
<1>13. ASSUME NEW bs \in [Kinds -> Seq(Event)], Low(chain, bs), Near(chain, bs), deep' # "missed"
       PROVE  Near(chain', bs)
  <2>1. ASSUME NEW e \in Held(bs), NEW n \in 1..Len(chain'), e.key \in chain'[n].logs
        PROVE  e.blockNumber <= n \/ e.blockNumber < n + 2 * SafeDepth
    <3>1. e.blockNumber \in Nat /\ n \in 1..Head1
      BY <2>1, <1>2, <1>13, KeysAre DEF Event
    <3>2. CASE n < first
      BY <3>1, <3>2, <2>1, <1>2, <1>13 DEF Near, Head1
    <3>3. CASE n \in first..Head1
      BY <3>1, <3>3, <1>4, <1>5, <1>7, <1>13 DEF Low, Head1
    <3> QED
      BY <3>1, <3>2, <3>3, <1>12
  <2> QED
    BY <2>1 DEF Near
<1>14. NearInv'
  <2>1. SUFFICES ASSUME deep' # "missed"
                 PROVE  /\ Near(chain', buckets) /\ Near(chain', file)
                        /\ writing # << >> => Near(chain', writing[1])
    BY <1>3 DEF NearInv
  <2>2. /\ Near(chain, buckets) /\ Near(chain, file) /\ (writing # << >> => Near(chain, writing[1]))
    BY <2>1, <1>1, <1>7 DEF NearInv
  <2>3. /\ Low(chain, buckets) /\ Low(chain, file) /\ (writing # << >> => Low(chain, writing[1]))
    BY <1>1 DEF MemoryInv
  <2> QED
    BY <2>1, <2>2, <2>3, <1>9, <1>13
<1>15. CursorInv'
  BY <1>1, <1>3, <1>5, <1>7 DEF CursorInv, Deep, Jumped, Good
<1>16. /\ pc # "hash" /\ lastBlockHash # 0 => nextBlock - 1 \in 1..Head1
       /\ lastBlockHash <= fork + 1
       /\ deep = "open" =>
             pc \in {"idle", "check"} /\ lastBlockHash # 0 /\ Hash(nextBlock - 1) # lastBlockHash
       /\ pc \notin {"flush", "hash"} /\ deep \in {"none", "noticed"} /\ lastBlockHash # 0 =>
             Hash(nextBlock - 1) = lastBlockHash
       /\ \A n \in 1..Head1 : chain[n].fork <= fork
  BY <1>1 DEF ChainInv
<1>17. ASSUME pc \notin {"flush", "hash"}, lastBlockHash # 0, first >= Settled
       PROVE  Hash(nextBlock - 1)' = Hash(nextBlock - 1)
  <2>1. nextBlock - 1 \in 1..Head1 /\ nextBlock - 1 < first
    BY <1>4, <1>5, <1>16, <1>17 DEF Settled
  <2> QED
    BY <2>1, <1>2, <1>3 DEF Hash
<1>18. ASSUME pc = "idle", lastBlockHash # 0, first < Settled
       PROVE  Hash(nextBlock - 1)' # lastBlockHash
  <2>1. nextBlock - 1 \in first..Head1
    BY <1>4, <1>5, <1>16, <1>18 DEF Settled
  <2>2. Hash(nextBlock - 1)' = fork + 2
    BY <2>1, <1>2, <1>3, <1>4 DEF Hash
  <2> QED
    BY <2>2, <1>4, <1>16
<1>19. ChainInv'
  <2>1. ASSUME NEW n \in 1..Head1 PROVE chain'[n].fork <= fork'
    <3>1. fork' = fork + 1 /\ fork \in Nat
      BY <1>1, <1>4
    <3>2. CASE n < first
      <4>1. chain[n].fork \in Nat /\ chain[n].fork <= fork
        BY <1>4, <1>16, BlockIs
      <4>2. chain'[n] = chain[n]
        BY <3>2, <1>2
      <4> QED
        BY <4>1, <4>2, <3>1
    <3>3. CASE n \in first..Head1
      <4>1. chain'[n].fork = fork + 1
        BY <3>3, <1>2
      <4> QED
        BY <4>1, <3>1
    <3> QED
      BY <3>2, <3>3, <1>12
  <2>2. lastBlockHash' <= fork' + 1
    BY <1>1, <1>3, <1>4, <1>16
  <2>3. pc' \notin {"flush", "hash"} /\ deep' \in {"none", "noticed"} /\ lastBlockHash' # 0 =>
             Hash(nextBlock - 1)' = lastBlockHash'
    BY <1>3, <1>7, <1>16, <1>17 DEF Good
  <2>4. deep' = "open" =>
             pc' \in {"idle", "check"} /\ lastBlockHash' # 0 /\ Hash(nextBlock - 1)' # lastBlockHash'
    BY <1>3, <1>7, <1>16, <1>17, <1>18
  <2> QED
    BY <2>1, <2>2, <2>3, <2>4, <1>2, <1>3, <1>5, <1>16 DEF ChainInv
<1>20. ASSUME NEW ids, NEW to \in Nat, to <= first \/ to <= floor,
              Covered(chain, floor, ids, to)
       PROVE  Covered(chain', floor, ids, to)
  <2>1. ASSUME NEW n \in 1..Len(chain'), floor <= n, n < to PROVE chain'[n].logs \subseteq ids
    <3>1. n \in 1..Head1 /\ n < first
      BY <2>1, <1>2, <1>4, <1>5, <1>20
    <3> QED
      BY <3>1, <2>1, <1>2, <1>20 DEF Covered, Head1
  <2> QED
    BY <2>1 DEF Covered
<1>21. \A to \in Nat : to <= first \/ to <= floor =>
          /\ MemoryHas(to) => (MemoryHas(to))'
          /\ FileHas(to) => (FileHas(to))'
          /\ SnapshotHas(to) => (SnapshotHas(to))'
  BY <1>3, <1>20 DEF MemoryHas, FileHas, SnapshotHas
<1>22. nextBlock <= Settled \/ Jumped
  <2>1. CASE pc = "flush"
    BY <2>1, <1>1, SettledIs DEF Settled
  <2>2. CASE pc # "flush"
    BY <2>2, <1>4 DEF Settled
  <2> QED
    BY <2>1, <2>2
<1>23. ASSUME first >= Settled
       PROVE  /\ Settled <= first /\ (nextBlock <= first \/ nextBlock <= floor)
              /\ checkpoint <= nextBlock => checkpoint <= first \/ checkpoint <= floor
  BY <1>4, <1>5, <1>22, <1>23 DEF Jumped
<1>24. CoverInv'
  <2> DEFINE back == Monus(nextBlock - 1, 2 * SafeDepth)
  <2>1. back' = back
    BY <1>3 DEF Monus
  <2>2. deep' = "open" =>
          back \in Nat /\ back <= nextBlock /\ (back <= first \/ back <= floor)
    <3>1. deep' = "open" => nextBlock - 1 \in 1..Head1
      BY <1>7, <1>16
    <3>2. deep' = "open" => back \in Nat /\ back <= nextBlock
      BY <3>1, <1>4 DEF Monus
    <3>3. deep' = "open" => (back <= first \/ back <= floor)
      BY <3>2, <1>4, <1>5, <1>7, <1>23
    <3> QED
      BY <3>2, <3>3
  <2> HIDE DEF back
  <2>3. /\ Good => MemoryHas(nextBlock) /\ MemoryHas(Settled)
        /\ deep = "open" => MemoryHas(back)
    BY <1>1 DEF CoverInv, back
  <2>4. deep' = "open" => MemoryHas(back)
    <3>1. ASSUME deep' = "open", Good PROVE MemoryHas(back)
      <4>1. MemoryHas(nextBlock)
        BY <2>3, <3>1
      <4> QED
        BY <4>1, <3>1, <2>2, <1>4, CoveredMore DEF MemoryHas
    <3> QED
      BY <3>1, <2>3, <1>7
  <2>5. deep' = "open" => (MemoryHas(back))'
    BY <2>1, <2>2, <2>4, <1>21 DEF MemoryHas
  <2>6. Good' => (MemoryHas(nextBlock))' /\ (MemoryHas(Settled))'
    BY <2>3, <1>3, <1>4, <1>5, <1>7, <1>21, <1>23
  <2> QED
    BY <2>5, <2>6 DEF CoverInv, back
<1>25. FileInv'
  <2>1. deep' = "none" => (FileHas(checkpoint))' /\ (SnapshotHas(checkpoint))'
    <3>1. deep' = "none" => deep = "none" /\ checkpoint <= nextBlock /\ first >= Settled
      BY <1>1, <1>7 DEF CursorInv, Good
    <3> QED
      BY <3>1, <1>1, <1>3, <1>4, <1>21, <1>23 DEF FileInv
  <2>2. Good' /\ pc' = "flush" =>
          /\ flushing' = 0 => (FileHas(Settled))'
          /\ flushing' <= 1 => (SnapshotHas(Settled))'
    BY <1>1, <1>3, <1>5, <1>7, <1>21, <1>23 DEF FileInv
  <2>3. Good' /\ pc' \in {"hash", "save"} => (FileHas(nextBlock))' /\ (SnapshotHas(nextBlock))'
    BY <1>1, <1>3, <1>4, <1>7, <1>21, <1>23 DEF FileInv
  <2> QED
    BY <2>1, <2>2, <2>3 DEF FileInv
<1> QED
  BY <1>8, <1>11, <1>14, <1>15, <1>19, <1>24, <1>25 DEF IndexerInv

-----------------------------------------------------------------------------
(* Changes of the memory.                                                   *)

\* The memory that a handler leaves.
LEMMA PutIs ==
    ASSUME NEW store, WellKept(store), Put(store)
    PROVE  /\ Stored' = store /\ buckets' = store.buckets /\ pushedOut' = store.pushedOut
           /\ seenKeys' \union pushedOut' = Known(store)
<1>1. store = [buckets |-> store.buckets, seenKeys |-> store.seenKeys, pushedOut |-> store.pushedOut]
  BY DEF WellKept, Store
<1> QED
  BY <1>1 DEF Put, Stored, Known

\* A store that is well kept is well typed.
LEMMA StoreStaysTyped ==
    ASSUME StoreTypeOK, WellKept(Stored)', debounce' \in BOOLEAN, UNCHANGED persistVars
    PROVE  StoreTypeOK'
<1>1. /\ Stored' \in Store /\ Placed(buckets')
  BY DEF WellKept, Stored
<1>2. /\ buckets' \in [Kinds -> Seq(Event)] /\ seenKeys' \in SUBSET Keys /\ pushedOut' \in SUBSET Keys
  BY <1>1 DEF Stored, Store
<1>3. \A k \in Kinds : Len(buckets'[k]) <= Cap
  BY <1>1 DEF Placed, IsBucket
<1> QED
  BY <1>2, <1>3 DEF StoreTypeOK, persistVars

\* A changed store is saved later; the file is not touched yet.
LEMMA DebouncedIs ==
    ASSUME StoreTypeOK, NEW store, WellKept(store), PutDebounced(store)
    PROVE  /\ Stored' = store /\ buckets' = store.buckets /\ pushedOut' = store.pushedOut
           /\ seenKeys' \union pushedOut' = Known(store)
           /\ UNCHANGED <<file, writing, saves, flushing>>
           /\ StoreTypeOK'
<1>1. /\ Stored' = store /\ buckets' = store.buckets /\ pushedOut' = store.pushedOut
      /\ seenKeys' \union pushedOut' = Known(store)
  BY PutIs DEF PutDebounced
<1>2. UNCHANGED persistVars /\ debounce' = (debounce \/ store # Stored)
  BY DEF PutDebounced
<1>3. debounce' \in BOOLEAN
  BY <1>2
<1>4. WellKept(Stored)'
  BY <1>1
<1> QED
  BY <1>1, <1>2, <1>3, <1>4, StoreStaysTyped DEF persistVars

\* An event that is not on the chain comes in low.
LEMMA AppendOffChain ==
    ASSUME IndexerTypeOK, NEW store, WellKept(store), Low(chain, store.buckets),
           NEW event \in Event, event.blockNumber <= Head1,
           \A n \in 1..Head1 : event.key \notin chain[n].logs
    PROVE  /\ WellKept(Append1(store, event)) /\ Low(chain, Append1(store, event).buckets)
           /\ Near(chain, store.buckets) => Near(chain, Append1(store, event).buckets)
           /\ Known(store) \subseteq Known(Append1(store, event))
           /\ store.pushedOut \subseteq Append1(store, event).pushedOut
<1> DEFINE after == Append1(store, event)
<1>1. /\ WellKept(after) /\ Held(after.buckets) \subseteq Held(store.buckets) \union {event}
      /\ Known(store) \subseteq Known(after) /\ store.pushedOut \subseteq after.pushedOut
  BY AppendKeeps
<1> HIDE DEF after
<1>2. Low(chain, after.buckets)
  BY <1>1 DEF Low, Head1
<1>3. Near(chain, store.buckets) => Near(chain, after.buckets)
  BY <1>1 DEF Near, Head1
<1> QED
  BY <1>1, <1>2, <1>3 DEF after

\* A scan begins at the cursor, or at a jump.
LEMMA ScanIs ==
    ASSUME IndexerTypeOK, poll.latest <= Head1,
           NEW c \in Nat, NEW store, WellKept(store), Low(chain, store.buckets), ScanFrom(c, store)
    PROVE  /\ IF c = 0 THEN nextBlock' = Monus(poll.latest, Window) /\ floor' = nextBlock'
                       ELSE nextBlock' = c /\ floor' = floor
           /\ poll' \in [latest : Nat, from : Nat, to : Nat]
           /\ poll'.latest = poll.latest /\ poll'.from = Least(nextBlock', poll.latest)
           /\ poll'.to = Least(poll'.from + Window - 1, poll.latest)
           /\ UNCHANGED <<file, writing, saves, flushing>> /\ StoreTypeOK'
           /\ WellKept(Stored)' /\ Low(chain, buckets')
           /\ Near(chain, store.buckets) => Near(chain, buckets')
           /\ Known(store) \subseteq seenKeys' \union pushedOut'
           /\ store.pushedOut \subseteq pushedOut'
           /\ nextBlock' \in Nat /\ floor' \in Nat
<1>1. /\ poll \in [latest : Nat, from : Nat, to : Nat] /\ Window \in Nat /\ SafeDepth \in Nat
      /\ Window > SafeDepth /\ Head1 \in Nat /\ StoreTypeOK /\ floor \in Nat
      /\ chain \in Seq(Blocks)
  BY IndexerAssumption, LenProperties DEF IndexerTypeOK, Head1
<1> DEFINE jump == Monus(poll.latest, Window)
<1>2. jump \in Nat /\ jump <= Head1
  BY <1>1 DEF Monus
<1>3. ASSUME NEW d \in Nat
      PROVE  /\ Range1(d) \in [latest : Nat, from : Nat, to : Nat]
             /\ Range1(d).latest = poll.latest /\ Range1(d).from = Least(d, poll.latest)
             /\ Range1(d).to = Least(Range1(d).from + Window - 1, poll.latest)
  <2> DEFINE from == Least(d, poll.latest)
             to == Least(from + Window - 1, poll.latest)
  <2>1. from \in Nat /\ to \in Nat
    BY <1>1 DEF Least
  <2>2. Range1(d) = [poll EXCEPT !.from = from, !.to = to]
    BY DEF Range1
  <2> HIDE DEF from, to
  <2>3. /\ Range1(d) \in [latest : Nat, from : Nat, to : Nat]
        /\ Range1(d).latest = poll.latest /\ Range1(d).from = from /\ Range1(d).to = to
    BY <2>1, <2>2, <1>1
  <2> QED
    BY <2>3 DEF from, to
<1>4. CASE c # 0
  <2>1. nextBlock' = c /\ poll' = Range1(c) /\ floor' = floor /\ PutDebounced(store)
    BY <1>4 DEF ScanFrom
  <2>2. /\ Stored' = store /\ buckets' = store.buckets /\ pushedOut' = store.pushedOut
        /\ seenKeys' \union pushedOut' = Known(store)
        /\ UNCHANGED <<file, writing, saves, flushing>> /\ StoreTypeOK'
    BY <2>1, <1>1, DebouncedIs
  <2> QED
    BY <2>1, <2>2, <1>1, <1>3, <1>4
<1>5. CASE c = 0
  <2> DEFINE event == [key |-> Resync, blockNumber |-> jump]
             after == Append1(store, event)
  <2>1. nextBlock' = jump /\ poll' = Range1(jump) /\ floor' = jump /\ PutDebounced(after)
    BY <1>5 DEF ScanFrom
  <2>2. event \in Event /\ event.blockNumber <= Head1 /\ \A n \in 1..Head1 : event.key \notin chain[n].logs
    BY <1>1, <1>2, BlockIs DEF Event, Keys
  <2> HIDE DEF event
  <2>3. /\ WellKept(after) /\ Low(chain, after.buckets)
        /\ Near(chain, store.buckets) => Near(chain, after.buckets)
        /\ Known(store) \subseteq Known(after) /\ store.pushedOut \subseteq after.pushedOut
    BY <2>2, AppendOffChain
  <2> HIDE DEF after
  <2>4. /\ Stored' = after /\ buckets' = after.buckets /\ pushedOut' = after.pushedOut
        /\ seenKeys' \union pushedOut' = Known(after)
        /\ UNCHANGED <<file, writing, saves, flushing>> /\ StoreTypeOK'
    BY <2>1, <2>3, <1>1, DebouncedIs
  <2> QED
    BY <2>1, <2>3, <2>4, <1>1, <1>2, <1>3, <1>5
<1> QED
  BY <1>4, <1>5

-----------------------------------------------------------------------------
(* The poll tick.                                                           *)

\* What a step does not touch keeps its part of the invariant.
LEMMA ChainStays ==
    ASSUME IndexerInv, UNCHANGED chainVars
    PROVE  /\ Head1' = Head1 /\ chain' = chain /\ fork' = fork
           /\ \A n \in Nat : Hash(n)' = Hash(n)
           /\ \A n \in 1..Head1 : chain[n].fork <= fork
           /\ \A n, m \in 1..Head1 : \A l \in chain[n].logs : l \in chain[m].logs => n = m
           /\ chain \in Seq(Blocks) /\ Head1 \in Nat /\ fork \in Nat
BY LenProperties DEF chainVars, Head1, Hash, IndexerInv, ChainInv, IndexerTypeOK

\* The head is read: it may be old when it is used.
LEMMA ReadHeadKeeps ==
    ASSUME IndexerInv, ReadHead
    PROVE  IndexerInv'
<1>1. /\ IndexerTypeOK /\ MemoryInv /\ NearInv /\ CursorInv /\ ChainInv /\ CoverInv /\ FileInv
      /\ pc = "idle" /\ pc' = "check" /\ poll' = [NoPoll EXCEPT !.latest = Head1]
      /\ UNCHANGED <<storeVars, chainVars, nextBlock, lastBlockHash, checkpoint, floor, deep, written,
                     failures>>
  BY DEF IndexerInv, ReadHead
<1>2. /\ chain' = chain /\ Head1' = Head1 /\ Head1 \in Nat
  BY <1>1, ChainStays
<1>3. poll' \in [latest : Nat, from : Nat, to : Nat] /\ poll'.latest = Head1
  BY <1>1, <1>2 DEF NoPoll
<1> USE DEF chainVars, storeVars, memoryVars, persistVars
<1>4. IndexerTypeOK'
  BY <1>1, <1>2, <1>3 DEF IndexerTypeOK, StoreTypeOK
<1>5. MemoryInv' /\ NearInv'
  BY <1>1 DEF MemoryInv, NearInv, Stored
<1>6. CursorInv'
  BY <1>1, <1>2, <1>3 DEF CursorInv, Jumped, Deep, Monus
<1>7. ChainInv'
  BY <1>1 DEF ChainInv, Hash, Head1
<1>8. CoverInv'
  BY <1>1 DEF CoverInv, MemoryHas, Settled, Good
<1>9. FileInv'
  BY <1>1 DEF FileInv, FileHas, SnapshotHas, Good
<1> QED
  BY <1>4, <1>5, <1>6, <1>7, <1>8, <1>9 DEF IndexerInv

\* A remembered hash differs exactly when a reorganisation of the block below the cursor
\* is open, or was missed.
LEMMA OpenDiffers ==
    ASSUME IndexerInv, pc = "check"
    PROVE  /\ deep = "open" => HashDiffers
           /\ HashDiffers => deep \in {"open", "missed"}
           /\ lastBlockHash # 0 => nextBlock # 0
<1>1. /\ pc # "hash" /\ lastBlockHash # 0 => nextBlock - 1 \in 1..Head1
      /\ deep \in {"none", "noticed"} /\ lastBlockHash # 0 => Hash(nextBlock - 1) = lastBlockHash
      /\ deep = "open" => lastBlockHash # 0 /\ Hash(nextBlock - 1) # lastBlockHash
      /\ deep \in {"none", "open", "noticed", "missed"}
      /\ nextBlock \in Nat /\ Head1 \in Nat
  BY LenProperties DEF IndexerInv, ChainInv, IndexerTypeOK, Head1
<1>2. lastBlockHash # 0 => nextBlock # 0 /\ nextBlock > 1 /\ nextBlock - 1 <= Head1
  BY <1>1
<1> QED
  BY <1>1, <1>2 DEF HashDiffers

\* The remembered hash is still the chain's, or there is none: the window is chosen.
LEMMA HashPassesKeeps ==
    ASSUME IndexerInv, HashPasses
    PROVE  IndexerInv'
<1>1. /\ IndexerTypeOK /\ MemoryInv /\ NearInv /\ CursorInv /\ ChainInv /\ CoverInv /\ FileInv
      /\ pc = "check" /\ pc' = "logs" /\ ScanFrom(nextBlock, Stored)
      /\ UNCHANGED <<chainVars, lastBlockHash, checkpoint, written>>
  BY DEF IndexerInv, HashPasses
<1>2. /\ deep' # "open" /\ (deep' = deep \/ deep' = "missed") /\ failures' \in 0..MaxFailures
      /\ deep' \in {"none", "open", "noticed", "missed"}
  <2>1. failures \in 0..MaxFailures /\ MaxFailures \in Nat
        /\ deep \in {"none", "open", "noticed", "missed"}
    BY <1>1, IndexerAssumption DEF IndexerTypeOK
  <2>2. deep = "open" => HashDiffers
    BY <1>1, OpenDiffers
  <2>3. CASE ~HashDiffers /\ UNCHANGED <<deep, failures>>
    BY <2>1, <2>2, <2>3
  <2>4. CASE HashDiffers /\ Failure /\ deep' = IF deep = "open" THEN "missed" ELSE deep
    BY <2>1, <2>4 DEF Failure
  <2> QED
    BY <2>3, <2>4 DEF HashPasses
<1>3. /\ chain' = chain /\ Head1' = Head1 /\ Head1 \in Nat /\ fork' = fork /\ chain \in Seq(Blocks)
  BY <1>1, ChainStays
<1>4. /\ nextBlock \in Nat /\ poll.latest \in Nat /\ floor \in Nat /\ checkpoint \in Nat
      /\ SafeDepth \in Nat /\ Window \in Nat /\ Window > SafeDepth /\ poll.latest <= Head1
      /\ lastBlockHash \in Nat
  BY <1>1, IndexerAssumption DEF IndexerTypeOK, CursorInv
<1>5. WellKept(Stored) /\ Low(chain, Stored.buckets) /\ Stored.buckets = buckets
      /\ Stored.pushedOut = pushedOut /\ Known(Stored) = seenKeys \union pushedOut
  BY <1>1 DEF MemoryInv, Stored, Known
<1>6. /\ IF nextBlock = 0 THEN nextBlock' = Monus(poll.latest, Window) /\ floor' = nextBlock'
                          ELSE nextBlock' = nextBlock /\ floor' = floor
      /\ poll' \in [latest : Nat, from : Nat, to : Nat]
      /\ poll'.latest = poll.latest /\ poll'.from = Least(nextBlock', poll.latest)
      /\ poll'.to = Least(poll'.from + Window - 1, poll.latest)
      /\ UNCHANGED <<file, writing, saves, flushing>> /\ StoreTypeOK'
      /\ WellKept(Stored)' /\ Low(chain, buckets')
      /\ Near(chain, buckets) => Near(chain, buckets')
      /\ seenKeys \union pushedOut \subseteq seenKeys' \union pushedOut'
      /\ pushedOut \subseteq pushedOut'
      /\ nextBlock' \in Nat /\ floor' \in Nat
  <2> HIDE DEF ScanFrom
  <2> QED
    BY <1>1, <1>4, <1>5, ScanIs
<1> USE DEF chainVars
<1>7. IndexerTypeOK'
  BY <1>1, <1>2, <1>6 DEF IndexerTypeOK
<1>8. MemoryInv'
  BY <1>1, <1>3, <1>6 DEF MemoryInv
<1>9. NearInv'
  BY <1>1, <1>2, <1>3, <1>6 DEF NearInv
<1>10. nextBlock = 0 =>
          /\ nextBlock' <= Deep(poll.latest) /\ nextBlock' <= Deep(Head1)
          /\ checkpoint <= nextBlock => checkpoint = 0
  BY <1>4, <1>6, <1>3 DEF Deep, Monus
<1>11. CursorInv'
  <2>1. Deep(Head1)' = Deep(Head1) /\ Deep(poll.latest)' = Deep(poll.latest)
    BY <1>3, <1>6 DEF Deep
  <2>2. nextBlock # 0 => (Jumped => Jumped')
    BY <1>1, <1>6 DEF Jumped
  <2>3. /\ checkpoint' <= Deep(Head1)
        /\ nextBlock' <= Deep(Head1) \/ Jumped'
        /\ nextBlock' <= Deep(poll.latest) \/ Jumped'
    BY <1>1, <1>6, <1>10, <2>2 DEF CursorInv
  <2>4. deep' = "none" => checkpoint' <= nextBlock'
    BY <1>1, <1>2, <1>4, <1>6, <1>10 DEF CursorInv
  <2> QED
    BY <2>1, <2>3, <2>4, <1>1, <1>3, <1>4, <1>6 DEF CursorInv
<1>12. ChainInv'
  <2>1. lastBlockHash # 0 => nextBlock' = nextBlock
    BY <1>1, <1>6, OpenDiffers
  <2>2. lastBlockHash # 0 => Hash(nextBlock - 1)' = Hash(nextBlock - 1)
    BY <2>1, <1>3 DEF Hash
  <2> QED
    BY <2>1, <2>2, <1>1, <1>2, <1>3 DEF ChainInv
<1>13. CoverInv'
  <2>1. Good' => (MemoryHas(nextBlock))'
    <3>1. CASE nextBlock = 0
      BY <3>1, <1>3, <1>4, <1>6, NothingCovered DEF MemoryHas
    <3>2. CASE nextBlock # 0
      <4>1. Good' => MemoryHas(nextBlock)
        BY <1>1, <1>2 DEF CoverInv, Good
      <4> QED
        BY <4>1, <3>2, <1>3, <1>4, <1>6, CoveredMore DEF MemoryHas
    <3> QED
      BY <3>1, <3>2
  <2>2. Settled' = nextBlock'
    BY <1>1 DEF Settled
  <2> QED
    BY <2>1, <2>2, <1>2 DEF CoverInv, MemoryHas
<1>14. FileInv'
  <2>1. ASSUME deep' = "none" PROVE (FileHas(checkpoint))' /\ (SnapshotHas(checkpoint))'
    <3>1. FileHas(checkpoint) /\ SnapshotHas(checkpoint)
      BY <1>1, <1>2, <2>1 DEF FileInv
    <3>2. CASE nextBlock = 0
      <4>1. checkpoint = 0
        BY <3>2, <2>1, <1>1, <1>2, <1>10 DEF CursorInv
      <4>2. checkpoint' <= floor'
        BY <4>1, <1>1, <1>4, <1>6
      <4> QED
        BY <4>2, <1>1, <1>3, <1>4, <1>6, NothingCovered DEF FileHas, SnapshotHas
    <3>3. CASE nextBlock # 0
      <4>1. \A ids : ids \union pushedOut \subseteq ids \union pushedOut'
        BY <1>6
      <4>2. floor' = floor /\ file' = file /\ writing' = writing
        BY <3>3, <1>6
      <4> QED
        BY <3>1, <4>1, <4>2, <1>1, <1>3, <1>4, CoveredMore DEF FileHas, SnapshotHas
    <3> QED
      BY <3>2, <3>3
  <2> QED
    BY <2>1, <1>1 DEF FileInv
<1> QED
  BY <1>7, <1>8, <1>9, <1>11, <1>12, <1>13, <1>14 DEF IndexerInv

\* The roll-back goes back to below where the events that it drops may be now.
LEMMA HashFailsKeeps ==
    ASSUME IndexerInv, HashFails
    PROVE  IndexerInv'
<1> DEFINE checkBlock == nextBlock - 1
           back == Monus(checkBlock, 2 * SafeDepth)
           rolled == RollbackToBlock(Stored, checkBlock)
<1>1. /\ IndexerTypeOK /\ MemoryInv /\ NearInv /\ CursorInv /\ ChainInv /\ CoverInv /\ FileInv
      /\ pc = "check" /\ pc' = "logs" /\ HashDiffers /\ lastBlockHash' = 0
      /\ deep' = IF deep = "open" THEN "noticed" ELSE deep
      /\ UNCHANGED <<chainVars, checkpoint, written, failures>>
  BY DEF IndexerInv, HashFails
<1>2. ScanFrom(back, rolled)
  BY DEF HashFails, RollbackTarget
<1>3. (deep = "open" /\ deep' = "noticed") \/ (deep = "missed" /\ deep' = "missed")
  BY <1>1, OpenDiffers
<1>4. /\ chain' = chain /\ Head1' = Head1 /\ Head1 \in Nat /\ fork' = fork /\ chain \in Seq(Blocks)
      /\ fork \in Nat
  BY <1>1, ChainStays
<1>5. /\ nextBlock \in Nat /\ poll.latest \in Nat /\ floor \in Nat /\ checkpoint \in Nat
      /\ SafeDepth \in Nat /\ Window \in Nat /\ Window > SafeDepth /\ poll.latest <= Head1
      /\ nextBlock > 1 /\ checkBlock \in Nat /\ lastBlockHash # 0
      /\ nextBlock - 1 <= Head1
  BY <1>1, IndexerAssumption DEF IndexerTypeOK, CursorInv, HashDiffers
<1>6. /\ back \in Nat /\ back <= nextBlock /\ back <= Deep(poll.latest) /\ back <= Deep(Head1)
      /\ \A n \in Nat : n < back => n + 2 * SafeDepth < checkBlock /\ n < checkBlock
  <2>1. nextBlock <= Deep(poll.latest) /\ nextBlock <= Deep(Head1)
    BY <1>1, <1>5 DEF CursorInv, Jumped
  <2>2. back \in Nat /\ back <= nextBlock
    BY <1>5 DEF Monus
  <2>3. \A n \in Nat : n < back => n + 2 * SafeDepth < checkBlock /\ n < checkBlock
    BY <1>5 DEF Monus
  <2>4. Deep(poll.latest) \in Nat /\ Deep(Head1) \in Nat
    BY <1>4, <1>5 DEF Deep, Monus
  <2> QED
    BY <2>1, <2>2, <2>3, <2>4, <1>5
<1> HIDE DEF checkBlock, back
<1>7. /\ WellKept(Stored) /\ Low(chain, buckets) /\ Stored.buckets = buckets
      /\ Stored.pushedOut = pushedOut /\ Stored.seenKeys = seenKeys
  BY <1>1 DEF MemoryInv, Stored
<1>8. /\ WellKept(rolled) /\ Held(rolled.buckets) \subseteq Held(buckets)
      /\ \A e \in Held(buckets) : e.blockNumber < checkBlock => e \in Held(rolled.buckets)
      /\ rolled.pushedOut = pushedOut
  BY <1>5, <1>7, RollbackKeeps
<1> HIDE DEF rolled
<1>9. Low(chain, rolled.buckets) /\ (Near(chain, buckets) => Near(chain, rolled.buckets))
  BY <1>7, <1>8 DEF Low, Near
<1>10. /\ IF back = 0 THEN nextBlock' = Monus(poll.latest, Window) /\ floor' = nextBlock'
                       ELSE nextBlock' = back /\ floor' = floor
       /\ poll' \in [latest : Nat, from : Nat, to : Nat]
       /\ poll'.latest = poll.latest /\ poll'.from = Least(nextBlock', poll.latest)
       /\ poll'.to = Least(poll'.from + Window - 1, poll.latest)
       /\ UNCHANGED <<file, writing, saves, flushing>> /\ StoreTypeOK'
       /\ WellKept(Stored)' /\ Low(chain, buckets')
       /\ Near(chain, rolled.buckets) => Near(chain, buckets')
       /\ Known(rolled) \subseteq seenKeys' \union pushedOut'
       /\ nextBlock' \in Nat /\ floor' \in Nat
  BY <1>1, <1>2, <1>5, <1>6, <1>8, <1>9, ScanIs
<1> USE DEF chainVars
<1>11. IndexerTypeOK'
  BY <1>1, <1>3, <1>10 DEF IndexerTypeOK
<1>12. MemoryInv'
  BY <1>1, <1>4, <1>10 DEF MemoryInv
<1>13. NearInv'
  BY <1>1, <1>3, <1>4, <1>9, <1>10 DEF NearInv
<1>14. CursorInv'
  <2>1. Deep(Head1)' = Deep(Head1) /\ Deep(poll.latest)' = Deep(poll.latest)
    BY <1>4, <1>10 DEF Deep
  <2>2. back = 0 => nextBlock' <= Deep(poll.latest) /\ nextBlock' <= Deep(Head1)
    BY <1>4, <1>5, <1>10 DEF Deep, Monus
  <2>3. nextBlock' <= Deep(poll.latest) /\ nextBlock' <= Deep(Head1)
    BY <2>2, <1>6, <1>10
  <2> QED
    BY <2>1, <2>3, <1>1, <1>3, <1>4, <1>5, <1>10 DEF CursorInv
<1>15. ChainInv'
  BY <1>1, <1>3, <1>4 DEF ChainInv
<1>16. CoverInv'
  <2>1. ASSUME deep' = "noticed" PROVE (MemoryHas(nextBlock))'
    <3>1. CASE back = 0
      BY <3>1, <1>4, <1>10, NothingCovered DEF MemoryHas
    <3>2. CASE back # 0
      <4>1. MemoryHas(back) /\ Near(chain, buckets)
        BY <2>1, <1>1, <1>3 DEF CoverInv, NearInv, back, checkBlock
      <4>2. ASSUME NEW n \in 1..Len(chain), floor <= n, n < back, NEW l \in chain[n].logs
            PROVE  l \in Known(rolled)
        <5>1. l \in seenKeys \/ l \in pushedOut
          BY <4>1, <4>2 DEF MemoryHas, Covered
        <5>2. CASE l \in seenKeys
          <6>1. PICK e \in Held(buckets) : e.key = l
            BY <5>2, <1>7, KeysAre DEF WellKept, Placed
          <6>2. e.blockNumber < checkBlock
            <7>1. e.blockNumber <= n \/ e.blockNumber < n + 2 * SafeDepth
              BY <4>1, <4>2, <6>1 DEF Near
            <7>2. e.blockNumber \in Nat /\ n \in Nat
              <8>1. buckets \in [Kinds -> Seq(Event)]
                BY <1>7 DEF WellKept, Placed
              <8>2. e \in Event
                BY <8>1, <6>1, KeysAre
              <8> QED
                BY <8>2 DEF Event
            <7>3. n + 2 * SafeDepth < checkBlock /\ n < checkBlock
              BY <7>2, <4>2, <1>6
            <7> QED
              BY <7>1, <7>2, <7>3, <1>5
          <6>3. e \in Held(rolled.buckets)
            BY <6>1, <6>2, <1>8
          <6>4. l \in KeysOf(rolled.buckets)
            BY <6>1, <6>3, <1>8, KeysAre DEF WellKept, Placed
          <6> QED
            BY <6>4, <1>8 DEF WellKept, Known
        <5>3. CASE l \in pushedOut
          BY <5>3, <1>8 DEF Known
        <5> QED
          BY <5>1, <5>2, <5>3
      <4>3. Covered(chain, floor, Known(rolled), back)
        BY <4>2 DEF Covered
      <4> QED
        BY <4>3, <3>2, <1>4, <1>5, <1>6, <1>10, CoveredMore DEF MemoryHas
    <3> QED
      BY <3>1, <3>2
  <2>2. Settled' = nextBlock'
    BY <1>1 DEF Settled
  <2> QED
    BY <2>1, <2>2, <1>3 DEF CoverInv, MemoryHas, Good
<1>17. FileInv'
  BY <1>1, <1>3 DEF FileInv
<1> QED
  BY <1>11, <1>12, <1>13, <1>14, <1>15, <1>16, <1>17 DEF IndexerInv

\* What a delivery leaves of the invariant of the memory and of its nearness.
LEMMA DeliveryIs ==
    ASSUME IndexerInv, pc = "logs", NEW unread \in Nat,
           NEW store, store = Deliver(poll.from, poll.to, unread)
    PROVE  /\ WellKept(store) /\ Low(chain, store.buckets)
           /\ Near(chain, buckets) => Near(chain, store.buckets)
           /\ seenKeys \union pushedOut \subseteq Known(store)
           /\ pushedOut \subseteq store.pushedOut
           /\ \A n \in 1..poll.to : poll.from <= n /\ n # unread => chain[n].logs \subseteq Known(store)
<1>1. /\ IndexerTypeOK /\ MemoryInv /\ CursorInv /\ ChainInv
  BY DEF IndexerInv
<1>2. /\ poll.to \in 0..Head1 /\ poll.from \in Nat /\ Head1 \in Nat /\ chain \in Seq(Blocks)
  BY <1>1, SettledIs DEF IndexerTypeOK
<1>3. Delivered(poll.from, poll.to, unread, store)
  BY <1>1, <1>2, DeliverHolds DEF MemoryInv
<1>4. \A n \in 1..poll.to : n \in 1..Head1 /\ n \in Nat
  BY <1>2
<1>5. \A e \in Held(store.buckets) :
         e \in Held(buckets) \/ \E n \in 1..Head1 : e.blockNumber = n /\ e.key \in chain[n].logs
  BY <1>3, <1>4 DEF Delivered, ReadAt
<1>6. Low(chain, store.buckets)
  BY <1>1, <1>2, <1>5 DEF MemoryInv, Low, Head1
<1>7. ASSUME Near(chain, buckets) PROVE Near(chain, store.buckets)
  <2>1. ASSUME NEW e \in Held(store.buckets), NEW n \in 1..Len(chain), e.key \in chain[n].logs
        PROVE  e.blockNumber <= n \/ e.blockNumber < n + 2 * SafeDepth
    <3>1. CASE e \in Held(buckets)
      BY <3>1, <2>1, <1>7 DEF Near
    <3>2. CASE \E m \in 1..Head1 : e.blockNumber = m /\ e.key \in chain[m].logs
      BY <3>2, <2>1, <1>1, <1>2 DEF ChainInv, Head1
    <3> QED
      BY <3>1, <3>2, <1>5
  <2> QED
    BY <2>1 DEF Near
<1> QED
  BY <1>3, <1>6, <1>7 DEF Delivered, Known, Stored

\* More keys, or more that was pushed out, miss nothing that was there.
LEMMA MoreKept ==
    ASSUME IndexerTypeOK, UNCHANGED chain, UNCHANGED floor,
           seenKeys \union pushedOut \subseteq seenKeys' \union pushedOut',
           pushedOut \subseteq pushedOut', UNCHANGED <<file, writing, written>>
    PROVE  \A to \in Nat :
              /\ MemoryHas(to) => (MemoryHas(to))'
              /\ FileHas(to) => (FileHas(to))'
              /\ SnapshotHas(to) => (SnapshotHas(to))'
<1>1. chain \in Seq(Blocks) /\ floor \in Nat
  BY DEF IndexerTypeOK
<1>2. \A ids : ids \union pushedOut \subseteq ids \union pushedOut'
  OBVIOUS
<1>3. \A to \in Nat : MemoryHas(to) => (MemoryHas(to))'
  BY <1>1, CoveredMore DEF MemoryHas
<1>4. \A to \in Nat : FileHas(to) => (FileHas(to))'
  BY <1>1, <1>2, CoveredMore DEF FileHas
<1>5. \A to \in Nat : SnapshotHas(to) => (SnapshotHas(to))'
  BY <1>1, <1>2, CoveredMore DEF SnapshotHas
<1> QED
  BY <1>3, <1>4, <1>5

\* A window is read and all of its events are delivered.
LEMMA PollLogsKeeps ==
    ASSUME IndexerInv, PollLogs
    PROVE  IndexerInv'
<1> DEFINE store == Deliver(poll.from, poll.to, 0)
<1>1. /\ IndexerTypeOK /\ MemoryInv /\ NearInv /\ CursorInv /\ ChainInv /\ CoverInv /\ FileInv
      /\ pc = "logs" /\ pc' = "flush" /\ Put(store) /\ Flush
      /\ UNCHANGED <<chainVars, nextBlock, lastBlockHash, poll, checkpoint, floor, deep, written,
                     failures>>
  BY DEF IndexerInv, PollLogs
<1>2. /\ WellKept(store) /\ Low(chain, store.buckets)
      /\ Near(chain, buckets) => Near(chain, store.buckets)
      /\ seenKeys \union pushedOut \subseteq Known(store)
      /\ pushedOut \subseteq store.pushedOut
      /\ \A n \in 1..poll.to : poll.from <= n /\ n # 0 => chain[n].logs \subseteq Known(store)
  BY <1>1, DeliveryIs
<1> HIDE DEF store
<1>3. /\ Stored' = store /\ buckets' = store.buckets /\ pushedOut' = store.pushedOut
      /\ seenKeys' \union pushedOut' = Known(store)
  BY <1>1, <1>2, PutIs DEF Put
<1>4. /\ debounce' = FALSE /\ saves' = saves + 1 /\ flushing' = saves + 1
      /\ UNCHANGED <<file, writing>>
  BY <1>1 DEF Flush, EnqueuePersist
<1>5. /\ chain' = chain /\ Head1' = Head1 /\ Head1 \in Nat /\ chain \in Seq(Blocks)
  BY <1>1, ChainStays
<1>6. /\ poll.to \in 0..Head1 /\ Monus(poll.to, SafeDepth) + 1 \in Nat
      /\ nextBlock <= Monus(poll.to, SafeDepth) + 1 \/ Jumped
      /\ poll.from <= nextBlock /\ Monus(poll.to, SafeDepth) + 1 <= poll.to + 1
  BY <1>1, SettledIs
<1>7. /\ nextBlock \in Nat /\ floor \in Nat /\ checkpoint \in Nat /\ saves \in Nat /\ poll.from \in Nat
      /\ writing # << >> => saves > 0
  BY <1>1 DEF IndexerTypeOK, StoreTypeOK
<1> USE DEF chainVars
<1>8. IndexerTypeOK'
  <2>1. WellKept(Stored)'
    BY <1>2, <1>3
  <2>2. Stored' \in Store /\ Placed(buckets')
    BY <2>1 DEF WellKept, Stored
  <2>3. /\ buckets' \in [Kinds -> Seq(Event)] /\ seenKeys' \in SUBSET Keys /\ pushedOut' \in SUBSET Keys
        /\ \A k \in Kinds : Len(buckets'[k]) <= Cap
    BY <2>2 DEF Stored, Store, Placed, IsBucket
  <2>4. StoreTypeOK'
    <3>1. saves' \in Nat /\ flushing' \in 0..saves' /\ saves' > 0
      BY <1>4, <1>7
    <3>2. file' \in [Kinds -> Seq(Event)] /\ debounce' \in BOOLEAN
      BY <1>1, <1>4 DEF IndexerTypeOK, StoreTypeOK
    <3>3. writing' = << >> \/ (Len(writing') = 1 /\ writing'[1] \in [Kinds -> Seq(Event)])
      BY <1>1, <1>4 DEF IndexerTypeOK, StoreTypeOK
    <3> QED
      BY <2>3, <3>1, <3>2, <3>3 DEF StoreTypeOK
  <2> QED
    BY <2>4, <1>1 DEF IndexerTypeOK
<1>9. MemoryInv'
  BY <1>1, <1>2, <1>3, <1>4 DEF MemoryInv
<1>10. NearInv'
  BY <1>1, <1>2, <1>3, <1>4 DEF NearInv
<1>11. CursorInv'
  BY <1>1, <1>5 DEF CursorInv, Jumped, Deep
<1>12. ChainInv'
  BY <1>1, <1>5 DEF ChainInv
<1>13. \A to \in Nat :
          /\ MemoryHas(to) => (MemoryHas(to))'
          /\ FileHas(to) => (FileHas(to))'
          /\ SnapshotHas(to) => (SnapshotHas(to))'
  BY <1>1, <1>2, <1>3, <1>4, MoreKept
<1>14. CoverInv'
  <2>1. deep # "open"
    BY <1>1 DEF ChainInv
  <2>2. Good => MemoryHas(nextBlock)
    BY <1>1 DEF CoverInv
  <2>3. Settled' = Monus(poll.to, SafeDepth) + 1
    BY <1>1 DEF Settled
  <2>4. ASSUME Good PROVE (MemoryHas(Settled))'
    <3>1. (MemoryHas(nextBlock))'
      BY <2>2, <2>4, <1>1, <1>7, <1>13
    <3>2. ASSUME NEW n \in 1..Len(chain), floor <= n, n < Monus(poll.to, SafeDepth) + 1
          PROVE  chain[n].logs \subseteq seenKeys' \union pushedOut'
      <4>1. CASE n < nextBlock
        BY <4>1, <3>1, <3>2, <1>1 DEF MemoryHas, Covered
      <4>2. CASE n >= nextBlock
        <5>1. n \in Nat /\ n # 0 /\ n \in 1..poll.to /\ poll.from <= n
          BY <4>2, <3>2, <1>5, <1>6, <1>7 DEF Head1
        <5> QED
          BY <5>1, <1>2, <1>3
      <4> QED
        BY <4>1, <4>2, <1>5, <1>7
    <3> QED
      BY <3>2, <2>3, <1>1 DEF MemoryHas, Covered
  <2>5. Good => (MemoryHas(nextBlock))'
    BY <2>2, <1>1, <1>7, <1>13
  <2> QED
    BY <2>1, <2>4, <2>5, <1>1 DEF CoverInv, Good
<1>15. FileInv'
  <2>1. deep' = "none" => (FileHas(checkpoint))' /\ (SnapshotHas(checkpoint))'
    BY <1>1, <1>7, <1>13 DEF FileInv
  <2>2. ~(flushing' = 0)
    BY <1>4, <1>7
  <2>3. flushing' <= 1 => (SnapshotHas(Settled))'
    <3>1. flushing' <= 1 => writing' = << >>
      BY <1>4, <1>7
    <3> QED
      BY <3>1 DEF SnapshotHas
  <2> QED
    BY <2>1, <2>2, <2>3, <1>1 DEF FileInv
<1> QED
  BY <1>8, <1>9, <1>10, <1>11, <1>12, <1>14, <1>15 DEF IndexerInv

\* A delivery fails: events before it stay, and the window is read again.
LEMMA DeliveryFailsKeeps ==
    ASSUME IndexerInv, DeliveryFails
    PROVE  IndexerInv'
<1>1. PICK unread \in poll.from..poll.to :
         unread > 0 /\ PutDebounced(Deliver(poll.from, poll.to, unread))
  BY DEF DeliveryFails
<1> DEFINE store == Deliver(poll.from, poll.to, unread)
<1>2. /\ IndexerTypeOK /\ MemoryInv /\ NearInv /\ CursorInv /\ ChainInv /\ CoverInv /\ FileInv
      /\ pc = "logs" /\ pc' = "idle" /\ poll' = NoPoll /\ Failure
      /\ UNCHANGED <<chainVars, nextBlock, lastBlockHash, checkpoint, floor, deep, written>>
  BY DEF IndexerInv, DeliveryFails
<1>3. unread \in Nat
  BY <1>1, <1>2 DEF IndexerTypeOK
<1>4. /\ WellKept(store) /\ Low(chain, store.buckets)
      /\ Near(chain, buckets) => Near(chain, store.buckets)
      /\ seenKeys \union pushedOut \subseteq Known(store)
      /\ pushedOut \subseteq store.pushedOut
  BY <1>2, <1>3, DeliveryIs
<1>5. PutDebounced(store)
  BY <1>1
<1> HIDE DEF store
<1>6. /\ Stored' = store /\ buckets' = store.buckets /\ pushedOut' = store.pushedOut
      /\ seenKeys' \union pushedOut' = Known(store)
      /\ UNCHANGED <<file, writing, saves, flushing>> /\ StoreTypeOK'
  BY <1>2, <1>4, <1>5, DebouncedIs DEF IndexerTypeOK
<1>7. /\ chain' = chain /\ Head1' = Head1
  BY <1>2, ChainStays
<1> USE DEF chainVars
<1>8. IndexerTypeOK'
  <2>1. failures' \in 0..MaxFailures
    BY <1>2, IndexerAssumption DEF IndexerTypeOK, Failure
  <2> QED
    BY <2>1, <1>2, <1>6 DEF IndexerTypeOK, NoPoll
<1>9. MemoryInv'
  BY <1>2, <1>4, <1>6 DEF MemoryInv
<1>10. NearInv'
  BY <1>2, <1>4, <1>6 DEF NearInv
<1>11. CursorInv'
  BY <1>2, <1>7 DEF CursorInv, Jumped, Deep
<1>12. ChainInv'
  BY <1>2, <1>7 DEF ChainInv, Hash
<1>13. \A to \in Nat :
          /\ MemoryHas(to) => (MemoryHas(to))'
          /\ FileHas(to) => (FileHas(to))'
          /\ SnapshotHas(to) => (SnapshotHas(to))'
  BY <1>2, <1>4, <1>6, MoreKept
<1>14. /\ nextBlock \in Nat /\ checkpoint \in Nat /\ deep # "open"
  BY <1>2 DEF IndexerTypeOK, ChainInv
<1>15. CoverInv'
  <2>1. Good => MemoryHas(nextBlock)
    BY <1>2 DEF CoverInv
  <2>2. Settled' = nextBlock'
    BY <1>2 DEF Settled
  <2>3. Good => (MemoryHas(nextBlock))'
    BY <2>1, <1>2, <1>13, <1>14
  <2> QED
    BY <2>2, <2>3, <1>2, <1>14 DEF CoverInv, MemoryHas, Good
<1>16. FileInv'
  BY <1>2, <1>13, <1>14 DEF FileInv
<1> QED
  BY <1>8, <1>9, <1>10, <1>11, <1>12, <1>15, <1>16 DEF IndexerInv

\* A call to the node fails: the poll gives up where it is.
LEMMA PollFailsKeeps ==
    ASSUME IndexerInv, PollFails
    PROVE  IndexerInv'
<1>1. /\ IndexerTypeOK /\ MemoryInv /\ NearInv /\ CursorInv /\ ChainInv /\ CoverInv /\ FileInv
      /\ pc \in {"idle", "logs"} /\ pc' = "idle" /\ poll' = NoPoll /\ Failure
      /\ UNCHANGED <<storeVars, chainVars, nextBlock, lastBlockHash, checkpoint, floor, deep, written>>
  BY DEF IndexerInv, PollFails
<1> USE DEF chainVars, storeVars, memoryVars, persistVars
<1>2. IndexerTypeOK'
  <2>1. failures' \in 0..MaxFailures
    BY <1>1, IndexerAssumption DEF IndexerTypeOK, Failure
  <2> QED
    BY <2>1, <1>1 DEF IndexerTypeOK, StoreTypeOK, NoPoll
<1>3. MemoryInv' /\ NearInv'
  BY <1>1 DEF MemoryInv, NearInv, Stored
<1>4. CursorInv'
  BY <1>1 DEF CursorInv, Jumped, Deep, Head1
<1>5. ChainInv'
  BY <1>1 DEF ChainInv, Hash, Head1
<1>6. CoverInv'
  BY <1>1 DEF CoverInv, MemoryHas, Settled, Good
<1>7. FileInv'
  BY <1>1 DEF FileInv, FileHas, SnapshotHas, Good
<1> QED
  BY <1>2, <1>3, <1>4, <1>5, <1>6, <1>7 DEF IndexerInv

\* The flush is over: the cursor moves to the settled part of the window.
LEMMA AdvanceKeeps ==
    ASSUME IndexerInv, Advance
    PROVE  IndexerInv'
<1>1. /\ IndexerTypeOK /\ MemoryInv /\ NearInv /\ CursorInv /\ ChainInv /\ CoverInv /\ FileInv
      /\ pc = "flush" /\ flushing = 0 /\ nextBlock' = Settled /\ pc' = "hash"
      /\ UNCHANGED <<storeVars, chainVars, lastBlockHash, poll, checkpoint, floor, deep, written,
                     failures>>
  BY DEF IndexerInv, Advance, Settled
<1>2. /\ Settled \in Nat /\ Settled <= Deep(Head1) /\ Settled # 0 /\ (nextBlock <= Settled \/ Jumped)
  <2>1. Monus(poll.to, SafeDepth) \in Nat
    BY <1>1, IndexerAssumption DEF IndexerTypeOK, Monus
  <2> QED
    BY <2>1, <1>1, SettledIs DEF Settled
<1>3. nextBlock \in Nat /\ checkpoint \in Nat /\ Settled' = nextBlock'
  BY <1>1 DEF IndexerTypeOK, Settled
<1> USE DEF chainVars, storeVars, memoryVars, persistVars
<1>4. IndexerTypeOK'
  BY <1>1, <1>2 DEF IndexerTypeOK, StoreTypeOK
<1>5. MemoryInv' /\ NearInv'
  BY <1>1 DEF MemoryInv, NearInv, Stored
<1>6. CursorInv'
  <2>1. Deep(Head1)' = Deep(Head1)
    BY <1>1 DEF Deep, Head1
  <2>2. deep = "none" => checkpoint <= Settled
    BY <1>1, <1>2, <1>3 DEF CursorInv, Jumped
  <2> QED
    BY <2>1, <2>2, <1>1, <1>2 DEF CursorInv, Head1, Deep
<1>7. ChainInv'
  BY <1>1 DEF ChainInv, Hash, Head1
<1>8. CoverInv'
  <2>1. Good => MemoryHas(Settled)
    BY <1>1 DEF CoverInv
  <2>2. deep # "open"
    BY <1>1 DEF ChainInv
  <2> QED
    BY <2>1, <2>2, <1>1, <1>3 DEF CoverInv, MemoryHas, Good
<1>9. FileInv'
  <2>1. Good => FileHas(Settled) /\ SnapshotHas(Settled)
    BY <1>1 DEF FileInv
  <2> QED
    BY <2>1, <1>1 DEF FileInv, FileHas, SnapshotHas, Good
<1> QED
  BY <1>4, <1>5, <1>6, <1>7, <1>8, <1>9 DEF IndexerInv

\* The hash below the new cursor is read and remembered.
LEMMA ReadHashKeeps ==
    ASSUME IndexerInv, ReadHash
    PROVE  IndexerInv'
<1>1. /\ IndexerTypeOK /\ MemoryInv /\ NearInv /\ CursorInv /\ ChainInv /\ CoverInv /\ FileInv
      /\ pc = "hash" /\ pc' = "save"
      /\ UNCHANGED <<storeVars, chainVars, nextBlock, poll, checkpoint, floor, deep, written>>
  BY DEF IndexerInv, ReadHash
<1>2. chain \in Seq(Blocks) /\ DOMAIN chain = 1..Head1 /\ nextBlock \in Nat /\ fork \in Nat
  BY <1>1, LenProperties DEF IndexerTypeOK, Head1
<1>3. /\ failures' \in 0..MaxFailures
      /\ \/ lastBlockHash' = 0
         \/ nextBlock - 1 \in 1..Head1 /\ lastBlockHash' = Hash(nextBlock - 1)
  <2>1. failures \in 0..MaxFailures /\ MaxFailures \in Nat
    BY <1>1, IndexerAssumption DEF IndexerTypeOK
  <2> QED
    BY <2>1, <1>2 DEF ReadHash, Failure
<1>4. lastBlockHash' \in Nat /\ lastBlockHash' <= fork + 1
  <2>1. CASE lastBlockHash' = 0
    BY <2>1, <1>2
  <2>2. CASE nextBlock - 1 \in 1..Head1 /\ lastBlockHash' = Hash(nextBlock - 1)
    <3>1. chain[nextBlock - 1].fork \in Nat /\ chain[nextBlock - 1].fork <= fork
      BY <2>2, <1>1, <1>2, BlockIs DEF ChainInv
    <3> QED
      BY <3>1, <2>2, <1>2 DEF Hash
  <2> QED
    BY <2>1, <2>2, <1>3
<1> USE DEF chainVars, storeVars, memoryVars, persistVars
<1>5. IndexerTypeOK'
  BY <1>1, <1>3, <1>4 DEF IndexerTypeOK, StoreTypeOK
<1>6. MemoryInv' /\ NearInv'
  BY <1>1 DEF MemoryInv, NearInv, Stored
<1>7. CursorInv'
  BY <1>1 DEF CursorInv, Deep, Head1
<1>8. ChainInv'
  BY <1>1, <1>3, <1>4 DEF ChainInv, Hash, Head1
<1>9. CoverInv'
  BY <1>1 DEF CoverInv, MemoryHas, Settled, Good, ChainInv
<1>10. FileInv'
  BY <1>1 DEF FileInv, FileHas, SnapshotHas, Good
<1> QED
  BY <1>5, <1>6, <1>7, <1>8, <1>9, <1>10 DEF IndexerInv

\* The checkpoint is written: what it covers is on the file.
LEMMA SaveCheckpointKeeps ==
    ASSUME IndexerInv, SaveCheckpoint
    PROVE  IndexerInv'
<1>1. /\ IndexerTypeOK /\ MemoryInv /\ NearInv /\ CursorInv /\ ChainInv /\ CoverInv /\ FileInv
      /\ pc = "save" /\ pc' = "idle" /\ poll' = NoPoll
      /\ UNCHANGED <<storeVars, chainVars, nextBlock, lastBlockHash, floor, written>>
  BY DEF IndexerInv, SaveCheckpoint
<1>2. \/ /\ checkpoint' = nextBlock /\ deep' = IF deep = "noticed" THEN "none" ELSE deep
         /\ UNCHANGED failures
      \/ Failure /\ UNCHANGED <<checkpoint, deep>>
  BY DEF SaveCheckpoint
<1>3. /\ failures' \in 0..MaxFailures /\ nextBlock \in Nat /\ checkpoint \in Nat
      /\ deep' \in {"none", "open", "noticed", "missed"} /\ deep # "open"
      /\ deep' = deep \/ (Good /\ deep' = "none")
      /\ \/ checkpoint' = nextBlock
         \/ checkpoint' = checkpoint /\ deep' = deep
  BY <1>1, <1>2, IndexerAssumption DEF IndexerTypeOK, Failure, ChainInv, Good
<1> USE DEF chainVars, storeVars, memoryVars, persistVars
<1>4. IndexerTypeOK'
  BY <1>1, <1>3 DEF IndexerTypeOK, StoreTypeOK, NoPoll
<1>5. MemoryInv' /\ NearInv'
  BY <1>1, <1>3 DEF MemoryInv, NearInv, Stored, Good
<1>6. CursorInv'
  BY <1>1, <1>3 DEF CursorInv, Deep, Head1
<1>7. ChainInv'
  BY <1>1, <1>3 DEF ChainInv, Hash, Head1, Good
<1>8. CoverInv'
  BY <1>1, <1>3 DEF CoverInv, MemoryHas, Settled, Good
<1>9. FileInv'
  <2>1. Good => FileHas(nextBlock) /\ SnapshotHas(nextBlock)
    BY <1>1 DEF FileInv
  <2>2. deep = "none" => FileHas(checkpoint) /\ SnapshotHas(checkpoint)
    BY <1>1 DEF FileInv
  <2> QED
    BY <2>1, <2>2, <1>1, <1>3 DEF FileInv, FileHas, SnapshotHas, Good
<1> QED
  BY <1>4, <1>5, <1>6, <1>7, <1>8, <1>9 DEF IndexerInv

-----------------------------------------------------------------------------
(* The rest of the process.                                                 *)

LEMMA AppendForeignKeeps ==
    ASSUME IndexerInv, NEW l \in Foreign, AppendForeign(l)
    PROVE  IndexerInv'
<1> DEFINE event == [key |-> l, blockNumber |-> 0]
           store == Append1(Stored, event)
<1>1. /\ IndexerTypeOK /\ MemoryInv /\ NearInv /\ CursorInv /\ ChainInv /\ CoverInv /\ FileInv
      /\ PutDebounced(store)
      /\ UNCHANGED <<chainVars, watcherVars, floor, deep, written, failures>>
  BY DEF IndexerInv, AppendForeign
<1>2. /\ chain \in Seq(Blocks) /\ Head1 \in Nat /\ chain' = chain /\ Head1' = Head1
  BY <1>1, ChainStays
<1>3. l \in Keys
  BY IndexerAssumption DEF Keys
<1>4. event \in Event /\ event.blockNumber <= Head1 /\ \A n \in 1..Head1 : event.key \notin chain[n].logs
  BY <1>2, <1>3, BlockIs DEF Event
<1> HIDE DEF event
<1>5. /\ WellKept(Stored) /\ Low(chain, Stored.buckets) /\ Stored.buckets = buckets
      /\ Known(Stored) = seenKeys \union pushedOut /\ Stored.pushedOut = pushedOut
  BY <1>1 DEF MemoryInv, Stored, Known
<1>6. /\ WellKept(store) /\ Low(chain, store.buckets)
      /\ Near(chain, buckets) => Near(chain, store.buckets)
      /\ seenKeys \union pushedOut \subseteq Known(store) /\ pushedOut \subseteq store.pushedOut
  BY <1>1, <1>4, <1>5, AppendOffChain
<1> HIDE DEF store
<1>7. /\ Stored' = store /\ buckets' = store.buckets /\ pushedOut' = store.pushedOut
      /\ seenKeys' \union pushedOut' = Known(store)
      /\ UNCHANGED <<file, writing, saves, flushing>> /\ StoreTypeOK'
  BY <1>1, <1>6, DebouncedIs DEF IndexerTypeOK
<1> USE DEF chainVars, watcherVars
<1>8. IndexerTypeOK'
  BY <1>1, <1>7 DEF IndexerTypeOK
<1>9. MemoryInv'
  BY <1>1, <1>6, <1>7 DEF MemoryInv
<1>10. NearInv'
  BY <1>1, <1>6, <1>7 DEF NearInv
<1>11. CursorInv'
  BY <1>1, <1>2 DEF CursorInv, Jumped, Deep
<1>12. ChainInv'
  BY <1>1, <1>2 DEF ChainInv, Hash
<1>13. \A to \in Nat :
          /\ MemoryHas(to) => (MemoryHas(to))'
          /\ FileHas(to) => (FileHas(to))'
          /\ SnapshotHas(to) => (SnapshotHas(to))'
  BY <1>1, <1>6, <1>7, MoreKept
<1>14. /\ nextBlock \in Nat /\ checkpoint \in Nat /\ Settled \in Nat /\ Settled' = Settled
       /\ lastBlockHash # 0 /\ pc # "hash" => nextBlock - 1 \in 1..Head1
  BY <1>1, SettledIs DEF IndexerTypeOK, ChainInv, Settled
<1>15. CoverInv'
  <2> DEFINE back == Monus(nextBlock - 1, 2 * SafeDepth)
  <2>1. deep = "open" => back \in Nat
    <3>1. deep = "open" => nextBlock - 1 \in Nat
      BY <1>1, <1>14, <1>2 DEF ChainInv
    <3> QED
      BY <3>1, IndexerAssumption DEF Monus
  <2>2. back' = back
    BY <1>1 DEF Monus
  <2> HIDE DEF back
  <2>3. deep = "open" => MemoryHas(back)
    BY <1>1 DEF CoverInv, back
  <2>4. deep = "open" => (MemoryHas(back))'
    BY <2>1, <2>2, <2>3, <1>13 DEF MemoryHas
  <2>5. Good => (MemoryHas(nextBlock))' /\ (MemoryHas(Settled))'
    BY <1>1, <1>13, <1>14 DEF CoverInv
  <2> QED
    BY <2>4, <2>5, <1>1 DEF CoverInv, Good, back
<1>16. FileInv'
  BY <1>1, <1>7, <1>13, <1>14 DEF FileInv, Good
<1> QED
  BY <1>8, <1>9, <1>10, <1>11, <1>12, <1>15, <1>16 DEF IndexerInv

\* The timer of the debounced save fires.
LEMMA TimerKeeps ==
    ASSUME IndexerInv, Timer
    PROVE  IndexerInv'
<1>1. /\ IndexerTypeOK /\ MemoryInv /\ NearInv /\ CursorInv /\ ChainInv /\ CoverInv /\ FileInv
      /\ debounce' = FALSE /\ saves' = saves + 1
      /\ UNCHANGED <<memoryVars, file, writing, flushing>>
      /\ UNCHANGED <<chainVars, watcherVars, floor, deep, written, failures>>
  BY DEF IndexerInv, Timer, PersistDebounced, EnqueuePersist
<1> USE DEF chainVars, watcherVars, memoryVars
<1>2. IndexerTypeOK'
  <2>1. saves' \in Nat /\ flushing' \in 0..saves' /\ (writing # << >> => saves' > 0)
    BY <1>1 DEF IndexerTypeOK, StoreTypeOK
  <2> QED
    BY <2>1, <1>1 DEF IndexerTypeOK, StoreTypeOK
<1>3. MemoryInv' /\ NearInv'
  BY <1>1 DEF MemoryInv, NearInv, Stored
<1>4. CursorInv' /\ ChainInv'
  BY <1>1 DEF CursorInv, ChainInv, Jumped, Deep, Head1, Hash
<1>5. CoverInv' /\ FileInv'
  BY <1>1 DEF CoverInv, FileInv, MemoryHas, FileHas, SnapshotHas, Settled, Good
<1> QED
  BY <1>2, <1>3, <1>4, <1>5 DEF IndexerInv

\* A snapshot has what the memory has, and the memory has all that the checkpoint says.
LEMMA SaveBucketsKeeps ==
    ASSUME IndexerInv, Save, SaveBuckets, UNCHANGED <<written, failures>>
    PROVE  IndexerInv'
<1>1. /\ IndexerTypeOK /\ MemoryInv /\ NearInv /\ CursorInv /\ ChainInv /\ CoverInv /\ FileInv
      /\ saves > 0 /\ writing' = <<buckets>>
      /\ UNCHANGED <<memoryVars, file, debounce, saves, flushing>>
      /\ UNCHANGED <<chainVars, watcherVars, floor, deep, written, failures>>
  BY DEF IndexerInv, Save, SaveBuckets
<1>2. writing' # << >> /\ Len(writing') = 1 /\ writing'[1] = buckets
  BY <1>1
<1> USE DEF chainVars, watcherVars, memoryVars
<1>3. IndexerTypeOK'
  BY <1>1, <1>2 DEF IndexerTypeOK, StoreTypeOK
<1>4. Placed(buckets) /\ seenKeys = KeysOf(buckets)
  BY <1>1 DEF MemoryInv, WellKept, Stored
<1>5. MemoryInv' /\ NearInv'
  BY <1>1, <1>2, <1>4 DEF MemoryInv, NearInv, Stored
<1>6. CursorInv' /\ ChainInv'
  BY <1>1 DEF CursorInv, ChainInv, Jumped, Deep, Head1, Hash
<1>7. CoverInv'
  BY <1>1 DEF CoverInv, MemoryHas, Settled, Good
<1>8. ASSUME NEW to \in Nat, MemoryHas(to)
      PROVE  Covered(chain, floor, KeysOf(buckets) \union pushedOut, to)
  BY <1>4, <1>8 DEF MemoryHas
<1>9. /\ Settled \in Nat /\ nextBlock \in Nat /\ checkpoint \in Nat /\ floor \in Nat
      /\ chain \in Seq(Blocks)
  BY <1>1, SettledIs DEF IndexerTypeOK
<1>10. Good => /\ Covered(chain, floor, KeysOf(buckets) \union pushedOut, nextBlock)
               /\ Covered(chain, floor, KeysOf(buckets) \union pushedOut, Settled)
  BY <1>1, <1>8, <1>9 DEF CoverInv
<1>11. deep = "none" => Covered(chain, floor, KeysOf(buckets) \union pushedOut, checkpoint)
  <2>1. deep = "none" => checkpoint <= nextBlock /\ Good
    BY <1>1 DEF CursorInv, Good
  <2> QED
    BY <2>1, <1>9, <1>10, CoveredMore
<1>12. FileInv'
  <2>1. deep = "none" => (FileHas(checkpoint))' /\ (SnapshotHas(checkpoint))'
    BY <1>1, <1>2, <1>11 DEF FileInv, FileHas, SnapshotHas
  <2>2. Good /\ pc = "flush" =>
          /\ flushing = 0 => (FileHas(Settled))'
          /\ flushing <= 1 => (SnapshotHas(Settled))'
    BY <1>1, <1>2, <1>10 DEF FileInv, FileHas, SnapshotHas, Settled
  <2>3. Good /\ pc \in {"hash", "save"} => (FileHas(nextBlock))' /\ (SnapshotHas(nextBlock))'
    BY <1>1, <1>2, <1>10 DEF FileInv, FileHas, SnapshotHas
  <2> QED
    BY <2>1, <2>2, <2>3, <1>1 DEF FileInv, Good
<1> QED
  BY <1>3, <1>5, <1>6, <1>7, <1>12 DEF IndexerInv

\* A save reaches the file, or is refused.
LEMMA WriteFileKeeps ==
    ASSUME IndexerInv, NEW fails \in BOOLEAN, WriteFile(fails),
           written' = ~fails, UNCHANGED failures \/ Failure,
           UNCHANGED <<chainVars, watcherVars, floor, deep>>
    PROVE  IndexerInv'
<1>1. /\ IndexerTypeOK /\ MemoryInv /\ NearInv /\ CursorInv /\ ChainInv /\ CoverInv /\ FileInv
      /\ writing # << >> /\ writing' = << >> /\ file' = (IF fails THEN file ELSE writing[1])
      /\ saves' = saves - 1 /\ flushing' = (IF flushing = 0 THEN 0 ELSE flushing - 1)
      /\ UNCHANGED <<memoryVars, debounce>>
      /\ UNCHANGED <<chainVars, watcherVars, floor, deep>>
  BY DEF IndexerInv, WriteFile
<1> USE DEF chainVars, watcherVars, memoryVars
<1>2. IndexerTypeOK'
  <2>1. saves \in Nat /\ flushing \in 0..saves /\ saves > 0
    BY <1>1 DEF IndexerTypeOK, StoreTypeOK
  <2>2. saves' \in Nat /\ flushing' \in 0..saves'
    BY <2>1, <1>1
  <2>3. failures' \in 0..MaxFailures
    BY <1>1, IndexerAssumption DEF IndexerTypeOK, Failure
  <2>4. file' \in [Kinds -> Seq(Event)]
    BY <1>1 DEF IndexerTypeOK, StoreTypeOK
  <2>5. StoreTypeOK'
    BY <2>2, <2>4, <1>1 DEF IndexerTypeOK, StoreTypeOK
  <2>6. written' \in BOOLEAN
    OBVIOUS
  <2> QED
    BY <2>3, <2>5, <2>6, <1>1 DEF IndexerTypeOK
<1>3. MemoryInv' /\ NearInv'
  BY <1>1 DEF MemoryInv, NearInv, Stored
<1>4. CursorInv' /\ ChainInv'
  BY <1>1 DEF CursorInv, ChainInv, Jumped, Deep, Head1, Hash
<1>5. CoverInv'
  BY <1>1 DEF CoverInv, MemoryHas, Settled, Good
<1>6. \A to \in Nat : (SnapshotHas(to))' /\ (SnapshotHas(to) => (FileHas(to))')
  BY <1>1 DEF SnapshotHas, FileHas
<1>7. /\ Settled \in Nat /\ nextBlock \in Nat /\ checkpoint \in Nat /\ Settled' = Settled
      /\ flushing \in Nat
  BY <1>1, SettledIs DEF IndexerTypeOK, StoreTypeOK, Settled
<1>8. FileInv'
  <2>1. flushing' = 0 => flushing <= 1
    BY <1>1, <1>7
  <2>2. Good /\ pc = "flush" /\ flushing' = 0 => (FileHas(Settled))'
    BY <2>1, <1>1, <1>6, <1>7 DEF FileInv
  <2> QED
    BY <2>2, <1>1, <1>6, <1>7 DEF FileInv, Good
<1> QED
  BY <1>2, <1>3, <1>4, <1>5, <1>8 DEF IndexerInv

\* The new process has the file, which has what the checkpoint says.
LEMMA CrashKeeps ==
    ASSUME IndexerInv, Crash
    PROVE  IndexerInv'
<1>1. PICK saved \in {checkpoint, 0} : Recover(saved)
  BY DEF Crash
<1>2. /\ IndexerTypeOK /\ MemoryInv /\ NearInv /\ CursorInv /\ ChainInv /\ CoverInv /\ FileInv
      /\ Failure
      /\ buckets' = file /\ seenKeys' = KeysOf(file) /\ debounce' = FALSE
      /\ writing' = << >> /\ saves' = 0 /\ flushing' = 0 /\ file' = file /\ pushedOut' = pushedOut
      /\ nextBlock' = (IF saved # 0 THEN saved ELSE StartBlock)
      /\ checkpoint' = saved /\ lastBlockHash' = 0 /\ pc' = "idle" /\ poll' = NoPoll
      /\ deep' = (IF deep = "none" /\ written THEN "none" ELSE "missed")
      /\ written' = TRUE
      /\ floor' = (IF saved # 0 THEN floor ELSE StartBlock)
      /\ UNCHANGED chainVars
  BY <1>1 DEF IndexerInv, Crash, Recover, Load
<1>3. /\ checkpoint \in Nat /\ saved \in Nat /\ StartBlock \in Nat /\ floor \in Nat /\ Head1 \in Nat
      /\ chain \in Seq(Blocks) /\ checkpoint <= Deep(Head1) /\ Deep(Head1) \in Nat
  BY <1>2, IndexerAssumption, LenProperties DEF IndexerTypeOK, CursorInv, Head1, Deep, Monus
<1> USE DEF chainVars
<1>4. Placed(file) /\ KeysOf(file) \subseteq Keys /\ pushedOut \subseteq Keys
  BY <1>2, KeysAre DEF MemoryInv, Placed, IndexerTypeOK, StoreTypeOK
<1>5. IndexerTypeOK'
  <2>1. StoreTypeOK'
    <3>1. file \in [Kinds -> Seq(Event)] /\ \A k \in Kinds : Len(file[k]) <= Cap
      BY <1>4 DEF Placed, IsBucket
    <3>2. saves' \in Nat /\ flushing' \in 0..saves'
      BY <1>2
    <3>3. seenKeys' \in SUBSET Keys /\ pushedOut' \in SUBSET Keys
      BY <1>2, <1>4
    <3> QED
      BY <3>1, <3>2, <3>3, <1>2 DEF StoreTypeOK
  <2>2. failures' \in 0..MaxFailures
    BY <1>2, IndexerAssumption DEF IndexerTypeOK, Failure
  <2> QED
    BY <2>1, <2>2, <1>2, <1>3 DEF IndexerTypeOK, NoPoll
<1>6. WellKept(Stored)'
  BY <1>2, <1>4 DEF WellKept, Stored, Store, Placed
<1>7. MemoryInv'
  BY <1>2, <1>6 DEF MemoryInv
<1>8. NearInv'
  BY <1>2 DEF NearInv
<1>9. CursorInv'
  <2>1. Deep(Head1)' = Deep(Head1)
    BY <1>2 DEF Deep, Head1
  <2>2. CASE saved # 0
    BY <2>1, <2>2, <1>2, <1>3 DEF CursorInv
  <2>3. CASE saved = 0
    BY <2>1, <2>3, <1>2, <1>3 DEF CursorInv, Jumped
  <2> QED
    BY <2>2, <2>3
<1>10. ChainInv'
  BY <1>2, <1>3 DEF ChainInv, Head1, IndexerTypeOK
<1>11. Settled' = nextBlock'
  BY <1>2 DEF Settled
<1>12. ASSUME deep = "none", written
       PROVE  /\ Covered(chain, floor', KeysOf(file) \union pushedOut, nextBlock')
              /\ Covered(chain, floor', KeysOf(file) \union pushedOut, checkpoint')
  <2>1. CASE saved # 0
    BY <2>1, <1>2, <1>12 DEF FileInv, FileHas
  <2>2. CASE saved = 0
    BY <2>2, <1>2, <1>3, NothingCovered
  <2> QED
    BY <2>1, <2>2
<1>13. CoverInv'
  BY <1>2, <1>11, <1>12 DEF CoverInv, MemoryHas, Good
<1>14. FileInv'
  BY <1>2, <1>12 DEF FileInv, FileHas, SnapshotHas
<1> QED
  BY <1>5, <1>7, <1>8, <1>9, <1>10, <1>13, <1>14 DEF IndexerInv

\* A process that starts on an empty store.
LEMMA IndexerInvInit ==
    ASSUME IndexerInit
    PROVE  IndexerInv
<1>1. /\ buckets = NoBuckets /\ seenKeys = {} /\ pushedOut = {} /\ file = NoBuckets
      /\ debounce = FALSE /\ writing = << >> /\ saves = 0 /\ flushing = 0
      /\ chain = << >> /\ fork = 0
      /\ nextBlock = StartBlock /\ lastBlockHash = 0
      /\ pc = "idle" /\ poll = NoPoll /\ checkpoint = 0
      /\ floor = StartBlock /\ deep = "none" /\ written = TRUE /\ failures = 0
  BY DEF IndexerInit, StoreInit
<1>2. << >> \in Seq(Event) /\ << >> \in Seq(Blocks) /\ Len(<< >>) = 0 /\ Head1 = 0
  BY <1>1, EmptySeq DEF Head1
<1>3. /\ StartBlock \in Nat /\ SafeDepth \in Nat /\ MaxFailures \in Nat /\ Cap \in Nat
  BY IndexerAssumption, StoreAssumption
<1>4. NoBuckets \in [Kinds -> Seq(Event)] /\ \A k \in Kinds : NoBuckets[k] = << >>
  BY <1>2 DEF NoBuckets
<1>5. KeysOf(NoBuckets) = {} /\ Held(NoBuckets) = {}
  <2>1. \A k \in Kinds : ~ \E i \in 1..Len(NoBuckets[k]) : TRUE
    BY <1>2, <1>4
  <2>2. \A e \in Held(NoBuckets) : FALSE
    BY <2>1, <1>4, KeysAre
  <2>3. \A x \in KeysOf(NoBuckets) : FALSE
    BY <2>1, <1>4, KeysAre
  <2> QED
    BY <2>2, <2>3
<1>6. Placed(NoBuckets)
  BY <1>2, <1>3, <1>4 DEF Placed, IsBucket
<1>7. IndexerTypeOK
  <2>1. \A k \in Kinds : Len(buckets[k]) <= Cap
    BY <1>1, <1>2, <1>3, <1>4
  <2>2. StoreTypeOK
    <3>1. /\ seenKeys \in SUBSET Keys /\ pushedOut \in SUBSET Keys /\ saves \in Nat
          /\ flushing \in 0..saves /\ (writing # << >> => saves > 0)
      BY <1>1
    <3> QED
      BY <2>1, <3>1, <1>1, <1>4 DEF StoreTypeOK
  <2>3. poll \in [latest : Nat, from : Nat, to : Nat] /\ failures \in 0..MaxFailures
    BY <1>1, <1>3 DEF NoPoll
  <2> QED
    BY <2>2, <2>3, <1>1, <1>2, <1>3 DEF IndexerTypeOK
<1>8. MemoryInv /\ NearInv
  BY <1>1, <1>4, <1>5, <1>6 DEF MemoryInv, NearInv, WellKept, Stored, Store, Low, Near
<1>9. CursorInv
  BY <1>1, <1>2, <1>3 DEF CursorInv, Jumped, Deep, Monus
<1>10. ChainInv
  BY <1>1, <1>2 DEF ChainInv
<1>11. CoverInv /\ FileInv
  BY <1>1, <1>2 DEF CoverInv, FileInv, MemoryHas, FileHas, SnapshotHas, Covered, Head1
<1> QED
  BY <1>7, <1>8, <1>9, <1>10, <1>11 DEF IndexerInv

\* Every step of the pipeline keeps the invariant.
LEMMA IndexerInvNext ==
    ASSUME IndexerInv, [IndexerNext]_indexerVars
    PROVE  IndexerInv'
<1>1. CASE MineBlock
  BY <1>1, MineKeeps
<1>2. CASE Reorg
  BY <1>2, ReorgKeeps
<1>3. CASE Poll
  BY <1>3, ReadHeadKeeps, HashPassesKeeps, HashFailsKeeps, PollLogsKeeps, AdvanceKeeps,
     ReadHashKeeps, SaveCheckpointKeeps DEF Poll
<1>4. CASE DeliveryFails
  BY <1>4, DeliveryFailsKeeps
<1>5. CASE PollFails
  BY <1>5, PollFailsKeeps
<1>6. CASE \E l \in Foreign : AppendForeign(l)
  BY <1>6, AppendForeignKeeps
<1>7. CASE Timer
  BY <1>7, TimerKeeps
<1>8. CASE Save
  <2>1. CASE SaveBuckets /\ UNCHANGED <<written, failures>>
    BY <1>8, <2>1, SaveBucketsKeeps
  <2>2. CASE WriteFile(FALSE) /\ written' = TRUE /\ UNCHANGED failures
    BY <1>8, <2>2, WriteFileKeeps DEF Save
  <2>3. CASE WriteFile(TRUE) /\ written' = FALSE /\ Failure
    BY <1>8, <2>3, WriteFileKeeps DEF Save
  <2> QED
    BY <1>8, <2>1, <2>2, <2>3 DEF Save
<1>9. CASE Crash
  BY <1>9, CrashKeeps
<1>10. CASE UNCHANGED indexerVars
  <2> USE DEF indexerVars, chainVars, watcherVars, storeVars, memoryVars, persistVars
  <2>1. /\ IndexerTypeOK /\ MemoryInv /\ NearInv /\ CursorInv /\ ChainInv /\ CoverInv /\ FileInv
    BY DEF IndexerInv
  <2>2. IndexerTypeOK'
    BY <2>1, <1>10 DEF IndexerTypeOK, StoreTypeOK
  <2>3. MemoryInv' /\ NearInv'
    BY <2>1, <1>10 DEF MemoryInv, NearInv, Stored
  <2>4. CursorInv' /\ ChainInv'
    BY <2>1, <1>10 DEF CursorInv, ChainInv, Jumped, Deep, Head1, Hash
  <2>5. CoverInv' /\ FileInv'
    BY <2>1, <1>10 DEF CoverInv, FileInv, MemoryHas, FileHas, SnapshotHas, Settled, Good
  <2> QED
    BY <2>2, <2>3, <2>4, <2>5 DEF IndexerInv
<1> QED
  BY <1>1, <1>2, <1>3, <1>4, <1>5, <1>6, <1>7, <1>8, <1>9, <1>10 DEF IndexerNext

\* The invariant of the event pipeline, for every run.
LEMMA IndexerInvHolds == IndexerSpec => []IndexerInv
<1>1. IndexerInit => IndexerInv
  BY IndexerInvInit
<1>2. IndexerInv /\ [IndexerNext]_indexerVars => IndexerInv'
  BY IndexerInvNext
<1> QED
  BY <1>1, <1>2, PTL DEF IndexerSpec

\* The types of the cursor, of what a tick remembers over its awaits, of the chain and of
\* the store, whose buckets never grow over their limit.
THEOREM IndexerTypeCorrect == IndexerSpec => []IndexerTypeOK
<1>1. IndexerInv => IndexerTypeOK
  BY DEF IndexerInv
<1> QED
  BY <1>1, IndexerInvHolds, PTL

\* The store holds no event twice, and the keys it deduplicates by are the keys of what it
\* holds, through evictions, roll-backs, deliveries that fail half-way and restarts.
THEOREM SeenKeysAreStored == IndexerSpec => []SeenIsStored
<1>1. IndexerInv => SeenIsStored
  <2>1. SUFFICES ASSUME IndexerInv PROVE SeenIsStored
    OBVIOUS
  <2>2. Placed(buckets) /\ seenKeys = KeysOf(buckets)
    BY <2>1 DEF IndexerInv, MemoryInv, WellKept, Stored
  <2>3. \A k \in Kinds : DOMAIN buckets[k] = 1..Len(buckets[k])
    BY <2>2, KeysAre DEF Placed
  <2> QED
    BY <2>2, <2>3 DEF SeenIsStored, Placed, IsBucket
<1> QED
  BY <1>1, IndexerInvHolds, PTL

\* Coverage, block by block as the properties say it.
LEMMA CoveredIs ==
    ASSUME IndexerTypeOK, NEW ids, NEW to, Covered(chain, floor, ids, to)
    PROVE  \A n \in DOMAIN chain : floor <= n /\ n < to => \A l \in chain[n].logs : l \in ids
<1>1. DOMAIN chain = 1..Len(chain)
  BY LenProperties DEF IndexerTypeOK
<1> QED
  BY <1>1 DEF Covered

\* No event below the cursor is missing from the store: not by windows read again, not by
\* reorganisations that the hash gives away, failed deliveries, lost checkpoints, restarts
\* or saves that overlap, for every window, safe depth and bucket size.
THEOREM NothingIsSkipped == IndexerSpec => []NoGap
<1>1. IndexerInv => NoGap
  <2>1. SUFFICES ASSUME IndexerInv, Good
                 PROVE  \A n \in DOMAIN chain : floor <= n /\ n < nextBlock =>
                           \A l \in chain[n].logs : InStore(l)
    BY DEF NoGap, Good
  <2>2. IndexerTypeOK /\ MemoryHas(nextBlock)
    BY <2>1 DEF IndexerInv, CoverInv
  <2> QED
    BY <2>2, CoveredIs DEF MemoryHas, InStore
<1> QED
  BY <1>1, IndexerInvHolds, PTL

\* As long as the last save reached the disk, a kill skips nothing: whatever the
\* checkpoint says was read is in the file.
THEOREM CheckpointIsCovered == IndexerSpec => []CheckpointCovered
<1>1. IndexerInv => CheckpointCovered
  <2>1. SUFFICES ASSUME IndexerInv, written, deep = "none"
                 PROVE  \A n \in DOMAIN chain : floor <= n /\ n < checkpoint =>
                           \A l \in chain[n].logs : OnFile(l)
    BY DEF CheckpointCovered, KillSkipsNothing
  <2>2. IndexerTypeOK /\ FileHas(checkpoint)
    BY <2>1 DEF IndexerInv, FileInv
  <2> QED
    BY <2>1, <2>2, CoveredIs DEF FileHas, OnFile
<1> QED
  BY <1>1, IndexerInvHolds, PTL
=============================================================================
