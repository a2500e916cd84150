--------------------------- MODULE SearchTreeProofs ---------------------------
(***************************************************************************)
(* Proofs about SearchTree, for every number of threads, moves and locks:  *)
(* each virtual loss is taken back by the playout that added it, a search  *)
(* does few more playouts than it was allowed, nobody replaces the root's  *)
(* nnOutput while others are below it, and the visits of a node are its    *)
(* own and those of its children.                                          *)
(***************************************************************************)
EXTENDS SearchTree, FiniteSetTheorems, SequenceTheorems, TLAPS

USE SearchTreeAssumption

--------------------------------------------------------------------------------
\* Nodes are sequences of moves.

LEMMA NodeIsSeq ==
  ASSUME NEW n \in Nodes
  PROVE  n \in Seq(Moves) /\ Len(n) \in Nat /\ Len(n) <= MaxMoves
<1>1. PICK k \in 0 .. MaxMoves : n \in [1 .. k -> Moves]
  BY DEF Nodes
<1>2. k \in Nat
  OBVIOUS
<1>3. n \in Seq(Moves)
  BY <1>1, <1>2, SeqDef
<1>4. Len(n) \in Nat /\ DOMAIN n = 1 .. Len(n)
  BY <1>3, LenProperties
<1>5. Len(n) = k
  BY <1>1, <1>2, <1>4
<1> QED
  BY <1>3, <1>4, <1>5

LEMMA SeqIsNode ==
  ASSUME NEW s \in Seq(Moves), Len(s) <= MaxMoves
  PROVE  s \in Nodes
<1>1. Len(s) \in 0 .. MaxMoves /\ s \in [1 .. Len(s) -> Moves]
  BY LenProperties
<1> QED
  BY <1>1 DEF Nodes

LEMMA RootIsNode == <<>> \in Nodes
<1>1. <<>> \in Seq(Moves) /\ Len(<<>>) = 0
  BY EmptySeq
<1>2. Len(<<>>) <= MaxMoves
  BY <1>1
<1> HIDE SearchTreeAssumption
<1> QED
  BY <1>1, <1>2, SeqIsNode

LEMMA SameNode ==
  ASSUME NEW n \in Nodes, NEW c \in Nodes, Len(n) = Len(c), \A i \in 1 .. Len(n) : n[i] = c[i]
  PROVE  n = c
<1>1. n \in Seq(Moves) /\ c \in Seq(Moves)
  BY NodeIsSeq
<1> QED
  BY <1>1, SeqEqual

LEMMA PrefixEntries ==
  ASSUME NEW n \in Nodes, NEW c \in Nodes
  PROVE  IsPrefix(n, c) <=> Len(n) <= Len(c) /\ \A i \in 1 .. Len(n) : n[i] = c[i]
<1>1. /\ n \in Seq(Moves) /\ c \in Seq(Moves) /\ Len(n) \in Nat /\ Len(c) \in Nat
      /\ (\A i \in 1 .. Len(n) : n[i] \in Moves) /\ \A i \in 1 .. Len(c) : c[i] \in Moves
  BY NodeIsSeq, LenProperties
<1>2. ASSUME Len(n) <= Len(c)
      PROVE  SubSeq(n, 1, Len(n)) = SubSeq(c, 1, Len(n)) <=> \A i \in 1 .. Len(n) : n[i] = c[i]
  <2> DEFINE s == SubSeq(n, 1, Len(n))
             u == SubSeq(c, 1, Len(n))
  <2>1. s \in Seq(Moves) /\ Len(s) = Len(n) /\ \A i \in 1 .. Len(n) : s[i] = n[i]
    BY <1>1, SubSeqProperties
  <2>2. u \in Seq(Moves) /\ Len(u) = Len(n) /\ \A i \in 1 .. Len(n) : u[i] = c[i]
    BY <1>1, <1>2, SubSeqProperties
  <2>3. s = u <=> \A i \in 1 .. Len(n) : s[i] = u[i]
    BY <2>1, <2>2, SeqEqual
  <2> QED
    BY <2>1, <2>2, <2>3
<1> QED
  BY <1>2 DEF IsPrefix

LEMMA PrefixOrder ==
  ASSUME NEW a \in Nodes, NEW b \in Nodes, NEW c \in Nodes
  PROVE  /\ IsPrefix(a, a)
         /\ IsPrefix(a, b) /\ IsPrefix(b, c) => IsPrefix(a, c)
         /\ IsPrefix(a, b) /\ IsPrefix(b, a) => a = b
<1>1. Len(a) \in Nat /\ Len(b) \in Nat /\ Len(c) \in Nat
  BY NodeIsSeq
<1>2. IsPrefix(a, a)
  BY <1>1, PrefixEntries
<1>3. ASSUME IsPrefix(a, b), IsPrefix(b, c) PROVE IsPrefix(a, c)
  <2>1. Len(a) <= Len(b) /\ Len(b) <= Len(c)
    BY <1>3, PrefixEntries
  <2>2. \A i \in 1 .. Len(a) : a[i] = b[i]
    BY <1>3, PrefixEntries
  <2>3. \A i \in 1 .. Len(b) : b[i] = c[i]
    BY <1>3, PrefixEntries
  <2>4. \A i \in 1 .. Len(a) : a[i] = c[i]
    BY <1>1, <2>1, <2>2, <2>3
  <2> QED
    BY <1>1, <2>1, <2>4, PrefixEntries
<1>4. ASSUME IsPrefix(a, b), IsPrefix(b, a) PROVE a = b
  <2>1. Len(a) = Len(b) /\ \A i \in 1 .. Len(a) : a[i] = b[i]
    BY <1>1, <1>4, PrefixEntries
  <2> QED
    BY <2>1, SameNode
<1> QED
  BY <1>2, <1>3, <1>4

\* The node that playoutDescend returns to.
LEMMA ParentOf ==
  ASSUME NEW c \in Nodes, Len(c) # 0
  PROVE  /\ Front(c) \in Nodes /\ Len(Front(c)) = Len(c) - 1
         /\ \A i \in 1 .. Len(c) - 1 : Front(c)[i] = c[i]
<1>1. c \in Seq(Moves) /\ Len(c) \in Nat /\ Len(c) <= MaxMoves /\ \A i \in 1 .. Len(c) : c[i] \in Moves
  BY NodeIsSeq, LenProperties
<1> DEFINE f == SubSeq(c, 1, Len(c) - 1)
<1>2. /\ f \in Seq(Moves)
      /\ Len(f) = Len(c) - 1
      /\ \A i \in 1 .. Len(c) - 1 : f[i] = c[i]
  <2>1. 1 \in Int /\ Len(c) - 1 \in Int /\ \A i \in 1 .. Len(c) - 1 : c[i] \in Moves
    BY <1>1
  <2>2. /\ f \in Seq(Moves) /\ Len(f) = IF 1 <= Len(c) - 1 THEN Len(c) - 1 - 1 + 1 ELSE 0
        /\ \A i \in 1 .. Len(c) - 1 - 1 + 1 : f[i] = c[1 + i - 1]
    BY <2>1, SubSeqProperties
  <2> HIDE DEF f
  <2>3. Len(f) = Len(c) - 1
    <3>1. PICK k \in Nat : k = Len(c)
      BY <1>1
    <3>2. CASE k = 1
      BY <2>2, <3>1, <3>2
    <3>3. CASE k # 1
      BY <2>2, <3>1, <3>3
    <3> QED
      BY <3>2, <3>3
  <2>4. \A i \in 1 .. Len(c) - 1 : i \in 1 .. Len(c) - 1 - 1 + 1 /\ 1 + i - 1 = i
    BY <1>1
  <2> QED
    BY <2>2, <2>3, <2>4
<1> HIDE DEF f
<1>3. Len(f) <= MaxMoves
  BY <1>1, <1>2
<1>4. f \in Nodes
  BY <1>2, <1>3, SeqIsNode
<1> QED
  BY <1>2, <1>4 DEF Front, f

\* The ancestors of a node are its own and those of its parent.
LEMMA PrefixOfParent ==
  ASSUME NEW n \in Nodes, NEW c \in Nodes, n # c
  PROVE  IsPrefix(n, c) <=> Len(c) # 0 /\ IsPrefix(n, Front(c))
<1>1. Len(n) \in Nat /\ Len(c) \in Nat
  BY NodeIsSeq
<1>2. ASSUME IsPrefix(n, c) PROVE Len(c) # 0 /\ IsPrefix(n, Front(c))
  <2>1. Len(n) <= Len(c) /\ \A i \in 1 .. Len(n) : n[i] = c[i]
    BY <1>2, PrefixEntries
  <2>2. Len(n) # Len(c)
    BY <2>1, SameNode
  <2>3. Len(c) # 0 /\ Len(n) <= Len(c) - 1
    BY <1>1, <2>1, <2>2
  <2>4. Front(c) \in Nodes /\ Len(Front(c)) = Len(c) - 1
        /\ \A i \in 1 .. Len(c) - 1 : Front(c)[i] = c[i]
    BY <2>3, ParentOf
  <2>5. \A i \in 1 .. Len(n) : n[i] = Front(c)[i]
    BY <1>1, <2>1, <2>3, <2>4
  <2> QED
    BY <2>3, <2>4, <2>5, PrefixEntries
<1>3. ASSUME Len(c) # 0, IsPrefix(n, Front(c)) PROVE IsPrefix(n, c)
  <2>1. Front(c) \in Nodes /\ Len(Front(c)) = Len(c) - 1
        /\ \A i \in 1 .. Len(c) - 1 : Front(c)[i] = c[i]
    BY <1>3, ParentOf
  <2>2. Len(n) <= Len(c) - 1 /\ \A i \in 1 .. Len(n) : n[i] = Front(c)[i]
    BY <1>3, <2>1, PrefixEntries
  <2>3. Len(n) <= Len(c) /\ \A i \in 1 .. Len(n) : n[i] = c[i]
    BY <1>1, <2>1, <2>2
  <2> QED
    BY <2>3, PrefixEntries
<1> QED
  BY <1>2, <1>3

LEMMA ChildOf ==
  ASSUME NEW n \in Nodes, ~IsFinished(n), NEW c \in Children(n)
  PROVE  /\ c \in Nodes /\ Len(c) # 0 /\ Front(c) = n /\ c # n
         /\ IsPrefix(n, c) /\ ~IsPrefix(c, n)
<1>1. PICK m \in Moves : c = Append(n, m)
  BY DEF Children
<1>2. n \in Seq(Moves) /\ Len(n) \in Nat /\ Len(n) <= MaxMoves
  BY NodeIsSeq
<1>3. c \in Seq(Moves) /\ Len(c) = Len(n) + 1 /\ \A i \in 1 .. Len(n) : c[i] = n[i]
  BY <1>1, <1>2, AppendProperties
<1>4. Len(c) <= MaxMoves
  BY <1>2, <1>3 DEF IsFinished
<1>5. c \in Nodes /\ Len(c) # 0
  BY <1>2, <1>3, <1>4, SeqIsNode
<1>6. Front(c) \in Nodes /\ Len(Front(c)) = Len(c) - 1 /\ \A i \in 1 .. Len(c) - 1 : Front(c)[i] = c[i]
  BY <1>5, ParentOf
<1>7. Len(Front(c)) = Len(n) /\ \A i \in 1 .. Len(Front(c)) : Front(c)[i] = n[i]
  BY <1>2, <1>3, <1>6
<1>8. Front(c) = n
  BY <1>6, <1>7, SameNode
<1>9. ~IsPrefix(c, n)
  BY <1>2, <1>3, <1>5, PrefixEntries
<1>10. IsPrefix(n, c)
  BY <1>2, <1>3, <1>5, PrefixEntries
<1> QED
  BY <1>3, <1>2, <1>5, <1>8, <1>9, <1>10

--------------------------------------------------------------------------------
\* The invariant.

InPlayout == {"entering", "locking", "locked", "returning"}

\* The nodes whose virtual losses the playouts count, whether they exist or not.
Inside(n) == n # rootNode /\ IsPrefix(rootNode, n)

TreeInv ==
  /\ phase = "searching" => rootNode \in tree
  /\ \A c \in tree : IsPrefix(rootNode, c) /\ (c # rootNode => Front(c) \in tree)

ThreadInv ==
  /\ phase = "idle" => \A t \in Threads : at[t] = "stopped"
  /\ \A t \in Threads : at[t] \in InPlayout => node[t] \in tree
  /\ \A t \in Threads : at[t] \in {"locking", "locked"} => ~IsFinished(node[t])

LossInv == \A n \in Nodes : virtualLosses[n] =
  IF Inside(n) THEN numVirtualLossesPerThread * Cardinality(Below(n)) ELSE 0

\* Until the root's nnOutput is of this search, no thread has gone past the root.
RootInv ==
  ~rootIsCurrent => \A t \in Threads : at[t] \in InPlayout => node[t] = rootNode /\ at[t] # "returning"

\* The threads that may begin another playout.
Free == {t \in Threads : numPlayouts[t] < maxPlayouts}

BoundInv ==
  /\ \A t \in Threads : at[t] \in InPlayout \cup {"counting"} => t \in Free
  /\ IF maxPlayouts = 0 THEN numPlayoutsShared = 0
     ELSE numPlayoutsShared + Cardinality(Free) < maxPlayouts + Cardinality(Threads)

IInv == TypeOK /\ TreeInv /\ ThreadInv /\ LossInv /\ RootInv /\ BoundInv
          /\ RootVisitsCountPlayouts

--------------------------------------------------------------------------------
\* What the steps have in common.

LEMMA BelowIsFinite ==
  ASSUME NEW n
  PROVE  IsFiniteSet(Below(n)) /\ Cardinality(Below(n)) \in Nat
<1>1. Below(n) \in SUBSET Threads /\ IsFiniteSet(Threads)
  BY DEF Below
<1> QED
  BY <1>1, FS_Subset, FS_CardinalityType

LEMMA Times ==
  ASSUME NEW v \in Nat, NEW k \in Nat
  PROVE  /\ v * k \in Nat /\ v * 0 = 0
         /\ v * (k + 1) = v * k + v
OBVIOUS

\* No playout is under way between two searches, nor any virtual loss left.
LEMMA NoPlayout ==
  ASSUME IInv, \A t \in Threads : at[t] \notin InPlayout
  PROVE  \A n \in Nodes : Below(n) = {} /\ virtualLosses[n] = 0
<1>1. \A n \in Nodes : Below(n) = {}
  BY DEF Below, InPlayout
<1>2. Cardinality({}) = 0
  BY FS_EmptySet
<1>3. numVirtualLossesPerThread * 0 = 0
  BY Times
<1> QED
  BY <1>1, <1>2, <1>3 DEF IInv, LossInv

\* Steps that move no thread into, within or out of the tree.
LEMMA LossesStay ==
  ASSUME IInv, UNCHANGED <<rootNode, virtualLosses>>,
         \A n \in Nodes : Inside(n) => Below(n)' = Below(n)
  PROVE  LossInv'
<1>1. \A n \in Nodes : Inside(n)' <=> Inside(n)
  BY DEF Inside
<1>2. SUFFICES ASSUME NEW n \in Nodes
               PROVE  virtualLosses[n] =
                        IF Inside(n) THEN numVirtualLossesPerThread * Cardinality(Below(n)') ELSE 0
  BY <1>1 DEF LossInv
<1> QED
  BY DEF IInv, LossInv

LEMMA NoLosses ==
  ASSUME \A n \in Nodes : virtualLosses'[n] = 0, \A t \in Threads : at'[t] \notin InPlayout
  PROVE  LossInv'
<1>1. \A n \in Nodes : Below(n)' = {}
  BY DEF Below, InPlayout
<1>2. Cardinality({}) = 0 /\ numVirtualLossesPerThread * 0 = 0
  BY FS_EmptySet, Times
<1> QED
  BY <1>1, <1>2 DEF LossInv

\* The end of a call of playoutDescend: the visit is counted and the losses that the
\* caller added are taken back, whatever made the call return.
LEMMA ReturnKeepsLosses ==
  ASSUME IInv, NEW t \in Threads, at[t] \in InPlayout, UNCHANGED <<rootNode, tree>>,
         AddVisit(node[t], LossesOf(node[t])), Return(t, node[t])
  PROVE  /\ LossInv'
         /\ visits' \in [Nodes -> Nat] /\ virtualLosses' \in [Nodes -> Nat]
<1> PICK n \in Nodes : n = node[t]
  BY DEF IInv, TypeOK
<1> DEFINE v == numVirtualLossesPerThread
<1>1. n \in Nodes /\ n \in tree /\ IsPrefix(rootNode, n) /\ rootNode \in Nodes
  BY DEF IInv, TypeOK, ThreadInv, TreeInv
<1>2. /\ virtualLosses \in [Nodes -> Nat] /\ visits \in [Nodes -> Nat]
      /\ virtualLosses' = [virtualLosses EXCEPT ![n] = @ - LossesOf(n)]
      /\ visits' = [visits EXCEPT ![n] = @ + 1]
  BY DEF IInv, TypeOK, AddVisit
<1>3. visits' \in [Nodes -> Nat]
  BY <1>1, <1>2
<1>4. \A c \in Nodes : Inside(c)' <=> Inside(c)
  BY DEF Inside
<1>5. t \in Below(n)
  BY <1>1, PrefixOrder DEF Below, InPlayout
<1>6. ASSUME NEW c \in Nodes, c # n, Inside(c)
      PROVE  Below(c)' = Below(c)
  <2>1. CASE n = rootNode
    <3>1. ~IsPrefix(c, n)
      BY <1>1, <1>6, <2>1, PrefixOrder DEF Inside
    <3>2. at' = [at EXCEPT ![t] = "counting"] /\ node' = [node EXCEPT ![t] = n]
      BY <2>1 DEF Return, GoTo
    <3> QED
      BY <3>1, <3>2 DEF Below, IInv, TypeOK
  <2>2. CASE n # rootNode
    <3>1. at' = [at EXCEPT ![t] = "returning"] /\ node' = [node EXCEPT ![t] = Front(n)]
      BY <2>2 DEF Return, GoTo
    <3>2. Len(n) # 0
      BY <1>1, <2>2, PrefixOfParent
    <3>3. IsPrefix(c, n) <=> IsPrefix(c, Front(n))
      BY <1>1, <1>6, <3>2, PrefixOfParent
    <3> QED
      BY <3>1, <3>3 DEF Below, InPlayout, IInv, TypeOK
  <2> QED
    BY <2>1, <2>2
<1>7. ASSUME Inside(n)
      PROVE  Below(n)' = Below(n) \ {t}
  <2>1. n # rootNode
    BY <1>7 DEF Inside
  <2>2. at' = [at EXCEPT ![t] = "returning"] /\ node' = [node EXCEPT ![t] = Front(n)]
    BY <2>1 DEF Return, GoTo
  <2>3. Len(n) # 0 /\ n # Front(n) /\ Front(n) \in Nodes
    <3>1. Len(n) # 0
      BY <1>1, <2>1, PrefixOfParent
    <3>2. Front(n) \in Nodes /\ Len(Front(n)) = Len(n) - 1
      BY <1>1, <3>1, ParentOf
    <3>3. PICK k \in Nat : k = Len(n)
      BY <1>1, NodeIsSeq
    <3> QED
      BY <3>1, <3>2, <3>3
  <2>4. ~IsPrefix(n, Front(n))
    <3>1. IsPrefix(Front(n), n)
      BY <1>1, <2>3, PrefixOrder, PrefixOfParent
    <3> QED
      BY <1>1, <2>3, <3>1, PrefixOrder
  <2>5. /\ \A u \in Threads : u # t => at'[u] = at[u] /\ node'[u] = node[u]
        /\ node'[t] = Front(n)
    BY <2>2 DEF IInv, TypeOK
  <2> QED
    BY <2>4, <2>5 DEF Below
<1>8. ASSUME NEW c \in Nodes
      PROVE  /\ virtualLosses'[c] = IF Inside(c) THEN v * Cardinality(Below(c)') ELSE 0
             /\ virtualLosses'[c] \in Nat
  <2>1. CASE c # n
    <3>1. virtualLosses'[c] = virtualLosses[c] /\ virtualLosses[c] \in Nat
      BY <1>2, <2>1
    <3>2. virtualLosses[c] = IF Inside(c) THEN v * Cardinality(Below(c)) ELSE 0
      BY DEF IInv, LossInv
    <3>3. CASE Inside(c)
      BY <1>6, <2>1, <3>1, <3>2, <3>3
    <3>4. CASE ~Inside(c)
      BY <3>1, <3>2, <3>4
    <3> QED
      BY <3>3, <3>4
  <2>2. CASE c = n /\ n = rootNode
    <3>1. ~Inside(n) /\ LossesOf(n) = 0
      BY <2>2 DEF Inside, LossesOf
    <3>2. virtualLosses[n] = 0
      BY <1>1, <3>1 DEF IInv, LossInv
    <3>3. virtualLosses'[n] = 0
      BY <1>1, <1>2, <3>1, <3>2
    <3> QED
      BY <2>2, <3>1, <3>3
  <2>3. CASE c = n /\ n # rootNode
    <3>1. Inside(n) /\ LossesOf(n) = v
      BY <1>1, <2>3 DEF Inside, LossesOf
    <3>2. virtualLosses[n] = v * Cardinality(Below(n))
      BY <1>1, <3>1 DEF IInv, LossInv
    <3>3. PICK k \in Nat : Cardinality(Below(n)') = k /\ Cardinality(Below(n)) = k + 1
      <4>1. Below(n)' = Below(n) \ {t} /\ IsFiniteSet(Below(n)) /\ Cardinality(Below(n)) \in Nat
        BY <1>7, <3>1, BelowIsFinite
      <4>2. IsFiniteSet(Below(n)') /\ Cardinality(Below(n)') = Cardinality(Below(n)) - 1
        BY <1>5, <4>1, FS_RemoveElement
      <4>3. Cardinality(Below(n)') \in Nat
        BY <4>2, FS_CardinalityType
      <4> QED
        BY <4>1, <4>2, <4>3
    <3>4. v \in Nat /\ v * k \in Nat /\ v * (k + 1) = v * k + v
      BY Times
    <3>5. virtualLosses'[n] = virtualLosses[n] - v
      BY <1>1, <1>2, <3>1
    <3>6. virtualLosses'[n] = v * k
      BY <3>2, <3>3, <3>4, <3>5
    <3>7. virtualLosses'[n] = v * Cardinality(Below(n)') /\ virtualLosses'[n] \in Nat
      BY <3>3, <3>4, <3>6
    <3> HIDE DEF v
    <3> QED
      BY <2>3, <3>1, <3>7
  <2> QED
    BY <2>1, <2>2, <2>3
<1>9. virtualLosses' \in [Nodes -> Nat]
  BY <1>2, <1>8
<1>10. LossInv'
  BY <1>4, <1>8 DEF LossInv
<1> QED
  BY <1>3, <1>9, <1>10

AtTypes ==
  /\ at \in [Threads -> {"starting", "head", "entering", "locking", "locked", "returning", "counting",
                         "stopped"}]
  /\ node \in [Threads -> Nodes]

\* The counts of the threads, which a step that moves one thread changes by one.
LEMMA Counting ==
  ASSUME NEW S \in SUBSET Threads, NEW t \in Threads
  PROVE  /\ IsFiniteSet(S) /\ Cardinality(S) \in Nat /\ Cardinality(S) <= Cardinality(Threads)
         /\ Cardinality(Threads) \in Nat
         /\ t \notin S => Cardinality(S \cup {t}) = Cardinality(S) + 1
         /\ t \in S => Cardinality(S \ {t}) = Cardinality(S) - 1
BY FS_Subset, FS_CardinalityType, FS_AddElement, FS_RemoveElement

CountingThreads == {t \in Threads : at[t] = "counting"}

LEMMA ReturnKeeps ==
  ASSUME IInv, NEW t \in Threads, at[t] \in InPlayout,
         UNCHANGED <<rootNode, tree, searchVars, numPlayoutsShared, numPlayouts>>,
         AddVisit(node[t], LossesOf(node[t])), Return(t, node[t]),
         rootIsCurrent => rootIsCurrent'
  PROVE  /\ TreeInv' /\ ThreadInv' /\ LossInv' /\ RootInv' /\ BoundInv' /\ RootVisitsCountPlayouts'
         /\ AtTypes'
         /\ visits' \in [Nodes -> Nat] /\ virtualLosses' \in [Nodes -> Nat]
<1> PICK n \in Nodes : n = node[t]
  BY DEF IInv, TypeOK
<1>1. /\ rootNode \in Nodes /\ n \in tree /\ IsPrefix(rootNode, n)
      /\ visits \in [Nodes -> Nat] /\ AtTypes
      /\ phase \in {"idle", "searching"}
      /\ visits' = [visits EXCEPT ![n] = @ + 1]
  BY DEF IInv, TypeOK, ThreadInv, TreeInv, AddVisit, AtTypes
<1>2. LossInv' /\ visits' \in [Nodes -> Nat] /\ virtualLosses' \in [Nodes -> Nat]
  BY ReturnKeepsLosses
<1>3. phase = "searching"
  BY <1>1 DEF IInv, ThreadInv, InPlayout
<1>4. TreeInv'
  BY DEF IInv, TreeInv, searchVars
<1>5. /\ \A u \in Threads : u # t => at'[u] = at[u] /\ node'[u] = node[u]
      /\ AtTypes'
      /\ \/ at'[t] = "counting" /\ node'[t] = n /\ n = rootNode
         \/ at'[t] = "returning" /\ node'[t] = Front(n) /\ n # rootNode /\ Front(n) \in tree
  <2>1. CASE n = rootNode
    <3>1. at' = [at EXCEPT ![t] = "counting"] /\ node' = [node EXCEPT ![t] = n]
      BY <2>1 DEF Return, GoTo
    <3> QED
      BY <1>1, <2>1, <3>1 DEF AtTypes
  <2>2. CASE n # rootNode
    <3>1. at' = [at EXCEPT ![t] = "returning"] /\ node' = [node EXCEPT ![t] = Front(n)]
      BY <2>2 DEF Return, GoTo
    <3>2. Front(n) \in tree /\ tree \subseteq Nodes
      BY <1>1, <2>2 DEF IInv, TreeInv, TypeOK
    <3> QED
      BY <1>1, <2>2, <3>1, <3>2 DEF AtTypes
  <2> QED
    BY <2>1, <2>2
<1>6. ThreadInv'
  BY <1>1, <1>3, <1>5 DEF IInv, ThreadInv, InPlayout, searchVars
<1>7. RootInv'
  BY <1>5 DEF IInv, RootInv, InPlayout
<1>8. BoundInv'
  <2>1. Free' = Free
    BY DEF Free
  <2>2. \A u \in Threads : at'[u] \in InPlayout \cup {"counting"} => at[u] \in InPlayout \cup {"counting"}
    BY <1>5
  <2> QED
    BY <2>1, <2>2 DEF IInv, BoundInv
<1>9. RootVisitsCountPlayouts'
  <2>1. SUFFICES ASSUME rootNode \notin SureWins
                 PROVE  visits'[rootNode] = numNonPlayoutVisits + numPlayoutsShared
                                              + Cardinality(CountingThreads')
    BY DEF RootVisitsCountPlayouts, CountingThreads, searchVars
  <2>2. visits[rootNode] = numNonPlayoutVisits + numPlayoutsShared + Cardinality(CountingThreads)
    BY <1>3, <2>1 DEF IInv, RootVisitsCountPlayouts, CountingThreads
  <2>3. t \notin CountingThreads /\ CountingThreads \in SUBSET Threads
    BY DEF CountingThreads, InPlayout
  <2>4. numNonPlayoutVisits \in Nat /\ numPlayoutsShared \in Nat
    BY DEF IInv, TypeOK
  <2>5. CASE n = rootNode
    <3>1. CountingThreads' = CountingThreads \cup {t}
      BY <1>5, <2>5 DEF CountingThreads
    <3>2. Cardinality(CountingThreads') = Cardinality(CountingThreads) + 1
          /\ Cardinality(CountingThreads) \in Nat
      BY <2>3, <3>1, Counting
    <3>3. visits'[rootNode] = visits[rootNode] + 1
      BY <1>1, <2>5
    <3> QED
      BY <2>2, <2>4, <3>2, <3>3
  <2>6. CASE n # rootNode
    <3>1. CountingThreads' = CountingThreads
      BY <1>5, <2>3, <2>6 DEF CountingThreads
    <3>2. visits'[rootNode] = visits[rootNode]
      BY <1>1, <2>6
    <3> QED
      BY <2>2, <3>1, <3>2
  <2> QED
    BY <2>5, <2>6
<1> QED
  BY <1>2, <1>4, <1>5, <1>6, <1>7, <1>8, <1>9

\* Steps that leave the tree and its stats alone.
LEMMA TreeStays ==
  ASSUME IInv, NEW t \in Threads, NEW where \in {"head", "stopped", "entering", "locking", "locked"},
         NEW n \in Nodes, GoTo(t, where, n),
         UNCHANGED <<rootNode, tree, statVars, nnVars, searchVars>>,
         \A c \in Nodes : Inside(c) => Below(c)' = Below(c),
         where \in InPlayout => n \in tree /\ phase = "searching"
                                  /\ ((at[t] \in InPlayout /\ n = node[t]) \/ n = rootNode),
         where \in {"locking", "locked"} => ~IsFinished(n),
         where # "stopped" => phase = "searching"
  PROVE  /\ TreeInv' /\ ThreadInv' /\ LossInv' /\ RootInv' /\ AtTypes'
         /\ \A u \in Threads : u # t => at'[u] = at[u] /\ node'[u] = node[u]
         /\ at'[t] = where /\ node'[t] = n
<1>1. /\ \A u \in Threads : u # t => at'[u] = at[u] /\ node'[u] = node[u]
      /\ at'[t] = where /\ node'[t] = n /\ AtTypes'
  BY DEF IInv, TypeOK, GoTo, AtTypes
<1>2. TreeInv'
  BY DEF IInv, TreeInv, searchVars
<1>3. LossInv'
  BY LossesStay DEF statVars
<1>4. ThreadInv'
  BY <1>1 DEF IInv, ThreadInv, TypeOK, searchVars
<1>5. RootInv'
  BY <1>1 DEF IInv, RootInv, InPlayout, nnVars
<1> QED
  BY <1>1, <1>2, <1>3, <1>4, <1>5

LEMMA CountStays ==
  ASSUME IInv, UNCHANGED <<rootNode, visits, searchVars, numPlayoutsShared>>,
         CountingThreads' = CountingThreads
  PROVE  RootVisitsCountPlayouts'
<1>1. visits'[rootNode'] = visits[rootNode]
  OBVIOUS
<1> QED
  BY <1>1 DEF IInv, RootVisitsCountPlayouts, CountingThreads, searchVars

LEMMA BoundStays ==
  ASSUME IInv, UNCHANGED <<numPlayouts, numPlayoutsShared>>,
         \A t \in Threads : at'[t] \in InPlayout \cup {"counting"} =>
           at[t] \in InPlayout \cup {"counting"} \/ t \in Free
  PROVE  BoundInv'
<1>1. Free' = Free
  BY DEF Free
<1> QED
  BY <1>1 DEF IInv, BoundInv

--------------------------------------------------------------------------------
\* Between two searches.

LEMMA CutKeepsLosses ==
  ASSUME IInv, phase = "idle", NEW S \in SUBSET tree, KeepNodes(S), UNCHANGED threadVars
  PROVE  /\ LossInv'
         /\ tree' = S /\ sureWin' \subseteq S /\ nnOutput' \subseteq S
         /\ visits' \in [Nodes -> Nat] /\ virtualLosses' \in [Nodes -> Nat]
<1>1. \A t \in Threads : at[t] \notin InPlayout /\ at'[t] = at[t]
  BY DEF IInv, ThreadInv, InPlayout, threadVars
<1>2. /\ visits' = [n \in Nodes |-> IF n \in S THEN visits[n] ELSE 0]
      /\ virtualLosses' = [n \in Nodes |-> IF n \in S THEN virtualLosses[n] ELSE 0]
      /\ tree' = S /\ sureWin' \subseteq S /\ nnOutput' \subseteq S
  BY DEF KeepNodes
<1>3. \A n \in Nodes : virtualLosses'[n] = 0
  BY <1>1, <1>2, NoPlayout
<1>4. visits' \in [Nodes -> Nat]
  BY <1>2 DEF IInv, TypeOK
<1>5. virtualLosses' \in [Nodes -> Nat]
  BY <1>2, <1>3
<1>6. LossInv'
  BY <1>1, <1>3, NoLosses
<1> QED
  BY <1>2, <1>4, <1>5, <1>6

LEMMA MakeMoveKeeps ==
  ASSUME IInv, NEW m \in Moves, MakeMove(m)
  PROVE  IInv'
<1> PICK child \in Children(rootNode) : child = Append(rootNode, m)
  BY DEF Children
<1> PICK S : S = IF ChildIsWorthKeeping(child) THEN Subtree(child) ELSE {}
  OBVIOUS
<1> USE DEF searchVars, threadVars
<1>1. /\ phase = "idle" /\ ~IsFinished(rootNode) /\ rootNode' = child /\ KeepNodes(S)
      /\ rootIsCurrent' = FALSE
      /\ UNCHANGED <<cached, searchVars, shouldStopNow, numPlayoutsShared, holder, threadVars>>
  BY DEF MakeMove
<1>2. rootNode \in Nodes /\ tree \subseteq Nodes /\ S \subseteq tree
  BY DEF IInv, TypeOK, Subtree
<1>3. child \in Nodes /\ ~IsPrefix(child, rootNode)
  BY <1>1, <1>2, ChildOf
<1>4. /\ LossInv' /\ tree' = S /\ sureWin' \subseteq S /\ nnOutput' \subseteq S
      /\ visits' \in [Nodes -> Nat] /\ virtualLosses' \in [Nodes -> Nat]
  BY <1>1, <1>2, CutKeepsLosses
<1>5. \A t \in Threads : at[t] = "stopped"
  BY <1>1 DEF IInv, ThreadInv
<1>6. TypeOK'
  BY <1>1, <1>2, <1>3, <1>4 DEF IInv, TypeOK
<1>7. TreeInv'
  <2>1. SUFFICES ASSUME NEW c \in S
                 PROVE  IsPrefix(child, c) /\ (c # child => Front(c) \in S)
    BY <1>1, <1>4 DEF TreeInv
  <2>2. c \in tree /\ c \in Nodes /\ IsPrefix(child, c) /\ S = Subtree(child)
    BY <1>2 DEF Subtree
  <2>3. ASSUME c # child PROVE Front(c) \in S
    <3>1. c # rootNode
      BY <1>3, <2>2
    <3>2. Front(c) \in tree
      BY <2>2, <3>1 DEF IInv, TreeInv
    <3>3. IsPrefix(child, Front(c))
      BY <1>3, <2>2, <2>3, PrefixOfParent
    <3> QED
      BY <2>2, <3>2, <3>3 DEF Subtree
  <2> QED
    BY <2>2, <2>3
<1>8. ThreadInv' /\ RootInv'
  BY <1>1, <1>5 DEF ThreadInv, RootInv, InPlayout
<1>9. BoundInv'
  BY <1>1, BoundStays
<1>10. RootVisitsCountPlayouts'
  BY <1>1 DEF RootVisitsCountPlayouts
<1> QED
  BY <1>4, <1>6, <1>7, <1>8, <1>9, <1>10 DEF IInv

LEMMA SetAvoidMoveKeeps ==
  ASSUME IInv, NEW ban \in Bans, SetAvoidMoveUntilByLoc(ban)
  PROVE  IInv'
<1> USE DEF threadVars
<1>1. /\ phase = "idle" /\ KeepNodes({}) /\ rootIsCurrent' = FALSE /\ avoidMoveUntilByLoc' = ban
      /\ UNCHANGED <<rootNode, cached, searches, phase, shouldStopNow, numNonPlayoutVisits,
                     numPlayoutsShared, holder, threadVars>>
  BY DEF SetAvoidMoveUntilByLoc
<1>2. /\ LossInv' /\ tree' = {} /\ sureWin' \subseteq {} /\ nnOutput' \subseteq {}
      /\ visits' \in [Nodes -> Nat] /\ virtualLosses' \in [Nodes -> Nat]
  BY <1>1, CutKeepsLosses
<1>3. \A t \in Threads : at[t] = "stopped"
  BY <1>1 DEF IInv, ThreadInv
<1>4. TypeOK'
  BY <1>1, <1>2 DEF IInv, TypeOK
<1>5. TreeInv' /\ ThreadInv' /\ RootInv' /\ RootVisitsCountPlayouts'
  BY <1>1, <1>2, <1>3 DEF TreeInv, ThreadInv, RootInv, InPlayout, RootVisitsCountPlayouts
<1>6. BoundInv'
  BY <1>1, BoundStays
<1> QED
  BY <1>2, <1>4, <1>5, <1>6 DEF IInv

LEMMA BeginSearchKeeps ==
  ASSUME IInv, BeginSearch
  PROVE  IInv'
<1>1. /\ phase = "idle" /\ searches < MaxSearches
      /\ searches' = searches + 1 /\ phase' = "searching"
      /\ tree' = tree \cup {rootNode} /\ rootIsCurrent' = FALSE
      /\ numNonPlayoutVisits' = visits[rootNode]
      /\ shouldStopNow' = FALSE /\ numPlayoutsShared' = 0
      /\ at' = [t \in Threads |-> "starting"] /\ numPlayouts' = [t \in Threads |-> 0]
      /\ node' = [t \in Threads |-> rootNode]
      /\ UNCHANGED <<rootNode, statVars, nnOutput, avoidMoveUntilByLoc, holder>>
  BY DEF BeginSearch
<1>2. cached' \subseteq SureWins
  BY DEF BeginSearch, Evaluate, IInv, TypeOK
<1>3. rootNode \in Nodes /\ IsPrefix(rootNode, rootNode)
  BY PrefixOrder DEF IInv, TypeOK
<1>4. TypeOK'
  <2>1. searches' \in 0 .. MaxSearches
    BY <1>1 DEF IInv, TypeOK
  <2>2. /\ visits' \in [Nodes -> Nat] /\ virtualLosses' \in [Nodes -> Nat]
        /\ numNonPlayoutVisits' \in Nat
    BY <1>1, <1>3 DEF IInv, TypeOK, statVars
  <2>3. tree' \subseteq Nodes /\ sureWin' \subseteq tree' /\ nnOutput' \subseteq tree'
    BY <1>1, <1>3 DEF IInv, TypeOK, statVars
  <2>4. AtTypes' /\ numPlayouts' \in [Threads -> Nat]
    BY <1>1, <1>3 DEF AtTypes
  <2> QED
    BY <1>1, <1>2, <2>1, <2>2, <2>3, <2>4 DEF IInv, TypeOK, AtTypes
<1>5. TreeInv'
  BY <1>1, <1>3 DEF IInv, TreeInv
<1>6. ThreadInv' /\ RootInv'
  BY <1>1 DEF ThreadInv, RootInv, InPlayout
<1>7. LossInv'
  <2>1. \A t \in Threads : at[t] \notin InPlayout
    BY <1>1 DEF IInv, ThreadInv, InPlayout
  <2>2. \A n \in Nodes : virtualLosses'[n] = 0
    BY <1>1, <2>1, NoPlayout DEF statVars
  <2> QED
    BY <1>1, <2>2, NoLosses DEF InPlayout
<1>8. BoundInv'
  <2>1. Cardinality(Threads) \in Nat
    BY FS_CardinalityType
  <2>2. maxPlayouts # 0 => Free' = Threads
    BY <1>1 DEF Free
  <2> QED
    BY <1>1, <2>1, <2>2 DEF BoundInv, InPlayout
<1>9. RootVisitsCountPlayouts'
  <2>1. {t \in Threads : at'[t] = "counting"} = {}
    BY <1>1
  <2>2. Cardinality({}) = 0 /\ visits[rootNode] \in Nat
    BY <1>3, FS_EmptySet DEF IInv, TypeOK
  <2>3. rootNode' = rootNode /\ visits' = visits
    BY <1>1 DEF statVars
  <2>4. visits'[rootNode'] = numNonPlayoutVisits' + numPlayoutsShared' + 0
    BY <1>1, <2>2, <2>3
  <2> QED
    BY <2>1, <2>2, <2>4 DEF RootVisitsCountPlayouts
<1> QED
  BY <1>4, <1>5, <1>6, <1>7, <1>8, <1>9 DEF IInv

LEMMA EndSearchKeeps ==
  ASSUME IInv, EndSearch
  PROVE  IInv'
<1>1. /\ \A t \in Threads : at[t] = "stopped"
      /\ phase' = "idle" /\ numNonPlayoutVisits' = 0 /\ numPlayoutsShared' = 0
      /\ numPlayouts' = [t \in Threads |-> 0] /\ node' = [t \in Threads |-> <<>>]
      /\ UNCHANGED <<rootNode, tree, statVars, nnVars, searches, avoidMoveUntilByLoc,
                     shouldStopNow, holder, at>>
  BY DEF EndSearch
<1>2. TypeOK'
  BY <1>1, RootIsNode DEF IInv, TypeOK, statVars, nnVars
<1>3. TreeInv'
  BY <1>1 DEF IInv, TreeInv
<1>4. ThreadInv' /\ RootInv' /\ RootVisitsCountPlayouts'
  BY <1>1 DEF ThreadInv, RootInv, InPlayout, RootVisitsCountPlayouts
<1>5. LossInv'
  <2>1. \A t \in Threads : at[t] \notin InPlayout
    BY <1>1 DEF InPlayout
  <2>2. \A n \in Nodes : virtualLosses'[n] = 0
    BY <1>1, <2>1, NoPlayout DEF statVars
  <2> QED
    BY <1>1, <2>1, <2>2, NoLosses
<1>6. BoundInv'
  <2>1. Cardinality(Threads) \in Nat
    BY FS_CardinalityType
  <2>2. maxPlayouts # 0 => Free' = Threads
    BY <1>1 DEF Free
  <2> QED
    BY <1>1, <2>1, <2>2 DEF BoundInv, InPlayout
<1> QED
  BY <1>2, <1>3, <1>4, <1>5, <1>6 DEF IInv

--------------------------------------------------------------------------------
\* The environment and the thread's loop.

LEMMA StopKeeps ==
  ASSUME IInv, Stop
  PROVE  IInv'
<1> USE DEF Stop, statVars, nnVars, searchVars, threadVars
<1>1. TypeOK' /\ TreeInv' /\ ThreadInv' /\ RootInv'
  BY DEF IInv, TypeOK, TreeInv, ThreadInv, RootInv
<1>2. LossInv'
  BY LossesStay DEF Below
<1>3. BoundInv'
  BY BoundStays
<1>4. RootVisitsCountPlayouts'
  BY CountStays DEF CountingThreads
<1> QED
  BY <1>1, <1>2, <1>3, <1>4 DEF IInv

LEMMA CacheChangesKeeps ==
  ASSUME IInv, CacheChanges
  PROVE  IInv'
<1>1. /\ cached' \subseteq SureWins
      /\ UNCHANGED <<rootNode, tree, statVars, nnOutput, rootIsCurrent, searchVars, shouldStopNow,
                     numPlayoutsShared, holder, threadVars>>
  BY DEF CacheChanges, Evaluate, IInv, TypeOK
<1> USE DEF statVars, nnVars, searchVars, threadVars
<1>2. TypeOK' /\ TreeInv' /\ ThreadInv' /\ RootInv'
  BY <1>1 DEF IInv, TypeOK, TreeInv, ThreadInv, RootInv
<1>3. LossInv'
  BY <1>1, LossesStay DEF Below
<1>4. BoundInv'
  BY <1>1, BoundStays
<1>5. RootVisitsCountPlayouts'
  BY <1>1, CountStays DEF CountingThreads
<1> QED
  BY <1>2, <1>3, <1>4, <1>5 DEF IInv

\* Threads at work make the phase "searching".
LEMMA Working ==
  ASSUME IInv, NEW t \in Threads, at[t] # "stopped"
  PROVE  phase = "searching" /\ rootNode \in tree /\ rootNode \in Nodes
BY DEF IInv, TypeOK, ThreadInv, TreeInv

LEMMA StartKeeps ==
  ASSUME IInv, NEW t \in Threads, Start(t)
  PROVE  IInv'
<1> PICK n \in Nodes : n = node[t]
  BY DEF IInv, TypeOK
<1>1. /\ at[t] = "starting" /\ numPlayouts' = [numPlayouts EXCEPT ![t] = numPlayoutsShared]
      /\ GoTo(t, "head", n)
      /\ UNCHANGED <<rootNode, tree, statVars, nnVars, searchVars, shouldStopNow,
                     numPlayoutsShared, holder>>
  BY DEF Start
<1>2. at' = [at EXCEPT ![t] = "head"] /\ node' = [node EXCEPT ![t] = n]
  BY <1>1 DEF GoTo
<1>3. \A c \in Nodes : Below(c)' = Below(c)
  BY <1>1, <1>2 DEF Below, IInv, TypeOK
<1>4. /\ TreeInv' /\ ThreadInv' /\ LossInv' /\ RootInv' /\ AtTypes'
      /\ \A u \in Threads : u # t => at'[u] = at[u] /\ node'[u] = node[u]
      /\ at'[t] = "head" /\ node'[t] = n
  BY <1>1, <1>3, TreeStays, Working DEF InPlayout
<1>5. TypeOK'
  BY <1>1, <1>4 DEF IInv, TypeOK, AtTypes, statVars, nnVars, searchVars
<1>6. BoundInv'
  <2>1. \A u \in Threads : u # t => (u \in Free' <=> u \in Free)
    BY <1>1 DEF Free, IInv, TypeOK
  <2>2. t \in Free' <=> numPlayoutsShared < maxPlayouts
    BY <1>1 DEF Free, IInv, TypeOK
  <2>3. /\ Free \in SUBSET Threads /\ Free' \in SUBSET Threads
        /\ numPlayoutsShared \in Nat /\ maxPlayouts \in Nat
    BY DEF Free, IInv, TypeOK
  <2>4. \A u \in Threads : at'[u] \in InPlayout \cup {"counting"} => u \in Free'
    BY <1>4, <2>1 DEF InPlayout, IInv, BoundInv
  <2>5. CASE maxPlayouts = 0
    BY <1>1, <2>4, <2>5 DEF IInv, BoundInv
  <2>6. CASE maxPlayouts # 0 /\ numPlayoutsShared < maxPlayouts
    <3>1. /\ Cardinality(Free') \in Nat /\ Cardinality(Threads) \in Nat
          /\ Cardinality(Free') <= Cardinality(Threads)
      BY <2>3, Counting
    <3> QED
      BY <1>1, <2>3, <2>4, <2>6, <3>1 DEF BoundInv
  <2>7. CASE maxPlayouts # 0 /\ ~(numPlayoutsShared < maxPlayouts)
    <3>1. Free' \in SUBSET Free
      BY <2>1, <2>2, <2>3, <2>7
    <3>2. IsFiniteSet(Free) /\ Cardinality(Free) \in Nat /\ Cardinality(Threads) \in Nat
      BY <2>3, Counting
    <3>3. Cardinality(Free') <= Cardinality(Free) /\ Cardinality(Free') \in Nat
      BY <2>3, <3>1, <3>2, FS_Subset, Counting
    <3> QED
      BY <1>1, <2>3, <2>4, <2>7, <3>2, <3>3 DEF IInv, BoundInv
  <2> QED
    BY <2>5, <2>6, <2>7
<1>7. RootVisitsCountPlayouts'
  <2>1. CountingThreads' = CountingThreads
    BY <1>1, <1>4 DEF CountingThreads
  <2> QED
    BY <1>1, <2>1, CountStays DEF statVars
<1> QED
  BY <1>4, <1>5, <1>6, <1>7 DEF IInv

LEMMA LoopHeadKeeps ==
  ASSUME IInv, NEW t \in Threads, LoopHead(t)
  PROVE  IInv'
<1> PICK n \in Nodes, where \in {"entering", "stopped"} :
      /\ GoTo(t, where, n)
      /\ where = "entering" => n = rootNode /\ t \in Free
  <2>1. node[t] \in Nodes /\ rootNode \in Nodes
    BY DEF IInv, TypeOK
  <2>2. CASE \/ numPlayouts[t] >= maxPlayouts
             \/ numPlayouts[t] + numNonPlayoutVisits >= maxVisits
             \/ shouldStopNow
    BY <2>1, <2>2 DEF LoopHead
  <2>3. CASE ~(\/ numPlayouts[t] >= maxPlayouts
               \/ numPlayouts[t] + numNonPlayoutVisits >= maxVisits
               \/ shouldStopNow)
    <3>1. t \in Free
      BY <2>3 DEF Free, IInv, TypeOK
    <3> QED
      BY <2>1, <2>3, <3>1 DEF LoopHead
  <2> QED
    BY <2>2, <2>3
<1>1. /\ at[t] = "head" /\ shouldStopNow' \in BOOLEAN
      /\ UNCHANGED <<rootNode, tree, statVars, nnVars, searchVars, numPlayoutsShared, holder,
                     numPlayouts>>
  BY DEF LoopHead, IInv, TypeOK
<1>2. at' = [at EXCEPT ![t] = where] /\ node' = [node EXCEPT ![t] = n]
  BY DEF GoTo
<1>3. \A c \in Nodes : Inside(c) => Below(c)' = Below(c)
  <2>1. ASSUME NEW c \in Nodes, Inside(c) PROVE where = "entering" => ~IsPrefix(c, n)
    BY <2>1, PrefixOrder DEF Inside
  <2>2. /\ \A u \in Threads : u # t => at'[u] = at[u] /\ node'[u] = node[u]
        /\ at'[t] = where /\ node'[t] = n
    BY <1>2 DEF IInv, TypeOK
  <2> QED
    BY <1>1, <2>1, <2>2 DEF Below
<1>4. /\ TreeInv' /\ ThreadInv' /\ LossInv' /\ RootInv' /\ AtTypes'
      /\ \A u \in Threads : u # t => at'[u] = at[u] /\ node'[u] = node[u]
      /\ at'[t] = where /\ node'[t] = n
  <2>1. where \in {"head", "stopped", "entering", "locking", "locked"} /\ where \notin {"locking", "locked"}
        /\ (where = "entering" => n = rootNode) /\ (where \in InPlayout => where = "entering")
    BY DEF InPlayout
  <2>2. phase = "searching" /\ rootNode \in tree
    BY <1>1, Working
  <2> QED
    BY <1>1, <1>3, <2>1, <2>2, TreeStays
<1>5. TypeOK'
  BY <1>1, <1>4 DEF IInv, TypeOK, AtTypes, statVars, nnVars, searchVars
<1>6. BoundInv'
  BY <1>1, <1>4, BoundStays DEF InPlayout
<1>7. RootVisitsCountPlayouts'
  <2>1. CountingThreads' = CountingThreads
    BY <1>1, <1>4 DEF CountingThreads
  <2> QED
    BY <1>1, <2>1, CountStays DEF statVars
<1> QED
  BY <1>4, <1>5, <1>6, <1>7 DEF IInv

LEMMA CountKeeps ==
  ASSUME IInv, NEW t \in Threads, Count(t)
  PROVE  IInv'
<1> PICK n \in Nodes : n = node[t]
  BY DEF IInv, TypeOK
<1>1. /\ at[t] = "counting" /\ numPlayoutsShared' = numPlayoutsShared + 1
      /\ numPlayouts' = [numPlayouts EXCEPT ![t] = numPlayoutsShared + 1]
      /\ GoTo(t, "head", n)
      /\ UNCHANGED <<rootNode, tree, statVars, nnVars, searchVars, shouldStopNow, holder>>
  BY DEF Count
<1>2. at' = [at EXCEPT ![t] = "head"] /\ node' = [node EXCEPT ![t] = n]
  BY <1>1 DEF GoTo
<1>3. \A c \in Nodes : Below(c)' = Below(c)
  BY <1>1, <1>2 DEF Below, IInv, TypeOK
<1>4. /\ TreeInv' /\ ThreadInv' /\ LossInv' /\ RootInv' /\ AtTypes'
      /\ \A u \in Threads : u # t => at'[u] = at[u] /\ node'[u] = node[u]
      /\ at'[t] = "head" /\ node'[t] = n
  BY <1>1, <1>3, TreeStays, Working DEF InPlayout
<1>5. TypeOK'
  <2>1. numPlayoutsShared' \in Nat /\ numPlayouts' \in [Threads -> Nat]
    BY <1>1 DEF IInv, TypeOK
  <2> QED
    BY <1>1, <1>4, <2>1 DEF IInv, TypeOK, AtTypes, statVars, nnVars, searchVars
<1>6. BoundInv'
  <2>1. /\ \A u \in Threads : u # t => (u \in Free' <=> u \in Free)
        /\ t \in Free' <=> numPlayoutsShared + 1 < maxPlayouts
    BY <1>1 DEF Free, IInv, TypeOK
  <2>2. /\ Free \in SUBSET Threads /\ Free' \in SUBSET Threads
        /\ numPlayoutsShared \in Nat /\ maxPlayouts \in Nat
    BY DEF Free, IInv, TypeOK
  <2>3. t \in Free /\ maxPlayouts # 0
    BY <1>1 DEF IInv, BoundInv, Free, TypeOK
  <2>4. \A u \in Threads : at'[u] \in InPlayout \cup {"counting"} => u \in Free'
    BY <1>4, <2>1 DEF InPlayout, IInv, BoundInv
  <2>5. /\ Cardinality(Free) \in Nat /\ Cardinality(Free') \in Nat /\ Cardinality(Threads) \in Nat
        /\ Cardinality(Free') <= Cardinality(Threads) /\ Cardinality(Free \ {t}) = Cardinality(Free) - 1
    BY <2>2, <2>3, Counting
  <2>6. numPlayoutsShared + Cardinality(Free) < maxPlayouts + Cardinality(Threads)
    BY <2>3 DEF IInv, BoundInv
  <2>7. CASE numPlayoutsShared + 1 < maxPlayouts
    BY <1>1, <2>2, <2>3, <2>4, <2>5, <2>7 DEF BoundInv
  <2>8. CASE ~(numPlayoutsShared + 1 < maxPlayouts)
    <3>1. Free' = Free \ {t}
      BY <2>1, <2>2, <2>8
    <3> QED
      BY <1>1, <2>2, <2>3, <2>4, <2>5, <2>6, <3>1 DEF BoundInv
  <2> QED
    BY <2>7, <2>8
<1>7. RootVisitsCountPlayouts'
  <2>1. SUFFICES ASSUME phase = "searching", rootNode \notin SureWins
                 PROVE  visits[rootNode] = numNonPlayoutVisits + (numPlayoutsShared + 1)
                                             + Cardinality(CountingThreads')
    BY <1>1 DEF RootVisitsCountPlayouts, CountingThreads, searchVars, statVars
  <2>2. visits[rootNode] = numNonPlayoutVisits + numPlayoutsShared + Cardinality(CountingThreads)
    BY <2>1 DEF IInv, RootVisitsCountPlayouts, CountingThreads
  <2>3. CountingThreads' = CountingThreads \ {t} /\ t \in CountingThreads
        /\ CountingThreads \in SUBSET Threads
    BY <1>1, <1>4 DEF CountingThreads
  <2>4. Cardinality(CountingThreads') = Cardinality(CountingThreads) - 1
        /\ Cardinality(CountingThreads) \in Nat
    BY <2>3, Counting
  <2>5. numNonPlayoutVisits \in Nat /\ numPlayoutsShared \in Nat
    BY DEF IInv, TypeOK
  <2> QED
    BY <2>2, <2>4, <2>5
<1> QED
  BY <1>4, <1>5, <1>6, <1>7 DEF IInv

--------------------------------------------------------------------------------
\* playoutDescend.

\* A thread that waits for the mutex of its node, or takes it.
LEMMA LockingKeeps ==
  ASSUME IInv, NEW t \in Threads, NEW where \in {"locking", "locked"},
         at[t] \in InPlayout, ~IsFinished(node[t]), at[t] # "returning",
         GoTo(t, where, node[t]), holder' \in [Locks -> Threads \cup {NoThread}],
         UNCHANGED <<rootNode, tree, statVars, nnVars, searchVars, shouldStopNow,
                     numPlayoutsShared, numPlayouts>>
  PROVE  IInv'
<1> PICK n \in Nodes : n = node[t]
  BY DEF IInv, TypeOK
<1>1. n \in tree /\ phase = "searching"
  BY Working DEF IInv, ThreadInv, InPlayout
<1>2. at' = [at EXCEPT ![t] = where] /\ node' = [node EXCEPT ![t] = n]
  BY DEF GoTo
<1>3. \A c \in Nodes : Below(c)' = Below(c)
  <2>1. /\ \A u \in Threads : u # t => at'[u] = at[u] /\ node'[u] = node[u]
        /\ at'[t] = where /\ node'[t] = node[t]
    BY <1>2 DEF IInv, TypeOK
  <2> QED
    BY <2>1 DEF Below, InPlayout
<1>4. /\ TreeInv' /\ ThreadInv' /\ LossInv' /\ RootInv' /\ AtTypes'
      /\ \A u \in Threads : u # t => at'[u] = at[u] /\ node'[u] = node[u]
      /\ at'[t] = where /\ node'[t] = n
  BY <1>1, <1>3, TreeStays
<1>5. TypeOK'
  BY <1>4 DEF IInv, TypeOK, AtTypes, statVars, nnVars, searchVars
<1>6. BoundInv'
  BY <1>4, BoundStays DEF InPlayout
<1>7. RootVisitsCountPlayouts'
  <2>1. CountingThreads' = CountingThreads
    BY <1>4 DEF CountingThreads, InPlayout
  <2> QED
    BY <2>1, CountStays DEF statVars
<1> QED
  BY <1>4, <1>5, <1>6, <1>7 DEF IInv

LEMMA WaitForLockKeeps ==
  ASSUME IInv, NEW t \in Threads, WaitForLock(t)
  PROVE  IInv'
<1>1. holder' \in [Locks -> Threads \cup {NoThread}] /\ at[t] = "entering" /\ ~IsFinished(node[t])
  BY DEF WaitForLock, IsDecided, IInv, TypeOK
<1> QED
  BY <1>1, LockingKeeps DEF WaitForLock, InPlayout

LEMMA LockKeeps ==
  ASSUME IInv, NEW t \in Threads, Lock(t)
  PROVE  IInv'
<1>1. holder' \in [Locks -> Threads \cup {NoThread}]
  BY DEF Lock, IInv, TypeOK
<1>2. at[t] = "locking" /\ ~IsFinished(node[t])
  BY DEF Lock, IInv, ThreadInv
<1> QED
  BY <1>1, <1>2, LockingKeeps DEF Lock, InPlayout

\* The calls that return, whatever else they change.
LEMMA ReturningKeeps ==
  ASSUME IInv, NEW t \in Threads, at[t] \in InPlayout,
         UNCHANGED <<rootNode, tree, searchVars, shouldStopNow, numPlayoutsShared, numPlayouts>>,
         AddVisit(node[t], LossesOf(node[t])), Return(t, node[t]),
         rootIsCurrent => rootIsCurrent', rootIsCurrent' \in BOOLEAN,
         sureWin' \subseteq tree, nnOutput' \subseteq tree, cached' \subseteq SureWins,
         holder' \in [Locks -> Threads \cup {NoThread}]
  PROVE  IInv'
<1>1. /\ TreeInv' /\ ThreadInv' /\ LossInv' /\ RootInv' /\ BoundInv' /\ RootVisitsCountPlayouts'
      /\ AtTypes'
      /\ visits' \in [Nodes -> Nat] /\ virtualLosses' \in [Nodes -> Nat]
  BY ReturnKeeps
<1>2. TypeOK'
  BY <1>1 DEF IInv, TypeOK, AtTypes, searchVars
<1> QED
  BY <1>1, <1>2 DEF IInv

LEMMA AddDecidedValueKeeps ==
  ASSUME IInv, NEW t \in Threads, AddDecidedValue(t)
  PROVE  IInv'
BY ReturningKeeps DEF AddDecidedValue, InPlayout, nnVars, IInv, TypeOK

LEMMA UnlockTypes ==
  ASSUME IInv, NEW n \in Nodes, Unlock(n)
  PROVE  holder' \in [Locks -> Threads \cup {NoThread}]
BY DEF Unlock, IInv, TypeOK

LEMMA InitNodeKeeps ==
  ASSUME IInv, NEW t \in Threads, InitNode(t)
  PROVE  IInv'
<1> PICK n \in Nodes : n = node[t]
  BY DEF IInv, TypeOK
<1>1. PICK won \in SolverResults(n) :
        /\ SetSureWin(n, won)
        /\ IF won /\ n # rootNode
           THEN UNCHANGED nnVars
           ELSE /\ nnOutput' = nnOutput \cup {n} /\ Evaluate(n)
                /\ rootIsCurrent' = (rootIsCurrent \/ (n = rootNode /\ ~won))
  BY DEF InitNode
<1>2. /\ at[t] = "locked" /\ AddVisit(n, LossesOf(n)) /\ Unlock(n) /\ Return(t, n)
      /\ UNCHANGED <<rootNode, tree, searchVars, shouldStopNow, numPlayoutsShared, numPlayouts>>
  BY DEF InitNode
<1>3. n \in tree
  BY <1>2 DEF IInv, ThreadInv, InPlayout
<1>4. sureWin' \subseteq tree
  BY <1>1, <1>3 DEF SetSureWin, IInv, TypeOK
<1>5. /\ rootIsCurrent => rootIsCurrent'
      /\ rootIsCurrent' \in BOOLEAN /\ nnOutput' \subseteq tree /\ cached' \subseteq SureWins
  <2>1. CASE won /\ n # rootNode
    BY <1>1, <2>1 DEF nnVars, IInv, TypeOK
  <2>2. CASE ~(won /\ n # rootNode)
    BY <1>1, <1>3, <2>2 DEF Evaluate, IInv, TypeOK
  <2> QED
    BY <2>1, <2>2
<1>6. holder' \in [Locks -> Threads \cup {NoThread}]
  BY <1>2, UnlockTypes
<1> QED
  BY <1>2, <1>4, <1>5, <1>6, ReturningKeeps DEF InPlayout

LEMMA NoChildKeeps ==
  ASSUME IInv, NEW t \in Threads, NoChild(t)
  PROVE  IInv'
<1>1. node[t] \in Nodes
  BY DEF IInv, TypeOK
<1>2. holder' \in [Locks -> Threads \cup {NoThread}]
  BY <1>1, UnlockTypes DEF NoChild
<1> QED
  BY <1>2, ReturningKeeps DEF NoChild, InPlayout, nnVars, IInv, TypeOK

LEMMA UpdateStatsKeeps ==
  ASSUME IInv, NEW t \in Threads, UpdateStats(t)
  PROVE  IInv'
BY ReturningKeeps DEF UpdateStats, InPlayout, nnVars, IInv, TypeOK

\* A root that is evaluated again has no thread below it, and keeps its losses.
LEMMA ReInitKeeps ==
  ASSUME IInv, NEW t \in Threads, ReInit(t)
  PROVE  IInv'
<1>1. PICK won \in SolverResults(rootNode) :
        /\ SetSureWin(rootNode, won)
        /\ IF won THEN AddVisit(rootNode, 0) ELSE UNCHANGED <<visits, virtualLosses>>
  BY DEF ReInit, IsStale
<1>2. /\ at[t] = "locked" /\ node[t] = rootNode /\ rootIsCurrent' = TRUE /\ Evaluate(rootNode)
      /\ UNCHANGED <<rootNode, tree, nnOutput, searchVars, shouldStopNow, numPlayoutsShared,
                     holder, threadVars>>
  BY DEF ReInit, IsStale
<1> USE DEF searchVars, threadVars
<1>3. /\ rootNode \in Nodes /\ rootNode \in tree
      /\ visits \in [Nodes -> Nat] /\ virtualLosses \in [Nodes -> Nat]
  BY <1>2 DEF IInv, TypeOK, ThreadInv, InPlayout
<1>4. virtualLosses' = virtualLosses /\ visits' \in [Nodes -> Nat]
  <2>1. CASE won
    <3>1. /\ visits' = [visits EXCEPT ![rootNode] = @ + 1]
          /\ virtualLosses' = [virtualLosses EXCEPT ![rootNode] = @ - 0]
      BY <1>1, <2>1 DEF AddVisit
    <3>2. virtualLosses[rootNode] - 0 = virtualLosses[rootNode]
      BY <1>3
    <3> QED
      BY <1>3, <3>1, <3>2
  <2>2. CASE ~won
    BY <1>1, <1>3, <2>2
  <2> QED
    BY <2>1, <2>2
<1>5. sureWin' \subseteq tree /\ cached' \subseteq SureWins
  BY <1>1, <1>2, <1>3 DEF SetSureWin, Evaluate, IInv, TypeOK
<1>6. TypeOK'
  BY <1>2, <1>4, <1>5 DEF IInv, TypeOK
<1>7. TreeInv' /\ ThreadInv' /\ RootInv'
  BY <1>2 DEF IInv, TreeInv, ThreadInv, RootInv
<1>8. LossInv'
  BY <1>2, <1>4, LossesStay DEF Below
<1>9. BoundInv'
  BY <1>2, BoundStays
<1>10. RootVisitsCountPlayouts'
  <2>1. CASE rootNode \in SureWins
    BY <1>2, <2>1 DEF RootVisitsCountPlayouts
  <2>2. CASE rootNode \notin SureWins
    <3>1. visits' = visits
      BY <1>1, <2>2 DEF SolverResults
    <3> QED
      BY <1>2, <3>1, CountStays DEF CountingThreads
  <2> QED
    BY <2>1, <2>2
<1> QED
  BY <1>6, <1>7, <1>8, <1>9, <1>10 DEF IInv

\* The way down adds the losses that the way back subtracts.
LEMMA DescendKeeps ==
  ASSUME IInv, NEW t \in Threads, Descend(t)
  PROVE  IInv'
<1> PICK n \in Nodes : n = node[t]
  BY DEF IInv, TypeOK
<1> DEFINE v == numVirtualLossesPerThread
<1>1. /\ at[t] = "locked" /\ ~IsStale(n) /\ Unlock(n)
      /\ UNCHANGED <<rootNode, visits, sureWin, nnVars, searchVars, shouldStopNow,
                     numPlayoutsShared, numPlayouts>>
  BY DEF Descend
<1>2. /\ n \in tree /\ ~IsFinished(n) /\ rootNode \in Nodes /\ IsPrefix(rootNode, n)
      /\ phase = "searching" /\ rootNode \in tree
      /\ virtualLosses \in [Nodes -> Nat]
  BY <1>1, Working DEF IInv, TypeOK, ThreadInv, TreeInv, InPlayout
<1>3. PICK child \in Children(n) :
        /\ tree' = tree \cup {child}
        /\ virtualLosses' = [virtualLosses EXCEPT ![child] = @ + v]
        /\ GoTo(t, "entering", child)
  BY DEF Descend, Candidates, ChildrenOf
<1>4. /\ child \in Nodes /\ Front(child) = n /\ child # n /\ Len(child) # 0
      /\ IsPrefix(n, child) /\ ~IsPrefix(child, n)
  BY <1>2, ChildOf
<1>5. IsPrefix(rootNode, child) /\ child # rootNode
  BY <1>2, <1>4, PrefixOrder
<1>6. /\ AtTypes' /\ at'[t] = "entering" /\ node'[t] = child
      /\ \A u \in Threads : u # t => at'[u] = at[u] /\ node'[u] = node[u]
  BY <1>3, <1>4 DEF GoTo, AtTypes, IInv, TypeOK
<1>7. TreeInv'
  BY <1>1, <1>2, <1>3, <1>4, <1>5 DEF IInv, TreeInv, searchVars
<1>8. ThreadInv'
  BY <1>1, <1>2, <1>3, <1>6 DEF IInv, ThreadInv, InPlayout, searchVars
<1>9. RootInv'
  <2>1. rootIsCurrent
    BY <1>1 DEF IsStale, IInv, RootInv, InPlayout
  <2> QED
    BY <1>1, <2>1 DEF RootInv, nnVars
<1>10. BoundInv'
  BY <1>1, <1>6, BoundStays DEF InPlayout
<1>11. RootVisitsCountPlayouts'
  <2>1. CountingThreads' = CountingThreads
    BY <1>1, <1>6 DEF CountingThreads
  <2> QED
    BY <1>1, <2>1, CountStays
<1>12. ASSUME NEW c \in Nodes, c # child
       PROVE  Below(c)' = Below(c)
  <2>1. IsPrefix(c, child) <=> IsPrefix(c, n)
    BY <1>4, <1>12, PrefixOfParent
  <2> QED
    BY <1>1, <1>6, <2>1 DEF Below
<1>13. Below(child)' = Below(child) \cup {t} /\ t \notin Below(child)
  <2>1. IsPrefix(child, child)
    BY <1>4, PrefixOrder
  <2> QED
    BY <1>4, <1>6, <2>1 DEF Below
<1>14. ASSUME NEW c \in Nodes
       PROVE  /\ virtualLosses'[c] = IF Inside(c) THEN v * Cardinality(Below(c)') ELSE 0
              /\ virtualLosses'[c] \in Nat
  <2>1. virtualLosses[c] = IF Inside(c) THEN v * Cardinality(Below(c)) ELSE 0
    BY DEF IInv, LossInv
  <2>2. CASE c # child
    <3>1. virtualLosses'[c] = virtualLosses[c] /\ virtualLosses[c] \in Nat
      BY <1>2, <1>3, <2>2
    <3>2. Below(c)' = Below(c)
      BY <1>12, <2>2
    <3> QED
      BY <2>1, <3>1, <3>2
  <2>3. CASE c = child
    <3>1. PICK k \in Nat : Cardinality(Below(child)) = k /\ Cardinality(Below(child)') = k + 1
      <4>1. IsFiniteSet(Below(child)) /\ Cardinality(Below(child)) \in Nat
        BY BelowIsFinite
      <4>2. Cardinality(Below(child)') = Cardinality(Below(child)) + 1
        BY <1>13, <4>1, FS_AddElement
      <4> QED
        BY <4>1, <4>2
    <3>2. Inside(child)
      BY <1>5 DEF Inside
    <3>3. virtualLosses[child] = v * k
      BY <2>1, <2>3, <3>1, <3>2
    <3>4. virtualLosses'[child] = virtualLosses[child] + v
      BY <1>2, <1>3, <1>4
    <3>5. v \in Nat /\ v * k \in Nat /\ v * (k + 1) = v * k + v
      BY Times
    <3>6. virtualLosses'[child] = v * (k + 1) /\ virtualLosses'[child] \in Nat
      BY <3>3, <3>4, <3>5
    <3>7. virtualLosses'[child] = v * Cardinality(Below(child)') /\ virtualLosses'[child] \in Nat
      BY <3>1, <3>6
    <3> HIDE DEF v
    <3> QED
      BY <2>3, <3>2, <3>7
  <2> QED
    BY <2>2, <2>3
<1>15. LossInv'
  <2>1. \A c \in Nodes : Inside(c)' <=> Inside(c)
    BY <1>1 DEF Inside
  <2> QED
    BY <1>14, <2>1 DEF LossInv
<1>16. TypeOK'
  <2>1. virtualLosses' \in [Nodes -> Nat]
    BY <1>2, <1>3, <1>14
  <2>2. holder' \in [Locks -> Threads \cup {NoThread}]
    BY <1>1, UnlockTypes
  <2>3. tree' \subseteq Nodes /\ sureWin' \subseteq tree' /\ nnOutput' \subseteq tree'
    BY <1>1, <1>3, <1>4 DEF IInv, TypeOK, nnVars
  <2> QED
    BY <1>1, <1>6, <2>1, <2>2, <2>3 DEF IInv, TypeOK, AtTypes, nnVars, searchVars
<1> QED
  BY <1>7, <1>8, <1>9, <1>10, <1>11, <1>15, <1>16 DEF IInv

--------------------------------------------------------------------------------
\* The theorems.

LEMMA InitInvariant == Init => IInv
<1> SUFFICES ASSUME Init PROVE IInv
  OBVIOUS
<1> USE DEF Init
<1>1. TypeOK
  <2>1. PICK root \in Nodes : root = <<>>
    BY RootIsNode
  <2>2. rootNode \in Nodes /\ AtTypes
    BY <2>1 DEF AtTypes
  <2>3. searches \in 0 .. MaxSearches /\ avoidMoveUntilByLoc \in [Moves -> Nat]
    BY DEF NoBan
  <2>4. visits \in [Nodes -> Nat] /\ virtualLosses \in [Nodes -> Nat]
    OBVIOUS
  <2> QED
    BY <2>2, <2>3, <2>4 DEF TypeOK, AtTypes
<1>2. TreeInv /\ ThreadInv /\ RootInv /\ RootVisitsCountPlayouts
  BY DEF TreeInv, ThreadInv, RootInv, InPlayout, RootVisitsCountPlayouts
<1>3. LossInv
  <2>1. \A n \in Nodes : Below(n) = {} /\ virtualLosses[n] = 0
    BY DEF Below
  <2>2. Cardinality({}) = 0 /\ numVirtualLossesPerThread * 0 = 0
    BY FS_EmptySet, Times
  <2> QED
    BY <2>1, <2>2 DEF LossInv
<1>4. BoundInv
  <2>1. Cardinality(Threads) \in Nat
    BY FS_CardinalityType
  <2>2. maxPlayouts # 0 => Free = Threads
    BY DEF Free
  <2> QED
    BY <2>1, <2>2 DEF BoundInv, InPlayout
<1> QED
  BY <1>1, <1>2, <1>3, <1>4 DEF IInv

LEMMA NextInvariant == IInv /\ [Next]_vars => IInv'
<1> SUFFICES ASSUME IInv, [Next]_vars PROVE IInv'
  OBVIOUS
<1>1. CASE UNCHANGED vars
  <2> USE <1>1 DEF vars
  <2>1. TypeOK' /\ TreeInv' /\ ThreadInv' /\ RootInv'
    BY DEF IInv, TypeOK, TreeInv, ThreadInv, RootInv
  <2>2. LossInv'
    BY LossesStay DEF Below
  <2>3. BoundInv'
    BY BoundStays
  <2>4. RootVisitsCountPlayouts'
    BY CountStays DEF CountingThreads, searchVars
  <2> QED
    BY <2>1, <2>2, <2>3, <2>4 DEF IInv
<1>2. ASSUME NEW m \in Moves, MakeMove(m) PROVE IInv'
  BY <1>2, MakeMoveKeeps
<1>3. ASSUME NEW ban \in Bans, SetAvoidMoveUntilByLoc(ban) PROVE IInv'
  BY <1>3, SetAvoidMoveKeeps
<1>4. CASE BeginSearch \/ EndSearch \/ Stop \/ CacheChanges
  BY <1>4, BeginSearchKeeps, EndSearchKeeps, StopKeeps, CacheChangesKeeps
<1>5. ASSUME NEW t \in Threads, ThreadStep(t) PROVE IInv'
  BY <1>5, StartKeeps, LoopHeadKeeps, AddDecidedValueKeeps, WaitForLockKeeps, LockKeeps,
     InitNodeKeeps, ReInitKeeps, DescendKeeps, NoChildKeeps, UpdateStatsKeeps, CountKeeps
     DEF ThreadStep
<1> QED
  BY <1>1, <1>2, <1>3, <1>4, <1>5 DEF Next

\* The tree has its shape, each thread is where its playout says, and the counts of
\* losses, playouts and visits agree with where the threads are.
THEOREM TreeInvariant == Spec => []IInv
BY InitInvariant, NextInvariant, PTL DEF Spec

\* Every virtual loss that playoutDescend adds to a child is taken back by the
\* playout that added it, whichever of its exits the call for that child takes.
THEOREM TreeLossesAreReturned == Spec => []VirtualLossesAreReturned
<1>1. ASSUME IInv, NEW n \in tree
      PROVE  virtualLosses[n] =
               IF n = rootNode THEN 0 ELSE numVirtualLossesPerThread * Cardinality(Below(n))
  <2>1. n \in Nodes /\ IsPrefix(rootNode, n)
    BY <1>1 DEF IInv, TypeOK, TreeInv
  <2>2. virtualLosses[n] =
          IF Inside(n) THEN numVirtualLossesPerThread * Cardinality(Below(n)) ELSE 0
    BY <1>1, <2>1 DEF IInv, LossInv
  <2>3. Inside(n) <=> n # rootNode
    BY <2>1 DEF Inside
  <2> QED
    BY <2>2, <2>3
<1>2. IInv => VirtualLossesAreReturned
  BY <1>1 DEF VirtualLossesAreReturned
<1> QED
  BY <1>2, TreeInvariant, PTL

\* Each of the threads but one may have begun a playout when the limit is reached;
\* they finish it, and that is all.
THEOREM TreePlayoutsAreBounded == Spec => []PlayoutsAreBounded
<1>1. IInv => PlayoutsAreBounded
  <2> SUFFICES ASSUME IInv PROVE PlayoutsAreBounded
    OBVIOUS
  <2>1. Free \in SUBSET Threads /\ numPlayoutsShared \in Nat /\ maxPlayouts \in Nat
    BY DEF Free, IInv, TypeOK
  <2>2. IsFiniteSet(Free) /\ Cardinality(Free) \in Nat /\ Cardinality(Threads) \in Nat
    BY <2>1, FS_Subset, FS_CardinalityType
  <2> QED
    BY <2>1, <2>2 DEF IInv, BoundInv, PlayoutsAreBounded
<1> QED
  BY <1>1, TreeInvariant, PTL

\* What the limits of a search compare with maxVisits is what the root has.
THEOREM TreeRootVisitsCount == Spec => []RootVisitsCountPlayouts
<1>1. IInv => RootVisitsCountPlayouts
  BY DEF IInv
<1> QED
  BY <1>1, TreeInvariant, PTL

\* maybeRecomputeExistingNNOutput replaces the root's nnOutput only while no thread
\* has passed the root, so that those below may read it without its mutex.
THEOREM TreeRootOutputIsStable == Spec => RootOutputIsStable
<1>1. ASSUME IInv, NEW t \in Threads, ReInit(t), NEW u \in Below(rootNode)
      PROVE  node[u] = rootNode /\ at[u] # "returning"
  <2>1. ~rootIsCurrent
    BY <1>1 DEF ReInit, IsStale
  <2>2. u \in Threads /\ at[u] \in InPlayout
    BY <1>1 DEF Below, InPlayout
  <2> QED
    BY <1>1, <2>1, <2>2 DEF IInv, RootInv
<1>2. IInv /\ [Next]_vars =>
        [\A t \in Threads : ReInit(t) =>
           \A u \in Below(rootNode) : node[u] = rootNode /\ at[u] # "returning"]_vars
  BY <1>1
<1> QED
  BY <1>2, TreeInvariant, PTL DEF Spec, RootOutputIsStable

--------------------------------------------------------------------------------
\* Sums of visits, as cardinalities: a visit is a pair of a node and a number.

Pairs(S, v) == UNION {{n} \X (1 .. v[n]) : n \in S}

LEMMA PairsFinite ==
  ASSUME NEW S, IsFiniteSet(S), NEW v, \A n \in S : v[n] \in Nat
  PROVE  IsFiniteSet(Pairs(S, v)) /\ Cardinality(Pairs(S, v)) \in Nat
<1> DEFINE Of(n) == {n} \X (1 .. v[n])
           f == [n \in S |-> Of(n)]
           T == {Of(n) : n \in S}
<1>1. f \in Surjection(S, T)
  BY DEF Surjection
<1>2. IsFiniteSet(T)
  BY <1>1, FS_Surjection
<1>3. ASSUME NEW n \in S PROVE IsFiniteSet(Of(n))
  <2>1. IsFiniteSet(1 .. v[n])
    <3>1. 1 \in Int /\ v[n] \in Int
      OBVIOUS
    <3> QED
      BY <3>1, FS_Interval
  <2> QED
    BY <2>1, FS_Singleton, FS_Product
<1>4. IsFiniteSet(UNION T)
  BY <1>2, <1>3, FS_UNION
<1> QED
  BY <1>4, FS_CardinalityType DEF Pairs

LEMMA PairsSame ==
  ASSUME NEW S, NEW v, NEW w, \A n \in S : w[n] = v[n]
  PROVE  Pairs(S, w) = Pairs(S, v)
<1>1. {{n} \X (1 .. w[n]) : n \in S} = {{n} \X (1 .. v[n]) : n \in S}
  OBVIOUS
<1> QED
  BY <1>1 DEF Pairs

LEMMA PairsIn ==
  ASSUME NEW S, NEW v, NEW e
  PROVE  e \in Pairs(S, v) <=> \E n \in S : \E i \in 1 .. v[n] : e = <<n, i>>
BY DEF Pairs

LEMMA PairsEmpty ==
  ASSUME NEW v
  PROVE  Pairs({}, v) = {} /\ Cardinality(Pairs({}, v)) = 0
BY FS_EmptySet DEF Pairs

\* Nodes that nobody visited add nothing.
LEMMA PairsFresh ==
  ASSUME NEW S, NEW T, NEW v, S \subseteq T, \A c \in T \ S : v[c] = 0
  PROVE  Pairs(T, v) = Pairs(S, v)
<1>1. \A c \in T \ S : 1 .. v[c] = {}
  OBVIOUS
<1>2. \A e : e \in Pairs(T, v) <=> e \in Pairs(S, v)
  BY <1>1, PairsIn
<1> QED
  BY <1>2

\* One visit more of one node is one more in the sum.
LEMMA PairsGrow ==
  ASSUME NEW S, IsFiniteSet(S), NEW c \in S, NEW v, NEW w, \A n \in S : v[n] \in Nat,
         w[c] = v[c] + 1, \A n \in S \ {c} : w[n] = v[n]
  PROVE  Cardinality(Pairs(S, w)) = Cardinality(Pairs(S, v)) + 1
<1> DEFINE e == <<c, v[c] + 1>>
<1>1. 1 .. w[c] = (1 .. v[c]) \cup {v[c] + 1}
  OBVIOUS
<1>2. e \notin Pairs(S, v)
  BY PairsIn
<1>3. \A d : d \in Pairs(S, w) <=> d \in Pairs(S, v) \cup {e}
  <2> TAKE d
  <2>1. ASSUME NEW n \in S, NEW i \in 1 .. w[n], d = <<n, i>>
        PROVE  d \in Pairs(S, v) \cup {e}
    BY <1>1, <2>1, PairsIn
  <2>2. ASSUME NEW n \in S, NEW i \in 1 .. v[n], d = <<n, i>>
        PROVE  d \in Pairs(S, w)
    <3>1. i \in 1 .. w[n]
      BY <1>1
    <3> QED
      BY <2>2, <3>1, PairsIn
  <2>3. v[c] + 1 \in 1 .. w[c]
    BY <1>1
  <2>4. e \in Pairs(S, w)
    BY <2>3, PairsIn
  <2> QED
    BY <2>1, <2>2, <2>4, PairsIn
<1>4. Pairs(S, w) = Pairs(S, v) \cup {e}
  BY <1>3
<1>5. IsFiniteSet(Pairs(S, v))
  BY PairsFinite
<1> HIDE DEF e
<1>6. Cardinality(Pairs(S, v) \cup {e}) = Cardinality(Pairs(S, v)) + 1
  BY <1>2, <1>5, FS_AddElement
<1> QED
  BY <1>4, <1>6

--------------------------------------------------------------------------------
\* What the sums rest on.

DecidedInv == sureWin \subseteq SureWins /\ \A n \in nnOutput : ~IsFinished(n)

\* A node is evaluated before it has children, or threads that return to it.
ParentInv ==
  /\ \A c \in tree : c # rootNode => Front(c) \in nnOutput
  /\ \A t \in Threads : at[t] = "returning" => node[t] \in nnOutput

\* A search that may try no move at its root makes no other node: no node below
\* the root ever finds itself without a move to try.
BanInv == (\A m \in Moves : avoidMoveUntilByLoc[m] > 0) => tree \subseteq {rootNode}

\* What was visited was evaluated, or decided without that.
FreshInv ==
  \A n \in Nodes : visits[n] # 0 =>
    n \in nnOutput \/ (n \in tree /\ (n \in SureWins \/ IsFinished(n)))

VisitInv ==
  IsFiniteSet(tree) /\ DecidedInv /\ ParentInv /\ BanInv /\ FreshInv /\ VisitsAddUp

AddsUp(n, counted, expected) == counted >= 1 + expected /\ (n \in SureWins \/ counted = 1 + expected)

Counted(n) == visits[n] + Cardinality(Returning(n))
Expected(n) == Cardinality(Pairs(ChildrenOf(n), visits))

LEMMA VisitsAddUpIs ==
  /\ VisitsAddUp <=> \A n \in nnOutput \ {rootNode} : AddsUp(n, Counted(n), Expected(n))
  /\ VisitsAddUp' <=> \A n \in nnOutput' \ {rootNode'} : AddsUp(n, Counted(n)', Expected(n)')
BY DEF VisitsAddUp, AddsUp, Counted, Expected, SumOfVisits, Pairs

LEMMA CountsAreNat ==
  ASSUME TypeOK, IsFiniteSet(tree), NEW n \in Nodes
  PROVE  /\ IsFiniteSet(ChildrenOf(n))
         /\ visits[n] \in Nat /\ Cardinality(Returning(n)) \in Nat
         /\ Counted(n) \in Nat /\ Expected(n) \in Nat
<1>1. ChildrenOf(n) \in SUBSET tree /\ tree \subseteq Nodes
  BY DEF ChildrenOf, TypeOK
<1>2. IsFiniteSet(ChildrenOf(n))
  BY <1>1, FS_Subset
<1>3. \A c \in ChildrenOf(n) : visits[c] \in Nat
  BY <1>1 DEF TypeOK
<1>4. Expected(n) \in Nat
  BY <1>2, <1>3, PairsFinite DEF Expected
<1>5. Returning(n) \in SUBSET Threads
  BY DEF Returning
<1>6. Cardinality(Returning(n)) \in Nat
  BY <1>5, FS_Subset, FS_CardinalityType
<1>7. visits[n] \in Nat
  BY DEF TypeOK
<1> QED
  BY <1>2, <1>4, <1>6, <1>7 DEF Counted

\* The parent of a node is the only node that it is a child of.
LEMMA ChildrenHaveOneParent ==
  ASSUME NEW c \in Nodes, Len(c) # 0, NEW q \in Nodes, ~IsFinished(q)
  PROVE  c \in Children(q) <=> q = Front(c)
<1>1. ASSUME c \in Children(q) PROVE q = Front(c)
  BY <1>1, ChildOf
<1>2. ASSUME q = Front(c) PROVE c \in Children(q)
  <2>1. c \in Seq(Moves) /\ Len(c) \in Nat /\ Len(c) <= MaxMoves /\ q \in Seq(Moves)
    BY NodeIsSeq
  <2>2. PICK m \in Moves : m = c[Len(c)]
    BY <2>1, LenProperties
  <2>3. Len(q) = Len(c) - 1 /\ \A i \in 1 .. Len(c) - 1 : q[i] = c[i]
    BY <1>2, ParentOf
  <2> DEFINE s == Append(q, m)
  <2>4. s \in Seq(Moves) /\ Len(s) = Len(q) + 1 /\ (\A i \in 1 .. Len(q) : s[i] = q[i]) /\ s[Len(q) + 1] = m
    BY <2>1, AppendProperties
  <2> HIDE DEF s
  <2>5. Len(s) = Len(c)
    BY <2>1, <2>3, <2>4
  <2>6. \A i \in 1 .. Len(c) : s[i] = c[i]
    BY <2>1, <2>2, <2>3, <2>4
  <2>7. s = c
    BY <2>1, <2>4, <2>5, <2>6, SeqEqual
  <2> QED
    BY <2>7 DEF Children, s
<1> QED
  BY <1>1, <1>2

\* The root is no child of a node of the tree.
LEMMA RootIsNoChild ==
  ASSUME IInv, NEW q \in tree, ~IsFinished(q)
  PROVE  rootNode \notin Children(q)
<1>1. q \in Nodes /\ IsPrefix(rootNode, q)
  BY DEF IInv, TypeOK, TreeInv
<1> QED
  BY <1>1, ChildOf

--------------------------------------------------------------------------------
\* The steps.

\* Steps that add no visit below the root, and no thread that returns.
LEMMA VisitsStay ==
  ASSUME IInv, TypeOK', VisitInv, IsFiniteSet(tree'),
         UNCHANGED <<rootNode, nnOutput>>,
         \A n \in Nodes \ {rootNode} : visits'[n] = visits[n],
         \A n \in Nodes : Returning(n)' = Returning(n),
         tree \subseteq tree', \A c \in tree' \ tree : c = rootNode \/ visits[c] = 0
  PROVE  VisitsAddUp'
<1>1. ASSUME NEW q \in nnOutput \ {rootNode}
      PROVE  Counted(q)' = Counted(q) /\ Expected(q)' = Expected(q)
  <2>1. q \in tree /\ q \in Nodes /\ ~IsFinished(q) /\ tree' \subseteq Nodes
    BY DEF IInv, TypeOK, VisitInv, DecidedInv
  <2>2. Counted(q)' = Counted(q)
    BY <2>1 DEF Counted
  <2> DEFINE K == ChildrenOf(q)
  <2>3. rootNode \notin Children(q)
    BY <2>1, RootIsNoChild
  <2>4. PICK L : L = ChildrenOf(q)'
    OBVIOUS
  <2>5. K \subseteq L /\ L \subseteq Nodes /\ \A c \in L : c # rootNode
    BY <2>1, <2>3, <2>4 DEF ChildrenOf
  <2>6. \A c \in L \ K : visits[c] = 0
    BY <2>3, <2>4 DEF ChildrenOf
  <2>7. Pairs(L, visits') = Pairs(L, visits)
    BY <2>5, PairsSame
  <2>8. Pairs(L, visits) = Pairs(K, visits)
    BY <2>5, <2>6, PairsFresh
  <2> QED
    BY <2>2, <2>4, <2>7, <2>8 DEF Expected
<1>2. \A q \in nnOutput \ {rootNode} : AddsUp(q, Counted(q), Expected(q))
  BY VisitsAddUpIs DEF VisitInv
<1>3. \A q \in nnOutput \ {rootNode} : AddsUp(q, Counted(q)', Expected(q)')
  BY <1>1, <1>2
<1> QED
  BY <1>3, VisitsAddUpIs

\* Where the thread goes when a call returns.
LEMMA ReturnsTo ==
  ASSUME IInv, NEW t \in Threads, at[t] \in InPlayout, NEW n \in Nodes, node[t] = n, Return(t, n)
  PROVE  /\ n \in tree
         /\ n # rootNode => Len(n) # 0 /\ Front(n) \in tree /\ Front(n) \in Nodes /\ Front(n) # n
         /\ \A q \in Nodes : Returning(q)' =
              (IF q = n THEN Returning(q) \ {t} ELSE Returning(q))
                \cup (IF n # rootNode /\ q = Front(n) THEN {t} ELSE {})
<1>1. n \in tree /\ IsPrefix(rootNode, n) /\ rootNode \in Nodes /\ tree \subseteq Nodes
  BY DEF IInv, TypeOK, ThreadInv, TreeInv
<1>2. ASSUME n # rootNode
      PROVE  Len(n) # 0 /\ Front(n) \in tree /\ Front(n) \in Nodes /\ Front(n) # n
  <2>1. Len(n) # 0 /\ Front(n) \in tree
    BY <1>1, <1>2, PrefixOfParent DEF IInv, TreeInv
  <2>2. Len(Front(n)) = Len(n) - 1 /\ Len(n) \in Nat
    BY <2>1, ParentOf, NodeIsSeq
  <2>3. Front(n) # n
    BY <2>2
  <2> QED
    BY <1>1, <2>1, <2>3
<1>3. CASE n = rootNode
  <2>1. at' = [at EXCEPT ![t] = "counting"] /\ node' = [node EXCEPT ![t] = n]
    BY <1>3 DEF Return, GoTo
  <2>2. /\ \A u \in Threads : u # t => at'[u] = at[u] /\ node'[u] = node[u]
        /\ at'[t] = "counting"
    BY <2>1 DEF IInv, TypeOK
  <2>3. \A q \in Nodes : Returning(q)' = IF q = n THEN Returning(q) \ {t} ELSE Returning(q)
    BY <2>2 DEF Returning
  <2> QED
    BY <1>1, <1>2, <1>3, <2>3
<1>4. CASE n # rootNode
  <2>1. at' = [at EXCEPT ![t] = "returning"] /\ node' = [node EXCEPT ![t] = Front(n)]
    BY <1>4 DEF Return, GoTo
  <2>2. /\ \A u \in Threads : u # t => at'[u] = at[u] /\ node'[u] = node[u]
        /\ at'[t] = "returning" /\ node'[t] = Front(n)
    BY <2>1 DEF IInv, TypeOK
  <2>3. ASSUME NEW q \in Nodes
        PROVE  Returning(q)' = (IF q = n THEN Returning(q) \ {t} ELSE Returning(q))
                                 \cup (IF q = Front(n) THEN {t} ELSE {})
    BY <1>2, <1>4, <2>2 DEF Returning
  <2> QED
    BY <1>1, <1>2, <1>4, <2>3
<1> QED
  BY <1>3, <1>4

\* The visit that a call adds to its node is one that the call for the parent will
\* add, and what the threads that return to a node have still to add is counted.
LEMMA ReturnAddsUp ==
  ASSUME IInv, TypeOK', VisitInv, NEW t \in Threads, at[t] \in InPlayout,
         NEW n \in Nodes, node[t] = n, UNCHANGED <<rootNode, tree>>,
         AddVisit(n, LossesOf(n)), Return(t, n),
         nnOutput \subseteq nnOutput', nnOutput' \subseteq nnOutput \cup {n},
         n \in nnOutput' => ~IsFinished(n),
         n \in nnOutput \ {rootNode} => at[t] = "returning" \/ n \in SureWins
  PROVE  VisitsAddUp'
<1>1. /\ visits' = [visits EXCEPT ![n] = @ + 1] /\ visits \in [Nodes -> Nat]
      /\ tree \subseteq Nodes /\ IsFiniteSet(tree) /\ nnOutput \subseteq tree
  BY DEF AddVisit, IInv, TypeOK, VisitInv
<1>2. /\ n \in tree
      /\ n # rootNode => Len(n) # 0 /\ Front(n) \in tree /\ Front(n) \in Nodes /\ Front(n) # n
      /\ \A q \in Nodes : Returning(q)' =
           (IF q = n THEN Returning(q) \ {t} ELSE Returning(q))
             \cup (IF n # rootNode /\ q = Front(n) THEN {t} ELSE {})
  BY ReturnsTo
<1>3. \A q \in nnOutput \ {rootNode} : AddsUp(q, Counted(q), Expected(q))
  BY VisitsAddUpIs DEF VisitInv
<1>4. SUFFICES ASSUME NEW q \in nnOutput', q # rootNode
               PROVE  AddsUp(q, Counted(q)', Expected(q)')
  BY VisitsAddUpIs
<1>5. /\ q \in tree /\ q \in Nodes /\ IsFiniteSet(ChildrenOf(q)) /\ ~IsFinished(q)
      /\ visits[q] \in Nat /\ Cardinality(Returning(q)) \in Nat /\ Expected(q) \in Nat
      /\ \A c \in ChildrenOf(q) : c \in Nodes /\ visits[c] \in Nat
  <2>1. q \in tree /\ q \in Nodes /\ ~IsFinished(q)
    BY <1>1, <1>2 DEF VisitInv, DecidedInv
  <2> QED
    BY <1>1, <2>1, CountsAreNat DEF IInv, ChildrenOf
<1>6. CASE q = n
  <2>1. n \notin ChildrenOf(n)
    BY <1>5, <1>6, ChildOf DEF ChildrenOf
  <2>2. Expected(q)' = Expected(q)
    <3>1. Pairs(ChildrenOf(q), visits') = Pairs(ChildrenOf(q), visits)
      <4>1. \A c \in ChildrenOf(q) : visits'[c] = visits[c]
        BY <1>1, <1>5, <1>6, <2>1
      <4> QED
        BY <4>1, PairsSame
    <3> QED
      BY <3>1 DEF Expected, ChildrenOf
  <2>3. visits'[q] = visits[q] + 1
    BY <1>1, <1>6
  <2>4. Returning(q)' = Returning(q) \ {t}
    BY <1>2, <1>4, <1>5, <1>6
  <2>5. t \in Returning(q) <=> at[t] = "returning"
    BY <1>6 DEF Returning
  <2>6. IsFiniteSet(Returning(q))
    BY FS_Subset DEF Returning
  <2>7. CASE at[t] = "returning"
    <3>1. Cardinality(Returning(q)') = Cardinality(Returning(q)) - 1
      BY <2>4, <2>5, <2>6, <2>7, FS_RemoveElement
    <3>2. Counted(q)' = Counted(q)
      BY <1>5, <2>3, <3>1 DEF Counted
    <3>3. q \in nnOutput
      BY <1>6, <2>7 DEF VisitInv, ParentInv
    <3> QED
      BY <1>3, <1>4, <2>2, <3>2, <3>3
  <2>8. CASE at[t] # "returning"
    <3>1. Returning(q)' = Returning(q)
      BY <2>4, <2>5, <2>8
    <3>2. Counted(q)' = Counted(q) + 1 /\ Counted(q) \in Nat
      BY <1>5, <2>3, <3>1 DEF Counted
    <3>3. CASE q \in nnOutput
      <4>1. AddsUp(q, Counted(q), Expected(q)) /\ q \in SureWins
        BY <1>3, <1>4, <1>6, <2>8, <3>3
      <4> QED
        BY <1>5, <2>2, <3>2, <4>1 DEF AddsUp
    <3>4. CASE q \notin nnOutput
      <4>1. Returning(q) = {}
        BY <3>4 DEF VisitInv, ParentInv, Returning
      <4>2. ChildrenOf(q) = {}
        <5>1. SUFFICES ASSUME NEW c \in tree, c \in Children(q) PROVE FALSE
          BY DEF ChildrenOf
        <5>2. Front(c) = q /\ c # rootNode
          BY <1>5, <5>1, ChildOf, RootIsNoChild
        <5> QED
          BY <3>4, <5>1, <5>2 DEF VisitInv, ParentInv
      <4>3. Expected(q) = 0
        BY <4>2, PairsEmpty DEF Expected
      <4>4. Cardinality(Returning(q)) = 0
        BY <4>1, FS_EmptySet
      <4>5. q \in SureWins \/ visits[q] = 0
        BY <1>5, <3>4 DEF VisitInv, FreshInv
      <4> QED
        BY <1>5, <2>2, <3>2, <4>3, <4>4, <4>5 DEF AddsUp, Counted
    <3> QED
      BY <3>3, <3>4
  <2> QED
    BY <2>7, <2>8
<1>7. CASE q # n
  <2>1. q \in nnOutput /\ AddsUp(q, Counted(q), Expected(q))
    BY <1>3, <1>4, <1>7
  <2>2. visits'[q] = visits[q]
    BY <1>1, <1>5, <1>7
  <2>3. CASE n # rootNode /\ q = Front(n)
    <3>1. n \in ChildrenOf(q)
      BY <1>2, <1>5, <2>3, ChildrenHaveOneParent DEF ChildrenOf
    <3>2. Cardinality(Pairs(ChildrenOf(q), visits')) = Cardinality(Pairs(ChildrenOf(q), visits)) + 1
      <4>1. visits'[n] = visits[n] + 1
        BY <1>1
      <4>2. \A c \in ChildrenOf(q) \ {n} : visits'[c] = visits[c]
        BY <1>1 DEF ChildrenOf
      <4> QED
        BY <1>5, <3>1, <4>1, <4>2, PairsGrow
    <3>3. Expected(q)' = Expected(q) + 1
      BY <3>2 DEF Expected, ChildrenOf
    <3>4. Returning(q)' = Returning(q) \cup {t} /\ t \notin Returning(q) /\ IsFiniteSet(Returning(q))
      BY <1>2, <1>5, <1>7, <2>3, FS_Subset DEF Returning
    <3>5. Cardinality(Returning(q)') = Cardinality(Returning(q)) + 1
      BY <3>4, FS_AddElement
    <3>6. Counted(q)' = Counted(q) + 1 /\ Counted(q) \in Nat
      BY <1>5, <2>2, <3>5 DEF Counted
    <3> QED
      BY <1>5, <2>1, <3>3, <3>6 DEF AddsUp
  <2>4. CASE ~(n # rootNode /\ q = Front(n))
    <3>1. n \notin ChildrenOf(q)
      <4>1. CASE n = rootNode
        BY <1>5, <4>1, RootIsNoChild DEF ChildrenOf
      <4>2. CASE n # rootNode
        BY <1>2, <1>5, <2>4, <4>2, ChildrenHaveOneParent DEF ChildrenOf
      <4> QED
        BY <4>1, <4>2
    <3>2. Pairs(ChildrenOf(q), visits') = Pairs(ChildrenOf(q), visits)
      <4>1. \A c \in ChildrenOf(q) : visits'[c] = visits[c]
        BY <1>1, <1>5, <3>1
      <4> QED
        BY <4>1, PairsSame
    <3>3. Expected(q)' = Expected(q)
      BY <3>2 DEF Expected, ChildrenOf
    <3>4. Returning(q)' = Returning(q)
      <4>1. Returning(q)' = Returning(q) \cup {}
        BY <1>2, <1>5, <1>7, <2>4
      <4> QED
        BY <4>1
    <3>5. Counted(q)' = Counted(q)
      BY <2>2, <3>4 DEF Counted
    <3> QED
      BY <2>1, <3>3, <3>5
  <2> QED
    BY <2>3, <2>4
<1> QED
  BY <1>6, <1>7

\* Steps that leave the tree, its visits and the threads that return alone.
LEMMA VisitInvStays ==
  ASSUME IInv, TypeOK', VisitInv,
         UNCHANGED <<rootNode, tree, visits, sureWin, nnOutput, avoidMoveUntilByLoc>>,
         \A t \in Threads : \/ at'[t] # "returning" /\ at[t] # "returning"
                            \/ at'[t] = at[t] /\ node'[t] = node[t]
  PROVE  VisitInv'
<1>1. \A n \in Nodes : Returning(n)' = Returning(n)
  BY DEF Returning
<1>2. VisitsAddUp'
  BY <1>1, VisitsStay DEF VisitInv
<1>3. IsFiniteSet(tree)' /\ DecidedInv' /\ ParentInv' /\ BanInv' /\ FreshInv'
  BY DEF VisitInv, DecidedInv, ParentInv, BanInv, FreshInv
<1> QED
  BY <1>2, <1>3 DEF VisitInv

LEMMA ReturningKeepsVisits ==
  ASSUME IInv, TypeOK', VisitInv, NEW t \in Threads, at[t] \in InPlayout,
         NEW n \in Nodes, node[t] = n, UNCHANGED <<rootNode, tree, avoidMoveUntilByLoc>>,
         AddVisit(n, LossesOf(n)), Return(t, n), sureWin' \subseteq SureWins,
         nnOutput \subseteq nnOutput', nnOutput' \subseteq nnOutput \cup {n},
         n \in nnOutput' => ~IsFinished(n),
         n \notin nnOutput' => n \in SureWins \/ IsFinished(n),
         n \in nnOutput \ {rootNode} => at[t] = "returning" \/ n \in SureWins
  PROVE  VisitInv'
<1>1. VisitsAddUp'
  BY ReturnAddsUp
<1>2. n \in tree
  BY ReturnsTo
<1>3. DecidedInv'
  BY DEF VisitInv, DecidedInv
<1>4. ParentInv'
  <2>1. ASSUME NEW u \in Threads, at'[u] = "returning" PROVE node'[u] \in nnOutput
    <3>1. PICK q \in Nodes : q = node'[u]
      BY DEF TypeOK
    <3>2. u \in Returning(q)'
      BY <2>1, <3>1 DEF Returning
    <3>3. u \in Returning(q) \/ (n # rootNode /\ q = Front(n))
      BY <3>2, ReturnsTo
    <3> QED
      BY <1>2, <3>1, <3>3 DEF VisitInv, ParentInv, Returning
  <2> QED
    BY <2>1 DEF VisitInv, ParentInv
<1>5. FreshInv'
  <2>1. \A q \in Nodes : visits'[q] # 0 => q = n \/ visits[q] # 0
    BY DEF AddVisit, IInv, TypeOK
  <2> QED
    BY <1>2, <2>1 DEF VisitInv, FreshInv
<1>6. IsFiniteSet(tree)' /\ BanInv'
  BY DEF VisitInv, BanInv
<1> QED
  BY <1>1, <1>3, <1>4, <1>5, <1>6 DEF VisitInv

LEMMA AddDecidedKeepsVisits ==
  ASSUME IInv, TypeOK', VisitInv, NEW t \in Threads, AddDecidedValue(t)
  PROVE  VisitInv'
<1> PICK n \in Nodes : n = node[t]
  BY DEF IInv, TypeOK
<1>1. /\ at[t] = "entering" /\ IsDecided(n) /\ AddVisit(n, LossesOf(n)) /\ Return(t, n)
      /\ UNCHANGED <<rootNode, tree, sureWin, nnVars, searchVars>>
  BY DEF AddDecidedValue
<1>2. sureWin \subseteq SureWins /\ (n \in nnOutput => ~IsFinished(n))
  BY DEF VisitInv, DecidedInv
<1>3. nnOutput' = nnOutput /\ sureWin' = sureWin /\ UNCHANGED <<rootNode, tree, avoidMoveUntilByLoc>>
  BY <1>1 DEF nnVars, searchVars
<1>4. n \in SureWins \/ IsFinished(n)
  BY <1>1, <1>2 DEF IsDecided
<1> QED
  BY <1>1, <1>2, <1>3, <1>4, ReturningKeepsVisits DEF InPlayout

LEMMA InitNodeKeepsVisits ==
  ASSUME IInv, TypeOK', VisitInv, NEW t \in Threads, InitNode(t)
  PROVE  VisitInv'
<1> PICK n \in Nodes : n = node[t]
  BY DEF IInv, TypeOK
<1>1. /\ at[t] = "locked" /\ n \notin nnOutput /\ AddVisit(n, LossesOf(n)) /\ Return(t, n)
      /\ UNCHANGED <<rootNode, tree, searchVars>>
  BY DEF InitNode
<1>2. PICK won \in SolverResults(n) :
        /\ SetSureWin(n, won)
        /\ IF won /\ n # rootNode THEN UNCHANGED nnVars ELSE nnOutput' = nnOutput \cup {n}
  BY DEF InitNode
<1>3. won => n \in SureWins
  BY DEF SolverResults
<1>4. sureWin' \subseteq SureWins
  BY <1>2, <1>3 DEF SetSureWin, VisitInv, DecidedInv
<1>5. ~IsFinished(n)
  BY <1>1 DEF IInv, ThreadInv
<1>6. /\ nnOutput \subseteq nnOutput' /\ nnOutput' \subseteq nnOutput \cup {n}
      /\ n \notin nnOutput' => n \in SureWins
  BY <1>2, <1>3 DEF nnVars
<1> QED
  BY <1>1, <1>4, <1>5, <1>6, ReturningKeepsVisits DEF InPlayout, searchVars

LEMMA UpdateStatsKeepsVisits ==
  ASSUME IInv, TypeOK', VisitInv, NEW t \in Threads, UpdateStats(t)
  PROVE  VisitInv'
<1> PICK n \in Nodes : n = node[t]
  BY DEF IInv, TypeOK
<1>1. /\ at[t] = "returning" /\ AddVisit(n, LossesOf(n)) /\ Return(t, n)
      /\ UNCHANGED <<rootNode, tree, sureWin, nnVars, searchVars>>
  BY DEF UpdateStats
<1>2. n \in nnOutput /\ ~IsFinished(n) /\ sureWin \subseteq SureWins
  BY <1>1 DEF VisitInv, ParentInv, DecidedInv
<1>3. nnOutput' = nnOutput /\ sureWin' = sureWin /\ UNCHANGED <<rootNode, tree, avoidMoveUntilByLoc>>
  BY <1>1 DEF nnVars, searchVars
<1> QED
  BY <1>1, <1>2, <1>3, ReturningKeepsVisits DEF InPlayout

\* The length of a path counts from the root, and a ban of a deeper node is one of
\* the root too.
LEMMA BannedMoves ==
  ASSUME IInv, NEW n \in tree, ~IsFinished(n), NEW m \in Moves, IsBanned(Append(n, m))
  PROVE  avoidMoveUntilByLoc[m] > 0
<1>1. n \in Seq(Moves) /\ Len(n) \in Nat /\ Len(rootNode) \in Nat /\ Len(rootNode) <= Len(n)
  <2>1. n \in Nodes /\ rootNode \in Nodes /\ IsPrefix(rootNode, n)
    BY DEF IInv, TypeOK, TreeInv
  <2> QED
    BY <2>1, NodeIsSeq, PrefixEntries
<1> DEFINE c == Append(n, m)
<1>2. Len(c) = Len(n) + 1 /\ c[Len(n) + 1] = m
  BY <1>1, AppendProperties
<1>3. Last(c) = m
  BY <1>2 DEF Last
<1>4. Len(c) - 1 - Len(rootNode) < avoidMoveUntilByLoc[m]
  BY <1>3 DEF IsBanned
<1>5. avoidMoveUntilByLoc[m] \in Nat
  BY DEF IInv, TypeOK
<1> HIDE DEF c
<1> QED
  BY <1>1, <1>2, <1>4, <1>5

LEMMA NoChildKeepsVisits ==
  ASSUME IInv, TypeOK', VisitInv, NEW t \in Threads, NoChild(t)
  PROVE  VisitInv'
<1> PICK n \in Nodes : n = node[t]
  BY DEF IInv, TypeOK
<1>1. /\ at[t] = "locked" /\ n \in nnOutput /\ Candidates(n) = {}
      /\ AddVisit(n, LossesOf(n)) /\ Return(t, n)
      /\ UNCHANGED <<rootNode, tree, sureWin, nnVars, searchVars>>
  BY DEF NoChild
<1>2. n \in tree /\ ~IsFinished(n) /\ sureWin \subseteq SureWins
  BY <1>1 DEF IInv, TypeOK, VisitInv, DecidedInv
<1>3. nnOutput' = nnOutput /\ sureWin' = sureWin /\ UNCHANGED <<rootNode, tree, avoidMoveUntilByLoc>>
  BY <1>1 DEF nnVars, searchVars
<1>4. n = rootNode
  <2>1. ASSUME NEW m \in Moves PROVE avoidMoveUntilByLoc[m] > 0
    <3>1. IsBanned(Append(n, m))
      BY <1>1 DEF Candidates, Children
    <3> QED
      BY <1>2, <3>1, BannedMoves
  <2> QED
    BY <1>2, <2>1 DEF VisitInv, BanInv
<1> QED
  BY <1>1, <1>2, <1>3, <1>4, ReturningKeepsVisits DEF InPlayout

LEMMA ReInitKeepsVisits ==
  ASSUME IInv, TypeOK', VisitInv, NEW t \in Threads, ReInit(t)
  PROVE  VisitInv'
<1>1. PICK won \in SolverResults(rootNode) :
        /\ SetSureWin(rootNode, won)
        /\ IF won THEN AddVisit(rootNode, 0) ELSE UNCHANGED <<visits, virtualLosses>>
  BY DEF ReInit, IsStale
<1>2. /\ rootNode \in nnOutput
      /\ UNCHANGED <<rootNode, tree, nnOutput, avoidMoveUntilByLoc, at, node>>
  BY DEF ReInit, IsStale, searchVars, threadVars
<1>3. \A n \in Nodes \ {rootNode} : visits'[n] = visits[n]
  BY <1>1 DEF AddVisit, IInv, TypeOK
<1>4. sureWin' \subseteq SureWins
  BY <1>1 DEF SetSureWin, SolverResults, VisitInv, DecidedInv
<1>5. DecidedInv' /\ ParentInv' /\ BanInv' /\ IsFiniteSet(tree)'
  BY <1>2, <1>4 DEF VisitInv, DecidedInv, ParentInv, BanInv
<1>6. FreshInv'
  BY <1>2, <1>3 DEF VisitInv, FreshInv
<1>7. VisitsAddUp'
  <2>1. \A n \in Nodes : Returning(n)' = Returning(n)
    BY <1>2 DEF Returning
  <2> QED
    BY <1>2, <1>3, <2>1, VisitsStay DEF VisitInv
<1> QED
  BY <1>5, <1>6, <1>7 DEF VisitInv

LEMMA DescendKeepsVisits ==
  ASSUME IInv, TypeOK', VisitInv, NEW t \in Threads, Descend(t)
  PROVE  VisitInv'
<1> PICK n \in Nodes : n = node[t]
  BY DEF IInv, TypeOK
<1>1. /\ at[t] = "locked" /\ n \in nnOutput
      /\ UNCHANGED <<rootNode, visits, sureWin, nnOutput, avoidMoveUntilByLoc>>
  BY DEF Descend, nnVars, searchVars
<1>2. PICK child \in Candidates(n) : tree' = tree \cup {child} /\ GoTo(t, "entering", child)
  BY DEF Descend
<1>3. n \in tree /\ ~IsFinished(n) /\ child \in Children(n)
  BY <1>1, <1>2 DEF IInv, TypeOK, VisitInv, DecidedInv, Candidates, ChildrenOf
<1>4. child \in Nodes /\ Front(child) = n /\ child # rootNode
  BY <1>3, ChildOf, RootIsNoChild
<1>5. \A c \in tree' \ tree : visits[c] = 0
  BY <1>2, <1>4 DEF VisitInv, FreshInv, IInv, TypeOK
<1>6. /\ \A u \in Threads : u # t => at'[u] = at[u] /\ node'[u] = node[u]
      /\ at'[t] = "entering"
  BY <1>2 DEF GoTo, IInv, TypeOK
<1>7. IsFiniteSet(tree')
  BY <1>2, FS_AddElement DEF VisitInv
<1>8. VisitsAddUp'
  <2>1. \A c \in Nodes : Returning(c)' = Returning(c)
    BY <1>1, <1>6 DEF Returning
  <2> QED
    BY <1>1, <1>2, <1>5, <1>7, <2>1, VisitsStay
<1>9. DecidedInv' /\ FreshInv'
  BY <1>1, <1>2 DEF VisitInv, DecidedInv, FreshInv
<1>10. ParentInv'
  BY <1>1, <1>2, <1>4, <1>6 DEF VisitInv, ParentInv
<1>11. BanInv'
  <2>1. SUFFICES ASSUME \A m \in Moves : avoidMoveUntilByLoc[m] > 0 PROVE FALSE
    BY <1>1 DEF BanInv
  <2>2. tree \subseteq {rootNode} /\ n = rootNode
    BY <1>3, <2>1 DEF VisitInv, BanInv
  <2>3. child \notin ChildrenOf(n)
    BY <1>4, <2>2 DEF ChildrenOf
  <2>4. ~IsBanned(child)
    BY <1>2, <2>3 DEF Candidates
  <2>5. PICK m \in Moves : child = Append(n, m)
    BY <1>3 DEF Children
  <2>6. n \in Seq(Moves) /\ Len(n) \in Nat
    BY NodeIsSeq
  <2>7. Len(child) = Len(n) + 1 /\ child[Len(n) + 1] = m
    BY <2>5, <2>6, AppendProperties
  <2>8. Last(child) = m /\ Len(child) - 1 - Len(rootNode) = 0
    BY <2>2, <2>6, <2>7 DEF Last
  <2>9. avoidMoveUntilByLoc[m] > 0
    BY <2>1
  <2> QED
    BY <2>4, <2>8, <2>9 DEF IsBanned
<1> QED
  BY <1>7, <1>8, <1>9, <1>10, <1>11 DEF VisitInv

LEMMA BeginSearchKeepsVisits ==
  ASSUME IInv, TypeOK', VisitInv, BeginSearch
  PROVE  VisitInv'
<1>1. /\ phase = "idle" /\ tree' = tree \cup {rootNode}
      /\ at' = [t \in Threads |-> "starting"]
      /\ UNCHANGED <<rootNode, visits, sureWin, nnOutput, avoidMoveUntilByLoc>>
  BY DEF BeginSearch, statVars
<1>2. \A t \in Threads : at[t] = "stopped"
  BY <1>1 DEF IInv, ThreadInv
<1>3. IsFiniteSet(tree')
  BY <1>1, FS_AddElement DEF VisitInv
<1>4. VisitsAddUp'
  <2>1. \A n \in Nodes : Returning(n)' = Returning(n)
    BY <1>1, <1>2 DEF Returning
  <2> QED
    BY <1>1, <1>3, <2>1, VisitsStay
<1>5. DecidedInv' /\ FreshInv' /\ ParentInv' /\ BanInv'
  BY <1>1 DEF VisitInv, DecidedInv, FreshInv, ParentInv, BanInv
<1> QED
  BY <1>3, <1>4, <1>5 DEF VisitInv

\* The nodes that are left have the children they had.
LEMMA MakeMoveKeepsVisits ==
  ASSUME IInv, TypeOK', VisitInv, NEW m \in Moves, MakeMove(m)
  PROVE  VisitInv'
<1> PICK child \in Children(rootNode) : child = Append(rootNode, m)
  BY DEF Children
<1> PICK S : S = IF ChildIsWorthKeeping(child) THEN Subtree(child) ELSE {}
  OBVIOUS
<1>1. /\ phase = "idle" /\ ~IsFinished(rootNode) /\ rootNode' = child /\ KeepNodes(S)
      /\ UNCHANGED <<avoidMoveUntilByLoc, at, node>>
  BY DEF MakeMove, searchVars, threadVars
<1>2. /\ tree' = S /\ sureWin' = sureWin \cap S /\ nnOutput' = nnOutput \cap S
      /\ visits' = [n \in Nodes |-> IF n \in S THEN visits[n] ELSE 0]
  BY <1>1 DEF KeepNodes
<1>3. /\ S \subseteq tree /\ tree \subseteq Nodes /\ child \in Nodes /\ child # rootNode
      /\ ~IsPrefix(child, rootNode) /\ rootNode \in Nodes
  BY <1>1, ChildOf DEF Subtree, IInv, TypeOK
<1>4. \A t \in Threads : at[t] = "stopped"
  BY <1>1 DEF IInv, ThreadInv
<1>5. IsFiniteSet(tree')
  BY <1>2, <1>3, FS_Subset DEF VisitInv
<1>6. DecidedInv' /\ FreshInv'
  BY <1>2, <1>3 DEF VisitInv, DecidedInv, FreshInv
<1>7. ASSUME NEW c \in S
      PROVE  IsPrefix(child, c) /\ c # rootNode /\ S = Subtree(child)
  BY <1>3, <1>7 DEF Subtree
<1>8. ParentInv'
  <2>1. ASSUME NEW c \in S, c # child PROVE Front(c) \in nnOutput \cap S
    <3>1. Front(c) \in nnOutput
      BY <1>3, <1>7, <2>1 DEF VisitInv, ParentInv
    <3>2. IsPrefix(child, Front(c))
      BY <1>3, <1>7, <2>1, PrefixOfParent
    <3> QED
      BY <1>7, <2>1, <3>1, <3>2 DEF Subtree, IInv, TypeOK
  <2> QED
    BY <1>1, <1>2, <1>4, <2>1 DEF ParentInv
<1>9. BanInv'
  <2>1. SUFFICES ASSUME \A k \in Moves : avoidMoveUntilByLoc[k] > 0 PROVE S = {}
    BY <1>1, <1>2 DEF BanInv
  <2>2. tree \subseteq {rootNode}
    BY <2>1 DEF VisitInv, BanInv
  <2> QED
    BY <1>3, <1>7, <2>2
<1>10. VisitsAddUp'
  <2>1. \A q \in nnOutput \ {rootNode} : AddsUp(q, Counted(q), Expected(q))
    BY VisitsAddUpIs DEF VisitInv
  <2>2. ASSUME NEW q \in nnOutput', q # child
        PROVE  AddsUp(q, Counted(q)', Expected(q)')
    <3>1. q \in S /\ q \in nnOutput /\ q \in Nodes /\ ~IsFinished(q)
      BY <1>2, <1>3, <2>2 DEF VisitInv, DecidedInv
    <3>2. q # rootNode /\ IsPrefix(child, q) /\ S = Subtree(child)
      BY <1>7, <3>1
    <3>3. S \cap Children(q) = tree \cap Children(q)
      <4>1. SUFFICES ASSUME NEW c \in tree, c \in Children(q) PROVE c \in S
        BY <1>3
      <4>2. c \in Nodes /\ IsPrefix(q, c)
        BY <1>3, <3>1, <4>1, ChildOf
      <4>3. IsPrefix(child, c)
        BY <1>3, <3>1, <3>2, <4>2, PrefixOrder
      <4> QED
        BY <3>2, <4>1, <4>3 DEF Subtree
    <3>4. Pairs(S \cap Children(q), visits') = Pairs(S \cap Children(q), visits)
      <4>1. \A c \in S \cap Children(q) : visits'[c] = visits[c]
        BY <1>2, <1>3
      <4> QED
        BY <4>1, PairsSame
    <3>5. Expected(q)' = Expected(q)
      BY <1>2, <3>3, <3>4 DEF Expected, ChildrenOf
    <3>6. Counted(q)' = Counted(q)
      BY <1>1, <1>2, <3>1 DEF Counted, Returning
    <3> QED
      BY <2>1, <3>1, <3>2, <3>5, <3>6
  <2> QED
    BY <1>1, <2>2, VisitsAddUpIs
<1> QED
  BY <1>5, <1>6, <1>8, <1>9, <1>10 DEF VisitInv

LEMMA SetAvoidMoveKeepsVisits ==
  ASSUME IInv, TypeOK', VisitInv, NEW ban \in Bans, SetAvoidMoveUntilByLoc(ban)
  PROVE  VisitInv'
<1>1. /\ phase = "idle" /\ tree' = {} /\ nnOutput' = {} /\ sureWin' = {}
      /\ visits' = [n \in Nodes |-> 0] /\ at' = at
  BY DEF SetAvoidMoveUntilByLoc, KeepNodes, threadVars
<1>2. \A t \in Threads : at'[t] = "stopped"
  BY <1>1 DEF IInv, ThreadInv
<1>3. VisitsAddUp'
  BY <1>1 DEF VisitsAddUp
<1>4. IsFiniteSet(tree') /\ DecidedInv' /\ ParentInv' /\ BanInv' /\ FreshInv'
  BY <1>1, <1>2, FS_EmptySet DEF DecidedInv, ParentInv, BanInv, FreshInv
<1> QED
  BY <1>3, <1>4 DEF VisitInv

\* A thread that neither comes back from a child nor is about to.
LEMMA MovingKeepsVisits ==
  ASSUME IInv, TypeOK', VisitInv, NEW t \in Threads, at[t] # "returning",
         NEW where \in {"head", "stopped", "entering", "locking", "locked"}, NEW n, GoTo(t, where, n),
         UNCHANGED <<rootNode, tree, statVars, nnVars, searchVars>>
  PROVE  VisitInv'
<1>1. /\ \A u \in Threads : u # t => at'[u] = at[u] /\ node'[u] = node[u]
      /\ at'[t] = where
  BY DEF GoTo, IInv, TypeOK
<1> QED
  BY <1>1, VisitInvStays DEF statVars, nnVars, searchVars

LEMMA ThreadKeepsVisits ==
  ASSUME IInv, TypeOK', VisitInv, NEW t \in Threads,
         Start(t) \/ LoopHead(t) \/ WaitForLock(t) \/ Lock(t) \/ Count(t)
  PROVE  VisitInv'
<1>1. CASE Start(t)
  BY <1>1, MovingKeepsVisits DEF Start
<1>2. CASE LoopHead(t)
  <2>1. PICK where \in {"stopped", "entering"}, n \in Nodes : GoTo(t, where, n)
    BY <1>2 DEF LoopHead, IInv, TypeOK
  <2> QED
    BY <1>2, <2>1, MovingKeepsVisits DEF LoopHead
<1>3. CASE WaitForLock(t)
  BY <1>3, MovingKeepsVisits DEF WaitForLock
<1>4. CASE Lock(t)
  BY <1>4, MovingKeepsVisits DEF Lock
<1>5. CASE Count(t)
  BY <1>5, MovingKeepsVisits DEF Count
<1> QED
  BY <1>1, <1>2, <1>3, <1>4, <1>5

LEMMA InitVisits == Init => VisitInv
<1> SUFFICES ASSUME Init PROVE VisitInv
  OBVIOUS
<1>1. tree = {} /\ nnOutput = {} /\ sureWin = {} /\ visits = [n \in Nodes |-> 0]
      /\ \A t \in Threads : at[t] = "stopped"
  BY DEF Init
<1> QED
  BY <1>1, FS_EmptySet DEF VisitInv, DecidedInv, ParentInv, BanInv, FreshInv, VisitsAddUp

LEMMA NextVisits == IInv /\ IInv' /\ VisitInv /\ [Next]_vars => VisitInv'
<1> SUFFICES ASSUME IInv, TypeOK', VisitInv, [Next]_vars PROVE VisitInv'
  BY DEF IInv
<1>1. CASE UNCHANGED vars
  BY <1>1, VisitInvStays DEF vars
<1>2. ASSUME NEW m \in Moves, MakeMove(m) PROVE VisitInv'
  BY <1>2, MakeMoveKeepsVisits
<1>3. ASSUME NEW ban \in Bans, SetAvoidMoveUntilByLoc(ban) PROVE VisitInv'
  BY <1>3, SetAvoidMoveKeepsVisits
<1>4. CASE BeginSearch
  BY <1>4, BeginSearchKeepsVisits
<1>5. CASE EndSearch
  <2>1. /\ \A t \in Threads : at[t] = "stopped" /\ at'[t] = at[t]
        /\ UNCHANGED <<rootNode, tree, visits, sureWin, nnOutput, avoidMoveUntilByLoc>>
    BY <1>5 DEF EndSearch, statVars, nnVars
  <2> QED
    BY <2>1, VisitInvStays
<1>6. CASE Stop \/ CacheChanges
  BY <1>6, VisitInvStays DEF Stop, CacheChanges, statVars, nnVars, searchVars, threadVars
<1>7. ASSUME NEW t \in Threads, ThreadStep(t) PROVE VisitInv'
  BY <1>7, ThreadKeepsVisits, AddDecidedKeepsVisits, InitNodeKeepsVisits, ReInitKeepsVisits,
     DescendKeepsVisits, NoChildKeepsVisits, UpdateStatsKeepsVisits DEF ThreadStep
<1> QED
  BY <1>1, <1>2, <1>3, <1>4, <1>5, <1>6, <1>7 DEF Next

\* What was visited was evaluated or decided, children come after the evaluation of
\* their node, and the visits of a node are its own and those of its children.
THEOREM TreeVisitInvariant == Spec => []VisitInv
BY InitVisits, NextVisits, TreeInvariant, PTL DEF Spec

\* The three counts of a search agree, for any number of threads, moves and bans:
\* below the root a node has one visit of its own and those of its children, no
\* playout is begun beyond the limits, and the limits look at what the root has.
THEOREM TreeVisitsAreCounted == Spec => []VisitsAreCounted
<1>1. IInv /\ VisitInv /\ PlayoutsAreBounded => VisitsAreCounted
  BY DEF IInv, VisitInv, VisitsAreCounted
<1> QED
  BY <1>1, TreeInvariant, TreeVisitInvariant, TreePlayoutsAreBounded, PTL
================================================================================
