-------------------------- MODULE ContributeProofs --------------------------
(***************************************************************************)
(* Proofs about Contribute, for any number of task loops, game threads,    *)
(* nets and tasks: the nets of the games in hand are loaded and counted,   *)
(* a net to be loaded is in its file, and one thread downloads a net.      *)
(*                                                                         *)
(* Two arguments are at work.  taskLoopMutex is held wherever a task loop  *)
(* relies on files or on nets that nobody uses yet; and the acquire count  *)
(* of a net is the number of the sides of games that use it, from which    *)
(* follows that no net in use is let go.                                   *)
(***************************************************************************)
EXTENDS Contribute, FiniteSetTheorems, TLAPS

Types ==
  /\ at \in [Threads -> Places] /\ taskLock \in Loops \cup {NoThread}
  /\ files \subseteq Models /\ downloads \in [Models -> Downloaders \cup {NoThread}]
  /\ todo \in [Downloaders -> Seq(Models)]
  /\ task \in [Loops -> ServerTasks \cup {NoTask}]
  /\ loaded \in [Managers -> SUBSET Models] /\ uploader \in Players \cup {NoThread}
  /\ acquireCount \in [Managers -> [Models -> Int]]
  /\ nextGame \in [Loops -> GameTasks \cup {NoTask}]
  /\ game \in [Players -> GameTasks \cup {NoTask}]
  /\ gameTaskQueue \in {<<>>} \cup {<<g>> : g \in GameTasks}
  /\ numRatingGamesActive \in Int

PlaceInv ==
  /\ \A l \in Loops : at[l] \in {"idle", "exited", "relock"} \cup Locked \cup Fetching
  /\ \A p \in Players : at[p] \in {"popping", "exited"} \cup InGame
  /\ at[PreDownloader] \in {"resting", "exited"} \cup Fetching

LockInv == \A l \in Loops : at[l] \in Locked => taskLock = l

DownloadInv ==
  /\ \A d \in Downloaders : at[d] \in Fetching => todo[d] # <<>>
  /\ \A d \in Downloaders : at[d] \in Busy => downloads[Wanted(d)] = d
  /\ \A d \in Downloaders : at[d] = "waiting" => downloads[Wanted(d)] # NoThread
  /\ \A m \in Models : downloads[m] # NoThread =>
       at[downloads[m]] \in Busy /\ Wanted(downloads[m]) = m

NetsOf(new) == {new.model[side] : side \in Sides}

TaskInv ==
  \A l \in Loops :
    /\ at[l] \in (Locked \ {"asking"}) \cup Fetching \cup {"relock"} => task[l] \in ServerTasks
    /\ at[l] = "loading" => NetsOf(task[l]) \subseteq files

ReadyInv ==
  \A l \in Loops : at[l] \in Ready =>
    /\ nextGame[l] \in GameTasks /\ nextGame[l].rating = task[l].rating
    /\ \A side \in Sides : nextGame[l].model[side] \in loaded[nextGame[l].manager[side]]

GameInv ==
  \A p \in Players : IF at[p] \in InGame THEN game[p] \in GameTasks ELSE game[p] = NoTask

\* Uses(InHand, s, m) in two parts.
Held(s, m) == {u \in InHand : UsesOf(GameOf(u[1]))[u[2]] = <<s, m>>}
Queued(s, m) ==
  {side \in Sides : gameTaskQueue # <<>> /\ UsesOf(gameTaskQueue[1])[side] = <<s, m>>}

UseCount == \A s \in Managers, m \in Models :
  acquireCount[s][m] = Cardinality(Held(s, m)) + Cardinality(Queued(s, m))

RatingCount == numRatingGamesActive = ActiveRatingGames

\* A net that is acquired is loaded.
LoadedInv == \A s \in Managers, m \in Models : acquireCount[s][m] > 0 => m \in loaded[s]

\* No game is handed out when the game threads leave.
StopInv ==
  /\ readOnly => \A l \in Loops : at[l] = "exited"
  /\ \A p \in Players : at[p] = "exited" => readOnly /\ gameTaskQueue = <<>>

IInv == /\ Types /\ PlaceInv /\ LockInv /\ DownloadInv /\ TaskInv /\ ReadyInv /\ GameInv
        /\ UseCount /\ RatingCount /\ LoadedInv /\ StopInv

-----------------------------------------------------------------------------
(* Counting the sides of games.                                            *)

Has(S, x) == IF x \in S THEN 1 ELSE 0

LEMMA PairCount ==
  ASSUME NEW x, NEW y, x # y, NEW S \in SUBSET {x, y}
  PROVE  IsFiniteSet(S) /\ Cardinality(S) = Has(S, x) + Has(S, y)
<1>1. CASE S = {}
  BY <1>1, FS_EmptySet DEF Has
<1>2. CASE S = {x}
  <2>1. IsFiniteSet({x}) /\ Cardinality({x}) = 1
    BY FS_Singleton
  <2> QED BY <1>2, <2>1 DEF Has
<1>3. CASE S = {y}
  <2>1. IsFiniteSet({y}) /\ Cardinality({y}) = 1
    BY FS_Singleton
  <2> QED BY <1>3, <2>1 DEF Has
<1>4. CASE S = {x, y}
  <2>1. Cardinality({x}) = 1 /\ IsFiniteSet({x})
    BY FS_Singleton
  <2>2. Cardinality({x} \cup {y}) = 2 /\ IsFiniteSet({x} \cup {y})
    BY <2>1, FS_AddElement, y \notin {x}
  <2>3. S = {x} \cup {y}
    BY <1>4
  <2> QED BY <1>4, <2>2, <2>3 DEF Has
<1> QED BY <1>1, <1>2, <1>3, <1>4

\* How a set of sides of games in hand grows or shrinks when only thread t gets or
\* releases nets.
LEMMA OneThread ==
  ASSUME NEW T, IsFiniteSet(T), NEW t \in T,
         NEW A \in SUBSET (T \X Sides), NEW B \in SUBSET (T \X Sides),
         \A u \in T \X Sides : u[1] # t => (u \in A <=> u \in B)
  PROVE  /\ Cardinality(A) \in Nat /\ Cardinality(B) \in Nat
         /\ Cardinality(B) + Has(A, <<t, "black">>) + Has(A, <<t, "white">>)
              = Cardinality(A) + Has(B, <<t, "black">>) + Has(B, <<t, "white">>)
<1> DEFINE b == <<t, "black">>  w == <<t, "white">>
           rest == A \ {b, w}
           myA == A \cap {b, w}  myB == B \cap {b, w}
<1>1. \A u \in T \X Sides : u[1] = t => u \in {b, w}
  BY DEF Sides
<1>2. rest = B \ {b, w}
  <2>1. \A u \in rest : u \in T \X Sides /\ u[1] # t
    BY <1>1
  <2>2. \A u \in B \ {b, w} : u \in T \X Sides /\ u[1] # t
    BY <1>1
  <2> QED BY <2>1, <2>2
<1>3. IsFiniteSet(T \X Sides)
  <2>1. IsFiniteSet(Sides)
    BY PairCount, "black" # "white" DEF Sides
  <2> QED BY <2>1, FS_Product
<1>4. b # w
  OBVIOUS
<1>5. /\ IsFiniteSet(rest) /\ IsFiniteSet(myA) /\ IsFiniteSet(myB)
      /\ Cardinality(myA) = Has(A, b) + Has(A, w)
      /\ Cardinality(myB) = Has(B, b) + Has(B, w)
  <2>1. IsFiniteSet(rest)
    BY <1>3, FS_Subset
  <2>2. /\ IsFiniteSet(myA) /\ Cardinality(myA) = Has(myA, b) + Has(myA, w)
        /\ IsFiniteSet(myB) /\ Cardinality(myB) = Has(myB, b) + Has(myB, w)
    BY <1>4, PairCount
  <2>3. (b \in myA <=> b \in A) /\ (w \in myA <=> w \in A) /\ (b \in myB <=> b \in B) /\ (w \in myB <=> w \in B)
    OBVIOUS
  <2> QED BY <2>1, <2>2, <2>3 DEF Has
<1>6. A = rest \cup myA /\ B = rest \cup myB
  BY <1>2
<1>7. rest \cap myA = {} /\ rest \cap myB = {}
  OBVIOUS
<1> HIDE DEF b, w, rest, myA, myB
<1>8. /\ Cardinality(A) = Cardinality(rest) + Cardinality(myA)
      /\ Cardinality(B) = Cardinality(rest) + Cardinality(myB)
  <2>1. /\ Cardinality(rest \cup myA) = Cardinality(rest) + Cardinality(myA) - Cardinality(rest \cap myA)
        /\ Cardinality(rest \cup myB) = Cardinality(rest) + Cardinality(myB) - Cardinality(rest \cap myB)
    BY <1>5, FS_Union
  <2>2. Cardinality({}) = 0 /\ Cardinality(rest) \in Nat /\ Cardinality(myA) \in Nat /\ Cardinality(myB) \in Nat
    BY <1>5, FS_EmptySet, FS_CardinalityType
  <2>3. Cardinality(rest \cap myA) = 0 /\ Cardinality(rest \cap myB) = 0
    BY <1>7, <2>2
  <2>4. Cardinality(A) = Cardinality(rest \cup myA) /\ Cardinality(B) = Cardinality(rest \cup myB)
    BY <1>6
  <2> QED BY <2>1, <2>2, <2>3, <2>4
<1>9. Cardinality(rest) \in Nat
  BY <1>5, FS_CardinalityType
<1> QED BY <1>5, <1>8, <1>9 DEF Has, b, w

\* Whose sides are counted.
HeldFact ==
  \A s \in Managers, m \in Models :
    /\ Held(s, m) \subseteq (Loops \cup Players) \X Sides
    /\ \A t \in Loops \cup Players, side \in Sides :
         <<t, side>> \in Held(s, m) <=> side \in Holds(t) /\ UsesOf(GameOf(t))[side] = <<s, m>>

LEMMA HeldIs == HeldFact
<1> SUFFICES ASSUME NEW s \in Managers, NEW m \in Models
             PROVE  /\ Held(s, m) \subseteq (Loops \cup Players) \X Sides
                    /\ \A t \in Loops \cup Players, side \in Sides :
                         <<t, side>> \in Held(s, m) <=> side \in Holds(t) /\ UsesOf(GameOf(t))[side] = <<s, m>>
  BY DEF HeldFact
<1>1. \A t \in Loops \cup Players : Holds(t) \subseteq Sides
  BY DEF Holds, Sides
<1>2. InHand \subseteq (Loops \cup Players) \X Sides
  BY <1>1 DEF InHand
<1>3. \A t \in Loops \cup Players, side \in Sides : <<t, side>> \in InHand <=> side \in Holds(t)
  <2>1. TAKE t \in Loops \cup Players, side \in Sides
  <2>2. ASSUME side \in Holds(t)
        PROVE  <<t, side>> \in InHand
    BY <2>2 DEF InHand
  <2>3. ASSUME <<t, side>> \in InHand
        PROVE  side \in Holds(t)
    <3>1. PICK o \in Loops \cup Players : <<t, side>> \in {o} \X Holds(o)
      BY <2>3 DEF InHand
    <3> QED BY <3>1
  <2> QED BY <2>2, <2>3
<1>4. \A t \in Loops \cup Players, side \in Sides :
        <<t, side>> \in Held(s, m) <=> side \in Holds(t) /\ UsesOf(GameOf(t))[side] = <<s, m>>
  <2>1. TAKE t \in Loops \cup Players, side \in Sides
  <2>2. <<t, side>>[1] = t /\ <<t, side>>[2] = side
    OBVIOUS
  <2> QED BY <1>3, <2>2 DEF Held
<1> QED BY <1>2, <1>4 DEF Held

\* The count of the sides in hand when only thread t gets or releases nets.
LEMMA CountInHand ==
  ASSUME NEW t \in Loops \cup Players, NEW s \in Managers, NEW m \in Models,
         \A o \in (Loops \cup Players) \ {t} :
           Holds(o)' = Holds(o) /\ (Holds(o) # {} => GameOf(o)' = GameOf(o))
  PROVE  /\ Cardinality(Held(s, m)) \in Nat /\ Cardinality(Held(s, m)') \in Nat
         /\ Cardinality(Held(s, m)') + Has(Held(s, m), <<t, "black">>) + Has(Held(s, m), <<t, "white">>)
              = Cardinality(Held(s, m)) + Has(Held(s, m)', <<t, "black">>) + Has(Held(s, m)', <<t, "white">>)
<1> DEFINE T == Loops \cup Players  A == Held(s, m)  B == Held(s, m)'
<1>1. HeldFact /\ HeldFact'
  BY HeldIs, PTL
<1>2. A \in SUBSET (T \X Sides) /\ B \in SUBSET (T \X Sides)
  BY <1>1 DEF HeldFact
<1>3. IsFiniteSet(T)
  BY ContributeAssumption, FS_Union
<1>4. ASSUME NEW o \in T, NEW side \in Sides, o # t
      PROVE  <<o, side>> \in A <=> <<o, side>> \in B
  <2>1. <<o, side>> \in A <=> side \in Holds(o) /\ UsesOf(GameOf(o))[side] = <<s, m>>
    BY <1>1 DEF HeldFact
  <2>2. <<o, side>> \in B <=> side \in Holds(o)' /\ UsesOf(GameOf(o)')[side] = <<s, m>>
    BY <1>1 DEF HeldFact, UsesOf
  <2>3. Holds(o)' = Holds(o) /\ (Holds(o) # {} => GameOf(o)' = GameOf(o))
    BY <1>4
  <2> QED BY <2>1, <2>2, <2>3
<1>5. \A u \in T \X Sides : u[1] # t => (u \in A <=> u \in B)
  <2>1. TAKE u \in T \X Sides
  <2>2. u = <<u[1], u[2]>> /\ u[1] \in T /\ u[2] \in Sides
    OBVIOUS
  <2> QED BY <1>4, <2>2
<1> HIDE DEF T, A, B
<1>6. t \in T
  BY DEF T
<1>7. /\ Cardinality(A) \in Nat /\ Cardinality(B) \in Nat
      /\ Cardinality(B) + Has(A, <<t, "black">>) + Has(A, <<t, "white">>)
           = Cardinality(A) + Has(B, <<t, "black">>) + Has(B, <<t, "white">>)
  BY <1>2, <1>3, <1>5, <1>6, OneThread
<1> QED BY <1>7 DEF A, B

\* The sides of the queue and of a game that use a net.
LEMMA CountSides ==
  ASSUME NEW S \in SUBSET Sides
  PROVE  Cardinality(S) = Has(S, "black") + Has(S, "white") /\ Cardinality(S) \in Nat
<1>1. Cardinality(S) = Has(S, "black") + Has(S, "white")
  BY PairCount, "black" # "white" DEF Sides
<1> QED BY <1>1 DEF Has

LEMMA UseStays ==
  ASSUME UseCount, UNCHANGED <<acquireCount, gameTaskQueue>>,
         \A t \in Loops \cup Players :
           Holds(t)' = Holds(t) /\ (Holds(t) # {} => GameOf(t)' = GameOf(t))
  PROVE  UseCount'
<1> SUFFICES ASSUME NEW s \in Managers, NEW m \in Models
             PROVE  acquireCount'[s][m] = Cardinality(Held(s, m)') + Cardinality(Queued(s, m)')
  BY DEF UseCount
<1>1. HeldFact /\ HeldFact'
  BY HeldIs, PTL
<1>2. Held(s, m)' = Held(s, m)
  <2>1. ASSUME NEW t \in Loops \cup Players, NEW side \in Sides
        PROVE  <<t, side>> \in Held(s, m)' <=> <<t, side>> \in Held(s, m)
    <3>1. <<t, side>> \in Held(s, m) <=> side \in Holds(t) /\ UsesOf(GameOf(t))[side] = <<s, m>>
      BY <1>1 DEF HeldFact
    <3>2. <<t, side>> \in Held(s, m)' <=> side \in Holds(t)' /\ UsesOf(GameOf(t)')[side] = <<s, m>>
      BY <1>1 DEF HeldFact, UsesOf
    <3> QED BY <3>1, <3>2
  <2>2. /\ Held(s, m) \subseteq (Loops \cup Players) \X Sides
        /\ Held(s, m)' \subseteq (Loops \cup Players) \X Sides
    BY <1>1 DEF HeldFact
  <2>3. ASSUME NEW u \in (Loops \cup Players) \X Sides
        PROVE  u \in Held(s, m)' <=> u \in Held(s, m)
    <3>1. u = <<u[1], u[2]>> /\ u[1] \in Loops \cup Players /\ u[2] \in Sides
      OBVIOUS
    <3> QED BY <3>1, <2>1
  <2> QED BY <2>2, <2>3
<1>3. Queued(s, m)' = Queued(s, m)
  BY DEF Queued, UsesOf
<1>4. acquireCount'[s][m] = Cardinality(Held(s, m)) + Cardinality(Queued(s, m))
  BY DEF UseCount
<1> QED BY <1>2, <1>3, <1>4

LEMMA RatingStays ==
  ASSUME RatingCount, UNCHANGED <<numRatingGamesActive, gameTaskQueue, game>>,
         \A l \in Loops : /\ at'[l] = "pushing" <=> at[l] = "pushing"
                          /\ at[l] = "pushing" => nextGame'[l] = nextGame[l]
  PROVE  RatingCount'
<1>1. {l \in Loops : at[l] = "pushing" /\ nextGame[l].rating}'
        = {l \in Loops : at[l] = "pushing" /\ nextGame[l].rating}
  OBVIOUS
<1> QED BY <1>1 DEF RatingCount, ActiveRatingGames

-----------------------------------------------------------------------------
(* The initial states, and the downloads.                                  *)

LEMMA InitInv == Init => IInv
<1> SUFFICES ASSUME Init PROVE IInv
  OBVIOUS
<1> USE DEF Init
<1>1. /\ \A l \in Loops : at[l] = "idle"
      /\ \A p \in Players : at[p] = "popping"
      /\ at[PreDownloader] = "resting" /\ at \in [Threads -> Places]
  <2> DEFINE start(t) == CASE t \in Loops -> "idle" [] t \in Players -> "popping" [] OTHER -> "resting"
  <2>1. at = [t \in Threads |-> start(t)]
    OBVIOUS
  <2>2. \A t \in Threads : start(t) \in {"idle", "popping", "resting"}
    OBVIOUS
  <2>3. \A l \in Loops : l \in Threads /\ start(l) = "idle"
    BY ContributeAssumption DEF Threads, Downloaders
  <2>4. \A p \in Players : p \in Threads /\ start(p) = "popping"
    BY ContributeAssumption DEF Threads, Downloaders
  <2>5. PreDownloader \in Threads /\ start(PreDownloader) = "resting"
    BY ContributeAssumption DEF Threads, Downloaders
  <2>6. at \in [Threads -> Places]
    <3>1. \A t \in Threads : start(t) \in Places
      BY <2>2 DEF Places
    <3> QED BY <2>1, <3>1
  <2> HIDE DEF start, Init
  <2> QED BY <2>1, <2>3, <2>4, <2>5, <2>6
<1>2. Types
  BY <1>1 DEF Types
<1>3. PlaceInv /\ LockInv /\ TaskInv /\ ReadyInv /\ GameInv /\ StopInv
  BY <1>1 DEF PlaceInv, LockInv, TaskInv, ReadyInv, GameInv, StopInv, Locked, Fetching, Ready, InGame
<1>4. DownloadInv
  BY <1>1 DEF DownloadInv, Fetching, Busy, Downloaders
<1>5. UseCount
  <2>1. \A t \in Loops \cup Players : Holds(t) = {}
    BY <1>1, ContributeAssumption DEF Holds
  <2>2. InHand = {}
    BY <2>1 DEF InHand
  <2>3. \A s \in Managers, m \in Models : Held(s, m) = {} /\ Queued(s, m) = {}
    BY <2>2 DEF Held, Queued
  <2>4. \A s \in Managers, m \in Models :
          acquireCount[s][m] = 0 /\ Cardinality(Held(s, m)) = 0 /\ Cardinality(Queued(s, m)) = 0
    BY <2>3, FS_EmptySet
  <2> QED BY <2>4 DEF UseCount
<1>6. RatingCount
  <2>1. {l \in Loops : at[l] = "pushing" /\ nextGame[l].rating} = {}
    BY <1>1
  <2>2. {p \in Players : game[p] # NoTask /\ game[p].rating} = {}
    OBVIOUS
  <2>3. {i \in 1 .. Len(gameTaskQueue) : gameTaskQueue[i].rating} = {}
    OBVIOUS
  <2>4. Cardinality({}) = 0 /\ numRatingGamesActive = 0
    BY FS_EmptySet
  <2> HIDE DEF Init
  <2>5. ActiveRatingGames = 0 + 0 + 0
    BY <2>1, <2>2, <2>3, <2>4 DEF ActiveRatingGames
  <2> QED BY <2>4, <2>5 DEF RatingCount
<1>7. LoadedInv
  BY DEF LoadedInv
<1> QED BY <1>2, <1>3, <1>4, <1>5, <1>6, <1>7 DEF IInv

\* A download disturbs nothing but the downloads: files appear, none goes.
LEMMA FetchKeeps ==
  ASSUME IInv, DownloadInv', at' \in [Threads -> Places], files \subseteq files', files' \subseteq Models,
         downloads' \in [Models -> Downloaders \cup {NoThread}], todo' \in [Downloaders -> Seq(Models)],
         \A o \in Threads : \/ at'[o] = at[o]
                            \/ /\ o \in Downloaders /\ at[o] \in Fetching \cup {"resting"}
                               /\ \/ at'[o] \in Fetching
                                  \/ o = PreDownloader /\ at'[o] \in {"resting", "exited"}
                                  \/ o # PreDownloader /\ at'[o] = "relock",
         UNCHANGED <<taskLock, task, managerVars, gameVars>>
  PROVE  IInv'
<1> USE DEF IInv, managerVars, gameVars
<1>1. /\ Loops \subseteq Threads /\ Players \subseteq Threads /\ PreDownloader \in Threads
      /\ \A l \in Loops : l \in Downloaders /\ l \notin Players /\ l # PreDownloader
      /\ \A p \in Players : p \notin Downloaders
  BY ContributeAssumption DEF Threads, Downloaders
<1>2. \A p \in Players : at'[p] = at[p]
  BY <1>1
<1>3. \A l \in Loops : at'[l] = at[l] \/ (at[l] \in Fetching /\ at'[l] \in Fetching \cup {"relock"})
  BY <1>1 DEF PlaceInv, Locked, Fetching
<1>4. Types'
  BY DEF Types
<1>5. PlaceInv'
  BY <1>1, <1>2, <1>3 DEF PlaceInv, Fetching
<1>6. LockInv'
  BY <1>3 DEF LockInv, Locked, Fetching
<1>7. TaskInv'
  <2>1. SUFFICES ASSUME NEW l \in Loops
                 PROVE  /\ at'[l] \in (Locked \ {"asking"}) \cup Fetching \cup {"relock"} => task'[l] \in ServerTasks
                        /\ at'[l] = "loading" => NetsOf(task[l])' \subseteq files'
    BY DEF TaskInv
  <2>2. at'[l] \in (Locked \ {"asking"}) \cup Fetching \cup {"relock"} => task'[l] \in ServerTasks
    BY <1>3 DEF TaskInv, Fetching, Locked
  <2>3. at'[l] = "loading" => at[l] = "loading"
    BY <1>3 DEF Fetching
  <2> QED BY <2>2, <2>3 DEF TaskInv, NetsOf
<1>8. ReadyInv'
  BY <1>3 DEF ReadyInv, Ready, Fetching
<1>9. GameInv'
  BY <1>2 DEF GameInv
<1>10. \A l \in Loops : at'[l] = "pushing" <=> at[l] = "pushing"
  BY <1>3 DEF Fetching
<1>11. UseCount'
  <2>1. \A t \in Loops \cup Players : Holds(t)' = Holds(t) /\ GameOf(t)' = GameOf(t)
    BY <1>1, <1>2, <1>10 DEF Holds, GameOf
  <2> QED BY <2>1, UseStays
<1>12. RatingCount'
  BY <1>10, RatingStays
<1>13. LoadedInv'
  BY DEF LoadedInv
<1>14. StopInv'
  BY <1>2, <1>3 DEF StopInv, Fetching
<1> QED BY <1>4, <1>5, <1>6, <1>7, <1>8, <1>9, <1>11, <1>12, <1>13, <1>14

\* The net a thread gets.
LEMMA WantedIs ==
  ASSUME IInv, NEW d \in Downloaders, at[d] \in Fetching
  PROVE  /\ Wanted(d) \in Models /\ todo[d] \in Seq(Models) /\ todo[d] # <<>>
         /\ Tail(todo[d]) \in Seq(Models) /\ d \in Threads
         /\ Len(todo[d]) # 1 => Tail(todo[d]) # <<>>
<1>1. todo[d] \in Seq(Models) /\ todo[d] # <<>>
  BY DEF IInv, Types, DownloadInv
<1>2. d \in Threads
  BY DEF Threads
<1>3. Len(todo[d]) # 1 => Tail(todo[d]) # <<>>
  <2>1. Len(todo[d]) \in Nat \ {0} /\ Len(Tail(todo[d])) = Len(todo[d]) - 1
    BY <1>1
  <2> DEFINE rest == Tail(todo[d])
  <2> HIDE DEF rest
  <2>2. rest = <<>> => Len(rest) = 0
    OBVIOUS
  <2> QED BY <2>1, <2>2 DEF rest
<1> QED BY <1>1, <1>2, <1>3 DEF Wanted

\* A thread that neither downloads nor waits has its net, or leaves.
LEMMA ReturnedInv ==
  ASSUME IInv, NEW t \in Downloaders, at[t] \in {"fetch", "again"},
         todo' = [todo EXCEPT ![t] = Tail(@)],
         Become(t, IF Len(todo[t]) = 1 THEN AfterDownloads(t) ELSE "fetch"),
         UNCHANGED <<files, downloads, taskLock, task, managerVars, gameVars>>
  PROVE  IInv'
<1>0. at[t] \in Fetching /\ at[t] \notin Busy /\ at[t] # "waiting"
  BY DEF Fetching, Busy
<1>1. /\ todo' = [todo EXCEPT ![t] = Tail(@)]
      /\ at' = [at EXCEPT ![t] = IF Len(todo[t]) = 1 THEN AfterDownloads(t) ELSE "fetch"]
  BY DEF Become
<1>2. Tail(todo[t]) \in Seq(Models) /\ t \in Threads /\ (Len(todo[t]) # 1 => Tail(todo[t]) # <<>>)
  BY <1>0, WantedIs
<1>3. at \in [Threads -> Places] /\ todo \in [Downloaders -> Seq(Models)]
  BY DEF IInv, Types
<1>4. /\ at' \in [Threads -> Places] /\ todo' \in [Downloaders -> Seq(Models)]
      /\ \A o \in Threads \ {t} : at'[o] = at[o]
      /\ \A d \in Downloaders \ {t} : todo'[d] = todo[d]
      /\ at'[t] = IF Len(todo[t]) = 1 THEN AfterDownloads(t) ELSE "fetch"
      /\ todo'[t] = Tail(todo[t])
  <2> DEFINE where == IF Len(todo[t]) = 1 THEN AfterDownloads(t) ELSE "fetch"
  <2>1. where \in Places
    BY DEF AfterDownloads, Places, Fetching
  <2>2. at' = [at EXCEPT ![t] = where]
    BY <1>1
  <2> HIDE DEF where
  <2>3. at' \in [Threads -> Places] /\ at'[t] = where /\ \A o \in Threads \ {t} : at'[o] = at[o]
    BY <1>2, <1>3, <2>1, <2>2
  <2>4. /\ todo' \in [Downloaders -> Seq(Models)] /\ todo'[t] = Tail(todo[t])
        /\ \A d \in Downloaders \ {t} : todo'[d] = todo[d]
    BY <1>1, <1>2, <1>3
  <2> QED BY <2>3, <2>4 DEF where
<1>5. at'[t] \in {"fetch", "resting", "relock"} /\ at'[t] \notin Busy /\ at'[t] # "waiting"
  BY <1>4 DEF AfterDownloads, Busy
<1>6. at'[t] \in Fetching => todo'[t] # <<>>
  BY <1>2, <1>4 DEF AfterDownloads, Fetching
<1>7. DownloadInv'
  <2>0. Downloaders \subseteq Threads /\ DownloadInv
    BY DEF Threads, IInv
  <2>1. \A d \in Downloaders : at'[d] \in Fetching => todo'[d] # <<>>
    BY <1>4, <1>6, <2>0 DEF DownloadInv
  <2>2. \A d \in Downloaders : at'[d] \in Busy => downloads'[Wanted(d)'] = d
    BY <1>4, <1>5, <2>0 DEF DownloadInv, Wanted
  <2>3. \A d \in Downloaders : at'[d] = "waiting" => downloads'[Wanted(d)'] # NoThread
    BY <1>4, <1>5, <2>0 DEF DownloadInv, Wanted
  <2>4. ASSUME NEW m \in Models, downloads'[m] # NoThread
        PROVE  at'[downloads'[m]] \in Busy /\ Wanted(downloads[m])' = m
    <3>1. at[downloads[m]] \in Busy /\ Wanted(downloads[m]) = m /\ downloads[m] \in Downloaders
      BY <2>0, <2>4 DEF DownloadInv, IInv, Types
    <3>2. downloads[m] # t
      BY <3>1, <1>0
    <3> QED BY <1>4, <2>0, <3>1, <3>2 DEF Wanted
  <2> QED BY <2>1, <2>2, <2>3, <2>4 DEF DownloadInv
<1>8. at'[t] \in Fetching \/ (t = PreDownloader /\ at'[t] = "resting") \/ (t # PreDownloader /\ at'[t] = "relock")
  BY <1>4 DEF AfterDownloads, Fetching
<1>9. files \subseteq Models /\ downloads \in [Models -> Downloaders \cup {NoThread}]
  BY DEF IInv, Types
<1> QED BY <1>0, <1>4, <1>7, <1>8, <1>9, FetchKeeps

\* A thread goes on getting the same net, as the one that downloads it or not.
LEMMA MoveKeeps ==
  ASSUME IInv, NEW t \in Downloaders, at[t] \in Fetching, NEW w \in Fetching, Become(t, w),
         w \in Busy <=> at[t] \in Busy, w = "waiting" => downloads[Wanted(t)] # NoThread,
         files \subseteq files', files' \subseteq Models,
         UNCHANGED <<downloads, todo, taskLock, task, managerVars, gameVars>>
  PROVE  IInv'
<1>1. Types /\ DownloadInv /\ Downloaders \subseteq Threads
  BY DEF IInv, Threads
<1>2. /\ at' \in [Threads -> Places] /\ at'[t] = w
      /\ \A o \in Threads \ {t} : at'[o] = at[o]
  BY <1>1 DEF Become, Types, Places
<1>3. DownloadInv'
  <2>1. \A d \in Downloaders : at'[d] \in Fetching => todo'[d] # <<>>
    BY <1>1, <1>2 DEF DownloadInv
  <2>2. \A d \in Downloaders : at'[d] \in Busy => downloads'[Wanted(d)'] = d
    BY <1>1, <1>2 DEF DownloadInv, Wanted
  <2>3. \A d \in Downloaders : at'[d] = "waiting" => downloads'[Wanted(d)'] # NoThread
    BY <1>1, <1>2 DEF DownloadInv, Wanted
  <2>4. ASSUME NEW m \in Models, downloads'[m] # NoThread
        PROVE  at'[downloads'[m]] \in Busy /\ Wanted(downloads[m])' = m
    <3>1. at[downloads[m]] \in Busy /\ Wanted(downloads[m]) = m /\ downloads[m] \in Downloaders
      BY <1>1, <2>4 DEF DownloadInv, Types
    <3> QED BY <1>1, <1>2, <3>1 DEF Wanted
  <2> QED BY <2>1, <2>2, <2>3, <2>4 DEF DownloadInv
<1> QED BY <1>1, <1>2, <1>3, FetchKeeps DEF Types

LEMMA FetchInv ==
  ASSUME IInv, NEW t \in Downloaders, Fetch(t)
  PROVE  IInv'
<1> USE DEF taskVars
<1>1. /\ at[t] = "fetch" /\ at[t] \in Fetching /\ at[t] \notin Busy
      /\ UNCHANGED <<files, taskLock, task, managerVars, gameVars>> /\ files \subseteq Models
  BY DEF Fetch, Fetching, Busy, IInv, Types
<1>2. CASE Wanted(t) \in files \/ shouldStop
  <2>1. Returned(t, Wanted(t) \in files) /\ UNCHANGED downloads
    BY <1>2 DEF Fetch
  <2>2. /\ todo' = [todo EXCEPT ![t] = Tail(@)]
        /\ Become(t, IF Len(todo[t]) = 1 THEN AfterDownloads(t) ELSE "fetch")
    BY <2>1 DEF Returned
  <2> QED BY <1>1, <2>1, <2>2, ReturnedInv
<1>3. CASE ~(Wanted(t) \in files \/ shouldStop) /\ ~IsFirst(t)
  <2>1. Become(t, "waiting") /\ UNCHANGED <<downloads, todo>>
    BY <1>3 DEF Fetch
  <2>2. downloads[Wanted(t)] # NoThread
    BY <1>3 DEF IsFirst
  <2>3. "waiting" \in Fetching /\ "waiting" \notin Busy
    BY DEF Fetching, Busy
  <2> QED BY <1>1, <2>1, <2>2, <2>3, MoveKeeps
<1>4. CASE ~(Wanted(t) \in files \/ shouldStop) /\ IsFirst(t)
  <2>1. /\ downloads' = [downloads EXCEPT ![Wanted(t)] = t] /\ Become(t, "throttled")
        /\ UNCHANGED todo /\ downloads[Wanted(t)] = NoThread
    BY <1>4 DEF Fetch, IsFirst
  <2>2. Types /\ DownloadInv /\ Downloaders \subseteq Threads /\ Wanted(t) \in Models /\ t # NoThread
    BY <1>1, WantedIs, ContributeAssumption DEF IInv, Threads, Downloaders
  <2>3. /\ at' \in [Threads -> Places] /\ at'[t] = "throttled"
        /\ \A o \in Threads \ {t} : at'[o] = at[o]
    BY <2>1, <2>2 DEF Become, Types, Places, Fetching
  <2>4. /\ downloads' \in [Models -> Downloaders \cup {NoThread}] /\ downloads'[Wanted(t)] = t
        /\ \A m \in Models \ {Wanted(t)} : downloads'[m] = downloads[m]
    BY <2>1, <2>2 DEF Types
  <2>5. "throttled" \in Busy /\ "throttled" \in Fetching
    BY DEF Busy, Fetching
  <2>6. DownloadInv'
    <3>1. \A d \in Downloaders : at'[d] \in Fetching => todo'[d] # <<>>
      BY <1>1, <2>1, <2>2, <2>3 DEF DownloadInv
    <3>2. ASSUME NEW d \in Downloaders, at'[d] \in Busy
          PROVE  downloads'[Wanted(d)'] = d
      <4>1. CASE d = t
        BY <4>1, <2>1, <2>4 DEF Wanted
      <4>2. CASE d # t
        <5>1. at[d] \in Busy /\ at[d] \in Fetching
          BY <3>2, <4>2, <2>2, <2>3 DEF Busy, Fetching
        <5>2. downloads[Wanted(d)] = d /\ Wanted(d) \in Models /\ d # NoThread
          BY <5>1, <2>2, WantedIs, ContributeAssumption DEF DownloadInv, Downloaders
        <5>3. Wanted(d) # Wanted(t)
          BY <5>2, <2>1
        <5> QED BY <5>2, <5>3, <2>1, <2>4 DEF Wanted
      <4> QED BY <4>1, <4>2
    <3>3. ASSUME NEW d \in Downloaders, at'[d] = "waiting"
          PROVE  downloads'[Wanted(d)'] # NoThread
      <4>1. d # t /\ at[d] = "waiting" /\ at[d] \in Fetching
        BY <3>3, <2>2, <2>3 DEF Fetching
      <4>2. downloads[Wanted(d)] # NoThread /\ Wanted(d) \in Models
        BY <4>1, <2>2, WantedIs DEF DownloadInv
      <4> QED BY <4>2, <2>1, <2>2, <2>4 DEF Wanted
    <3>4. ASSUME NEW m \in Models, downloads'[m] # NoThread
          PROVE  at'[downloads'[m]] \in Busy /\ Wanted(downloads[m])' = m
      <4>1. CASE m = Wanted(t)
        BY <4>1, <2>1, <2>3, <2>4, <2>5 DEF Wanted
      <4>2. CASE m # Wanted(t)
        <5>1. downloads'[m] = downloads[m] /\ downloads[m] # NoThread
          BY <4>2, <3>4, <2>4
        <5>2. at[downloads[m]] \in Busy /\ Wanted(downloads[m]) = m /\ downloads[m] \in Downloaders
          BY <5>1, <2>2 DEF DownloadInv, Types
        <5>3. downloads[m] # t
          BY <5>2, <1>1
        <5> QED BY <5>1, <5>2, <5>3, <2>1, <2>2, <2>3 DEF Wanted
      <4> QED BY <4>1, <4>2
    <3> QED BY <3>1, <3>2, <3>3, <3>4 DEF DownloadInv
  <2> QED BY <1>1, <2>1, <2>2, <2>3, <2>4, <2>5, <2>6, FetchKeeps DEF Types
<1> QED BY <1>2, <1>3, <1>4

LEMMA ReceiveInv ==
  ASSUME IInv, NEW t \in Downloaders, Throttle(t) \/ Fail(t) \/ GiveUp(t) \/ Install(t)
  PROVE  IInv'
<1> USE DEF taskVars, downloadVars
<1>1. /\ at[t] \in {"throttled", "receiving"} /\ UNCHANGED <<downloads, todo, taskLock, task, managerVars, gameVars>>
      /\ files \subseteq Models
  BY DEF Throttle, Fail, GiveUp, Install, IInv, Types
<1>2. at[t] \in Fetching /\ at[t] \in Busy
  BY <1>1 DEF Fetching, Busy
<1>3. t \in Threads /\ at \in [Threads -> Places]
  BY DEF Threads, IInv, Types
<1>4. PICK w \in Busy : Become(t, w)
  <2>1. CASE Throttle(t)
    BY <2>1 DEF Throttle, Busy
  <2>2. CASE Fail(t)
    <3>1. Become(t, "threw") \/ UNCHANGED at
      BY <2>2 DEF Fail
    <3>2. UNCHANGED at => Become(t, "receiving")
      BY <2>2, <1>3 DEF Fail, Become
    <3> QED BY <3>1, <3>2 DEF Busy
  <2>3. CASE GiveUp(t) \/ Install(t)
    BY <2>3 DEF GiveUp, Install, Busy
  <2> QED BY <2>1, <2>2, <2>3
<1>5. files \subseteq files' /\ files' \subseteq Models
  <2>1. Wanted(t) \in Models
    BY <1>2, WantedIs
  <2> QED BY <1>1, <2>1 DEF Throttle, Fail, GiveUp, Install
<1>6. w \in Fetching /\ w # "waiting"
  BY <1>4 DEF Busy, Fetching
<1> QED BY <1>1, <1>2, <1>4, <1>5, <1>6, MoveKeeps

\* The download is over: its net is nobody's, its waiters look again.
LEMMA CleanupInv ==
  ASSUME IInv, NEW t \in Downloaders, Cleanup(t)
  PROVE  IInv'
<1> USE DEF taskVars
<1> DEFINE where == IF at[t] = "threw" THEN AfterDownloads(t) ELSE "again"
<1>1. /\ at[t] \in Busy /\ at[t] \in Fetching /\ t \in Threads /\ Downloaders \subseteq Threads
      /\ UNCHANGED <<files, taskLock, task, managerVars, gameVars>>
      /\ downloads' = [downloads EXCEPT ![Wanted(t)] = NoThread]
      /\ todo' = IF at[t] = "threw" THEN [todo EXCEPT ![t] = <<>>] ELSE todo
  BY DEF Cleanup, Busy, Fetching, Threads
<1>2. Types /\ DownloadInv /\ Wanted(t) \in Models
  BY <1>1, WantedIs DEF IInv
<1>3. Waiters(t) \subseteq Downloaders \ {t} /\ \A d \in Waiters(t) : at[d] = "waiting" /\ at[d] \in Fetching
  BY <1>1 DEF Waiters, Busy, Fetching
<1>4. where \in {"again", "resting", "relock"} /\ where \in Places
  BY DEF AfterDownloads, Places, Fetching
<1>5. /\ at' = [d \in Threads |-> CASE d = t -> where [] d \in Waiters(t) -> "fetch" [] OTHER -> at[d]]
  BY DEF Cleanup
<1> HIDE DEF where
<1>6. /\ at'[t] = where
      /\ \A d \in Waiters(t) : at'[d] = "fetch"
      /\ \A d \in Threads \ ({t} \cup Waiters(t)) : at'[d] = at[d]
  BY <1>1, <1>3, <1>5
<1>7. at' \in [Threads -> Places]
  <2>1. \A d \in Threads : at[d] \in Places
    BY <1>2 DEF Types
  <2>2. "fetch" \in Places
    BY DEF Places, Fetching
  <2>3. \A d \in Threads : (CASE d = t -> where [] d \in Waiters(t) -> "fetch" [] OTHER -> at[d]) \in Places
    BY <1>4, <2>1, <2>2
  <2> QED BY <1>5, <2>3
<1>8. /\ downloads' \in [Models -> Downloaders \cup {NoThread}] /\ downloads'[Wanted(t)] = NoThread
      /\ \A m \in Models \ {Wanted(t)} : downloads'[m] = downloads[m]
  BY <1>1, <1>2 DEF Types
<1>9. /\ todo' \in [Downloaders -> Seq(Models)]
      /\ \A d \in Downloaders \ {t} : todo'[d] = todo[d]
      /\ at[t] # "threw" => todo'[t] = todo[t]
  BY <1>1, <1>2 DEF Types
<1>10. where \in Fetching => at[t] # "threw"
  BY DEF where, Fetching, AfterDownloads
<1>11. where \notin Busy /\ where # "waiting"
  BY <1>4 DEF Busy
<1>12. DownloadInv'
  <2>1. ASSUME NEW d \in Downloaders, at'[d] \in Fetching
        PROVE  todo'[d] # <<>>
    <3>1. CASE d = t
      BY <3>1, <2>1, <1>1, <1>2, <1>6, <1>9, <1>10 DEF DownloadInv
    <3>2. CASE d # t
      <4>1. at[d] \in Fetching
        BY <3>2, <2>1, <1>1, <1>3, <1>6
      <4> QED BY <3>2, <4>1, <1>2, <1>9 DEF DownloadInv
    <3> QED BY <3>1, <3>2
  <2>2. ASSUME NEW d \in Downloaders, at'[d] \in Busy
        PROVE  downloads'[Wanted(d)'] = d
    <3>1. d # t /\ d \notin Waiters(t) /\ at[d] \in Busy /\ at[d] \in Fetching
      BY <2>2, <1>1, <1>3, <1>6, <1>11 DEF Busy, Fetching
    <3>2. downloads[Wanted(d)] = d /\ Wanted(d) \in Models
      BY <3>1, <1>2, WantedIs DEF DownloadInv
    <3>3. Wanted(d) # Wanted(t)
      BY <3>1, <3>2, <1>1, <1>2 DEF DownloadInv
    <3> QED BY <3>1, <3>2, <3>3, <1>8, <1>9 DEF Wanted
  <2>3. ASSUME NEW d \in Downloaders, at'[d] = "waiting"
        PROVE  downloads'[Wanted(d)'] # NoThread
    <3>1. d # t /\ d \notin Waiters(t)
      BY <2>3, <1>6, <1>11
    <3>2. at[d] = "waiting" /\ at[d] \in Fetching
      BY <3>1, <2>3, <1>1, <1>6 DEF Fetching
    <3>3. downloads[Wanted(d)] # NoThread /\ Wanted(d) \in Models /\ Wanted(d) # Wanted(t)
      BY <3>1, <3>2, <1>2, WantedIs DEF DownloadInv, Waiters
    <3> QED BY <3>1, <3>3, <1>8, <1>9 DEF Wanted
  <2>4. ASSUME NEW m \in Models, downloads'[m] # NoThread
        PROVE  at'[downloads'[m]] \in Busy /\ Wanted(downloads[m])' = m
    <3>1. m # Wanted(t) /\ downloads'[m] = downloads[m]
      BY <2>4, <1>8
    <3>2. at[downloads[m]] \in Busy /\ Wanted(downloads[m]) = m /\ downloads[m] \in Downloaders
      BY <2>4, <3>1, <1>2 DEF DownloadInv, Types
    <3>3. downloads[m] # t /\ downloads[m] \notin Waiters(t)
      BY <3>1, <3>2, <1>3 DEF Busy
    <3> QED BY <3>1, <3>2, <3>3, <1>1, <1>6, <1>9 DEF Wanted
  <2> QED BY <2>1, <2>2, <2>3, <2>4 DEF DownloadInv
<1>13. \/ where \in Fetching
       \/ t = PreDownloader /\ where = "resting"
       \/ t # PreDownloader /\ where = "relock"
  <2>1. CASE at[t] = "threw"
    <3>1. where = AfterDownloads(t)
      BY <2>1 DEF where
    <3>2. CASE t = PreDownloader
      <4>1. where = "resting"
        BY <3>1, <3>2 DEF AfterDownloads
      <4> QED BY <3>2, <4>1
    <3>3. CASE t # PreDownloader
      <4>1. where = "relock"
        BY <3>1, <3>3 DEF AfterDownloads
      <4> QED BY <3>3, <4>1
    <3> QED BY <3>2, <3>3
  <2>2. CASE at[t] # "threw"
    <3>1. where = "again"
      BY <2>2 DEF where
    <3> QED BY <3>1 DEF Fetching
  <2> QED BY <2>1, <2>2
<1>14. \A o \in Threads : \/ at'[o] = at[o]
                          \/ /\ o \in Downloaders /\ at[o] \in Fetching \cup {"resting"}
                             /\ \/ at'[o] \in Fetching
                                \/ o = PreDownloader /\ at'[o] \in {"resting", "exited"}
                                \/ o # PreDownloader /\ at'[o] = "relock"
  <2>1. TAKE o \in Threads
  <2>2. CASE o = t
    BY <2>2, <1>1, <1>6, <1>13
  <2>3. CASE o \in Waiters(t)
    BY <2>3, <1>3, <1>6 DEF Fetching
  <2>4. CASE o \notin {t} \cup Waiters(t)
    BY <2>4, <1>6
  <2> QED BY <2>2, <2>3, <2>4
<1>15. files \subseteq files' /\ files' \subseteq Models
  BY <1>1, <1>2 DEF Types
<1> QED BY <1>1, <1>7, <1>8, <1>9, <1>12, <1>14, <1>15, FetchKeeps

LEMMA AgainInv ==
  ASSUME IInv, NEW t \in Downloaders, Again(t)
  PROVE  IInv'
<1> USE DEF taskVars
<1>1. at[t] = "again" /\ UNCHANGED <<files, downloads, taskLock, task, managerVars, gameVars>>
  BY DEF Again
<1>2. CASE Wanted(t) \in files \/ shouldStop
  <2>1. /\ todo' = [todo EXCEPT ![t] = Tail(@)]
        /\ Become(t, IF Len(todo[t]) = 1 THEN AfterDownloads(t) ELSE "fetch")
    BY <1>2 DEF Again, Returned
  <2> QED BY <1>1, <2>1, ReturnedInv
<1>3. CASE ~(Wanted(t) \in files \/ shouldStop)
  <2>1. UNCHANGED <<at, todo>>
    BY <1>3 DEF Again
  <2>2. Types /\ DownloadInv
    BY DEF IInv
  <2>3. DownloadInv'
    BY <1>1, <2>1, <2>2 DEF DownloadInv, Wanted
  <2> QED BY <1>1, <2>1, <2>2, <2>3, FetchKeeps DEF Types
<1> QED BY <1>2, <1>3

LEMMA DownloadStep ==
  ASSUME IInv, NEW t \in Downloaders, Download(t)
  PROVE  IInv'
BY FetchInv, ReceiveInv, CleanupInv, AgainInv DEF Download

LEMMA PreDownloadInv ==
  ASSUME IInv, PreDownload
  PROVE  IInv'
<1> USE DEF taskVars
<1> DEFINE t == PreDownloader
<1>1. /\ at[t] = "resting" /\ UNCHANGED <<files, downloads, taskLock, task, managerVars, gameVars>>
      /\ t \in Downloaders /\ Downloaders \subseteq Threads
  BY DEF PreDownload, Downloaders, Threads
<1>2. Types /\ DownloadInv
  BY DEF IInv
<1>3. PICK w \in {"exited", "fetch"} :
        /\ at' = [at EXCEPT ![t] = w]
        /\ w = "fetch" => \E m \in Models : todo' = [todo EXCEPT ![t] = <<m>>]
        /\ w = "exited" => UNCHANGED todo
  BY ContributeAssumption DEF PreDownload, Become
<1>4. w \in Places
  BY DEF Places, Fetching
<1>5. /\ at' \in [Threads -> Places] /\ at'[t] = w
      /\ \A o \in Threads \ {t} : at'[o] = at[o]
  BY <1>1, <1>2, <1>3, <1>4 DEF Types
<1>6. /\ todo' \in [Downloaders -> Seq(Models)] /\ \A d \in Downloaders \ {t} : todo'[d] = todo[d]
      /\ w = "fetch" => todo'[t] # <<>>
  <2>1. CASE w = "exited"
    BY <2>1, <1>2, <1>3 DEF Types
  <2>2. CASE w = "fetch"
    <3>1. PICK m \in Models : todo' = [todo EXCEPT ![t] = <<m>>]
      BY <2>2, <1>3
    <3>2. <<m>> \in Seq(Models) /\ <<m>> # <<>>
      OBVIOUS
    <3> QED BY <3>1, <3>2, <1>1, <1>2 DEF Types
  <2> QED BY <2>1, <2>2
<1>7. w \notin Busy /\ w # "waiting" /\ (w \in Fetching <=> w = "fetch") /\ "resting" \notin Busy
  BY DEF Busy, Fetching
<1> HIDE DEF t
<1>8. DownloadInv'
  <2>1. \A d \in Downloaders : at'[d] \in Fetching => todo'[d] # <<>>
    BY <1>1, <1>2, <1>5, <1>6, <1>7 DEF DownloadInv
  <2>2. \A d \in Downloaders : at'[d] \in Busy => downloads'[Wanted(d)'] = d
    BY <1>1, <1>2, <1>5, <1>6, <1>7 DEF DownloadInv, Wanted
  <2>3. \A d \in Downloaders : at'[d] = "waiting" => downloads'[Wanted(d)'] # NoThread
    BY <1>1, <1>2, <1>5, <1>6, <1>7 DEF DownloadInv, Wanted
  <2>4. ASSUME NEW m \in Models, downloads'[m] # NoThread
        PROVE  at'[downloads'[m]] \in Busy /\ Wanted(downloads[m])' = m
    <3>1. at[downloads[m]] \in Busy /\ Wanted(downloads[m]) = m /\ downloads[m] \in Downloaders
      BY <1>1, <1>2, <2>4 DEF DownloadInv, Types
    <3> QED BY <1>1, <1>5, <1>6, <1>7, <3>1 DEF Wanted
  <2> QED BY <2>1, <2>2, <2>3, <2>4 DEF DownloadInv
<1>9. \A o \in Threads : \/ at'[o] = at[o]
                         \/ /\ o \in Downloaders /\ at[o] \in Fetching \cup {"resting"}
                            /\ \/ at'[o] \in Fetching
                               \/ o = PreDownloader /\ at'[o] \in {"resting", "exited"}
                               \/ o # PreDownloader /\ at'[o] = "relock"
  BY <1>1, <1>5, <1>7 DEF t
<1> QED BY <1>1, <1>2, <1>5, <1>6, <1>8, <1>9, FetchKeeps DEF Types

-----------------------------------------------------------------------------
(* The task loops.                                                         *)

\* One task loop at a time holds the mutex.
LEMMA Exclusive ==
  ASSUME IInv, NEW l \in Loops, at[l] \in Locked \/ taskLock = NoThread
  PROVE  \A k \in Loops \ {l} : at[k] \notin Locked
BY ContributeAssumption DEF IInv, LockInv

\* What a step of task loop l has to see to, which lets no other loop in.
LEMMA LoopKeeps ==
  ASSUME IInv, NEW l \in Loops, at[l] \in {"idle", "relock"} \cup Locked,
         NEW w \in {"idle", "exited", "fetch"} \cup Locked, Become(l, w),
         \A k \in Loops \ {l} : at[k] \in Locked => UNCHANGED <<taskLock, files, loaded>>,
         w \in Locked => taskLock' = l, taskLock' \in Loops \cup {NoThread},
         w = "fetch" => todo'[l] # <<>>, todo' \in [Downloaders -> Seq(Models)],
         \A d \in Downloaders \ {l} : todo'[d] = todo[d],
         task' \in [Loops -> ServerTasks \cup {NoTask}], \A k \in Loops \ {l} : task'[k] = task[k],
         w \in {"fetch"} \cup (Locked \ {"asking"}) => task'[l] \in ServerTasks,
         files' \subseteq Models, w = "loading" => NetsOf(task'[l]) \subseteq files',
         nextGame' \in [Loops -> GameTasks \cup {NoTask}],
         \A k \in Loops \ {l} : nextGame'[k] = nextGame[k],
         loaded' \in [Managers -> SUBSET Models],
         w \in Ready =>
           /\ nextGame'[l] \in GameTasks /\ nextGame'[l].rating = task'[l].rating
           /\ \A side \in Sides : nextGame'[l].model[side] \in loaded'[nextGame'[l].manager[side]],
         acquireCount' \in [Managers -> [Models -> Int]], numRatingGamesActive' \in Int,
         gameTaskQueue' \in {<<>>} \cup {<<g>> : g \in GameTasks},
         UNCHANGED <<downloads, uploader, readOnly, game>>,
         UseCount', RatingCount', LoadedInv'
  PROVE  IInv'
<1> USE DEF IInv
<1>1. /\ Loops \subseteq Threads /\ Players \subseteq Threads /\ PreDownloader \in Threads
      /\ l \notin Players /\ l # PreDownloader /\ l \in Downloaders /\ Downloaders \subseteq Threads
  BY ContributeAssumption DEF Threads, Downloaders
<1>2. /\ at' \in [Threads -> Places] /\ at'[l] = w
      /\ \A o \in Threads \ {l} : at'[o] = at[o]
  <2>1. w \in Places
    BY DEF Places, Fetching
  <2> QED BY <1>1, <2>1 DEF Types, Become
<1>3. at[l] \notin Fetching /\ at[l] # "exited"
  BY DEF Fetching, Locked
<1>4. Types'
  BY <1>2 DEF Types
<1>5. PlaceInv'
  BY <1>1, <1>2 DEF PlaceInv, Fetching
<1>6. LockInv'
  <2>1. \A k \in Loops \ {l} : at'[k] = at[k]
    BY <1>1, <1>2
  <2> QED BY <1>2, <2>1 DEF LockInv
<1>7. DownloadInv'
  <2>1. w \notin Busy /\ w # "waiting" /\ (w \in Fetching => w = "fetch") /\ at[l] \notin Busy
    BY <1>3 DEF Busy, Fetching, Locked
  <2>2. \A d \in Downloaders : at'[d] \in Fetching => todo'[d] # <<>>
    BY <1>1, <1>2, <2>1 DEF DownloadInv
  <2>3. \A d \in Downloaders : at'[d] \in Busy => downloads'[Wanted(d)'] = d
    <3>1. TAKE d \in Downloaders
    <3>2. CASE d = l
      BY <1>2, <2>1, <3>2
    <3>3. CASE d # l
      <4>1. at'[d] = at[d] /\ Wanted(d)' = Wanted(d)
        BY <1>1, <1>2, <3>3 DEF Wanted
      <4> QED BY <4>1 DEF DownloadInv
    <3> QED BY <3>2, <3>3
  <2>4. \A d \in Downloaders : at'[d] = "waiting" => downloads'[Wanted(d)'] # NoThread
    <3>1. TAKE d \in Downloaders
    <3>2. CASE d = l
      BY <1>2, <2>1, <3>2
    <3>3. CASE d # l
      <4>1. at'[d] = at[d] /\ Wanted(d)' = Wanted(d)
        BY <1>1, <1>2, <3>3 DEF Wanted
      <4>2. at[d] = "waiting" => downloads[Wanted(d)] # NoThread
        BY DEF DownloadInv
      <4> QED BY <4>1, <4>2
    <3> QED BY <3>2, <3>3
  <2>5. ASSUME NEW m \in Models, downloads'[m] # NoThread
        PROVE  at'[downloads'[m]] \in Busy /\ Wanted(downloads[m])' = m
    <3>1. at[downloads[m]] \in Busy /\ Wanted(downloads[m]) = m /\ downloads[m] \in Downloaders
      BY <2>5 DEF DownloadInv, Types
    <3> QED BY <1>1, <1>2, <2>1, <3>1 DEF Wanted
  <2> QED BY <2>2, <2>3, <2>4, <2>5 DEF DownloadInv
<1>8. TaskInv'
  <2>1. SUFFICES ASSUME NEW k \in Loops
                 PROVE  /\ at'[k] \in (Locked \ {"asking"}) \cup Fetching \cup {"relock"} => task'[k] \in ServerTasks
                        /\ at'[k] = "loading" => NetsOf(task'[k]) \subseteq files'
    BY DEF TaskInv, NetsOf
  <2>2. CASE k = l
    BY <2>2, <1>2 DEF Fetching, Locked
  <2>3. CASE k # l
    <3>1. at'[k] = at[k] /\ task'[k] = task[k]
      BY <2>3, <1>1, <1>2
    <3>2. at[k] = "loading" => files' = files
      BY <2>3 DEF Locked
    <3> QED BY <3>1, <3>2 DEF TaskInv
  <2> QED BY <2>2, <2>3
<1>9. ReadyInv'
  <2>1. SUFFICES ASSUME NEW k \in Loops, at'[k] \in Ready
                 PROVE  /\ nextGame'[k] \in GameTasks /\ nextGame'[k].rating = task'[k].rating
                        /\ \A side \in Sides : nextGame'[k].model[side] \in loaded'[nextGame'[k].manager[side]]
    BY DEF ReadyInv
  <2>2. CASE k = l
    BY <2>1, <2>2, <1>2
  <2>3. CASE k # l
    <3>1. at'[k] = at[k] /\ task'[k] = task[k] /\ nextGame'[k] = nextGame[k]
      BY <2>3, <1>1, <1>2
    <3>2. at[k] \in Locked
      BY <2>1, <3>1 DEF Ready, Locked
    <3> QED BY <2>1, <2>3, <3>1, <3>2 DEF ReadyInv
  <2> QED BY <2>2, <2>3
<1>10. GameInv'
  BY <1>1, <1>2 DEF GameInv
<1>11. StopInv'
  BY <1>1, <1>2, <1>3 DEF StopInv
<1> QED BY <1>4, <1>5, <1>6, <1>7, <1>8, <1>9, <1>10, <1>11

\* Steps of a task loop that hand out no game.
LEMMA QuietLoop ==
  ASSUME IInv, NEW l \in Loops, at[l] # "pushing", NEW w \in Places, w # "pushing", Become(l, w),
         \A k \in Loops \ {l} : nextGame'[k] = nextGame[k],
         UNCHANGED <<acquireCount, gameTaskQueue, game, numRatingGamesActive>>
  PROVE  UseCount' /\ RatingCount'
<1>1. /\ at'[l] = w /\ \A o \in (Loops \cup Players) \ {l} : at'[o] = at[o]
      /\ l \notin Players
  BY ContributeAssumption DEF Become, IInv, Types, Threads, Downloaders
<1>2. \A t \in Loops \cup Players : Holds(t)' = Holds(t) /\ (Holds(t) # {} => GameOf(t)' = GameOf(t))
  <2>1. Holds(l) = {} /\ Holds(l)' = {}
    BY <1>1 DEF Holds
  <2>2. ASSUME NEW t \in (Loops \cup Players) \ {l}
        PROVE  Holds(t)' = Holds(t) /\ GameOf(t)' = GameOf(t)
    BY <1>1, <2>2 DEF Holds, GameOf
  <2> QED BY <2>1, <2>2
<1>3. UseCount /\ RatingCount
  BY DEF IInv
<1>4. \A k \in Loops : /\ at'[k] = "pushing" <=> at[k] = "pushing"
                       /\ at[k] = "pushing" => nextGame'[k] = nextGame[k]
  BY <1>1
<1>5. UseCount'
  BY <1>2, <1>3, UseStays
<1>6. RatingCount'
  BY <1>3, <1>4, RatingStays
<1> QED BY <1>5, <1>6

\* The end of an iteration that hands out no game.
LEMMA EndIterationKeeps ==
  ASSUME IInv, NEW l \in Loops, at[l] \in {"relock"} \cup (Locked \ {"pushing"}), EndIteration(l),
         at[l] \in Locked \/ taskLock = NoThread,
         UNCHANGED <<files, downloads, todo, managerVars, gameTaskQueue, readOnly, game,
                     numRatingGamesActive>>
  PROVE  IInv'
<1> USE DEF managerVars
<1>1. PICK w \in {"idle", "exited"} : Become(l, w)
  BY DEF EndIteration
<1>2. /\ taskLock' = NoThread /\ task' = [task EXCEPT ![l] = NoTask]
      /\ nextGame' = [nextGame EXCEPT ![l] = NoTask]
  BY DEF EndIteration
<1>3. \A k \in Loops \ {l} : at[k] \notin Locked
  BY Exclusive
<1>4. w \in Places /\ w # "pushing" /\ w \notin Locked /\ w \notin Ready /\ at[l] # "pushing"
  BY DEF Places, Locked, Ready
<1>5. Types
  BY DEF IInv
<1>6. UseCount' /\ RatingCount'
  BY <1>1, <1>2, <1>4, <1>5, QuietLoop DEF Types
<1>7. LoadedInv'
  BY DEF IInv, LoadedInv
<1>8. /\ task' \in [Loops -> ServerTasks \cup {NoTask}] /\ \A k \in Loops \ {l} : task'[k] = task[k]
      /\ nextGame' \in [Loops -> GameTasks \cup {NoTask}] /\ \A k \in Loops \ {l} : nextGame'[k] = nextGame[k]
  BY <1>2, <1>5 DEF Types
<1>9. /\ w \in {"idle", "exited", "fetch"} \cup Locked /\ w # "fetch" /\ w # "loading"
      /\ w \notin {"fetch"} \cup (Locked \ {"asking"})
      /\ at[l] \in {"idle", "relock"} \cup Locked
  BY <1>4
<1>10. /\ todo' \in [Downloaders -> Seq(Models)] /\ \A d \in Downloaders \ {l} : todo'[d] = todo[d]
       /\ files' \subseteq Models /\ loaded' \in [Managers -> SUBSET Models]
       /\ acquireCount' \in [Managers -> [Models -> Int]] /\ numRatingGamesActive' \in Int
       /\ gameTaskQueue' \in {<<>>} \cup {<<g>> : g \in GameTasks}
       /\ taskLock' \in Loops \cup {NoThread} /\ UNCHANGED <<downloads, uploader, readOnly, game>>
  BY <1>2, <1>5 DEF Types
<1> QED BY <1>1, <1>3, <1>4, <1>6, <1>7, <1>8, <1>9, <1>10, LoopKeeps

\* The process dies and nothing else happens.
LEMMA NothingElse ==
  ASSUME IInv, UNCHANGED <<at, files, downloads, todo, taskLock, task, managerVars, gameVars>>
  PROVE  IInv'
<1>1. Types /\ DownloadInv
  BY DEF IInv
<1>2. DownloadInv'
  BY <1>1 DEF DownloadInv, Wanted
<1> QED BY <1>1, <1>2, FetchKeeps DEF Types

LEMMA LeaveLoopInv ==
  ASSUME IInv, NEW l \in Loops, LeaveLoop(l)
  PROVE  IInv'
<1> USE DEF managerVars, gameVars, taskVars, downloadVars
<1> DEFINE w == "exited"
<1>1. /\ at[l] = "idle" /\ Become(l, w)
      /\ UNCHANGED <<taskLock, task, files, downloads, todo, loaded, acquireCount, uploader, nextGame,
                     gameTaskQueue, readOnly, game, numRatingGamesActive>>
  BY DEF LeaveLoop
<1>2. w \in Places /\ w # "pushing" /\ w \notin Locked /\ w \notin Ready /\ at[l] # "pushing"
      /\ w \in {"idle", "exited", "fetch"} \cup Locked /\ w # "fetch" /\ w # "loading"
      /\ w \notin {"fetch"} \cup (Locked \ {"asking"})
  BY <1>1 DEF Places, Locked, Ready
<1>3. Types /\ LoadedInv /\ at[l] \in {"idle", "relock"} \cup Locked
  BY <1>1 DEF IInv
<1> HIDE DEF w
<1>4. UseCount' /\ RatingCount'
  BY <1>1, <1>2, QuietLoop
<1>5. LoadedInv'
  BY <1>1, <1>3 DEF LoadedInv
<1> QED BY <1>1, <1>2, <1>3, <1>4, <1>5, LoopKeeps DEF Types

\* What may be kept of the nets: no net in use is let go.
LEMMA KeptInUse ==
  ASSUME IInv, NEW s \in Managers, NEW kept \in Kept(s)
  PROVE  kept \in SUBSET Models /\ \A m \in Models : acquireCount[s][m] > 0 => m \in kept
<1>1. PICK old \in SUBSET Unused(s) : kept = loaded[s] \ old
  BY DEF Kept
<1>2. loaded[s] \in SUBSET Models /\ \A m \in Models : acquireCount[s][m] > 0 => m \in loaded[s]
  BY DEF IInv, Types, LoadedInv
<1>3. \A m \in old : acquireCount[s][m] = 0
  BY <1>1 DEF Unused
<1> QED BY <1>1, <1>2, <1>3

LEMMA PollInv ==
  ASSUME IInv, NEW l \in Loops, Poll(l)
  PROVE  IInv'
<1> USE DEF managerVars, gameVars, taskVars, downloadVars
<1> DEFINE w == "asking"
<1>1. /\ at[l] = "idle" /\ taskLock = NoThread /\ taskLock' = l /\ Become(l, w)
      /\ UNCHANGED <<task, files, downloads, todo, acquireCount, uploader, nextGame,
                     gameTaskQueue, readOnly, game, numRatingGamesActive>>
  BY DEF Poll
<1>2. PICK kept \in Kept("rating") : loaded' = [loaded EXCEPT !["rating"] = kept]
  BY DEF Poll
<1>3. w \in Places /\ w # "pushing" /\ w \notin Ready /\ at[l] # "pushing"
      /\ w \in {"idle", "exited", "fetch"} \cup Locked /\ w # "fetch" /\ w # "loading"
      /\ w \notin {"fetch"} \cup (Locked \ {"asking"})
  BY <1>1 DEF Places, Locked, Ready
<1>4. Types /\ LoadedInv /\ at[l] \in {"idle", "relock"} \cup Locked /\ "rating" \in Managers
  BY <1>1 DEF IInv, Managers
<1> HIDE DEF w
<1>5. \A k \in Loops \ {l} : at[k] \notin Locked
  BY <1>1, Exclusive
<1>6. UseCount' /\ RatingCount'
  BY <1>1, <1>3, QuietLoop
<1>7. kept \in SUBSET Models /\ \A m \in Models : acquireCount["rating"][m] > 0 => m \in kept
  BY <1>2, <1>4, KeptInUse
<1>8. loaded' \in [Managers -> SUBSET Models]
  BY <1>2, <1>4, <1>7 DEF Types
<1>9. LoadedInv'
  BY <1>1, <1>2, <1>4, <1>7 DEF LoadedInv, Types
<1> QED BY <1>1, <1>3, <1>4, <1>5, <1>6, <1>8, <1>9, LoopKeeps DEF Types

LEMMA GetNextTaskInv ==
  ASSUME IInv, NEW l \in Loops, GetNextTask(l)
  PROVE  IInv'
<1> USE DEF managerVars, gameVars, mainVars, taskVars, downloadVars
<1>1. /\ at[l] = "asking" /\ at[l] \in Locked /\ at[l] # "pushing" /\ at[l] \in {"relock"} \cup (Locked \ {"pushing"})
      /\ UNCHANGED <<gameTaskQueue, readOnly, game, numRatingGamesActive, files, downloads, todo,
                     loaded, acquireCount, uploader>>
  BY DEF GetNextTask, Locked
<1>2. CASE shouldStop /\ EndIteration(l)
  BY <1>1, <1>2, EndIterationKeeps
<1>3. CASE UNCHANGED <<at, taskLock, task, rep, nextGame>>
  BY <1>1, <1>3, NothingElse
<1>4. ASSUME NEW new \in Tasks(l), task' = [task EXCEPT ![l] = new], Become(l, "checking"),
             UNCHANGED <<taskLock, nextGame>>
      PROVE  IInv'
  <2> DEFINE w == "checking"
  <2>1. w \in Places /\ w # "pushing" /\ w \notin Ready /\ w \in Locked
        /\ w \in {"idle", "exited", "fetch"} \cup Locked /\ w # "fetch" /\ w # "loading"
    BY DEF Places, Locked, Ready
  <2>2. Types /\ LoadedInv /\ at[l] \in {"idle", "relock"} \cup Locked /\ Become(l, w) /\ taskLock = l
    BY <1>1, <1>4 DEF IInv, LockInv
  <2>3. new \in ServerTasks
    BY DEF Tasks
  <2> HIDE DEF w
  <2>4. \A k \in Loops \ {l} : at[k] \notin Locked
    BY <1>1, Exclusive
  <2>5. UseCount' /\ RatingCount'
    BY <1>1, <1>4, <2>1, <2>2, QuietLoop
  <2>6. LoadedInv'
    BY <1>1, <2>2 DEF LoadedInv
  <2>7. /\ task' \in [Loops -> ServerTasks \cup {NoTask}] /\ task'[l] \in ServerTasks
        /\ \A k \in Loops \ {l} : task'[k] = task[k]
    BY <1>4, <2>2, <2>3 DEF Types
  <2> QED BY <1>1, <1>4, <2>1, <2>2, <2>4, <2>5, <2>6, <2>7, LoopKeeps DEF Types
<1> QED BY <1>1, <1>2, <1>3, <1>4 DEF GetNextTask

LEMMA CheckInv ==
  ASSUME IInv, NEW l \in Loops, Check(l)
  PROVE  IInv'
<1> USE DEF managerVars, gameVars, mainVars, taskVars, downloadVars
<1>1. /\ at[l] = "checking" /\ at[l] \in Locked /\ at[l] # "pushing" /\ at[l] \in {"relock"} \cup (Locked \ {"pushing"})
      /\ UNCHANGED <<files, downloads, gameTaskQueue, readOnly, game, numRatingGamesActive,
                     loaded, acquireCount, uploader>>
  BY DEF Check, Locked
<1>2. Types /\ LoadedInv /\ at[l] \in {"idle", "relock"} \cup Locked /\ taskLock = l /\ task[l] \in ServerTasks
  BY <1>1 DEF IInv, LockInv, TaskInv, Locked
<1>3. \A k \in Loops \ {l} : at[k] \notin Locked
  BY <1>1, Exclusive
<1>4. LoadedInv'
  BY <1>1, <1>2 DEF LoadedInv
<1>5. CASE EndIteration(l) /\ UNCHANGED todo
  BY <1>1, <1>5, EndIterationKeeps
<1>6. ASSUME ArePresent(l), Become(l, "loading"), UNCHANGED <<todo, taskLock, task, nextGame>>
      PROVE  IInv'
  <2> DEFINE w == "loading"
  <2>1. w \in Places /\ w # "pushing" /\ w \notin Ready /\ w \in Locked
        /\ w \in {"idle", "exited", "fetch"} \cup Locked /\ w # "fetch" /\ Become(l, w)
    BY <1>6 DEF Places, Locked, Ready
  <2> HIDE DEF w
  <2>2. UseCount' /\ RatingCount'
    BY <1>1, <1>6, <2>1, QuietLoop
  <2>3. NetsOf(task'[l]) \subseteq files'
    BY <1>1, <1>6 DEF NetsOf, ArePresent
  <2> QED BY <1>1, <1>2, <1>3, <1>4, <1>6, <2>1, <2>2, <2>3, LoopKeeps DEF Types
<1>7. ASSUME Become(l, "fetch"), taskLock' = NoThread,
             todo' = [todo EXCEPT ![l] = <<task[l].model["black"], task[l].model["white"]>>],
             UNCHANGED <<task, nextGame>>
      PROVE  IInv'
  <2> DEFINE w == "fetch"
  <2>1. w \in Places /\ w # "pushing" /\ w \notin Ready /\ w \notin Locked /\ w # "loading"
        /\ w \in {"idle", "exited", "fetch"} \cup Locked /\ Become(l, w)
    BY <1>7 DEF Places, Locked, Ready, Fetching
  <2> HIDE DEF w
  <2>2. UseCount' /\ RatingCount'
    BY <1>1, <1>7, <2>1, QuietLoop
  <2>3. task[l].model["black"] \in Models /\ task[l].model["white"] \in Models
    BY <1>2, ContributeAssumption DEF Sides
  <2>4. /\ todo' \in [Downloaders -> Seq(Models)] /\ todo'[l] # <<>>
        /\ \A d \in Downloaders \ {l} : todo'[d] = todo[d]
    <3>1. l \in Downloaders /\ todo \in [Downloaders -> Seq(Models)]
      BY <1>2 DEF Downloaders, Types
    <3> DEFINE nets == <<task[l].model["black"], task[l].model["white"]>>
    <3>2. nets \in Seq(Models) /\ nets # <<>>
      BY <2>3
    <3>3. todo' = [todo EXCEPT ![l] = nets]
      BY <1>7
    <3> HIDE DEF nets
    <3> QED BY <3>1, <3>2, <3>3
  <2> QED BY <1>1, <1>2, <1>3, <1>4, <1>7, <2>1, <2>2, <2>4, LoopKeeps DEF Types
<1> QED BY <1>5, <1>6, <1>7 DEF Check

LEMMA RelockInv ==
  ASSUME IInv, NEW l \in Loops, Relock(l)
  PROVE  IInv'
<1> USE DEF managerVars, gameVars, mainVars, taskVars, downloadVars
<1>1. /\ at[l] = "relock" /\ taskLock = NoThread /\ at[l] \in {"relock"} \cup (Locked \ {"pushing"})
      /\ UNCHANGED <<files, downloads, todo, gameTaskQueue, readOnly, game, numRatingGamesActive,
                     loaded, acquireCount, uploader>>
  BY DEF Relock
<1>2. Types /\ LoadedInv /\ at[l] \in {"idle", "relock"} \cup Locked /\ at[l] # "pushing" /\ task[l] \in ServerTasks
  BY <1>1 DEF IInv, TaskInv
<1>3. \A k \in Loops \ {l} : at[k] \notin Locked
  BY <1>1, Exclusive
<1>4. LoadedInv'
  BY <1>1, <1>2 DEF LoadedInv
<1>5. CASE EndIteration(l)
  BY <1>1, <1>5, EndIterationKeeps
<1>6. ASSUME Become(l, "checking"), taskLock' = l, UNCHANGED <<task, nextGame>>
      PROVE  IInv'
  <2> DEFINE w == "checking"
  <2>1. w \in Places /\ w # "pushing" /\ w \notin Ready /\ w \in Locked /\ w # "loading"
        /\ w \in {"idle", "exited", "fetch"} \cup Locked /\ w # "fetch" /\ Become(l, w)
    BY <1>6 DEF Places, Locked, Ready
  <2> HIDE DEF w
  <2>2. UseCount' /\ RatingCount'
    BY <1>1, <1>2, <1>6, <2>1, QuietLoop
  <2> QED BY <1>1, <1>2, <1>3, <1>4, <1>6, <2>1, <2>2, LoopKeeps DEF Types
<1> QED BY <1>5, <1>6 DEF Relock

LEMMA LoadInv ==
  ASSUME IInv, NEW l \in Loops, Load(l)
  PROVE  IInv'
<1> USE DEF managerVars, gameVars, mainVars, taskVars, downloadVars
<1>1. /\ at[l] = "loading" /\ at[l] \in Locked /\ at[l] # "pushing"
      /\ UNCHANGED <<taskLock, task, rep, files, downloads, todo, gameTaskQueue, readOnly, game,
                     numRatingGamesActive, acquireCount, uploader>>
  BY DEF Load, Locked
<1>2. Types /\ at[l] \in {"idle", "relock"} \cup Locked /\ taskLock = l /\ task[l] \in ServerTasks
  BY <1>1 DEF IInv, LockInv, TaskInv, Locked
<1>3. \A k \in Loops \ {l} : at[k] \notin Locked
  BY <1>1, Exclusive
<1>4. CASE UNCHANGED <<at, loaded, nextGame>>
  BY <1>1, <1>4, NothingElse
<1>5. ASSUME NEW left \in [Managers -> SUBSET Models], \A s \in Managers : left[s] \in Kept(s),
             NEW manager, manager = [side \in Sides |-> ManagerOf(task[l], task[l].model[side], left)],
             NEW needed, needed = [s \in Managers |-> {task[l].model[side] : side \in {x \in Sides : manager[x] = s}}],
             loaded' = [s \in Managers |-> left[s] \cup needed[s]],
             nextGame' = [nextGame EXCEPT ![l] = [rating |-> task[l].rating,
                                  model |-> task[l].model, manager |-> manager]],
             Become(l, "loaded")
      PROVE  IInv'
  <2> DEFINE w == "loaded"
             g == [rating |-> task[l].rating, model |-> task[l].model, manager |-> manager]
  <2>1. w \in Places /\ w # "pushing" /\ w \in Ready /\ w \in Locked /\ w # "loading"
        /\ w \in {"idle", "exited", "fetch"} \cup Locked /\ w # "fetch" /\ Become(l, w)
    BY <1>5 DEF Places, Locked, Ready
  <2> HIDE DEF w
  <2>2. \A side \in Sides : task[l].model[side] \in Models /\ manager[side] \in Managers
    BY <1>2, <1>5, ContributeAssumption DEF ManagerOf, Managers
  <2>3. g \in GameTasks /\ g.rating = task[l].rating /\ g.model = task[l].model /\ g.manager = manager
    <3>1. task[l].rating \in BOOLEAN /\ task[l].model \in [Sides -> Models]
      BY <1>2, ContributeAssumption
    <3>2. manager \in [Sides -> Managers]
      BY <1>5, <2>2
    <3> QED BY <3>1, <3>2 DEF GameTasks
  <2>4. nextGame' = [nextGame EXCEPT ![l] = g]
    BY <1>5
  <2> HIDE DEF g
  <2>5. /\ nextGame' \in [Loops -> GameTasks \cup {NoTask}] /\ nextGame'[l] = g
        /\ \A k \in Loops \ {l} : nextGame'[k] = nextGame[k]
    BY <1>2, <2>3, <2>4 DEF Types
  <2>6. UseCount' /\ RatingCount'
    BY <1>1, <2>1, <2>5, QuietLoop
  <2>7. \A s \in Managers : needed[s] \in SUBSET Models
    BY <1>5, <2>2
  <2>8. loaded' \in [Managers -> SUBSET Models]
    BY <1>5, <2>7
  <2>9. LoadedInv'
    <3>1. \A s \in Managers, m \in Models : acquireCount[s][m] > 0 => m \in left[s]
      BY <1>5, KeptInUse
    <3> QED BY <1>1, <1>5, <3>1 DEF LoadedInv
  <2>10. \A side \in Sides : nextGame'[l].model[side] \in loaded'[nextGame'[l].manager[side]]
    <3>1. \A side \in Sides : task[l].model[side] \in needed[manager[side]]
      BY <1>5, <2>2
    <3> QED BY <1>5, <2>2, <2>3, <2>5, <3>1
  <2>11. nextGame'[l] \in GameTasks /\ nextGame'[l].rating = task'[l].rating
    BY <1>1, <2>3, <2>5
  <2> QED BY <1>1, <1>2, <1>3, <2>1, <2>5, <2>6, <2>8, <2>9, <2>10, <2>11, LoopKeeps DEF Types
<1>6. PICK left \in {f \in [Managers -> SUBSET Models] : \A s \in Managers : f[s] \in Kept(s)} :
        LET manager == [side \in Sides |-> ManagerOf(task[l], task[l].model[side], left)]
            needed(s) == {task[l].model[side] : side \in {x \in Sides : manager[x] = s}}
        IN  \/ /\ loaded' = [s \in Managers |-> left[s] \cup needed(s)]
               /\ nextGame' = [nextGame EXCEPT ![l] = [rating |-> task[l].rating,
                                  model |-> task[l].model, manager |-> manager]]
               /\ Become(l, "loaded")
            \/ UNCHANGED <<at, loaded, nextGame>>
  BY DEF Load
<1> DEFINE manager == [side \in Sides |-> ManagerOf(task[l], task[l].model[side], left)]
           needed == [s \in Managers |-> {task[l].model[side] : side \in {x \in Sides : manager[x] = s}}]
<1>7. CASE ~UNCHANGED <<at, loaded, nextGame>>
  <2>1. /\ loaded' = [s \in Managers |-> left[s] \cup needed[s]]
        /\ nextGame' = [nextGame EXCEPT ![l] = [rating |-> task[l].rating,
                           model |-> task[l].model, manager |-> manager]]
        /\ Become(l, "loaded")
    BY <1>6, <1>7
  <2>2. left \in [Managers -> SUBSET Models] /\ \A s \in Managers : left[s] \in Kept(s)
    BY <1>6
  <2> QED BY <2>1, <2>2, <1>5
<1> QED BY <1>4, <1>7

LEMMA DeleteOldInv ==
  ASSUME IInv, NEW l \in Loops, DeleteOld(l)
  PROVE  IInv'
<1> USE DEF managerVars, gameVars, mainVars, taskVars, downloadVars
<1>1. /\ at[l] = "loaded" /\ at[l] \in Locked /\ at[l] # "pushing" /\ at[l] \in {"relock"} \cup (Locked \ {"pushing"})
      /\ UNCHANGED <<downloads, todo, gameTaskQueue, readOnly, game, numRatingGamesActive,
                     loaded, acquireCount, uploader>>
  BY DEF DeleteOld, Locked
<1>2. Types /\ LoadedInv /\ at[l] \in {"idle", "relock"} \cup Locked /\ taskLock = l /\ task[l] \in ServerTasks
  BY <1>1 DEF IInv, LockInv, TaskInv, Locked
<1>3. \A k \in Loops \ {l} : at[k] \notin Locked
  BY <1>1, Exclusive
<1>4. LoadedInv'
  BY <1>1, <1>2 DEF LoadedInv
<1>5. CASE EndIteration(l) /\ UNCHANGED files
  BY <1>1, <1>5, EndIterationKeeps
<1>6. ASSUME files' \in SUBSET files, Become(l, "acquiring"), UNCHANGED <<taskLock, task, nextGame>>
      PROVE  IInv'
  <2> DEFINE w == "acquiring"
  <2>1. w \in Places /\ w # "pushing" /\ w \in Ready /\ w \in Locked /\ w # "loading"
        /\ w \in {"idle", "exited", "fetch"} \cup Locked /\ w # "fetch" /\ Become(l, w)
    BY <1>6 DEF Places, Locked, Ready
  <2> HIDE DEF w
  <2>2. UseCount' /\ RatingCount'
    BY <1>1, <1>2, <1>6, <2>1, QuietLoop
  <2>3. /\ nextGame'[l] \in GameTasks /\ nextGame'[l].rating = task'[l].rating
        /\ \A side \in Sides : nextGame'[l].model[side] \in loaded'[nextGame'[l].manager[side]]
    BY <1>1, <1>6 DEF IInv, ReadyInv, Ready
  <2> QED BY <1>1, <1>2, <1>3, <1>4, <1>6, <2>1, <2>2, <2>3, LoopKeeps DEF Types
<1> QED BY <1>5, <1>6 DEF DeleteOld

\* Drawing the sides keeps the nets with their managers.
LEMMA SwapKeeps ==
  ASSUME NEW g \in GameTasks, NEW h \in {g, Swapped(g)}
  PROVE  /\ h \in GameTasks /\ h.rating = g.rating
         /\ \/ /\ UsesOf(h)["black"] = UsesOf(g)["black"] /\ UsesOf(h)["white"] = UsesOf(g)["white"]
            \/ /\ UsesOf(h)["black"] = UsesOf(g)["white"] /\ UsesOf(h)["white"] = UsesOf(g)["black"]
         /\ \A side \in Sides : UsesOf(h)[side] = <<h.manager[side], h.model[side]>>
<1> DEFINE other == [side \in Sides |-> IF side = "black" THEN "white" ELSE "black"]
           model == [side \in Sides |-> g.model[other[side]]]
           manager == [side \in Sides |-> g.manager[other[side]]]
<1>1. /\ g.rating \in BOOLEAN /\ g.model \in [Sides -> Models] /\ g.manager \in [Sides -> Managers]
      /\ g = [rating |-> g.rating, model |-> g.model, manager |-> g.manager]
  BY DEF GameTasks
<1>2. /\ other["black"] = "white" /\ other["white"] = "black"
      /\ "black" \in Sides /\ "white" \in Sides /\ \A side \in Sides : other[side] \in Sides
  BY DEF Sides
<1>3. Swapped(g) = [g EXCEPT !.model = model, !.manager = manager]
  BY DEF Swapped
<1> HIDE DEF other
<1>4. /\ model \in [Sides -> Models] /\ manager \in [Sides -> Managers]
      /\ model["black"] = g.model["white"] /\ model["white"] = g.model["black"]
      /\ manager["black"] = g.manager["white"] /\ manager["white"] = g.manager["black"]
  BY <1>1, <1>2
<1> HIDE DEF model, manager
<1>5. Swapped(g) = [rating |-> g.rating, model |-> model, manager |-> manager]
  BY <1>1, <1>3
<1>6. CASE h = g
  BY <1>1, <1>2, <1>6 DEF UsesOf
<1>7. CASE h = Swapped(g)
  <2>1. h.rating = g.rating /\ h.model = model /\ h.manager = manager /\ h \in GameTasks
    BY <1>1, <1>4, <1>5, <1>7 DEF GameTasks
  <2> QED BY <1>2, <1>4, <2>1 DEF UsesOf
<1> QED BY <1>6, <1>7

\* One more element, and one less.
LEMMA AddOne ==
  ASSUME NEW S, IsFiniteSet(S), NEW x, x \notin S
  PROVE  Cardinality(S \cup {x}) = Cardinality(S) + 1 /\ Cardinality(S) \in Nat
BY FS_AddElement, FS_CardinalityType

LEMMA RemoveOne ==
  ASSUME NEW S, IsFiniteSet(S), NEW x \in S
  PROVE  Cardinality(S \ {x}) = Cardinality(S) - 1 /\ Cardinality(S) \in Nat \ {0}
<1>1. Cardinality(S) \in Nat /\ Cardinality(S) # 0
  BY FS_CardinalityType, FS_EmptySet
<1> QED BY <1>1, FS_RemoveElement

\* The parts of ActiveRatingGames.
RatedLoops == {k \in Loops : at[k] = "pushing" /\ nextGame[k].rating}
RatedPlayers == {p \in Players : game[p] # NoTask /\ game[p].rating}
RatedQueue == {i \in 1 .. Len(gameTaskQueue) : gameTaskQueue[i].rating}

LEMMA RatedAreFinite ==
  /\ IsFiniteSet(RatedLoops) /\ IsFiniteSet(RatedPlayers)
  /\ Cardinality(RatedLoops) \in Nat /\ Cardinality(RatedPlayers) \in Nat
<1>1. RatedLoops \in SUBSET Loops /\ RatedPlayers \in SUBSET Players
  BY DEF RatedLoops, RatedPlayers
<1>2. IsFiniteSet(RatedLoops) /\ IsFiniteSet(RatedPlayers)
  BY <1>1, ContributeAssumption, FS_Subset
<1> QED BY <1>2, FS_CardinalityType

LEMMA RatedQueueIsFinite ==
  ASSUME Types
  PROVE  Cardinality(RatedQueue) \in Nat
<1>1. Len(gameTaskQueue) \in Nat
  BY DEF Types
<1>2. IsFiniteSet(1 .. Len(gameTaskQueue))
  BY <1>1, FS_Interval
<1>3. RatedQueue \in SUBSET (1 .. Len(gameTaskQueue))
  BY DEF RatedQueue
<1> QED BY <1>2, <1>3, FS_Subset, FS_CardinalityType

LEMMA RatedOfQueue ==
  ASSUME NEW g \in GameTasks
  PROVE  /\ Cardinality({i \in 1 .. Len(<<>>) : <<>>[i].rating}) = 0
         /\ Cardinality({i \in 1 .. Len(<<g>>) : <<g>>[i].rating}) = IF g.rating THEN 1 ELSE 0
<1>1. {i \in 1 .. Len(<<>>) : <<>>[i].rating} = {}
  OBVIOUS
<1>2. 1 .. Len(<<g>>) = {1} /\ <<g>>[1] = g
  OBVIOUS
<1>3. CASE g.rating
  <2>1. {i \in {1} : <<g>>[i].rating} = {1}
    BY <1>2, <1>3
  <2>2. Cardinality({i \in 1 .. Len(<<g>>) : <<g>>[i].rating}) = 1
    BY <1>2, <2>1, FS_Singleton
  <2> QED BY <1>1, <1>3, <2>2, FS_EmptySet
<1>4. CASE ~g.rating
  <2>1. {i \in {1} : <<g>>[i].rating} = {}
    BY <1>2, <1>4
  <2>2. Cardinality({i \in 1 .. Len(<<g>>) : <<g>>[i].rating}) = 0
    BY <1>2, <2>1, FS_EmptySet
  <2> QED BY <1>1, <1>4, <2>2, FS_EmptySet
<1> QED BY <1>3, <1>4

\* How many sides of a game use a net: the count that Acquire and Release change.
LEMMA CountedIs ==
  ASSUME NEW g \in GameTasks, NEW s \in Managers, NEW m \in Models
  PROVE  \A sides \in SUBSET Sides :
           Cardinality({side \in sides : UsesOf(g)[side] = <<s, m>>})
             = (IF "black" \in sides /\ UsesOf(g)["black"] = <<s, m>> THEN 1 ELSE 0)
               + (IF "white" \in sides /\ UsesOf(g)["white"] = <<s, m>> THEN 1 ELSE 0)
<1> TAKE sides \in SUBSET Sides
<1> DEFINE S == {side \in sides : UsesOf(g)[side] = <<s, m>>}
<1>1. S \in SUBSET Sides
  OBVIOUS
<1>2. /\ "black" \in S <=> "black" \in sides /\ UsesOf(g)["black"] = <<s, m>>
      /\ "white" \in S <=> "white" \in sides /\ UsesOf(g)["white"] = <<s, m>>
  OBVIOUS
<1> HIDE DEF S
<1>3. Cardinality(S) = Has(S, "black") + Has(S, "white")
  BY <1>1, CountSides
<1>4. Cardinality(S) = (IF "black" \in sides /\ UsesOf(g)["black"] = <<s, m>> THEN 1 ELSE 0)
                       + (IF "white" \in sides /\ UsesOf(g)["white"] = <<s, m>> THEN 1 ELSE 0)
  BY <1>2, <1>3 DEF Has
<1> QED BY <1>4 DEF S

\* Both nets of a game are acquired: each was loaded, and from now on is counted.
LEMMA AcquireInv ==
  ASSUME IInv, NEW l \in Loops, Acquire(l)
  PROVE  IInv'
<1> USE DEF managerVars, gameVars, mainVars, taskVars, downloadVars
<1> DEFINE w == "pushing"  g == nextGame[l]
<1>1. /\ at[l] = "acquiring" /\ at[l] \in Locked /\ at[l] \in Ready /\ Become(l, w)
      /\ UNCHANGED <<taskLock, task, files, downloads, todo, gameTaskQueue, readOnly, game, loaded, uploader>>
      /\ acquireCount' = Counted(g, Sides, 1)
      /\ numRatingGamesActive' = numRatingGamesActive + IF task[l].rating THEN 1 ELSE 0
  BY DEF Acquire, Locked, Ready
<1>2. PICK h \in {g, Swapped(g)} : nextGame' = [nextGame EXCEPT ![l] = h]
  BY DEF Acquire
<1>3. w \in Places /\ w \in Ready /\ w \in Locked /\ w # "loading"
      /\ w \in {"idle", "exited", "fetch"} \cup Locked /\ w # "fetch"
  BY DEF Places, Locked, Ready
<1>4. Types /\ UseCount /\ LoadedInv /\ RatingCount /\ at[l] \in {"idle", "relock"} \cup Locked /\ taskLock = l
  BY <1>1 DEF IInv, LockInv
<1>5. /\ g \in GameTasks /\ g.rating = task[l].rating /\ task[l] \in ServerTasks
      /\ \A side \in Sides : g.model[side] \in loaded[g.manager[side]]
  BY <1>1 DEF IInv, ReadyInv, TaskInv, Ready, Locked
<1> HIDE DEF g
<1>6. /\ h \in GameTasks /\ h.rating = g.rating
      /\ \/ /\ UsesOf(h)["black"] = UsesOf(g)["black"] /\ UsesOf(h)["white"] = UsesOf(g)["white"]
         \/ /\ UsesOf(h)["black"] = UsesOf(g)["white"] /\ UsesOf(h)["white"] = UsesOf(g)["black"]
      /\ \A side \in Sides : UsesOf(h)[side] = <<h.manager[side], h.model[side]>>
  BY <1>5, SwapKeeps
<1>7. /\ nextGame' \in [Loops -> GameTasks \cup {NoTask}] /\ nextGame'[l] = h
      /\ \A k \in Loops \ {l} : nextGame'[k] = nextGame[k]
  BY <1>2, <1>4, <1>6 DEF Types
<1>8. /\ l \in Threads /\ at'[l] = "pushing" /\ l \notin Players
      /\ \A o \in (Loops \cup Players) \ {l} : at'[o] = at[o]
  BY <1>1, <1>4, ContributeAssumption DEF Become, Types, Threads, Downloaders
<1>9. \A o \in (Loops \cup Players) \ {l} :
        Holds(o)' = Holds(o) /\ (Holds(o) # {} => GameOf(o)' = GameOf(o))
  BY <1>1, <1>7, <1>8 DEF Holds, GameOf
<1>10. Holds(l) = {} /\ Holds(l)' = Sides /\ GameOf(l)' = h
  BY <1>1, <1>7, <1>8 DEF Holds, GameOf
<1>11. ASSUME NEW s \in Managers, NEW m \in Models
       PROVE  /\ acquireCount'[s][m] \in Int
              /\ acquireCount'[s][m] = acquireCount[s][m]
                   + (IF UsesOf(g)["black"] = <<s, m>> THEN 1 ELSE 0)
                   + (IF UsesOf(g)["white"] = <<s, m>> THEN 1 ELSE 0)
  <2> DEFINE n == Cardinality({side \in Sides : UsesOf(g)[side] = <<s, m>>})
  <2>1. acquireCount'[s][m] = acquireCount[s][m] + 1 * n
    BY <1>1 DEF Counted
  <2>2. n = (IF UsesOf(g)["black"] = <<s, m>> THEN 1 ELSE 0) + (IF UsesOf(g)["white"] = <<s, m>> THEN 1 ELSE 0)
    BY <1>5, CountedIs DEF Sides
  <2>3. acquireCount[s][m] \in Int
    BY <1>4 DEF Types
  <2> HIDE DEF n
  <2> QED BY <2>1, <2>2, <2>3
<1>12. UseCount'
  <2>1. SUFFICES ASSUME NEW s \in Managers, NEW m \in Models
                 PROVE  acquireCount'[s][m] = Cardinality(Held(s, m)') + Cardinality(Queued(s, m)')
    BY DEF UseCount
  <2>2. HeldFact /\ HeldFact'
    BY HeldIs, PTL
  <2>3. /\ <<l, "black">> \notin Held(s, m) /\ <<l, "white">> \notin Held(s, m)
        /\ <<l, "black">> \in Held(s, m)' <=> UsesOf(h)["black"] = <<s, m>>
        /\ <<l, "white">> \in Held(s, m)' <=> UsesOf(h)["white"] = <<s, m>>
    <3>1. \A side \in Sides : <<l, side>> \in Held(s, m) <=> side \in Holds(l) /\ UsesOf(GameOf(l))[side] = <<s, m>>
      BY <2>2 DEF HeldFact
    <3>2. \A side \in Sides : <<l, side>> \in Held(s, m)' <=> side \in Holds(l)' /\ UsesOf(GameOf(l)')[side] = <<s, m>>
      BY <2>2 DEF HeldFact, UsesOf
    <3> QED BY <1>10, <3>1, <3>2 DEF Sides
  <2>4. /\ Cardinality(Held(s, m)) \in Nat /\ Cardinality(Held(s, m)') \in Nat
        /\ Cardinality(Held(s, m)') + Has(Held(s, m), <<l, "black">>) + Has(Held(s, m), <<l, "white">>)
             = Cardinality(Held(s, m)) + Has(Held(s, m)', <<l, "black">>) + Has(Held(s, m)', <<l, "white">>)
    BY <1>9, CountInHand
  <2>5. Cardinality(Held(s, m)') = Cardinality(Held(s, m))
          + (IF UsesOf(h)["black"] = <<s, m>> THEN 1 ELSE 0) + (IF UsesOf(h)["white"] = <<s, m>> THEN 1 ELSE 0)
    BY <2>3, <2>4 DEF Has
  <2>6. Queued(s, m)' = Queued(s, m) /\ Cardinality(Queued(s, m)) \in Nat
    BY <1>1, CountSides DEF Queued, UsesOf
  <2>7. acquireCount[s][m] = Cardinality(Held(s, m)) + Cardinality(Queued(s, m))
    BY <1>4 DEF UseCount
  <2>8. (IF UsesOf(h)["black"] = <<s, m>> THEN 1 ELSE 0) + (IF UsesOf(h)["white"] = <<s, m>> THEN 1 ELSE 0)
         = (IF UsesOf(g)["black"] = <<s, m>> THEN 1 ELSE 0) + (IF UsesOf(g)["white"] = <<s, m>> THEN 1 ELSE 0)
    BY <1>6
  <2> QED BY <1>11, <2>4, <2>5, <2>6, <2>7, <2>8
<1>13. LoadedInv'
  <2>1. SUFFICES ASSUME NEW s \in Managers, NEW m \in Models, acquireCount'[s][m] > 0
                 PROVE  m \in loaded[s]
    BY <1>1 DEF LoadedInv
  <2>2. CASE acquireCount[s][m] > 0
    BY <1>4, <2>2 DEF LoadedInv
  <2>3. CASE UsesOf(g)["black"] = <<s, m>> \/ UsesOf(g)["white"] = <<s, m>>
    <3>1. PICK side \in Sides : <<g.manager[side], g.model[side]>> = <<s, m>>
      BY <2>3 DEF UsesOf, Sides
    <3> QED BY <1>5, <3>1
  <2>4. acquireCount[s][m] \in Int
    BY <1>4 DEF Types
  <2> QED BY <1>11, <2>1, <2>2, <2>3, <2>4
<1>14. RatingCount'
  <2>1. RatedLoops' = IF h.rating THEN RatedLoops \cup {l} ELSE RatedLoops
    <3>1. \A k \in Loops \ {l} : k \in RatedLoops' <=> k \in RatedLoops
      BY <1>7, <1>8 DEF RatedLoops
    <3>2. /\ l \in RatedLoops' <=> h.rating
          /\ RatedLoops' \subseteq Loops /\ RatedLoops \subseteq Loops /\ l \notin RatedLoops
      BY <1>1, <1>7, <1>8 DEF RatedLoops
    <3>3. CASE h.rating
      BY <3>1, <3>2, <3>3
    <3>4. CASE ~h.rating
      BY <3>1, <3>2, <3>4
    <3> QED BY <3>3, <3>4
  <2>2. l \notin RatedLoops
    BY <1>1 DEF RatedLoops
  <2>3. Cardinality(RatedLoops \cup {l}) = Cardinality(RatedLoops) + 1 /\ Cardinality(RatedLoops) \in Nat
    BY <2>2, RatedAreFinite, AddOne
  <2>4. Cardinality(RatedLoops') = Cardinality(RatedLoops) + IF h.rating THEN 1 ELSE 0
    BY <2>1, <2>3
  <2>5. RatedPlayers' = RatedPlayers /\ RatedQueue' = RatedQueue
    BY <1>1 DEF RatedPlayers, RatedQueue
  <2>6. Cardinality(RatedQueue) \in Nat
    BY <1>4, RatedQueueIsFinite
  <2>7. /\ ActiveRatingGames = Cardinality(RatedLoops) + Cardinality(RatedPlayers) + Cardinality(RatedQueue)
        /\ ActiveRatingGames' = Cardinality(RatedLoops') + Cardinality(RatedPlayers') + Cardinality(RatedQueue')
    BY DEF ActiveRatingGames, RatedLoops, RatedPlayers, RatedQueue
  <2> QED BY <1>1, <1>4, <1>5, <1>6, <2>3, <2>4, <2>5, <2>6, <2>7, RatedAreFinite DEF RatingCount
<1>15. /\ acquireCount' \in [Managers -> [Models -> Int]] /\ numRatingGamesActive' \in Int
  <2>1. acquireCount' \in [Managers -> [Models -> Int]]
    <3>1. acquireCount' = [s \in Managers |-> [m \in Models |-> acquireCount'[s][m]]]
      BY <1>1 DEF Counted
    <3> HIDE DEF Types
    <3> QED BY <1>11, <3>1
  <2> QED BY <1>1, <1>4, <2>1 DEF Types
<1>16. \A side \in Sides : h.model[side] \in loaded[h.manager[side]]
  <2>1. TAKE side \in Sides
  <2>2. PICK x \in Sides : UsesOf(h)[side] = <<g.manager[x], g.model[x]>>
    BY <1>6 DEF Sides, UsesOf
  <2>3. <<h.manager[side], h.model[side]>> = <<g.manager[x], g.model[x]>>
    BY <1>6, <2>2
  <2> QED BY <1>5, <2>3
<1>17. \A k \in Loops \ {l} : at[k] \notin Locked
  BY <1>1, Exclusive
<1> HIDE DEF w
<1> QED
  BY <1>1, <1>3, <1>4, <1>5, <1>6, <1>7, <1>12, <1>13, <1>14, <1>15, <1>16, <1>17, LoopKeeps DEF Types

\* The nets of a game go with the game, from the loop into the queue.
LEMMA PushInv ==
  ASSUME IInv, NEW l \in Loops, Push(l)
  PROVE  IInv'
<1> USE DEF managerVars, gameVars, mainVars, taskVars, downloadVars
<1> DEFINE g == nextGame[l]
<1>1. /\ at[l] = "pushing" /\ at[l] \in Locked /\ at[l] \in Ready /\ gameTaskQueue = <<>> /\ gameTaskQueue' = <<g>>
      /\ UNCHANGED <<files, downloads, todo, readOnly, game, loaded, uploader, acquireCount,
                     numRatingGamesActive>>
  BY DEF Push, Locked, Ready
<1>2. Types /\ UseCount /\ LoadedInv /\ RatingCount /\ at[l] \in {"idle", "relock"} \cup Locked /\ taskLock = l
  BY <1>1 DEF IInv, LockInv
<1>3. /\ g \in GameTasks /\ g.rating = task[l].rating /\ task[l] \in ServerTasks
      /\ \A side \in Sides : g.model[side] \in loaded[g.manager[side]]
  BY <1>1 DEF IInv, ReadyInv, TaskInv, Ready, Locked
<1>4. PICK w \in {"acquiring", "idle", "exited"} :
        /\ Become(l, w)
        /\ w = "acquiring" => UNCHANGED <<taskLock, task, nextGame>>
        /\ w # "acquiring" => /\ taskLock' = NoThread /\ task' = [task EXCEPT ![l] = NoTask]
                              /\ nextGame' = [nextGame EXCEPT ![l] = NoTask]
  <2>1. CASE rep[l] + 1 < taskRepFactor
    BY <2>1 DEF Push
  <2>2. CASE ~(rep[l] + 1 < taskRepFactor)
    BY <2>2 DEF Push, EndIteration
  <2> QED BY <2>1, <2>2
<1>5. /\ w \in Places /\ w # "loading" /\ w # "fetch" /\ w # "pushing" /\ w \in {"idle", "exited", "fetch"} \cup Locked
      /\ w \in Locked => w = "acquiring"
      /\ w \in Ready => w = "acquiring"
  BY DEF Places, Locked, Ready
<1>6. /\ nextGame' \in [Loops -> GameTasks \cup {NoTask}] /\ \A k \in Loops \ {l} : nextGame'[k] = nextGame[k]
      /\ task' \in [Loops -> ServerTasks \cup {NoTask}] /\ \A k \in Loops \ {l} : task'[k] = task[k]
      /\ taskLock' \in Loops \cup {NoThread} /\ w \in Locked => taskLock' = l
  <2>1. CASE w = "acquiring"
    BY <1>2, <1>4, <2>1 DEF Types
  <2>2. CASE w # "acquiring"
    BY <1>2, <1>4, <1>5, <2>2 DEF Types
  <2> QED BY <2>1, <2>2
<1>7. /\ w \in {"fetch"} \cup (Locked \ {"asking"}) => task'[l] \in ServerTasks
      /\ w \in Ready =>
           /\ nextGame'[l] \in GameTasks /\ nextGame'[l].rating = task'[l].rating
           /\ \A side \in Sides : nextGame'[l].model[side] \in loaded'[nextGame'[l].manager[side]]
  BY <1>1, <1>3, <1>4, <1>5
<1> HIDE DEF g
<1>8. /\ l \in Threads /\ at'[l] # "pushing" /\ l \notin Players
      /\ \A o \in (Loops \cup Players) \ {l} : at'[o] = at[o]
  BY <1>4, <1>5, <1>2, ContributeAssumption DEF Become, Types, Threads, Downloaders
<1>9. \A o \in (Loops \cup Players) \ {l} :
        Holds(o)' = Holds(o) /\ (Holds(o) # {} => GameOf(o)' = GameOf(o))
  BY <1>1, <1>6, <1>8 DEF Holds, GameOf
<1>10. Holds(l) = Sides /\ Holds(l)' = {} /\ GameOf(l) = g
  BY <1>1, <1>8 DEF Holds, GameOf, g
<1>11. UseCount'
  <2>1. SUFFICES ASSUME NEW s \in Managers, NEW m \in Models
                 PROVE  acquireCount'[s][m] = Cardinality(Held(s, m)') + Cardinality(Queued(s, m)')
    BY DEF UseCount
  <2>2. HeldFact /\ HeldFact'
    BY HeldIs, PTL
  <2>3. /\ <<l, "black">> \notin Held(s, m)' /\ <<l, "white">> \notin Held(s, m)'
        /\ <<l, "black">> \in Held(s, m) <=> UsesOf(g)["black"] = <<s, m>>
        /\ <<l, "white">> \in Held(s, m) <=> UsesOf(g)["white"] = <<s, m>>
    <3>1. \A side \in Sides : <<l, side>> \in Held(s, m) <=> side \in Holds(l) /\ UsesOf(GameOf(l))[side] = <<s, m>>
      BY <2>2 DEF HeldFact
    <3>2. \A side \in Sides : <<l, side>> \in Held(s, m)' => side \in Holds(l)'
      BY <2>2 DEF HeldFact
    <3> QED BY <1>10, <3>1, <3>2 DEF Sides
  <2>4. /\ Cardinality(Held(s, m)) \in Nat /\ Cardinality(Held(s, m)') \in Nat
        /\ Cardinality(Held(s, m)') + Has(Held(s, m), <<l, "black">>) + Has(Held(s, m), <<l, "white">>)
             = Cardinality(Held(s, m)) + Has(Held(s, m)', <<l, "black">>) + Has(Held(s, m)', <<l, "white">>)
    BY <1>9, CountInHand
  <2>5. Cardinality(Held(s, m)) = Cardinality(Held(s, m)')
          + (IF UsesOf(g)["black"] = <<s, m>> THEN 1 ELSE 0) + (IF UsesOf(g)["white"] = <<s, m>> THEN 1 ELSE 0)
    BY <2>3, <2>4 DEF Has
  <2>6. Cardinality(Queued(s, m)) = 0
    <3>1. Queued(s, m) = {}
      BY <1>1 DEF Queued
    <3> QED BY <3>1, FS_EmptySet
  <2>7. Cardinality(Queued(s, m)') = (IF UsesOf(g)["black"] = <<s, m>> THEN 1 ELSE 0)
                                     + (IF UsesOf(g)["white"] = <<s, m>> THEN 1 ELSE 0)
    <3>1. gameTaskQueue' # <<>> /\ gameTaskQueue'[1] = g
      BY <1>1
    <3>2. Queued(s, m)' = {side \in Sides : UsesOf(g)[side] = <<s, m>>}
      BY <3>1 DEF Queued, UsesOf
    <3> QED BY <1>3, <3>2, CountedIs DEF Sides
  <2>8. acquireCount[s][m] = Cardinality(Held(s, m)) + Cardinality(Queued(s, m))
    BY <1>2 DEF UseCount
  <2> QED BY <1>1, <2>4, <2>5, <2>6, <2>7, <2>8
<1>12. LoadedInv'
  BY <1>1, <1>2 DEF LoadedInv
<1>13. RatingCount'
  <2>1. Cardinality(RatedLoops) = Cardinality(RatedLoops') + IF g.rating THEN 1 ELSE 0
    <3>1. \A k \in Loops \ {l} : k \in RatedLoops' <=> k \in RatedLoops
      BY <1>6, <1>8 DEF RatedLoops
    <3>2. /\ l \in RatedLoops <=> g.rating
          /\ RatedLoops' \subseteq Loops /\ RatedLoops \subseteq Loops /\ l \notin RatedLoops'
      BY <1>1, <1>8 DEF RatedLoops, g
    <3>3. CASE g.rating
      <4>1. RatedLoops' = RatedLoops \ {l} /\ l \in RatedLoops
        BY <3>1, <3>2, <3>3
      <4>2. Cardinality(RatedLoops \ {l}) = Cardinality(RatedLoops) - 1 /\ Cardinality(RatedLoops) \in Nat \ {0}
        BY <4>1, RatedAreFinite, RemoveOne
      <4> QED BY <3>3, <4>1, <4>2
    <3>4. CASE ~g.rating
      <4>1. RatedLoops' = RatedLoops
        BY <3>1, <3>2, <3>4
      <4> QED BY <3>4, <4>1, RatedAreFinite
    <3> QED BY <3>3, <3>4
  <2>2. Cardinality(RatedQueue) = 0 /\ Cardinality(RatedQueue') = IF g.rating THEN 1 ELSE 0
    <3>1. /\ Cardinality({i \in 1 .. Len(<<>>) : <<>>[i].rating}) = 0
          /\ Cardinality({i \in 1 .. Len(<<g>>) : <<g>>[i].rating}) = IF g.rating THEN 1 ELSE 0
      BY <1>3, RatedOfQueue
    <3> QED BY <1>1, <3>1 DEF RatedQueue
  <2>3. RatedPlayers' = RatedPlayers
    BY <1>1 DEF RatedPlayers
  <2>4. /\ ActiveRatingGames = Cardinality(RatedLoops) + Cardinality(RatedPlayers) + Cardinality(RatedQueue)
        /\ ActiveRatingGames' = Cardinality(RatedLoops') + Cardinality(RatedPlayers') + Cardinality(RatedQueue')
    BY DEF ActiveRatingGames, RatedLoops, RatedPlayers, RatedQueue
  <2>5. Cardinality(RatedLoops') \in Nat
    <3>1. RatedLoops' \in SUBSET Loops
      BY DEF RatedLoops
    <3> QED BY <3>1, ContributeAssumption, FS_Subset, FS_CardinalityType
  <2> QED BY <1>1, <1>2, <2>1, <2>2, <2>3, <2>4, <2>5, RatedAreFinite DEF RatingCount
<1>14. gameTaskQueue' \in {<<>>} \cup {<<x>> : x \in GameTasks}
  BY <1>1, <1>3
<1>15. \A k \in Loops \ {l} : at[k] \notin Locked
  BY <1>1, Exclusive
<1>16. /\ files' \subseteq Models /\ loaded' \in [Managers -> SUBSET Models]
       /\ todo' \in [Downloaders -> Seq(Models)] /\ \A d \in Downloaders \ {l} : todo'[d] = todo[d]
       /\ acquireCount' \in [Managers -> [Models -> Int]] /\ numRatingGamesActive' \in Int
       /\ UNCHANGED <<downloads, uploader, readOnly, game>>
  BY <1>1, <1>2 DEF Types
<1> QED
  BY <1>2, <1>4, <1>5, <1>6, <1>7, <1>11, <1>12, <1>13, <1>14, <1>15, <1>16, LoopKeeps

LEMMA TaskLoopStep ==
  ASSUME IInv, NEW l \in Loops, TaskLoop(l)
  PROVE  IInv'
BY LeaveLoopInv, PollInv, GetNextTaskInv, CheckInv, RelockInv, LoadInv, DeleteOldInv, AcquireInv, PushInv
   DEF TaskLoop

-----------------------------------------------------------------------------
(* The game threads.                                                       *)

\* What a step of game thread p has to see to.
LEMMA GameKeeps ==
  ASSUME IInv, NEW p \in Players, NEW w \in {"popping", "exited"} \cup InGame, Become(p, w),
         w = "exited" => readOnly /\ gameTaskQueue' = <<>>,
         game' \in [Players -> GameTasks \cup {NoTask}], \A q \in Players \ {p} : game'[q] = game[q],
         IF w \in InGame THEN game'[p] \in GameTasks ELSE game'[p] = NoTask,
         uploader' \in Players \cup {NoThread},
         acquireCount' \in [Managers -> [Models -> Int]], numRatingGamesActive' \in Int,
         gameTaskQueue' = gameTaskQueue \/ gameTaskQueue' = <<>>,
         UNCHANGED <<taskLock, task, files, downloads, todo, loaded, nextGame, readOnly>>,
         UseCount', RatingCount', LoadedInv'
  PROVE  IInv'
<1> USE DEF IInv
<1>1. /\ Loops \subseteq Threads /\ Players \subseteq Threads /\ PreDownloader \in Threads
      /\ \A d \in Downloaders : d \in Threads \ {p}
      /\ \A l \in Loops : l \in Downloaders
      /\ PreDownloader \in Downloaders
  BY ContributeAssumption DEF Threads, Downloaders
<1>2. /\ at' \in [Threads -> Places] /\ at'[p] = w
      /\ \A o \in Threads \ {p} : at'[o] = at[o]
  <2>1. w \in Places
    BY DEF Places
  <2> QED BY <1>1, <2>1 DEF Types, Become
<1>3. \A d \in Downloaders : at'[d] = at[d]
  BY <1>1, <1>2
<1>4. Types'
  BY <1>2 DEF Types
<1>5. PlaceInv'
  BY <1>1, <1>2, <1>3 DEF PlaceInv
<1>6. LockInv' /\ TaskInv' /\ ReadyInv'
  BY <1>1, <1>3 DEF LockInv, TaskInv, ReadyInv, NetsOf
<1>7. DownloadInv'
  <2>1. \A m \in Models : downloads[m] # NoThread => downloads[m] \in Downloaders
    BY DEF Types
  <2> QED BY <1>3, <2>1 DEF DownloadInv, Wanted
<1>8. GameInv'
  BY <1>1, <1>2 DEF GameInv, InGame
<1>9. StopInv'
  <2>1. readOnly' => \A l \in Loops : at'[l] = "exited"
    BY <1>1, <1>3 DEF StopInv
  <2>2. ASSUME NEW q \in Players, at'[q] = "exited"
        PROVE  readOnly' /\ gameTaskQueue' = <<>>
    <3>1. CASE q = p
      BY <1>2, <2>2, <3>1
    <3>2. CASE q # p
      BY <1>1, <1>2, <2>2, <3>2 DEF StopInv
    <3> QED BY <3>1, <3>2
  <2> QED BY <2>1, <2>2 DEF StopInv
<1> QED BY <1>4, <1>5, <1>6, <1>7, <1>8, <1>9

\* Only game thread p moves.
LEMMA OnePlayer ==
  ASSUME IInv, NEW p \in Players, NEW w \in Places, Become(p, w), \A q \in Players \ {p} : game'[q] = game[q],
         UNCHANGED nextGame
  PROVE  /\ at'[p] = w /\ p \notin Loops /\ \A l \in Loops : at'[l] = at[l]
         /\ \A o \in (Loops \cup Players) \ {p} :
              Holds(o)' = Holds(o) /\ (Holds(o) # {} => GameOf(o)' = GameOf(o))
         /\ RatedLoops' = RatedLoops
<1>1. /\ at'[p] = w /\ p \notin Loops /\ \A l \in Loops : at'[l] = at[l]
      /\ \A o \in (Loops \cup Players) \ {p} : at'[o] = at[o]
  BY ContributeAssumption DEF Become, IInv, Types, Threads, Downloaders
<1>2. ASSUME NEW o \in (Loops \cup Players) \ {p}
      PROVE  Holds(o)' = Holds(o) /\ GameOf(o)' = GameOf(o)
  <2>1. at'[o] = at[o] /\ (o \notin Loops => game'[o] = game[o])
    BY <1>1
  <2> QED BY <2>1 DEF Holds, GameOf
<1>3. RatedLoops' = RatedLoops
  BY <1>1 DEF RatedLoops
<1> QED BY <1>1, <1>2, <1>3

\* Steps that neither take a game, nor release a net, nor end a game.
LEMMA QuietGame ==
  ASSUME IInv, NEW p \in Players, at[p] \in {"playing", "writing", "uploading"},
         NEW w \in {"playing", "writing", "uploading", "releasing black"}, Become(p, w),
         uploader' \in Players \cup {NoThread},
         UNCHANGED <<taskLock, task, files, downloads, todo, loaded, acquireCount, gameVars>>
  PROVE  IInv'
<1> USE DEF gameVars
<1>1. Types /\ UseCount /\ RatingCount /\ LoadedInv /\ GameInv /\ at[p] \in InGame
  BY DEF IInv, InGame
<1>2. /\ w \in Places /\ w \in InGame /\ w \in {"popping", "exited"} \cup InGame /\ w # "exited"
  BY DEF Places, InGame
<1>3. /\ at'[p] = w /\ p \notin Loops /\ \A l \in Loops : at'[l] = at[l]
      /\ \A o \in (Loops \cup Players) \ {p} :
           Holds(o)' = Holds(o) /\ (Holds(o) # {} => GameOf(o)' = GameOf(o))
  BY <1>2, OnePlayer
<1>4. Holds(p)' = Holds(p) /\ GameOf(p)' = GameOf(p)
  <2>1. Holds(p) = Sides
    BY <1>3 DEF Holds
  <2>2. Holds(p)' = Sides
    BY <1>3 DEF Holds
  <2> QED BY <1>3, <2>1, <2>2 DEF GameOf
<1>5. UseCount'
  <2>1. \A t \in Loops \cup Players : Holds(t)' = Holds(t) /\ (Holds(t) # {} => GameOf(t)' = GameOf(t))
    BY <1>3, <1>4
  <2> QED BY <1>1, <2>1, UseStays
<1>6. RatingCount'
  <2>1. \A l \in Loops : /\ at'[l] = "pushing" <=> at[l] = "pushing"
                         /\ at[l] = "pushing" => nextGame'[l] = nextGame[l]
    BY <1>3
  <2> QED BY <1>1, <2>1, RatingStays
<1>7. LoadedInv'
  BY <1>1 DEF LoadedInv
<1>8. game' \in [Players -> GameTasks \cup {NoTask}] /\ game'[p] \in GameTasks
  BY <1>1 DEF Types, GameInv
<1> QED BY <1>1, <1>2, <1>5, <1>6, <1>7, <1>8, GameKeeps DEF Types

LEMMA PlayInv ==
  ASSUME IInv, NEW p \in Players, FinishGame(p) \/ BeginUpload(p) \/ EndUpload(p)
  PROVE  IInv'
<1> USE DEF managerVars, mainVars, taskVars, downloadVars
<1>1. /\ at[p] \in {"playing", "writing", "uploading"}
      /\ UNCHANGED <<taskLock, task, files, downloads, todo, loaded, acquireCount, gameVars>>
  BY DEF FinishGame, BeginUpload, EndUpload
<1>2. CASE UNCHANGED <<at, uploader>>
  BY <1>1, <1>2, NothingElse
<1>3. CASE ~UNCHANGED <<at, uploader>>
  <2>1. PICK w \in {"playing", "writing", "uploading", "releasing black"} : Become(p, w)
    BY <1>3 DEF FinishGame, BeginUpload, EndUpload
  <2>2. uploader' \in Players \cup {NoThread}
    BY <1>3 DEF FinishGame, BeginUpload, EndUpload, IInv, Types
  <2> QED BY <1>1, <2>1, <2>2, QuietGame
<1> QED BY <1>2, <1>3

\* What a release subtracts.
IsReleased(g, mine) ==
  /\ acquireCount' \in [Managers -> [Models -> Int]]
  /\ \A s \in Managers, m \in Models :
       acquireCount'[s][m] + (IF UsesOf(g)[mine] = <<s, m>> THEN 1 ELSE 0) = acquireCount[s][m]

LEMMA ReleasedIs ==
  ASSUME Types, NEW g \in GameTasks, NEW mine \in Sides
  PROVE  acquireCount' = Counted(g, {mine}, -1) => IsReleased(g, mine)
<1> DEFINE n(s, m) == Cardinality({x \in {mine} : UsesOf(g)[x] = <<s, m>>})
<1>1. ASSUME NEW s \in Managers, NEW m \in Models
      PROVE  n(s, m) = IF UsesOf(g)[mine] = <<s, m>> THEN 1 ELSE 0
  <2>1. CASE UsesOf(g)[mine] = <<s, m>>
    <3>1. {x \in {mine} : UsesOf(g)[x] = <<s, m>>} = {mine}
      BY <2>1
    <3> QED BY <2>1, <3>1, FS_Singleton
  <2>2. CASE UsesOf(g)[mine] # <<s, m>>
    <3>1. {x \in {mine} : UsesOf(g)[x] = <<s, m>>} = {}
      BY <2>2
    <3> QED BY <2>2, <3>1, FS_EmptySet
  <2> QED BY <2>1, <2>2
<1> DEFINE f(s, m) == acquireCount[s][m] + (-1) * n(s, m)
<1>2. SUFFICES ASSUME acquireCount' = [s \in Managers |-> [m \in Models |-> f(s, m)]]
               PROVE  IsReleased(g, mine)
  BY DEF Counted
<1>3. \A s \in Managers, m \in Models : acquireCount[s][m] \in Int
  BY DEF Types
<1>4. \A s \in Managers, m \in Models : n(s, m) \in Int
  BY <1>1
<1> HIDE DEF n
<1>5. ASSUME NEW s \in Managers, NEW m \in Models
      PROVE  f(s, m) + n(s, m) = acquireCount[s][m] /\ f(s, m) \in Int
  BY <1>3, <1>4
<1> HIDE DEF f
<1>6. \A s \in Managers, m \in Models : acquireCount'[s][m] = f(s, m)
  BY <1>2
<1>7. acquireCount' \in [Managers -> [Models -> Int]]
  BY <1>2, <1>5
<1> QED BY <1>1, <1>5, <1>6, <1>7 DEF IsReleased

IsReleasing(p, mine, w) ==
  \/ mine = "black" /\ at[p] = "releasing black" /\ w = "releasing white"
  \/ mine = "white" /\ at[p] = "releasing white" /\ w = "released"

\* A net of the game is released: it is counted once less.
LEMMA ReleaseKeeps ==
  ASSUME IInv, NEW p \in Players, NEW mine \in Sides, NEW w,
         IsReleasing(p, mine, w), Become(p, w), IsReleased(game[p], mine),
         UNCHANGED <<taskLock, task, files, downloads, todo, loaded, uploader, nextGame, gameTaskQueue, readOnly,
                     game, numRatingGamesActive>>
  PROVE  IInv'
<1> DEFINE g == game[p]
<1>1. UNCHANGED <<taskLock, task, files, downloads, todo, loaded, uploader, nextGame, gameTaskQueue, readOnly,
                  game, numRatingGamesActive>>
  OBVIOUS
<1>2. /\ w \in Places /\ w \in InGame /\ w \in {"popping", "exited"} \cup InGame /\ w # "exited" /\ at[p] \in InGame
  BY DEF Places, InGame, IsReleasing
<1>3. Types /\ UseCount /\ RatingCount /\ LoadedInv /\ GameInv /\ g \in GameTasks
  BY <1>2 DEF IInv, GameInv
<1> HIDE DEF g
<1>4. /\ at'[p] = w /\ p \notin Loops /\ \A l \in Loops : at'[l] = at[l]
      /\ \A o \in (Loops \cup Players) \ {p} :
           Holds(o)' = Holds(o) /\ (Holds(o) # {} => GameOf(o)' = GameOf(o))
  BY <1>2, OnePlayer
<1>5. Holds(p)' = Holds(p) \ {mine} /\ mine \in Holds(p) /\ GameOf(p) = g /\ GameOf(p)' = g
  <2>1. CASE mine = "black" /\ at[p] = "releasing black" /\ w = "releasing white"
    <3>1. Holds(p) = Sides /\ Holds(p)' = {"white"}
      BY <1>4, <2>1 DEF Holds
    <3> QED BY <1>1, <1>4, <2>1, <3>1 DEF GameOf, Sides, g
  <2>2. CASE mine = "white" /\ at[p] = "releasing white" /\ w = "released"
    <3>1. Holds(p) = {"white"} /\ Holds(p)' = {}
      BY <1>4, <2>2 DEF Holds
    <3> QED BY <1>1, <1>4, <2>2, <3>1 DEF GameOf, Sides, g
  <2> QED BY <2>1, <2>2 DEF IsReleasing
<1>6. ASSUME NEW s \in Managers, NEW m \in Models
      PROVE  acquireCount'[s][m] + (IF UsesOf(g)[mine] = <<s, m>> THEN 1 ELSE 0) = acquireCount[s][m]
             /\ acquireCount'[s][m] \in Int
  BY DEF g, IsReleased
<1>7. UseCount'
  <2>1. SUFFICES ASSUME NEW s \in Managers, NEW m \in Models
                 PROVE  acquireCount'[s][m] = Cardinality(Held(s, m)') + Cardinality(Queued(s, m)')
    BY DEF UseCount
  <2>2. HeldFact /\ HeldFact'
    BY HeldIs, PTL
  <2>3. /\ \A x \in Sides : <<p, x>> \in Held(s, m) <=> x \in Holds(p) /\ UsesOf(g)[x] = <<s, m>>
        /\ \A x \in Sides : <<p, x>> \in Held(s, m)' <=> x \in Holds(p)' /\ UsesOf(g)[x] = <<s, m>>
    <3>1. \A x \in Sides : <<p, x>> \in Held(s, m) <=> x \in Holds(p) /\ UsesOf(GameOf(p))[x] = <<s, m>>
      BY <2>2 DEF HeldFact
    <3>2. \A x \in Sides : <<p, x>> \in Held(s, m)' <=> x \in Holds(p)' /\ UsesOf(GameOf(p)')[x] = <<s, m>>
      BY <2>2 DEF HeldFact, UsesOf
    <3> QED BY <1>5, <3>1, <3>2
  <2>4. /\ Cardinality(Held(s, m)) \in Nat /\ Cardinality(Held(s, m)') \in Nat
        /\ Cardinality(Held(s, m)') + Has(Held(s, m), <<p, "black">>) + Has(Held(s, m), <<p, "white">>)
             = Cardinality(Held(s, m)) + Has(Held(s, m)', <<p, "black">>) + Has(Held(s, m)', <<p, "white">>)
    BY <1>4, CountInHand
  <2> DEFINE hit == UsesOf(g)[mine] = <<s, m>>
  <2>5. Cardinality(Held(s, m)) = Cardinality(Held(s, m)') + (IF hit THEN 1 ELSE 0)
    <3>1. /\ \A x \in Sides \ {mine} : <<p, x>> \in Held(s, m) <=> <<p, x>> \in Held(s, m)'
          /\ <<p, mine>> \in Held(s, m) <=> hit
          /\ <<p, mine>> \notin Held(s, m)'
      BY <1>5, <2>3
    <3> HIDE DEF hit
    <3>2. CASE mine = "black"
      <4>1. /\ <<p, "black">> \in Held(s, m) <=> hit
            /\ <<p, "black">> \notin Held(s, m)'
            /\ <<p, "white">> \in Held(s, m) <=> <<p, "white">> \in Held(s, m)'
        BY <3>1, <3>2 DEF Sides
      <4> QED BY <2>4, <4>1 DEF Has
    <3>3. CASE mine = "white"
      <4>1. /\ <<p, "white">> \in Held(s, m) <=> hit
            /\ <<p, "white">> \notin Held(s, m)'
            /\ <<p, "black">> \in Held(s, m) <=> <<p, "black">> \in Held(s, m)'
        BY <3>1, <3>3 DEF Sides
      <4> QED BY <2>4, <4>1 DEF Has
    <3> QED BY <3>2, <3>3 DEF Sides
  <2>6. Queued(s, m)' = Queued(s, m) /\ Cardinality(Queued(s, m)) \in Nat
    BY <1>1, CountSides DEF Queued, UsesOf
  <2>7. acquireCount[s][m] = Cardinality(Held(s, m)) + Cardinality(Queued(s, m))
    BY <1>3 DEF UseCount
  <2> QED BY <1>6, <2>4, <2>5, <2>6, <2>7
<1>8. LoadedInv'
  <2>1. SUFFICES ASSUME NEW s \in Managers, NEW m \in Models, acquireCount'[s][m] > 0
                 PROVE  m \in loaded[s]
    BY <1>1 DEF LoadedInv
  <2>2. acquireCount[s][m] > 0
    <3>1. acquireCount[s][m] \in Int
      BY <1>3 DEF Types
    <3> QED BY <1>6, <2>1, <3>1
  <2> QED BY <1>3, <2>2 DEF LoadedInv
<1>9. RatingCount'
  <2>1. \A l \in Loops : /\ at'[l] = "pushing" <=> at[l] = "pushing"
                         /\ at[l] = "pushing" => nextGame'[l] = nextGame[l]
    BY <1>1, <1>4
  <2> QED BY <1>1, <1>3, <2>1, RatingStays
<1>10. acquireCount' \in [Managers -> [Models -> Int]]
  BY DEF IsReleased
<1>11. game' \in [Players -> GameTasks \cup {NoTask}] /\ game'[p] \in GameTasks
  BY <1>1, <1>3 DEF Types, g
<1> QED BY <1>1, <1>2, <1>3, <1>7, <1>8, <1>9, <1>10, <1>11, GameKeeps DEF Types

LEMMA ReleaseInv ==
  ASSUME IInv, NEW p \in Players,
         \/ Release(p, "black", "releasing black", "releasing white")
         \/ Release(p, "white", "releasing white", "released")
  PROVE  IInv'
<1> USE DEF managerVars, gameVars, mainVars, taskVars, downloadVars
<1>1. UNCHANGED <<taskLock, task, files, downloads, todo, loaded, uploader, nextGame, gameTaskQueue, readOnly,
                  game, numRatingGamesActive>>
  BY DEF Release
<1>2. CASE Release(p, "black", "releasing black", "releasing white")
  <2>1. IsReleasing(p, "black", "releasing white") /\ Become(p, "releasing white")
    BY <1>2 DEF Release, IsReleasing
  <2>2. Types /\ game[p] \in GameTasks /\ "black" \in Sides
    BY <2>1 DEF IInv, GameInv, InGame, Sides, IsReleasing
  <2>3. IsReleased(game[p], "black")
    BY <1>2, <2>2, ReleasedIs DEF Release
  <2> QED BY <1>1, <2>1, <2>2, <2>3, ReleaseKeeps
<1>3. CASE Release(p, "white", "releasing white", "released")
  <2>1. IsReleasing(p, "white", "released") /\ Become(p, "released")
    BY <1>3 DEF Release, IsReleasing
  <2>2. Types /\ game[p] \in GameTasks /\ "white" \in Sides
    BY <2>1 DEF IInv, GameInv, InGame, Sides, IsReleasing
  <2>3. IsReleased(game[p], "white")
    BY <1>3, <2>2, ReleasedIs DEF Release
  <2> QED BY <1>1, <2>1, <2>2, <2>3, ReleaseKeeps
<1> QED BY <1>2, <1>3
LEMMA SameMembers ==
  ASSUME NEW A, NEW S \in SUBSET A, NEW T \in SUBSET A, \A x \in A : x \in S <=> x \in T
  PROVE  S = T
OBVIOUS

\* The game of the queue goes to game thread p with its nets: they are counted as before.
LEMMA TakeInv ==
  ASSUME IInv, NEW p \in Players, Pop(p), gameTaskQueue # <<>>
  PROVE  IInv'
<1> USE DEF managerVars, mainVars, taskVars, downloadVars
<1> DEFINE w == IF shouldStop THEN "releasing black" ELSE "playing"  g == Head(gameTaskQueue)
<1>1. /\ at[p] = "popping" /\ Become(p, w) /\ game' = [game EXCEPT ![p] = g] /\ gameTaskQueue' = <<>>
      /\ UNCHANGED <<taskLock, task, files, downloads, todo, loaded, acquireCount, uploader, nextGame, readOnly,
                     numRatingGamesActive>>
  BY DEF Pop
<1>2. /\ w \in Places /\ w \in InGame /\ w \in {"popping", "exited"} \cup InGame /\ w # "exited"
      /\ w \notin {"pushing", "popping", "releasing white", "released", "exited"}
  BY DEF Places, InGame
<1>3. Types /\ UseCount /\ RatingCount /\ LoadedInv /\ GameInv
  BY DEF IInv
<1>4. /\ g \in GameTasks /\ gameTaskQueue = <<g>> /\ gameTaskQueue[1] = g
  BY <1>3 DEF Types
<1>5. game[p] = NoTask
  BY <1>1, <1>3 DEF GameInv, InGame
<1> HIDE DEF w, g
<1>6. /\ game' \in [Players -> GameTasks \cup {NoTask}] /\ game'[p] = g
      /\ \A q \in Players \ {p} : game'[q] = game[q]
  BY <1>1, <1>3, <1>4 DEF Types
<1>7. /\ at'[p] = w /\ p \notin Loops /\ \A l \in Loops : at'[l] = at[l]
      /\ \A o \in (Loops \cup Players) \ {p} :
           Holds(o)' = Holds(o) /\ (Holds(o) # {} => GameOf(o)' = GameOf(o))
      /\ RatedLoops' = RatedLoops
  BY <1>1, <1>2, <1>6, OnePlayer
<1>8. Holds(p) = {} /\ Holds(p)' = Sides /\ GameOf(p)' = g
  <2>1. Holds(p) = {}
    BY <1>1, <1>7 DEF Holds
  <2>2. Holds(p)' = Sides
    BY <1>2, <1>7 DEF Holds
  <2> QED BY <2>1, <2>2, <1>6, <1>7 DEF GameOf
<1>9. UseCount'
  <2>1. SUFFICES ASSUME NEW s \in Managers, NEW m \in Models
                 PROVE  acquireCount'[s][m] = Cardinality(Held(s, m)') + Cardinality(Queued(s, m)')
    BY DEF UseCount
  <2>2. HeldFact /\ HeldFact'
    BY HeldIs, PTL
  <2>3. /\ <<p, "black">> \notin Held(s, m) /\ <<p, "white">> \notin Held(s, m)
        /\ <<p, "black">> \in Held(s, m)' <=> UsesOf(g)["black"] = <<s, m>>
        /\ <<p, "white">> \in Held(s, m)' <=> UsesOf(g)["white"] = <<s, m>>
    <3>1. \A x \in Sides : <<p, x>> \in Held(s, m) => x \in Holds(p)
      BY <2>2 DEF HeldFact
    <3>2. \A x \in Sides : <<p, x>> \in Held(s, m)' <=> x \in Holds(p)' /\ UsesOf(GameOf(p)')[x] = <<s, m>>
      BY <2>2 DEF HeldFact, UsesOf
    <3> QED BY <1>8, <3>1, <3>2 DEF Sides
  <2>4. /\ Cardinality(Held(s, m)) \in Nat /\ Cardinality(Held(s, m)') \in Nat
        /\ Cardinality(Held(s, m)') + Has(Held(s, m), <<p, "black">>) + Has(Held(s, m), <<p, "white">>)
             = Cardinality(Held(s, m)) + Has(Held(s, m)', <<p, "black">>) + Has(Held(s, m)', <<p, "white">>)
    BY <1>7, CountInHand
  <2>5. Cardinality(Held(s, m)') = Cardinality(Held(s, m))
          + (IF UsesOf(g)["black"] = <<s, m>> THEN 1 ELSE 0) + (IF UsesOf(g)["white"] = <<s, m>> THEN 1 ELSE 0)
    BY <2>3, <2>4 DEF Has
  <2>6. Cardinality(Queued(s, m)') = 0
    <3>1. Queued(s, m)' = {}
      BY <1>1 DEF Queued
    <3> QED BY <3>1, FS_EmptySet
  <2>7. Cardinality(Queued(s, m)) = (IF UsesOf(g)["black"] = <<s, m>> THEN 1 ELSE 0)
                                    + (IF UsesOf(g)["white"] = <<s, m>> THEN 1 ELSE 0)
    <3>1. gameTaskQueue # <<>> /\ gameTaskQueue[1] = g
      BY <1>4
    <3>2. Queued(s, m) = {side \in Sides : UsesOf(g)[side] = <<s, m>>}
      BY <3>1 DEF Queued
    <3> QED BY <1>4, <3>2, CountedIs DEF Sides
  <2>8. acquireCount[s][m] = Cardinality(Held(s, m)) + Cardinality(Queued(s, m))
    BY <1>3 DEF UseCount
  <2> QED BY <1>1, <2>4, <2>5, <2>6, <2>7, <2>8
<1>10. LoadedInv'
  BY <1>1, <1>3 DEF LoadedInv
<1>11. RatingCount'
  <2>1. Cardinality(RatedPlayers') = Cardinality(RatedPlayers) + IF g.rating THEN 1 ELSE 0
    <3>1. \A q \in Players \ {p} : q \in RatedPlayers' <=> q \in RatedPlayers
      BY <1>6 DEF RatedPlayers
    <3>2. /\ p \in RatedPlayers' <=> g.rating
          /\ RatedPlayers' \subseteq Players /\ RatedPlayers \subseteq Players /\ p \notin RatedPlayers
      BY <1>4, <1>5, <1>6, ContributeAssumption DEF RatedPlayers
    <3>3. CASE g.rating
      <4>1. RatedPlayers' = RatedPlayers \cup {p}
        BY <3>1, <3>2, <3>3
      <4>2. Cardinality(RatedPlayers \cup {p}) = Cardinality(RatedPlayers) + 1
        BY <3>2, RatedAreFinite, AddOne
      <4> QED BY <3>3, <4>1, <4>2
    <3>4. CASE ~g.rating
      <4>1. RatedPlayers' = RatedPlayers
        <5>1. g.rating \in BOOLEAN
          BY <1>4 DEF GameTasks
        <5>2. p \notin RatedPlayers' /\ p \notin RatedPlayers
          BY <3>2, <3>4, <5>1
        <5>3. \A q \in Players : q \in RatedPlayers' <=> q \in RatedPlayers
          BY <3>1, <5>2
        <5> QED BY <3>2, <5>3, SameMembers
      <4>2. Cardinality(RatedPlayers) \in Nat
        BY RatedAreFinite
      <4>3. (IF g.rating THEN 1 ELSE 0) = 0
        BY <3>4
      <4> QED BY <4>1, <4>2, <4>3
    <3> QED BY <3>3, <3>4
  <2>2. Cardinality(RatedQueue') = 0 /\ Cardinality(RatedQueue) = IF g.rating THEN 1 ELSE 0
    <3>1. /\ Cardinality({i \in 1 .. Len(<<>>) : <<>>[i].rating}) = 0
          /\ Cardinality({i \in 1 .. Len(<<g>>) : <<g>>[i].rating}) = IF g.rating THEN 1 ELSE 0
      BY <1>4, RatedOfQueue
    <3>2. gameTaskQueue' = <<>> /\ gameTaskQueue = <<g>>
      BY <1>1, <1>4
    <3> QED BY <3>1, <3>2 DEF RatedQueue
  <2>3. /\ ActiveRatingGames = Cardinality(RatedLoops) + Cardinality(RatedPlayers) + Cardinality(RatedQueue)
        /\ ActiveRatingGames' = Cardinality(RatedLoops') + Cardinality(RatedPlayers') + Cardinality(RatedQueue')
    BY DEF ActiveRatingGames, RatedLoops, RatedPlayers, RatedQueue
  <2> QED BY <1>1, <1>3, <1>7, <2>1, <2>2, <2>3, RatedAreFinite DEF RatingCount
<1>12. game'[p] \in GameTasks
  BY <1>4, <1>6
<1> QED BY <1>1, <1>2, <1>3, <1>6, <1>9, <1>10, <1>11, <1>12, GameKeeps DEF Types

LEMMA PopInv ==
  ASSUME IInv, NEW p \in Players, Pop(p)
  PROVE  IInv'
<1> USE DEF managerVars, mainVars, taskVars, downloadVars
<1>1. CASE gameTaskQueue # <<>>
  BY <1>1, TakeInv
<1>2. CASE gameTaskQueue = <<>>
  <2> DEFINE w == "exited"
  <2>1. /\ at[p] = "popping" /\ readOnly /\ Become(p, w) /\ gameTaskQueue' = <<>>
        /\ UNCHANGED <<game, gameTaskQueue, taskLock, task, files, downloads, todo, loaded, acquireCount, uploader,
                       nextGame, readOnly, numRatingGamesActive>>
    BY <1>2 DEF Pop
  <2>2. w \in Places /\ w \in {"popping", "exited"} \cup InGame /\ w \notin InGame
    BY DEF Places, InGame
  <2>3. Types /\ UseCount /\ RatingCount /\ LoadedInv /\ GameInv
    BY DEF IInv
  <2>4. game[p] = NoTask
    BY <2>1, <2>3 DEF GameInv, InGame
  <2>5. /\ at'[p] = w /\ p \notin Loops /\ \A l \in Loops : at'[l] = at[l]
        /\ \A o \in (Loops \cup Players) \ {p} :
             Holds(o)' = Holds(o) /\ (Holds(o) # {} => GameOf(o)' = GameOf(o))
    BY <2>1, <2>2, OnePlayer
  <2>6. Holds(p)' = Holds(p) /\ Holds(p) = {}
    <3>1. Holds(p) = {}
      BY <2>1, <2>5 DEF Holds
    <3>2. Holds(p)' = {}
      BY <2>5 DEF Holds
    <3> QED BY <3>1, <3>2
  <2>7. UseCount'
    <3>1. \A t \in Loops \cup Players : Holds(t)' = Holds(t) /\ (Holds(t) # {} => GameOf(t)' = GameOf(t))
      BY <2>5, <2>6
    <3> QED BY <2>1, <2>3, <3>1, UseStays
  <2>8. RatingCount'
    <3>1. \A l \in Loops : /\ at'[l] = "pushing" <=> at[l] = "pushing"
                           /\ at[l] = "pushing" => nextGame'[l] = nextGame[l]
      BY <2>1, <2>5
    <3> QED BY <2>1, <2>3, <3>1, RatingStays
  <2>9. LoadedInv'
    BY <2>1, <2>3 DEF LoadedInv
  <2> HIDE DEF w
  <2> QED BY <2>1, <2>2, <2>3, <2>4, <2>7, <2>8, <2>9, GameKeeps DEF Types
<1> QED BY <1>1, <1>2

\* A game that has released its nets is no longer active.
LEMMA EndGameInv ==
  ASSUME IInv, NEW p \in Players, EndGame(p)
  PROVE  IInv'
<1> USE DEF managerVars, mainVars, taskVars, downloadVars
<1> DEFINE w == "popping"  g == game[p]
<1>1. /\ at[p] = "released" /\ Become(p, w) /\ game' = [game EXCEPT ![p] = NoTask]
      /\ numRatingGamesActive' = numRatingGamesActive - IF g.rating THEN 1 ELSE 0
      /\ UNCHANGED <<taskLock, task, files, downloads, todo, loaded, acquireCount, uploader, nextGame, readOnly,
                     gameTaskQueue>>
  BY DEF EndGame
<1>2. /\ w \in Places /\ w \notin InGame /\ w \in {"popping", "exited"} \cup InGame /\ w # "exited"
  BY DEF Places, InGame
<1>3. Types /\ UseCount /\ RatingCount /\ LoadedInv /\ GameInv
  BY DEF IInv
<1>4. g \in GameTasks /\ g.rating \in BOOLEAN
  <2>1. at[p] \in InGame
    BY <1>1 DEF InGame
  <2> QED BY <1>3, <2>1 DEF GameInv, GameTasks
<1>5. /\ game' \in [Players -> GameTasks \cup {NoTask}] /\ game'[p] = NoTask
      /\ \A q \in Players \ {p} : game'[q] = game[q]
  BY <1>1, <1>3 DEF Types
<1>6. numRatingGamesActive' \in Int
  BY <1>1, <1>3 DEF Types
<1>7. /\ at'[p] = w /\ p \notin Loops /\ \A l \in Loops : at'[l] = at[l]
      /\ \A o \in (Loops \cup Players) \ {p} :
           Holds(o)' = Holds(o) /\ (Holds(o) # {} => GameOf(o)' = GameOf(o))
      /\ RatedLoops' = RatedLoops
  BY <1>1, <1>2, <1>5, OnePlayer
<1>8. Holds(p)' = Holds(p) /\ Holds(p) = {}
  <2>1. Holds(p) = {}
    BY <1>1, <1>7 DEF Holds
  <2>2. Holds(p)' = {}
    BY <1>7 DEF Holds
  <2> QED BY <2>1, <2>2
<1> HIDE DEF g, w
<1>9. UseCount'
  <2>1. \A t \in Loops \cup Players : Holds(t)' = Holds(t) /\ (Holds(t) # {} => GameOf(t)' = GameOf(t))
    BY <1>7, <1>8
  <2> QED BY <1>1, <1>3, <2>1, UseStays
<1>10. LoadedInv'
  BY <1>1, <1>3 DEF LoadedInv
<1>11. RatingCount'
  <2>1. Cardinality(RatedPlayers) = Cardinality(RatedPlayers') + IF g.rating THEN 1 ELSE 0
    <3>1. \A q \in Players \ {p} : q \in RatedPlayers' <=> q \in RatedPlayers
      BY <1>5 DEF RatedPlayers
    <3>2. /\ p \in RatedPlayers <=> g.rating
          /\ RatedPlayers' \subseteq Players /\ RatedPlayers \subseteq Players /\ p \notin RatedPlayers'
      BY <1>4, <1>5, ContributeAssumption DEF RatedPlayers, g
    <3>3. CASE g.rating
      <4>1. RatedPlayers' = RatedPlayers \ {p} /\ p \in RatedPlayers
        BY <3>1, <3>2, <3>3
      <4>2. Cardinality(RatedPlayers \ {p}) = Cardinality(RatedPlayers) - 1 /\ Cardinality(RatedPlayers) \in Nat \ {0}
        BY <4>1, RatedAreFinite, RemoveOne
      <4> QED BY <3>3, <4>1, <4>2
    <3>4. CASE ~g.rating
      <4>1. RatedPlayers' = RatedPlayers
        BY <3>1, <3>2, <3>4
      <4> QED BY <3>4, <4>1, RatedAreFinite
    <3> QED BY <3>3, <3>4
  <2>2. RatedQueue' = RatedQueue /\ Cardinality(RatedQueue) \in Nat
    BY <1>1, <1>3, RatedQueueIsFinite DEF RatedQueue
  <2>3. /\ ActiveRatingGames = Cardinality(RatedLoops) + Cardinality(RatedPlayers) + Cardinality(RatedQueue)
        /\ ActiveRatingGames' = Cardinality(RatedLoops') + Cardinality(RatedPlayers') + Cardinality(RatedQueue')
    BY DEF ActiveRatingGames, RatedLoops, RatedPlayers, RatedQueue
  <2>4. Cardinality(RatedPlayers') \in Nat
    <3>1. RatedPlayers' \in SUBSET Players
      BY DEF RatedPlayers
    <3> QED BY <3>1, ContributeAssumption, FS_Subset, FS_CardinalityType
  <2> QED BY <1>1, <1>3, <1>7, <2>1, <2>2, <2>3, <2>4, RatedAreFinite DEF RatingCount
<1> QED BY <1>1, <1>2, <1>3, <1>5, <1>6, <1>9, <1>10, <1>11, GameKeeps DEF Types

LEMMA GameLoopStep ==
  ASSUME IInv, NEW p \in Players, GameLoop(p)
  PROVE  IInv'
BY PopInv, PlayInv, ReleaseInv, EndGameInv DEF GameLoop
-----------------------------------------------------------------------------
(* The main thread, and the theorems.                                      *)

LEMMA SignalInv ==
  ASSUME IInv, Signal
  PROVE  IInv'
<1>1. UNCHANGED <<at, files, downloads, todo, taskLock, task, managerVars, gameVars>>
  BY DEF Signal, taskVars, downloadVars
<1> QED BY <1>1, NothingElse

LEMMA BeginShutdownInv ==
  ASSUME IInv, BeginShutdown
  PROVE  IInv'
<1> USE DEF IInv
<1>1. /\ UNCHANGED <<at, files, downloads, todo, taskLock, task, loaded, acquireCount, uploader, nextGame,
                     gameTaskQueue, game, numRatingGamesActive>>
      /\ readOnly' /\ \A l \in Loops : at[l] = "exited"
  BY DEF BeginShutdown, taskVars, downloadVars, managerVars
<1>2. Types' /\ PlaceInv' /\ LockInv' /\ GameInv'
  BY <1>1 DEF Types, PlaceInv, LockInv, GameInv
<1>3. DownloadInv'
  BY <1>1 DEF DownloadInv, Wanted
<1>4. TaskInv' /\ ReadyInv'
  BY <1>1 DEF TaskInv, ReadyInv, NetsOf
<1>5. UseCount'
  <2>1. \A t \in Loops \cup Players : Holds(t)' = Holds(t) /\ (Holds(t) # {} => GameOf(t)' = GameOf(t))
    BY <1>1 DEF Holds, GameOf
  <2> QED BY <1>1, <2>1, UseStays
<1>6. RatingCount' /\ LoadedInv'
  BY <1>1, RatingStays DEF LoadedInv
<1>7. StopInv'
  BY <1>1 DEF StopInv
<1> QED BY <1>2, <1>3, <1>4, <1>5, <1>6, <1>7

\* The managers go with their nets when no game is left: no thread has one, and the game
\* threads, of which there is at least one, have emptied the queue.
LEMMA QuitInv ==
  ASSUME IInv, Quit
  PROVE  IInv'
<1> USE DEF IInv
<1>1. /\ UNCHANGED <<at, files, downloads, todo, taskLock, task, acquireCount, uploader, nextGame,
                     gameTaskQueue, game, numRatingGamesActive, readOnly>>
      /\ loaded' = [s \in Managers |-> {}]
      /\ \A t \in Threads : at[t] = "exited"
  BY DEF Quit, taskVars, downloadVars, gameVars
<1>2. /\ \A l \in Loops : at[l] = "exited"
      /\ \A p \in Players : at[p] = "exited"
  BY <1>1 DEF Threads, Downloaders
<1>3. Types' /\ PlaceInv' /\ LockInv' /\ GameInv' /\ StopInv'
  BY <1>1 DEF Types, PlaceInv, LockInv, GameInv, StopInv
<1>4. DownloadInv'
  BY <1>1 DEF DownloadInv, Wanted
<1>5. TaskInv' /\ ReadyInv'
  BY <1>1, <1>2 DEF TaskInv, ReadyInv, NetsOf, Ready
<1>6. UseCount'
  <2>1. \A t \in Loops \cup Players : Holds(t)' = Holds(t) /\ (Holds(t) # {} => GameOf(t)' = GameOf(t))
    BY <1>1 DEF Holds, GameOf
  <2> QED BY <1>1, <2>1, UseStays
<1>7. RatingCount'
  BY <1>1, RatingStays
<1>8. ASSUME NEW s \in Managers, NEW m \in Models
      PROVE  acquireCount[s][m] = 0
  <2>1. \A t \in Loops \cup Players : Holds(t) = {}
    BY <1>2 DEF Holds
  <2>2. Held(s, m) = {}
    <3>1. InHand = {}
      BY <2>1 DEF InHand
    <3> QED BY <3>1 DEF Held
  <2>3. Queued(s, m) = {}
    <3>1. gameTaskQueue = <<>>
      BY <1>2, ContributeAssumption DEF StopInv
    <3> QED BY <3>1 DEF Queued
  <2>4. acquireCount[s][m] = Cardinality(Held(s, m)) + Cardinality(Queued(s, m))
    BY DEF UseCount
  <2> QED BY <2>2, <2>3, <2>4, FS_EmptySet
<1>9. LoadedInv'
  BY <1>1, <1>8 DEF LoadedInv
<1> QED BY <1>3, <1>4, <1>5, <1>6, <1>7, <1>9

LEMMA NextInv == IInv /\ [Next]_vars => IInv'
<1> SUFFICES ASSUME IInv, [Next]_vars PROVE IInv'
  OBVIOUS
<1>1. CASE UNCHANGED vars
  <2>1. UNCHANGED <<at, files, downloads, todo, taskLock, task, managerVars, gameVars>>
    BY <1>1 DEF vars, managerVars, gameVars
  <2> QED BY <2>1, NothingElse
<1>2. ASSUME NEW t \in Threads, ThreadStep(t)
      PROVE  IInv'
  <2>1. CASE t \in Downloaders /\ Download(t)
    BY <2>1, DownloadStep
  <2>2. CASE t \in Loops /\ TaskLoop(t)
    BY <2>2, TaskLoopStep
  <2>3. CASE t \in Players /\ GameLoop(t)
    BY <2>3, GameLoopStep
  <2>4. CASE t = PreDownloader /\ PreDownload
    BY <2>4, PreDownloadInv
  <2> QED BY <1>2, <2>1, <2>2, <2>3, <2>4 DEF ThreadStep
<1>3. CASE Next
  BY <1>2, <1>3, SignalInv, BeginShutdownInv, QuitInv DEF Next, Step
<1> QED BY <1>1, <1>3

\* Wherever the task loops, the downloads and the games of command/contribute.cpp are, the parts
\* of the invariant hold together.
THEOREM ContributeInvariant == Spec => []IInv
<1>1. Init => IInv
  BY InitInv
<1>2. IInv /\ [Next]_vars => IInv'
  BY NextInv
<1> QED BY <1>1, <1>2, PTL DEF Spec

\* A net that a game in hand or in the queue uses is loaded in the manager that the game releases
\* it to, and acquired once for each use, although other task loops call
\* cleanupUnusedModelsOlderThan in between; numRatingGamesActive is the number of rating games.
THEOREM ContributeUsedNetsAreLoaded == Spec => []UsedNetsAreLoaded
<1>1. IInv => UsedNetsAreLoaded
  <2> SUFFICES ASSUME IInv PROVE UsedNetsAreLoaded
    OBVIOUS
  <2>1. Types /\ UseCount /\ LoadedInv /\ RatingCount
    BY DEF IInv
  <2>2. HeldFact
    BY HeldIs
  <2>3. ASSUME NEW s \in Managers, NEW m \in Models
        PROVE  acquireCount[s][m] = Uses(InHand, s, m) /\ acquireCount[s][m] \in Nat
    <3>1. Uses(InHand, s, m) = Cardinality(Held(s, m)) + Cardinality(Queued(s, m))
      BY DEF Uses, Held, Queued
    <3>2. Cardinality(Held(s, m)) \in Nat
      <4>1. IsFiniteSet(Loops \cup Players) /\ IsFiniteSet(Sides)
        BY ContributeAssumption, FS_Union, PairCount, "black" # "white" DEF Sides
      <4>2. IsFiniteSet((Loops \cup Players) \X Sides)
        BY <4>1, FS_Product
      <4>3. Held(s, m) \subseteq (Loops \cup Players) \X Sides
        BY <2>2 DEF HeldFact
      <4> QED BY <4>2, <4>3, FS_Subset, FS_CardinalityType
    <3>3. Cardinality(Queued(s, m)) \in Nat
      <4>1. Queued(s, m) \in SUBSET Sides
        BY DEF Queued
      <4> QED BY <4>1, CountSides
    <3>4. acquireCount[s][m] = Cardinality(Held(s, m)) + Cardinality(Queued(s, m))
      BY <2>1 DEF UseCount
    <3> QED BY <3>1, <3>2, <3>3, <3>4
  <2>4. numRatingGamesActive \in Nat /\ numRatingGamesActive = ActiveRatingGames
    <3>1. ActiveRatingGames = Cardinality(RatedLoops) + Cardinality(RatedPlayers) + Cardinality(RatedQueue)
      BY DEF ActiveRatingGames, RatedLoops, RatedPlayers, RatedQueue
    <3> QED BY <2>1, <3>1, RatedAreFinite, RatedQueueIsFinite DEF RatingCount
  <2>5. acquireCount \in [Managers -> [Models -> Nat]]
    BY <2>1, <2>3 DEF Types
  <2>6. Len(gameTaskQueue) <= 1
    <3>1. CASE gameTaskQueue = <<>>
      BY <3>1
    <3>2. ASSUME NEW g \in GameTasks, gameTaskQueue = <<g>>
          PROVE  Len(gameTaskQueue) <= 1
      BY <3>2
    <3> QED BY <2>1, <3>1, <3>2 DEF Types
  <2>7. TypeOK
    BY <2>1, <2>4, <2>5, <2>6 DEF Types, TypeOK
  <2> QED BY <2>1, <2>3, <2>4, <2>7 DEF UsedNetsAreLoaded, LoadedInv
<1> QED BY <1>1, ContributeInvariant, PTL

\* The nets of a task are in modelsDir when its loop comes to load them, although the loop gave
\* taskLoopMutex up for the downloads, and deleteModelsOlderThan of other loops deletes files.
THEOREM ContributeNetsAreInTheirFiles == Spec => []NetsAreInTheirFiles
<1>1. IInv => NetsAreInTheirFiles
  BY DEF IInv, TaskInv, NetsAreInTheirFiles, NetsOf
<1> QED BY <1>1, ContributeInvariant, PTL

\* At most one thread downloads a net (downloadStateByUrl), and threads that wait for it wait for
\* a download that is still on.
THEOREM ContributeOneDownloadEach == Spec => []OneDownloadEach
<1>1. IInv => OneDownloadEach
  <2> SUFFICES ASSUME IInv, NEW m \in Models
               PROVE  LET busy == {d \in Downloaders : at[d] \in Busy /\ Wanted(d) = m}
                      IN  /\ Cardinality(busy) <= 1
                          /\ \A d \in busy : downloads[m] = d
                          /\ (\E d \in Downloaders : at[d] = "waiting" /\ Wanted(d) = m) => busy # {}
    BY DEF OneDownloadEach
  <2> DEFINE busy == {d \in Downloaders : at[d] \in Busy /\ Wanted(d) = m}
  <2>1. Types /\ DownloadInv
    BY DEF IInv
  <2>2. \A d \in busy : downloads[m] = d
    BY <2>1 DEF DownloadInv
  <2>3. Cardinality(busy) <= 1
    <3>1. CASE busy = {}
      <4>1. Cardinality({}) = 0
        BY FS_EmptySet
      <4> QED BY <3>1, <4>1
    <3>2. CASE busy # {}
      <4>1. busy = {downloads[m]}
        BY <2>2, <3>2
      <4>2. Cardinality({downloads[m]}) = 1
        BY FS_Singleton
      <4> QED BY <4>1, <4>2
    <3> QED BY <3>1, <3>2
  <2>4. ASSUME NEW d \in Downloaders, at[d] = "waiting", Wanted(d) = m
        PROVE  busy # {}
    <3>1. downloads[m] # NoThread
      BY <2>1, <2>4 DEF DownloadInv
    <3>2. downloads[m] \in Downloaders /\ at[downloads[m]] \in Busy /\ Wanted(downloads[m]) = m
      BY <2>1, <3>1 DEF DownloadInv, Types
    <3> QED BY <3>2
  <2> QED BY <2>2, <2>3, <2>4
<1> QED BY <1>1, ContributeInvariant, PTL
=============================================================================
