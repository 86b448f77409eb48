------------------------- MODULE KeysManager_proofs -------------------------
(***************************************************************************)
(* Theorems about the manager of Mastercard's keys, for any callers, any   *)
(* number of publications and of starts.  The cache is never older than    *)
(* what callers were given (CacheIsFresh) because of the order of the      *)
(* steps: keys are saved before they are offered, and with ticks only      *)
(* after the first download the two goroutines never hold unsaved keys at  *)
(* the same time.  FreshInv says so for each place the goroutines can be   *)
(* at.                                                                     *)
(***************************************************************************)
EXTENDS KeysManager, TLAPS

\* The numbers of publications that may be held only grow.
LEMMA IntervalGrows ==
  ASSUME NEW n \in Nat, NEW k \in 0 .. n
  PROVE  k \in 0 .. (n + 1) /\ k \in Nat
BY SMT

LEMMA LargerOfTwo ==
  ASSUME NEW n \in Nat, NEW a \in 0 .. n, NEW b \in 0 .. n
  PROVE  /\ Larger(a, b) \in 0 .. n
         /\ Larger(a, b) >= a /\ Larger(a, b) >= b
         /\ Larger(a, b) \in {a, b}
BY SMT DEF Larger

LEMMA CreatedType ==
  /\ Created \in [Goroutine -> WorkerPlace \union UpdaterPlace]
  /\ Created["worker"] = "download" /\ Created["updater"] = "waiting"
  /\ \A n \in Nat : NoKeys \in [Goroutine -> 0 .. n]
  /\ NoKeys["worker"] = 0
BY SMT DEF Created, NoKeys, Goroutine, WorkerPlace, UpdaterPlace

-----------------------------------------------------------------------------
(* Type correctness.                                                       *)

LEMMA InitType == Init => KeysTypeOK
<1> SUFFICES ASSUME Init PROVE KeysTypeOK
  OBVIOUS
<1>1. published \in Nat /\ starts \in Nat /\ 0 \in 0 .. published
  BY SMT DEF Init
<1>2. keys \in [Goroutine -> 0 .. published]
  BY <1>1, CreatedType DEF Init
<1>3. pc["worker"] \in WorkerPlace /\ pc["updater"] \in UpdaterPlace
  BY CreatedType DEF Init, WorkerPlace, UpdaterPlace
<1> QED BY <1>1, <1>2, <1>3, CreatedType DEF Init, KeysTypeOK

\* A goroutine that moves to a place of its own keeps the type of pc.
LEMMA MovedType ==
  ASSUME KeysTypeOK, NEW g \in Goroutine, NEW place,
         place \in IF g = "worker" THEN WorkerPlace ELSE UpdaterPlace,
         Moved(g, place)
  PROVE  /\ pc' \in [Goroutine -> WorkerPlace \union UpdaterPlace]
         /\ pc'["worker"] \in WorkerPlace /\ pc'["updater"] \in UpdaterPlace
BY SMT DEF KeysTypeOK, Moved, Goroutine

LEMMA SaveType ==
  ASSUME KeysTypeOK, NEW g \in Goroutine, Save(g)
  PROVE  KeysTypeOK'
<1>1. AfterSave(g) \in IF g = "worker" THEN WorkerPlace ELSE UpdaterPlace
  BY DEF AfterSave, WorkerPlace, UpdaterPlace
<1>2. "writing" \in IF g = "worker" THEN WorkerPlace ELSE UpdaterPlace
  BY DEF WorkerPlace, UpdaterPlace
<1>3. keys[g] \in 0 .. published
  BY DEF KeysTypeOK
<1>4. CASE Truncate(g)
  <2>1. Moved(g, "writing")
    BY <1>4 DEF Truncate
  <2> QED BY <1>2, <1>4, <2>1, MovedType
          DEF Truncate, KeysTypeOK, envVars, getVars
<1>5. CASE Write(g)
  <2>1. Moved(g, AfterSave(g))
    BY <1>5 DEF Write
  <2>2. file' \in (0 .. published) \union {Empty, Torn}
    BY <1>3, <1>5 DEF Write
  <2> QED BY <1>1, <1>5, <2>1, <2>2, MovedType
          DEF Write, KeysTypeOK, envVars, getVars
<1>6. CASE SaveFails(g)
  <2>1. Moved(g, AfterSave(g))
    BY <1>6 DEF SaveFails
  <2>2. file' \in (0 .. published) \union {Empty, Torn}
    BY <1>6 DEF SaveFails, KeysTypeOK
  <2> QED BY <1>1, <1>6, <2>1, <2>2, MovedType
          DEF SaveFails, KeysTypeOK, envVars, getVars
<1> QED BY <1>4, <1>5, <1>6 DEF Save

LEMMA DownloadedType ==
  ASSUME KeysTypeOK, NEW g \in Goroutine, Downloaded(g)
  PROVE  KeysTypeOK'
<1> DEFINE place == IF options.cache THEN "saving" ELSE AfterSave(g)
<1>1. place \in IF g = "worker" THEN WorkerPlace ELSE UpdaterPlace
  BY DEF AfterSave, WorkerPlace, UpdaterPlace
<1>2. Moved(g, place)
  BY DEF Downloaded
<1>3. keys' \in [Goroutine -> 0 .. published]
  BY SMT DEF Downloaded, KeysTypeOK
<1> HIDE DEF place
<1> QED BY <1>1, <1>2, <1>3, MovedType
        DEF Downloaded, KeysTypeOK, envVars, fileVars, getVars

LEMMA WorkerType ==
  ASSUME KeysTypeOK, Worker
  PROVE  KeysTypeOK'
<1>0. "worker" \in Goroutine
  BY DEF Goroutine
<1>1. CASE FallBack
  <2>1. "serving" \in IF "worker" = "worker" THEN WorkerPlace ELSE UpdaterPlace
    BY DEF WorkerPlace
  <2>2. Moved("worker", "serving")
    BY <1>1 DEF FallBack
  <2>3. readCache \in 0 .. published
    BY KeysAssumption, SMT DEF readCache, KeysTypeOK
  <2>4. keys' \in [Goroutine -> 0 .. published]
    BY <1>1, <2>3 DEF FallBack, KeysTypeOK
  <2> QED BY <1>0, <1>1, <2>1, <2>2, <2>4, MovedType
          DEF FallBack, KeysTypeOK, envVars, fileVars, getVars
<1>2. ASSUME NEW c \in Caller, Serve(c)
      PROVE  KeysTypeOK'
  <2>1. seen' \in 0 .. published
    BY <1>0, <1>2, LargerOfTwo DEF Serve, KeysTypeOK
  <2> QED BY <1>2, <2>1 DEF Serve, KeysTypeOK, envVars, fileVars
<1>3. CASE WorkerStops
  <2>1. "stopped" \in IF "worker" = "worker" THEN WorkerPlace ELSE UpdaterPlace
    BY DEF WorkerPlace
  <2> QED BY <1>0, <1>3, <2>1, MovedType
          DEF WorkerStops, KeysTypeOK, envVars, fileVars, getVars
<1> QED BY <1>0, <1>1, <1>2, <1>3, SaveType, DownloadedType DEF Worker

LEMMA UpdaterType ==
  ASSUME KeysTypeOK, Updater
  PROVE  KeysTypeOK'
<1>0. "updater" \in Goroutine /\ "worker" \in Goroutine
  BY DEF Goroutine
<1>1. \A p \in {"waiting", "download", "stopped"} :
        p \in IF "updater" = "worker" THEN WorkerPlace ELSE UpdaterPlace
  BY DEF UpdaterPlace
<1>2. CASE Tick
  BY <1>0, <1>1, <1>2, MovedType DEF Tick, KeysTypeOK, envVars, fileVars, getVars
<1>3. CASE UpdateFails
  BY <1>0, <1>1, <1>3, MovedType DEF UpdateFails, KeysTypeOK, envVars, fileVars, getVars
<1>4. CASE HandOver
  <2>1. keys' \in [Goroutine -> 0 .. published]
    BY <1>0, <1>4 DEF HandOver, KeysTypeOK
  <2> QED BY <1>0, <1>1, <1>4, <2>1, MovedType
          DEF HandOver, KeysTypeOK, envVars, fileVars, getVars
<1>5. CASE GiveUp
  BY <1>0, <1>1, <1>5, MovedType DEF GiveUp, KeysTypeOK, envVars, fileVars, getVars
<1>6. CASE UpdaterStops
  BY <1>0, <1>1, <1>6, MovedType DEF UpdaterStops, KeysTypeOK, envVars, fileVars, getVars
<1> QED BY <1>0, <1>2, <1>3, <1>4, <1>5, <1>6, SaveType, DownloadedType DEF Updater

LEMMA EnvironmentType ==
  ASSUME KeysTypeOK,
         Publish \/ Crash \/ Start \/ Cancel \/ Closed \/ \E c \in Caller : Get(c)
  PROVE  KeysTypeOK'
<1>1. CASE Publish
  <2>1. 0 .. published \subseteq 0 .. published'
    BY <1>1, SMT DEF Publish, KeysTypeOK
  <2>2. published' \in Nat
    BY <1>1, SMT DEF Publish, KeysTypeOK
  <2>3. keys' \in [Goroutine -> 0 .. published']
    BY <1>1, <2>1 DEF Publish, KeysTypeOK
  <2>4. file' \in (0 .. published') \union {Empty, Torn} /\ seen' \in 0 .. published'
    BY <1>1, <2>1 DEF Publish, KeysTypeOK, fileVars, getVars
  <2> QED BY <1>1, <2>2, <2>3, <2>4 DEF Publish, KeysTypeOK, fileVars, getVars
<1>2. CASE Crash
  BY <1>2 DEF Crash, KeysTypeOK, envVars
<1>3. CASE Start
  <2>1. Created["worker"] \in WorkerPlace /\ Created["updater"] \in UpdaterPlace
    BY CreatedType DEF WorkerPlace, UpdaterPlace
  <2>2. starts' \in Nat
    BY <1>3, SMT DEF Start, KeysTypeOK
  <2> QED BY <1>3, <2>1, <2>2, CreatedType DEF Start, KeysTypeOK, fileVars
<1>4. CASE Cancel
  BY <1>4 DEF Cancel, KeysTypeOK, envVars, fileVars, getVars
<1>5. CASE Closed
  BY <1>5 DEF Closed, KeysTypeOK, envVars, fileVars, getVars
<1>6. CASE \E c \in Caller : Get(c)
  BY <1>6 DEF Get, KeysTypeOK, envVars, fileVars
<1> QED BY <1>1, <1>2, <1>3, <1>4, <1>5, <1>6

LEMMA StepType == KeysTypeOK /\ [Next]_vars => KeysTypeOK'
<1> SUFFICES ASSUME KeysTypeOK, [Next]_vars PROVE KeysTypeOK'
  OBVIOUS
<1>1. CASE Next
  BY <1>1, WorkerType, UpdaterType, EnvironmentType DEF Next
<1>2. CASE UNCHANGED vars
  BY <1>2 DEF vars, KeysTypeOK
<1> QED BY <1>1, <1>2

\* Every variable of worker, updater and cache stays in its type, and no keys
\* are held, cached or given away that Mastercard has not published.
THEOREM KeysTypeCorrect == Spec => []KeysTypeOK
BY InitType, StepType, PTL DEF Spec

-----------------------------------------------------------------------------
(* The cache and the order of saving and offering keys.                    *)

OneAtATime == ~options.early
Held(g)    == pc[g] \in {"saving", "writing"}

\* Nothing of the updater is under way before the worker offers keys.
Alone ==
  pc["worker"] \in {"download", "saving", "writing"} =>
    pc["updater"] \in {"waiting", "stopped"}

\* Keys on their way from the download to the channel are at least as new as
\* those the worker offers and as those any caller was given.
HeldAreNewer ==
  /\ pc["worker"] = "download" => keys["worker"] = 0
  /\ Held("worker") => keys["worker"] >= seen
  /\ Held("updater") \/ pc["updater"] = "handing" =>
       keys["updater"] >= seen /\ keys["updater"] >= keys["worker"]

\* When no save is under way, the cache is at least as new as the keys given,
\* those on offer and those being handed over.
CacheHoldsOffered ==
  options.cache /\ ~damaged /\ (\A g \in Goroutine : pc[g] # "writing") =>
    /\ file \in Nat /\ file >= seen
    /\ pc["worker"] \in {"serving", "stopped"} => file >= keys["worker"]
    /\ pc["updater"] = "handing" => file >= keys["updater"]

\* A file that is being written holds nothing of another save.
WritesEmpty == \A g \in Goroutine : pc[g] = "writing" => file = Empty

\* A process that has ended while it wrote the file has left it damaged.
CutShortIsKnown ==
  process \in {"closed", "crashed"} =>
    damaged \/ \A g \in Goroutine : pc[g] # "writing"

FreshInv ==
  OneAtATime => Alone /\ HeldAreNewer /\ WritesEmpty /\ CacheHoldsOffered

LEMMA FreshImpliesCacheIsFresh == FreshInv => CacheIsFresh
BY DEF FreshInv, OneAtATime, CacheHoldsOffered, CacheIsFresh

LEMMA InitFresh == Init => FreshInv
BY CreatedType, SMT
   DEF Init, FreshInv, Alone, HeldAreNewer, WritesEmpty, CacheHoldsOffered, Held, Goroutine

\* What the numbers of the state are, for the arithmetic of the steps.
LEMMA Numbers ==
  ASSUME KeysTypeOK
  PROVE  /\ published \in Nat /\ seen \in Nat /\ seen <= published
         /\ \A g \in Goroutine : keys[g] \in Nat /\ keys[g] <= published
         /\ "worker" \in Goroutine /\ "updater" \in Goroutine
         /\ DOMAIN pc = Goroutine /\ DOMAIN keys = Goroutine
BY SMT DEF KeysTypeOK, Goroutine

LEMMA SaveFresh ==
  ASSUME KeysTypeOK, FreshInv, OneAtATime, NEW g \in Goroutine, Save(g)
  PROVE  Alone' /\ HeldAreNewer' /\ WritesEmpty' /\ CacheHoldsOffered'
<1>0. Alone /\ HeldAreNewer /\ WritesEmpty /\ CacheHoldsOffered
  BY DEF FreshInv
<1>1. CASE Truncate(g)
  BY <1>0, <1>1, Numbers, SMT
     DEF Truncate, Moved, Running, Goroutine, Alone, HeldAreNewer, Held,
         WritesEmpty, CacheHoldsOffered, envVars, getVars
<1>2. CASE Write(g)
  <2>1. Alone'
    BY <1>0, <1>2, Numbers, SMT DEF Write, Moved, AfterSave, Goroutine, Alone
  <2>2. HeldAreNewer'
    BY <1>0, <1>2, Numbers, SMT
       DEF Write, Moved, AfterSave, Goroutine, HeldAreNewer, Held, getVars
  <2>3. WritesEmpty' /\ file' = keys[g]
    BY <1>0, <1>2, Numbers, SMT
       DEF Write, Moved, AfterSave, Goroutine, WritesEmpty, Alone
  <2>4. CacheHoldsOffered'
    BY <1>0, <1>2, <2>3, Numbers, SMT
       DEF Write, Moved, AfterSave, Goroutine, HeldAreNewer, Held, Alone,
           CacheHoldsOffered, getVars
  <2> QED BY <2>1, <2>2, <2>3, <2>4
<1>3. CASE SaveFails(g)
  BY <1>0, <1>3, Numbers, SMT
     DEF SaveFails, Moved, AfterSave, Goroutine, Alone, HeldAreNewer, Held,
         WritesEmpty, CacheHoldsOffered, getVars
<1> QED BY <1>1, <1>2, <1>3 DEF Save

LEMMA DownloadedFresh ==
  ASSUME KeysTypeOK, FreshInv, OneAtATime, NEW g \in Goroutine, Downloaded(g)
  PROVE  Alone' /\ HeldAreNewer' /\ WritesEmpty' /\ CacheHoldsOffered'
<1>0. Alone /\ HeldAreNewer /\ WritesEmpty /\ CacheHoldsOffered
  BY DEF FreshInv
<1>1. Alone' /\ WritesEmpty'
  BY <1>0, Numbers, SMT
     DEF Downloaded, Moved, AfterSave, Goroutine, Alone, WritesEmpty, fileVars
<1>2. HeldAreNewer'
  BY <1>0, Numbers, SMT
     DEF Downloaded, Moved, AfterSave, Goroutine, Alone, HeldAreNewer, Held,
         getVars
<1>3. CacheHoldsOffered'
  BY <1>0, Numbers, SMT
     DEF Downloaded, Moved, AfterSave, Goroutine, CacheHoldsOffered, envVars,
         fileVars, getVars
<1> QED BY <1>1, <1>2, <1>3

LEMMA WorkerFresh ==
  ASSUME KeysTypeOK, FreshInv, OneAtATime, Worker
  PROVE  Alone' /\ HeldAreNewer' /\ WritesEmpty' /\ CacheHoldsOffered'
<1>0. Alone /\ HeldAreNewer /\ WritesEmpty /\ CacheHoldsOffered
  BY DEF FreshInv
<1>1. CASE FallBack
  <2>1. Alone' /\ HeldAreNewer' /\ WritesEmpty'
    BY <1>0, <1>1, Numbers, SMT
       DEF FallBack, Moved, Goroutine, Alone, HeldAreNewer, Held, WritesEmpty,
           fileVars, getVars
  <2>2. CacheHoldsOffered'
    BY <1>0, <1>1, Numbers, SMT
       DEF FallBack, Moved, Goroutine, Alone, readCache, CacheHoldsOffered,
           envVars, fileVars, getVars
  <2> QED BY <2>1, <2>2
<1>2. ASSUME NEW c \in Caller, Serve(c)
      PROVE  Alone' /\ HeldAreNewer' /\ WritesEmpty' /\ CacheHoldsOffered'
  <2>1. /\ seen' \in {seen, keys["worker"]}
        /\ UNCHANGED <<pc, keys, options, file, damaged>>
        /\ pc["worker"] = "serving"
    BY <1>2 DEF Serve, Larger, envVars, fileVars
  <2> QED BY <1>0, <2>1, Numbers, SMT
          DEF Alone, HeldAreNewer, Held, WritesEmpty, CacheHoldsOffered
<1>3. CASE WorkerStops
  BY <1>0, <1>3, Numbers, SMT
     DEF WorkerStops, Moved, Goroutine, Alone, HeldAreNewer, Held, WritesEmpty,
         CacheHoldsOffered, envVars, fileVars, getVars
<1>4. "worker" \in Goroutine
  BY DEF Goroutine
<1> QED BY <1>1, <1>2, <1>3, <1>4, SaveFresh, DownloadedFresh DEF Worker

LEMMA UpdaterFresh ==
  ASSUME KeysTypeOK, FreshInv, OneAtATime, Updater
  PROVE  Alone' /\ HeldAreNewer' /\ WritesEmpty' /\ CacheHoldsOffered'
<1>0. Alone /\ HeldAreNewer /\ WritesEmpty /\ CacheHoldsOffered
  BY DEF FreshInv
<1>1. CASE Tick
  BY <1>0, <1>1, Numbers, SMT
     DEF Tick, OneAtATime, Moved, Goroutine, Alone, HeldAreNewer, Held,
         WritesEmpty, CacheHoldsOffered, envVars, fileVars, getVars
<1>2. CASE UpdateFails
  BY <1>0, <1>2, Numbers, SMT
     DEF UpdateFails, Moved, Goroutine, Alone, HeldAreNewer, Held, WritesEmpty,
         CacheHoldsOffered, envVars, fileVars, getVars
<1>3. CASE HandOver
  BY <1>0, <1>3, Numbers, SMT
     DEF HandOver, Moved, Goroutine, Alone, HeldAreNewer, Held, WritesEmpty,
         CacheHoldsOffered, envVars, fileVars, getVars
<1>4. CASE GiveUp
  BY <1>0, <1>4, Numbers, SMT
     DEF GiveUp, Moved, Goroutine, Alone, HeldAreNewer, Held, WritesEmpty,
         CacheHoldsOffered, envVars, fileVars, getVars
<1>5. CASE UpdaterStops
  BY <1>0, <1>5, Numbers, SMT
     DEF UpdaterStops, Moved, Goroutine, Alone, HeldAreNewer, Held, WritesEmpty,
         CacheHoldsOffered, envVars, fileVars, getVars
<1>6. "updater" \in Goroutine
  BY DEF Goroutine
<1> QED BY <1>1, <1>2, <1>3, <1>4, <1>5, <1>6, SaveFresh, DownloadedFresh
        DEF Updater

LEMMA EnvironmentFresh ==
  ASSUME KeysTypeOK, FreshInv, CutShortIsKnown, OneAtATime,
         Publish \/ Crash \/ Start \/ Cancel \/ Closed \/ \E c \in Caller : Get(c)
  PROVE  Alone' /\ HeldAreNewer' /\ WritesEmpty' /\ CacheHoldsOffered'
<1>0. Alone /\ HeldAreNewer /\ WritesEmpty /\ CacheHoldsOffered
  BY DEF FreshInv
<1>1. CASE Start
  <2>1. UNCHANGED <<options, file, damaged, seen>>
    BY <1>1 DEF Start, fileVars
  <2>2. /\ pc'["worker"] = "download" /\ pc'["updater"] = "waiting"
        /\ keys'["worker"] = 0
    BY <1>1, CreatedType DEF Start
  <2>3. Alone' /\ HeldAreNewer' /\ WritesEmpty'
    BY <2>2 DEF Alone, HeldAreNewer, Held, WritesEmpty, Goroutine
  <2>4. damaged \/ \A g \in Goroutine : pc[g] # "writing"
    BY <1>1 DEF Start, CutShortIsKnown
  <2>5. CacheHoldsOffered'
    BY <1>0, <2>1, <2>2, <2>4 DEF CacheHoldsOffered
  <2> QED BY <2>3, <2>5
<1>2. CASE Crash
  <2>1. /\ UNCHANGED <<options, pc, keys, file, seen>>
        /\ damaged' = (damaged \/ \E g \in Goroutine : pc[g] = "writing")
    BY <1>2 DEF Crash, envVars
  <2> QED BY <1>0, <2>1
          DEF Alone, HeldAreNewer, Held, WritesEmpty, CacheHoldsOffered
<1>3. CASE Publish \/ Cancel \/ Closed \/ \E c \in Caller : Get(c)
  <2>1. UNCHANGED <<options, pc, keys, file, damaged, seen>>
    BY <1>3 DEF Publish, Cancel, Closed, Get, envVars, fileVars, getVars
  <2> QED BY <1>0, <2>1
          DEF Alone, HeldAreNewer, Held, WritesEmpty, CacheHoldsOffered
<1> QED BY <1>1, <1>2, <1>3

LEMMA CutShortStep ==
  ASSUME KeysTypeOK, CutShortIsKnown, [Next]_vars
  PROVE  CutShortIsKnown'
<1>1. CASE Crash
  BY <1>1 DEF Crash, CutShortIsKnown
<1>2. CASE Start
  BY <1>2 DEF Start, CutShortIsKnown
<1>3. CASE Closed
  <2>1. \A g \in Goroutine : pc[g] = "stopped" /\ pc'[g] = pc[g]
    BY <1>3 DEF Closed
  <2>2. \A g \in Goroutine : pc'[g] # "writing"
    BY <2>1
  <2> QED BY <2>2 DEF CutShortIsKnown
<1>4. CASE Publish \/ (\E c \in Caller : Get(c)) \/ UNCHANGED vars
  <2>1. UNCHANGED <<process, damaged, pc>>
    BY <1>4 DEF Publish, Get, vars, envVars, fileVars
  <2> QED BY <2>1 DEF CutShortIsKnown
<1>5. CASE Cancel
  BY <1>5 DEF Cancel, CutShortIsKnown
<1>6. CASE Worker \/ Updater
  <2>1. Running /\ process' = process
    BY <1>6 DEF Worker, Updater, Save, Downloaded, FallBack, Truncate, Write,
                SaveFails, Serve, WorkerStops, Tick, UpdateFails, HandOver,
                GiveUp, UpdaterStops, Running
  <2> QED BY <2>1 DEF Running, CutShortIsKnown
<1> QED BY <1>1, <1>2, <1>3, <1>4, <1>5, <1>6 DEF Next

\* FreshInv is inductive: each step saves keys before it lets them be offered.
LEMMA StepFresh ==
  ASSUME KeysTypeOK, CutShortIsKnown, FreshInv, [Next]_vars
  PROVE  FreshInv'
<1> SUFFICES ASSUME OneAtATime'
             PROVE  Alone' /\ HeldAreNewer' /\ WritesEmpty' /\ CacheHoldsOffered'
  BY DEF FreshInv
<1>1. options' = options
  BY DEF Next, Publish, Crash, Start, Cancel, Closed, Get, Worker, Updater, Save,
         Downloaded, FallBack, Truncate, Write, SaveFails, Serve, WorkerStops,
         Tick, UpdateFails, HandOver, GiveUp, UpdaterStops, envVars, vars
<1>2. OneAtATime
  BY <1>1 DEF OneAtATime
<1>3. CASE UNCHANGED vars
  BY <1>2, <1>3
     DEF vars, FreshInv, Alone, HeldAreNewer, Held, WritesEmpty, CacheHoldsOffered
<1>4. CASE Next
  BY <1>2, <1>4, EnvironmentFresh, WorkerFresh, UpdaterFresh DEF Next
<1> QED BY <1>3, <1>4

\* updateCache comes before the keys are offered, in worker and in updateKeys:
\* the cache is never older than what callers were given, across crashes and
\* restarts, unless a save is under way or was cut short.
THEOREM CacheIsFreshCorrect == Spec => []CacheIsFresh
<1>1. Init => CutShortIsKnown
  BY DEF Init, CutShortIsKnown
<1>2. KeysTypeOK /\ CutShortIsKnown /\ FreshInv /\ [Next]_vars
        => CutShortIsKnown' /\ FreshInv'
  BY CutShortStep, StepFresh
<1> QED BY <1>1, <1>2, InitFresh, KeysTypeCorrect, FreshImpliesCacheIsFresh, PTL
        DEF Spec

\* What Get returns never becomes older within a process: the worker gets its
\* first keys while it holds none, and later ones only from the updater, whose
\* downloads begin after that.
LEMMA StepNeverGoesBack ==
  ASSUME KeysTypeOK, FreshInv, Next, OneAtATime, starts' = starts
  PROVE  keys'["worker"] >= keys["worker"]
<1>0. HeldAreNewer /\ "worker" \in Goroutine /\ "updater" \in Goroutine
  BY Numbers DEF FreshInv
<1>1. keys["worker"] \in Nat /\ keys["worker"] <= published
  BY Numbers
<1>2. CASE Downloaded("worker")
  BY <1>0, <1>1, <1>2, Numbers, SMT DEF Downloaded
<1>3. CASE Downloaded("updater")
  BY <1>0, <1>1, <1>3, Numbers, SMT DEF Downloaded
<1>4. CASE FallBack
  <2>1. readCache \in Nat
    BY SMT DEF readCache
  <2> QED BY <1>0, <1>4, <2>1, Numbers, SMT DEF FallBack, HeldAreNewer
<1>5. CASE HandOver
  BY <1>0, <1>5, Numbers, SMT DEF HandOver, HeldAreNewer
<1>6. CASE Start
  BY <1>6, SMT DEF Start, KeysTypeOK
<1>7. CASE keys' = keys
  BY <1>1, <1>7, SMT
<1> QED BY <1>2, <1>3, <1>4, <1>5, <1>6, <1>7
        DEF Next, Worker, Updater, Save, Publish, Crash, Cancel, Closed, Get,
            Truncate, Write, SaveFails, Serve, WorkerStops, Tick, UpdateFails,
            GiveUp, UpdaterStops

\* Within a process the keys that Get returns never become older.
THEOREM KeysNeverGoBackCorrect == Spec => KeysNeverGoBack
<1>1. KeysTypeOK /\ FreshInv /\ [Next]_vars =>
        [~options.early /\ starts' = starts => keys'["worker"] >= keys["worker"]]_vars
  BY StepNeverGoesBack DEF OneAtATime
<1>2. Init => CutShortIsKnown
  BY DEF Init, CutShortIsKnown
<1>3. KeysTypeOK /\ CutShortIsKnown /\ FreshInv /\ [Next]_vars
        => CutShortIsKnown' /\ FreshInv'
  BY CutShortStep, StepFresh
<1> QED BY <1>1, <1>2, <1>3, InitFresh, KeysTypeCorrect, PTL
        DEF Spec, KeysNeverGoBack
=============================================================================
