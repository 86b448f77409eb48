---------------------------- MODULE KeysManager ----------------------------
(***************************************************************************)
(* The manager of Mastercard's public keys (duckgo, keys_manager.go).  Two *)
(* goroutines share it.  The worker downloads the keys when the process    *)
(* starts, falls back on the cache file, and from then on gives the keys   *)
(* it holds to whoever calls Get, over an unbuffered channel.  The updater *)
(* downloads them again at every tick and hands them to the worker over    *)
(* another one.  Both write the cache file, without a lock.  The process   *)
(* may crash at any point and start again; Close stops both goroutines.    *)
(*                                                                         *)
(* A set of keys is the number of its publication; 0 stands for the nil    *)
(* pointer and for the empty set, in which no key is found.                *)
(***************************************************************************)
EXTENDS Naturals

CONSTANTS Caller,       \* goroutines that call Get
          Empty, Torn,  \* cache file truncated, or cut short or mixed up
          MaxPublished, \* bound on the sets of keys Mastercard publishes
          MaxStarts     \* bound on the starts of the process

ASSUME KeysAssumption ==
  /\ Empty \notin Nat /\ Torn \notin Nat /\ Empty # Torn
  /\ MaxPublished \in Nat /\ MaxStarts \in Nat

VARIABLES
  options,   \* given to NewPublicKeysManager
  published, \* number of the last set of keys Mastercard has published
  process,   \* "up", "closing" (ctx is cancelled), "closed" or "crashed"
  starts,    \* how often the process has started
  pc,        \* where each goroutine is
  keys,      \* the keys each goroutine holds
  file,      \* content of the file at cachePath; 0: there is none
  damaged,   \* a save has failed or was cut short, and none has ended since
  waiting,   \* callers blocked in Get
  seen       \* the newest keys a caller has ever been given

vars == <<options, published, process, starts, pc, keys, file, damaged,
          waiting, seen>>
envVars  == <<options, published, starts>>
fileVars == <<file, damaged>>
getVars  == <<waiting, seen>>

Goroutine == {"worker", "updater"}
Running   == process \in {"up", "closing"}
Larger(a, b) == IF a < b THEN b ELSE a

(* cache: WithCachePath was given.  early: the update period is shorter    *)
(* than the timeout of the first download, so that ticks may come while    *)
(* the worker is still at it.                                              *)
Options == [cache : BOOLEAN, early : BOOLEAN]

Created == [g \in Goroutine |-> IF g = "worker" THEN "download" ELSE "waiting"]
NoKeys  == [g \in Goroutine |-> 0]

Init ==
  /\ options \in Options
  /\ published = 1 /\ process = "up" /\ starts = 1
  /\ pc = Created /\ keys = NoKeys
  /\ file = 0 /\ damaged = FALSE
  /\ waiting = {} /\ seen = 0

-----------------------------------------------------------------------------
(* The environment: Mastercard, callers, crashes.                          *)

Publish ==
  /\ published < MaxPublished
  /\ published' = published + 1
  /\ UNCHANGED <<options, process, starts, pc, keys, fileVars, getVars>>

Get(c) ==
  /\ Running /\ c \notin waiting
  /\ waiting' = waiting \union {c}
  /\ UNCHANGED <<envVars, process, pc, keys, fileVars, seen>>

Crash ==
  /\ Running
  /\ process' = "crashed" /\ waiting' = {}
  /\ damaged' = (damaged \/ \E g \in Goroutine : pc[g] = "writing")
  /\ UNCHANGED <<envVars, pc, keys, file, seen>>

Start ==
  /\ process \in {"closed", "crashed"} /\ starts < MaxStarts
  /\ starts' = starts + 1 /\ process' = "up"
  /\ pc' = Created /\ keys' = NoKeys /\ waiting' = {}
  /\ UNCHANGED <<options, published, fileVars, seen>>

-----------------------------------------------------------------------------
(* The steps of both goroutines: download and updateCache.                 *)

Moved(g, place) == pc' = [pc EXCEPT ![g] = place]

(* Where a goroutine goes on once its keys are in the cache.               *)
AfterSave(g) == IF g = "worker" THEN "serving" ELSE "handing"

(* mutant: updateKeys hands the keys over without updateCache              *)
Downloaded_M(g) ==
  /\ Running /\ pc[g] = "download"
  /\ keys' = [keys EXCEPT ![g] = published]
  /\ Moved(g, IF options.cache /\ g = "worker" THEN "saving" ELSE AfterSave(g))
  /\ UNCHANGED <<envVars, process, fileVars, getVars>>

(* A download has succeeded, the retries of the client included.           *)
Downloaded(g) ==
  /\ Running /\ pc[g] = "download"
  /\ keys' = [keys EXCEPT ![g] = published]
  /\ Moved(g, IF options.cache THEN "saving" ELSE AfterSave(g))
  /\ UNCHANGED <<envVars, process, fileVars, getVars>>

(* ioutil.WriteFile: the file is truncated, then written.  What is written *)
(* over the keys of the other goroutine may mix with them.                 *)
Truncate(g) ==
  /\ Running /\ pc[g] = "saving"
  /\ file' = Empty /\ Moved(g, "writing")
  /\ UNCHANGED <<envVars, process, keys, damaged, getVars>>

Write(g) ==
  /\ Running /\ pc[g] = "writing"
  /\ file' \in {keys[g]} \union (IF file = Empty THEN {} ELSE {Torn})
  /\ damaged' = FALSE /\ Moved(g, AfterSave(g))
  /\ UNCHANGED <<envVars, process, keys, getVars>>

(* The file cannot be opened, or only a part of it is written: logged.     *)
SaveFails(g) ==
  /\ Running /\ pc[g] \in {"saving", "writing"}
  /\ file' \in {file} \union (IF pc[g] = "writing" THEN {Torn} ELSE {})
  /\ damaged' = TRUE /\ Moved(g, AfterSave(g))
  /\ UNCHANGED <<envVars, process, keys, getVars>>

-----------------------------------------------------------------------------
(* The worker.                                                             *)

readCache == IF options.cache /\ file \in Nat THEN file ELSE 0

(* mutant: the worker returns when neither Mastercard nor the cache gave   *)
(* it keys                                                                 *)
FallBack_M ==
  /\ Running /\ pc["worker"] = "download"
  /\ keys' = [keys EXCEPT !["worker"] = readCache]
  /\ Moved("worker", IF readCache = 0 THEN "stopped" ELSE "serving")
  /\ UNCHANGED <<envVars, process, fileVars, getVars>>

(* The first download has failed, timed out or was cancelled.              *)
FallBack ==
  /\ Running /\ pc["worker"] = "download"
  /\ keys' = [keys EXCEPT !["worker"] = readCache]
  /\ Moved("worker", "serving")
  /\ UNCHANGED <<envVars, process, fileVars, getVars>>

(* case m.keys <- keys, met by the receive in Get.                         *)
Serve(c) ==
  /\ Running /\ pc["worker"] = "serving" /\ c \in waiting
  /\ waiting' = waiting \ {c}
  /\ seen' = Larger(seen, keys["worker"])
  /\ UNCHANGED <<envVars, process, pc, keys, fileVars>>

WorkerStops ==
  /\ process = "closing" /\ pc["worker"] = "serving"
  /\ Moved("worker", "stopped")
  /\ UNCHANGED <<envVars, process, keys, fileVars, getVars>>

-----------------------------------------------------------------------------
(* The updater.                                                            *)

Tick ==
  /\ Running /\ pc["updater"] = "waiting"
  /\ options.early \/ pc["worker"] \in {"serving", "stopped"}
  /\ Moved("updater", "download")
  /\ UNCHANGED <<envVars, process, keys, fileVars, getVars>>

(* mutants: a failed update falls back on the cache as the worker does, or *)
(* ends the updater                                                        *)
UpdateFallsBack_M ==
  /\ Running /\ pc["updater"] = "download"
  /\ keys' = [keys EXCEPT !["updater"] = readCache]
  /\ Moved("updater", "handing")
  /\ UNCHANGED <<envVars, process, fileVars, getVars>>

UpdateEnds_M ==
  /\ Running /\ pc["updater"] = "download"
  /\ Moved("updater", "stopped")
  /\ UNCHANGED <<envVars, process, keys, fileVars, getVars>>

(* onUpdateError only logs: the next try is at the next tick.              *)
UpdateFails ==
  /\ Running /\ pc["updater"] = "download"
  /\ Moved("updater", "waiting")
  /\ UNCHANGED <<envVars, process, keys, fileVars, getVars>>

(* m.updates <- keySet in the updater meets keys = <-m.updates in the      *)
(* worker.                                                                 *)
HandOver ==
  /\ Running /\ pc["updater"] = "handing" /\ pc["worker"] = "serving"
  /\ keys' = [keys EXCEPT !["worker"] = keys["updater"]]
  /\ Moved("updater", "waiting")
  /\ UNCHANGED <<envVars, process, fileVars, getVars>>

(* mutant: updateKeys sends without a select on ctx.Done                   *)
GiveUp_M == FALSE /\ UNCHANGED vars

(* case <-ctx.Done() in updateKeys, then in updater.                       *)
GiveUp ==
  /\ process = "closing" /\ pc["updater"] = "handing"
  /\ Moved("updater", "waiting")
  /\ UNCHANGED <<envVars, process, keys, fileVars, getVars>>

UpdaterStops ==
  /\ process = "closing" /\ pc["updater"] = "waiting"
  /\ Moved("updater", "stopped")
  /\ UNCHANGED <<envVars, process, keys, fileVars, getVars>>

-----------------------------------------------------------------------------
(* Close: cancel, then wg.Wait.                                            *)

Cancel ==
  /\ process = "up" /\ process' = "closing"
  /\ UNCHANGED <<envVars, pc, keys, fileVars, getVars>>

Closed ==
  /\ process = "closing" /\ \A g \in Goroutine : pc[g] = "stopped"
  /\ process' = "closed"
  /\ UNCHANGED <<envVars, pc, keys, fileVars, getVars>>

-----------------------------------------------------------------------------
Save(g) == Truncate(g) \/ Write(g) \/ SaveFails(g)

Worker == \/ Downloaded("worker") \/ FallBack
          \/ Save("worker")
          \/ \E c \in Caller : Serve(c)
          \/ WorkerStops

Updater == \/ Tick \/ Downloaded("updater") \/ UpdateFails
           \/ Save("updater")
           \/ HandOver \/ GiveUp \/ UpdaterStops

Next == \/ Publish \/ Crash \/ Start \/ Cancel \/ Closed
        \/ \E c \in Caller : Get(c)
        \/ Worker \/ Updater

(* Goroutines that can go on do.  The first download ends at its timeout,  *)
(* a download whose context is cancelled ends too; any other one may hang: *)
(* the client has no timeout.  The choice of select between a tick and     *)
(* ctx.Done is random, so that the latter is taken in the end.             *)
Fairness ==
  /\ WF_vars(Downloaded("worker") \/ FallBack)
  /\ \A g \in Goroutine : WF_vars(Save(g))
  /\ \A c \in Caller : WF_vars(Serve(c))
  /\ WF_vars(WorkerStops) /\ WF_vars(Closed)
  /\ WF_vars(Tick) /\ WF_vars(HandOver) /\ WF_vars(GiveUp)
  /\ WF_vars(process = "closing" /\ UpdateFails)
  /\ SF_vars(UpdaterStops)

Spec == Init /\ [][Next]_vars /\ Fairness

-----------------------------------------------------------------------------
WorkerPlace  == {"download", "saving", "writing", "serving", "stopped"}
UpdaterPlace == {"waiting", "download", "saving", "writing", "handing",
                 "stopped"}

(* Every variable stays in its type; keys that were never published are    *)
(* neither held, cached nor given to a caller.                             *)
KeysTypeOK ==
  /\ options \in Options
  /\ published \in Nat /\ starts \in Nat
  /\ process \in {"up", "closing", "closed", "crashed"}
  /\ pc \in [Goroutine -> WorkerPlace \union UpdaterPlace]
  /\ pc["worker"] \in WorkerPlace /\ pc["updater"] \in UpdaterPlace
  /\ keys \in [Goroutine -> 0 .. published]
  /\ file \in (0 .. published) \union {Empty, Torn}
  /\ damaged \in BOOLEAN
  /\ waiting \in SUBSET Caller
  /\ seen \in 0 .. published

(* The cache always holds keys at least as new as any that a caller was    *)
(* given, in this process or an earlier one, unless it is being written or *)
(* a save was cut short: updateCache comes before the keys are offered, in *)
(* worker and in updateKeys.  A process that starts while Mastercard does  *)
(* not answer thus goes back to no older keys.                             *)
CacheIsFresh ==
  options.cache /\ ~options.early /\ ~damaged =>
    \/ \E g \in Goroutine : pc[g] = "writing"
    \/ file \in Nat /\ file >= seen

(* Within one process the keys that Get returns never become older,        *)
(* whatever the two goroutines do with downloads of different age, unless  *)
(* the updater may start before the first download has ended.              *)
KeysNeverGoBack ==
  [][~options.early /\ starts' = starts => keys'["worker"] >= keys["worker"]]_vars

(* A caller of Get is answered, at the latest when the first download has  *)
(* timed out, unless the process ends.                                     *)
GetIsAnswered ==
  \A c \in Caller :
    process = "up" /\ c \in waiting ~> c \notin waiting \/ process # "up"

(* Close returns, whatever the goroutines were doing when it was called.   *)
CloseReturns == process = "closing" ~> process # "closing"

(* In a process that stays up, if the downloads the updater tries again    *)
(* and again are answered in the end, the worker ends up with the last     *)
(* keys published: failed downloads and saves do not end the updates.      *)
CatchesUp ==
  <>[](process = "up") /\ SF_vars(Downloaded("updater"))
    => <>[](keys["worker"] = published)
=============================================================================
