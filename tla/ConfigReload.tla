----------------------------- MODULE ConfigReload -----------------------------
(***************************************************************************)
(* The configuration of a running server: the files config.toml and .env,  *)
(* the start of the server (loadActive, NewStore, Watch), the watcher      *)
(* goroutine that debounces the files' change events, the reload callback  *)
(* of runServe, the store with the active snapshot, and the requests that  *)
(* read it, once in the auth middleware and once in the API handler.       *)
(***************************************************************************)
EXTENDS Integers, FiniteSets

CONSTANTS
  Requests, \* API requests
  MaxEdits  \* bound: edits of the two files

ASSUME ReloadAssumption == MaxEdits \in Nat

VARIABLES
  cfgFile,   \* content of config.toml
  envFile,   \* version of .env
  pending,   \* file events the watcher has not read yet
  server,    \* where runServe is
  watch,     \* where the watcher goroutine is, "off" if there is none
  debounce,  \* the debounce timer's channel is set
  envRead,   \* what LoadDotenv returned, at the start or to the callback
  cfgRead,   \* what ReadFile returned, at the start or to the callback
  gen,       \* the callback's generation counter
  store,     \* the active snapshot, none before NewStore
  published, \* every snapshot that was ever active
  req,       \* req[r]: where request r is
  authSnap,  \* authSnap[r]: the snapshot authMiddleware used, or none
  snap       \* snap[r]: the snapshot the handler uses, or none

fileVars == <<cfgFile, envFile, pending>>
readVars == <<envRead, cfgRead>>
watchVars == <<watch, debounce, readVars, gen>>
storeVars == <<store, published>>
reqVars == <<req, authSnap, snap>>
reloadVars == <<fileVars, server, watchVars, storeVars, reqVars>>

(* A config.toml is activatable, well-formed but rejected by Validate, or  *)
(* unreadable or unparsable (half-written, say).                           *)
Kinds == {"ok", "invalid", "unparsable"}
Versions == 0 .. MaxEdits
ConfigFiles == [ver : Versions, kind : Kinds]
Snapshots == [gen : Nat, cfg : ConfigFiles, env : Versions]
NoSnapshot == [gen |-> 0]

ReloadTypeOK ==
  /\ cfgFile \in ConfigFiles
  /\ envFile \in Versions
  /\ pending \in Nat
  /\ server \in {"dotenv", "config", "watch", "serving", "exited"}
  /\ watch \in {"off", "select", "dotenv", "config", "swap"}
  /\ debounce \in BOOLEAN
  /\ envRead \in Versions
  /\ cfgRead \in ConfigFiles
  /\ gen \in Nat
  /\ store \in Snapshots \cup {NoSnapshot}
  /\ published \subseteq Snapshots
  /\ req \in [Requests -> {"new", "authorized", "handling", "denied", "done"}]
  /\ authSnap \in [Requests -> Snapshots \cup {NoSnapshot}]
  /\ snap \in [Requests -> Snapshots \cup {NoSnapshot}]

(* BuildSnapshot: the keys of .env are resolved into the snapshot. *)
BuildSnapshot(cfg, dotenv, generation) == [gen |-> generation, cfg |-> cfg, env |-> dotenv]

(* The process is started; the files are what the user left there. *)
ReloadInit ==
  /\ cfgFile \in [ver : {0}, kind : Kinds]
  /\ envFile = 0
  /\ pending = 0
  /\ server = "dotenv"
  /\ watch = "off"
  /\ debounce = FALSE
  /\ envRead = 0
  /\ cfgRead = cfgFile
  /\ gen = 1
  /\ store = NoSnapshot
  /\ published = {}
  /\ req = [r \in Requests |-> "new"]
  /\ authSnap = [r \in Requests |-> NoSnapshot]
  /\ snap = [r \in Requests |-> NoSnapshot]

-----------------------------------------------------------------------------
(* The user edits a file: new content on disk, and a file event if the     *)
(* directory is being watched.                                             *)
Edits == cfgFile.ver + envFile

Notify == pending' = IF watch = "off" THEN pending ELSE pending + 1

EditConfig(kind) ==
  /\ Edits < MaxEdits
  /\ cfgFile' = [ver |-> cfgFile.ver + 1, kind |-> kind]
  /\ Notify
  /\ UNCHANGED <<envFile, server, watchVars, storeVars, reqVars>>

EditEnv ==
  /\ Edits < MaxEdits
  /\ envFile' = envFile + 1
  /\ Notify
  /\ UNCHANGED <<cfgFile, server, watchVars, storeVars, reqVars>>

-----------------------------------------------------------------------------
(* The start of the server. *)

Validate(cfg) == cfg.kind = "ok"

(* loadActive, first half. *)
StartDotenv ==
  /\ server = "dotenv"
  /\ envRead' = envFile
  /\ server' = "config"
  /\ UNCHANGED <<fileVars, watch, debounce, cfgRead, gen, storeVars, reqVars>>

(* loadActive, second half: the process exits on a configuration that is   *)
(* missing, unparsable or invalid.  NewStore: generation 1.                *)
StartConfig ==
  /\ server = "config"
  /\ cfgRead' = cfgFile
  /\ \/ /\ ~Validate(cfgFile)
        /\ server' = "exited"
        /\ UNCHANGED storeVars
     \/ /\ Validate(cfgFile)
        /\ server' = "watch"
        /\ store' = BuildSnapshot(cfgFile, envRead, 1)
        /\ published' = {store'}
  /\ UNCHANGED <<fileVars, watch, debounce, envRead, gen, reqVars>>

(* Watch: without a watcher the server goes on with the configuration that *)
(* it has.  An edit before this step causes no event in any case.          *)
StartWatch ==
  /\ server = "watch"
  /\ watch' \in {"select", "off"}
  /\ server' = "serving"
  /\ UNCHANGED <<fileVars, debounce, readVars, gen, storeVars, reqVars>>

-----------------------------------------------------------------------------
(* The watcher goroutine. *)

(* A mutant: events that arrive during a reload are dropped. *)
TriggerDropsWhileBusy ==
  /\ watch # "off"
  /\ pending > 0
  /\ pending' = pending - 1
  /\ debounce' = (debounce \/ watch = "select")
  /\ UNCHANGED <<cfgFile, envFile, server, watch, readVars, gen, storeVars, reqVars>>

(* One event of config.toml or .env restarts the debounce timer. *)
Trigger ==
  /\ watch = "select"
  /\ pending > 0
  /\ pending' = pending - 1
  /\ debounce' = TRUE
  /\ UNCHANGED <<cfgFile, envFile, server, watch, readVars, gen, storeVars, reqVars>>

(* The timer fires: the channel is forgotten and onReload begins. *)
StartReload ==
  /\ watch = "select"
  /\ debounce
  /\ debounce' = FALSE
  /\ watch' = "dotenv"
  /\ UNCHANGED <<fileVars, server, readVars, gen, storeVars, reqVars>>

LoadDotenv ==
  /\ watch = "dotenv"
  /\ envRead' = envFile
  /\ watch' = "config"
  /\ UNCHANGED <<fileVars, server, debounce, cfgRead, gen, storeVars, reqVars>>

(* A mutant: the generation is not advanced. *)
ReadConfigNoGen ==
  /\ watch = "config"
  /\ cfgRead' = cfgFile
  /\ watch' = IF cfgFile.kind = "unparsable" THEN "select" ELSE "swap"
  /\ UNCHANGED <<fileVars, server, debounce, envRead, gen, storeVars, reqVars>>

(* ReadFile and Parse; only a parsed file takes the next generation. *)
ReadConfig ==
  /\ watch = "config"
  /\ cfgRead' = cfgFile
  /\ \/ /\ cfgFile.kind = "unparsable"
        /\ watch' = "select"
        /\ gen' = gen
     \/ /\ cfgFile.kind # "unparsable"
        /\ watch' = "swap"
        /\ gen' = gen + 1
  /\ UNCHANGED <<fileVars, server, debounce, envRead, storeVars, reqVars>>

(* TryReload: swap the active snapshot if the configuration validates. *)
TryReload ==
  /\ watch = "swap"
  /\ \/ /\ Validate(cfgRead)
        /\ store' = BuildSnapshot(cfgRead, envRead, gen)
        /\ published' = published \cup {store'}
     \/ /\ ~Validate(cfgRead)
        /\ UNCHANGED storeVars
  /\ watch' = "select"
  /\ UNCHANGED <<fileVars, server, debounce, readVars, gen, reqVars>>

(* runServe returns, on a signal or because it cannot listen, and with it  *)
(* the process ends, its watcher and requests wherever they are.           *)
StopServer ==
  /\ server = "serving"
  /\ server' = "exited"
  /\ watch' = "off"
  /\ UNCHANGED <<fileVars, debounce, readVars, gen, storeVars, reqVars>>

-----------------------------------------------------------------------------
(* authMiddleware reads the snapshot and admits or rejects the request. *)
AuthMiddleware(r) ==
  /\ server = "serving"
  /\ req[r] = "new"
  /\ authSnap' = [authSnap EXCEPT ![r] = store]
  /\ \E verdict \in {"authorized", "denied"} : req' = [req EXCEPT ![r] = verdict]
  /\ UNCHANGED <<fileVars, server, watchVars, storeVars, snap>>

(* handleResponses and handleMessages fetch the snapshot once more. *)
HandleRequest(r) ==
  /\ server = "serving"
  /\ req[r] = "authorized"
  /\ req' = [req EXCEPT ![r] = "handling"]
  /\ snap' = [snap EXCEPT ![r] = store]
  /\ UNCHANGED <<fileVars, server, watchVars, storeVars, authSnap>>

(* The rest of the handler works on its own snapshot only. *)
FinishRequest(r) ==
  /\ server = "serving"
  /\ req[r] = "handling"
  /\ req' = [req EXCEPT ![r] = "done"]
  /\ UNCHANGED <<fileVars, server, watchVars, storeVars, authSnap, snap>>

-----------------------------------------------------------------------------
Edit == EditEnv \/ \E kind \in Kinds : EditConfig(kind)

StartUp == StartDotenv \/ StartConfig \/ StartWatch

Reload == StartReload \/ LoadDotenv \/ ReadConfig \/ TryReload

Request(r) == AuthMiddleware(r) \/ HandleRequest(r) \/ FinishRequest(r)

(* The process has ended and all edits are made. *)
Idle ==
  /\ Edits = MaxEdits
  /\ server = "exited"
  /\ UNCHANGED reloadVars

ReloadNext ==
  \/ Edit
  \/ StartUp
  \/ Trigger
  \/ Reload
  \/ StopServer
  \/ \E r \in Requests : Request(r)
  \/ Idle

ReloadSpec == ReloadInit /\ [][ReloadNext]_reloadVars

(* The runtime runs a ready goroutine and its timer fires; users need not  *)
(* edit, clients need not call, and nobody need stop the server.           *)
FairSpec == ReloadSpec /\ WF_reloadVars(Trigger) /\ WF_reloadVars(Reload)

-----------------------------------------------------------------------------
(* Properties.                                                             *)

(* An invalid hot reload keeps the active configuration: no snapshot that  *)
(* was ever active, and so none a request still uses, failed validation.   *)
OnlyValidServed ==
  /\ \A s \in published : s.cfg.kind = "ok"
  /\ \A r \in Requests : req[r] \in {"handling", "done"} => snap[r] \in published

(* A generation names one snapshot: the X-SleepyRouter-Config-Generation   *)
(* header and the usage record of a request identify its configuration.    *)
GenerationIdentifies ==
  /\ server \in {"watch", "serving"} => store \in published
  /\ \A s, t \in published : s.gen = t.gen => s = t
  /\ \A s \in published : s.gen <= store.gen

(* The inductive invariant: nothing is active before NewStore, nothing is  *)
(* reloaded before Watch, and the callback's counter never lags behind the *)
(* active snapshot, and is ahead of it when a swap is due.                 *)
StartInv ==
  /\ server \in {"dotenv", "config"} => published = {}
  /\ server # "serving" => watch = "off"

CounterInv ==
  /\ gen >= 1
  /\ store.gen <= gen
  /\ watch = "swap" => store.gen < gen

IInv == ReloadTypeOK /\ StartInv /\ CounterInv /\ OnlyValidServed /\ GenerationIdentifies

(* Once the watcher has seen a file change, and the files then stay as     *)
(* they are with a valid config.toml, the running server ends up with      *)
(* exactly their contents: no later edit is missed, neither one inside the *)
(* debounce window nor one between the two file reads, and an edit of the  *)
(* start-up that caused no event is made up for.  Of a server without a    *)
(* watcher, or whose files changed during its start only, nothing is said. *)
UpToDate == server = "serving" /\ store.cfg = cfgFile /\ store.env = envFile

ReloadsConverge ==
  <>(pending > 0) => <>[](server = "exited" \/ cfgFile.kind # "ok" \/ UpToDate)

(* The README's claim that each request takes one snapshot when it starts  *)
(* and uses it to the end, read over authentication and handling.          *)
SingleSnapshot ==
  \A r \in Requests : req[r] = "done" => snap[r] = authSnap[r]
=============================================================================
