------------------------------- MODULE NodeStore -------------------------------
(***************************************************************************)
(* nodebuilder/store.go, init.go, config.go, node.go, libs/keystore and    *)
(* the commands of cmd/ that use them: the directory of a node, and the    *)
(* processes that initialise, open, reset and reconfigure it.              *)
(*                                                                         *)
(* Each process runs one command after another.  The directory is guarded  *)
(* by a file lock, which the system releases when a process dies; badger   *)
(* locks its own directory.  A file is written by truncating it and then   *)
(* filling it, and a process may die between.  The config is "custom" when *)
(* it holds values of the user's, and "empty" after it was truncated: an   *)
(* empty file decodes without an error.                                    *)
(***************************************************************************)
EXTENDS Naturals, FiniteSets

CONSTANTS
    Procs,          \* processes
    MaxCommands,    \* bound on the commands they run
    MaxCrashes      \* bound on the processes that die

NoProc == "nobody"
Commands == {"init", "start", "unsafe-reset-store", "config-update", "config-remove", "discover"}

VARIABLES
    root, keys, data,   \* the directories exist
    config,             \* config.toml: "absent", "empty", "default" or "custom"
    account,            \* the keyring has an account
    identity,           \* the key of the p2p host: "absent", "broken" or "whole"
    flk,                \* holder of the file lock
    badger,             \* holder of the datastore
    proc,               \* the processes: their command, step and config
    commands, crashes,  \* number of each
    touched             \* a process changed the directory of another one that was running

vars == <<root, keys, data, config, account, identity, flk, badger, proc, commands, crashes, touched>>
files == <<root, keys, data, config, account, identity>>

Idle == [cmd |-> "none", pc |-> "idle", cfg |-> "default", err |-> "nil"]

Init ==
    /\ \/ /\ root = FALSE /\ keys = FALSE /\ data = FALSE /\ config = "absent" /\ account = FALSE /\ identity = "absent"
       \/ /\ root = TRUE /\ keys = TRUE /\ data = TRUE /\ config = "custom" /\ account = TRUE
          /\ identity \in {"absent", "whole"}
    /\ flk = NoProc /\ badger = NoProc
    /\ proc = [p \in Procs |-> Idle]
    /\ commands = 0 /\ crashes = 0 /\ touched = FALSE

running(p) == proc[p].pc = "running"

\* A step of p that changes the files, and whether that disturbs a node.
Touch(p) == touched' = (touched \/ \E q \in Procs \ {p} : running(q))

Step(p, next) == proc' = [proc EXCEPT ![p].pc = next]
Ends(p, err) == proc' = [proc EXCEPT ![p] = [Idle EXCEPT !.err = err]]
Same == UNCHANGED <<commands, crashes>>

-----------------------------------------------------------------------------
(***************************************************************************)
(* Commands.                                                               *)
(***************************************************************************)

\* ParseNodeFlags reads the config before any lock is taken, and goes on without one.
ParseNodeFlags(p) ==
    /\ proc[p].pc = "idle" /\ commands < MaxCommands /\ commands' = commands + 1
    /\ \E c \in Commands :
           proc' = [proc EXCEPT ![p] = [cmd |-> c, cfg |-> IF config = "absent" THEN "default" ELSE config, err |-> "nil",
                                        pc |-> IF c = "init" THEN "initRoot" ELSE "lock"]]
    /\ UNCHANGED <<files, flk, badger, crashes, touched>>

\* initRoot creates the directory before the lock.
initRoot(p) ==
    /\ proc[p].pc = "initRoot" /\ root' = TRUE /\ Step(p, "lock")
    /\ UNCHANGED <<keys, data, config, account, identity, flk, badger, touched>> /\ Same

FirstStep(c) ==
    CASE c = "init" -> "initKeys" [] c = "start" -> "isInit" [] c = "unsafe-reset-store" -> "removeData"
      [] c = "config-update" -> "load" [] c = "config-remove" -> "remove" [] c = "discover" -> "unlock"

\* flock.TryLock: an error when the directory is not there, and ErrOpened when it is taken.
mustLock_Wrong(p) == flk = NoProc \/ proc[p].cmd = "unsafe-reset-store"
mustLock(p) == flk = NoProc
TryLock(p) ==
    /\ proc[p].pc = "lock"
    /\ IF ~root THEN Ends(p, "locking") /\ UNCHANGED flk
       ELSE IF ~mustLock(p) THEN Ends(p, "ErrOpened") /\ UNCHANGED flk
       ELSE flk' = p /\ Step(p, FirstStep(proc[p].cmd))
    /\ UNCHANGED <<files, badger, touched>> /\ Same

Unlock(p) ==
    /\ proc[p].pc = "unlock" /\ flk' = (IF flk = p THEN NoProc ELSE flk) /\ Ends(p, "nil")
    /\ UNCHANGED <<files, badger, touched>> /\ Same

-----------------------------------------------------------------------------
\* Init: the directories, the config, and an account if there is none.
initKeys(p) ==
    /\ proc[p].pc = "initKeys" /\ keys' = TRUE /\ Step(p, "initData") /\ Touch(p)
    /\ UNCHANGED <<root, data, config, account, identity, flk, badger>> /\ Same
initData(p) ==
    /\ proc[p].pc = "initData" /\ data' = TRUE /\ Step(p, "create") /\ Touch(p)
    /\ UNCHANGED <<root, keys, config, account, identity, flk, badger>> /\ Same

\* SaveConfig: os.Create, and then Encode.
createConfig(p) ==
    /\ proc[p].pc = "create" /\ config' = "empty" /\ Step(p, "encode") /\ Touch(p)
    /\ UNCHANGED <<root, keys, data, account, identity, flk, badger>> /\ Same
encodeConfig(p) ==
    /\ proc[p].pc = "encode" /\ config' = proc[p].cfg /\ Touch(p)
    /\ Step(p, IF proc[p].cmd = "init" THEN "generateKeys" ELSE "unlock")
    /\ UNCHANGED <<root, keys, data, account, identity, flk, badger>> /\ Same

generateKeys(p) ==
    /\ proc[p].pc = "generateKeys" /\ account' = TRUE /\ Step(p, "unlock") /\ Touch(p)
    /\ UNCHANGED <<root, keys, data, config, identity, flk, badger>> /\ Same

\* Reset: the data directory is removed and made again, and then, unless the node is a light one,
\* those of the blocks, the transients and the index; no command asks whether these exist.
removeData(p) ==
    /\ proc[p].pc = "removeData" /\ data' = FALSE /\ Step(p, "makeData") /\ Touch(p)
    /\ UNCHANGED <<root, keys, config, account, identity, flk, badger>> /\ Same
makeData(p) ==
    /\ proc[p].pc = "makeData" /\ data' = TRUE /\ Touch(p)
    /\ Step(p, "resetBlocks") \/ Step(p, "unlock")
    /\ UNCHANGED <<root, keys, config, account, identity, flk, badger>> /\ Same
resetBlocks(p) ==
    /\ proc[p].pc = "resetBlocks" /\ Step(p, "unlock") /\ Touch(p)
    /\ UNCHANGED <<files, flk, badger>> /\ Same

\* RemoveConfig.
removeConfig(p) ==
    /\ proc[p].pc = "remove" /\ Touch(p)
    /\ config' = "absent" /\ Step(p, IF proc[p].cmd = "config-update" THEN "create" ELSE "unlock")
    /\ UNCHANGED <<root, keys, data, account, identity, flk, badger>> /\ Same

updateConfig(cfg) == IF cfg = "custom" THEN "custom" ELSE "default"
UpdateConfig(p) ==
    /\ proc[p].pc = "load"
    /\ IF config = "absent" THEN Step(p, "unlock")
       ELSE proc' = [proc EXCEPT ![p].pc = "remove", ![p].cfg = updateConfig(config)]
    /\ UNCHANGED <<files, flk, badger, touched>> /\ Same

-----------------------------------------------------------------------------
\* OpenStore.
IsInit == config # "absent" /\ keys /\ data
OpenStore(p) ==
    /\ proc[p].pc = "isInit" /\ Step(p, IF IsInit THEN "datastore" ELSE "unlock")
    /\ UNCHANGED <<files, flk, badger, touched>> /\ Same

\* Datastore: badger refuses a directory that another process has open; then Close gives the lock back.
Datastore(p) ==
    /\ proc[p].pc = "datastore"
    /\ IF badger = NoProc THEN badger' = p /\ Step(p, "key") ELSE UNCHANGED badger /\ Step(p, "close")
    /\ UNCHANGED <<files, flk, touched>> /\ Same

\* Key: Get, and Put when it is ErrNotFound; a key that cannot be read is an error.  os.WriteFile
\* truncates and writes.
Key(p) ==
    /\ proc[p].pc = "key"
    /\ CASE identity = "whole" -> Step(p, "start") /\ UNCHANGED <<identity, touched>>
         [] identity = "broken" -> Step(p, "close") /\ UNCHANGED <<identity, touched>>
         [] identity = "absent" -> identity' = "broken" /\ Step(p, "writeKey") /\ Touch(p)
    /\ UNCHANGED <<root, keys, data, config, account, flk, badger>> /\ Same
Put(p) ==
    /\ proc[p].pc = "writeKey" /\ identity' = "whole" /\ Step(p, "start") /\ Touch(p)
    /\ UNCHANGED <<root, keys, data, config, account, flk, badger>> /\ Same

\* Node.Start: all services; it may fail, or not be ready in time.
Start(p) ==
    /\ proc[p].pc = "start"
    /\ Step(p, "running") \/ Step(p, "close")
    /\ UNCHANGED <<files, flk, badger, touched>> /\ Same
Stop(p) ==
    /\ running(p) /\ Step(p, "close")
    /\ UNCHANGED <<files, flk, badger, touched>> /\ Same

\* fsStore.Close: the file lock, and then the datastore.
Close(p) ==
    /\ proc[p].pc = "close" /\ flk' = NoProc /\ Step(p, "closeData")
    /\ UNCHANGED <<files, badger, touched>> /\ Same
closeData(p) ==
    /\ proc[p].pc = "closeData" /\ badger' = (IF badger = p THEN NoProc ELSE badger) /\ Ends(p, "nil")
    /\ UNCHANGED <<files, flk, touched>> /\ Same

\* The process dies.
Crash(p) ==
    /\ proc[p].pc # "idle" /\ crashes < MaxCrashes /\ crashes' = crashes + 1
    /\ proc' = [proc EXCEPT ![p] = Idle]
    /\ flk' = (IF flk = p THEN NoProc ELSE flk) /\ badger' = (IF badger = p THEN NoProc ELSE badger)
    /\ UNCHANGED <<files, commands, touched>>

Stays == commands = MaxCommands /\ UNCHANGED vars

Run(p) ==
    \/ ParseNodeFlags(p) \/ initRoot(p) \/ TryLock(p) \/ Unlock(p)
    \/ initKeys(p) \/ initData(p) \/ createConfig(p) \/ encodeConfig(p) \/ generateKeys(p)
    \/ removeData(p) \/ makeData(p) \/ resetBlocks(p) \/ removeConfig(p) \/ UpdateConfig(p)
    \/ OpenStore(p) \/ Datastore(p) \/ Key(p) \/ Put(p) \/ Start(p) \/ Stop(p) \/ Close(p) \/ closeData(p)
    \/ Crash(p)

Next == (\E p \in Procs : Run(p)) \/ Stays

-----------------------------------------------------------------------------
(***************************************************************************)
(* Properties.                                                             *)
(***************************************************************************)

TypeOK ==
    /\ config \in {"absent", "empty", "default", "custom"} /\ identity \in {"absent", "broken", "whole"}
    /\ flk \in Procs \cup {NoProc} /\ badger \in Procs \cup {NoProc}

\* One node at a time runs in a directory; it holds the lock and the datastore, its directory stays
\* initialised while it runs, and no command of another process changes anything in it.  Of the
\* processes past the lock at most one still works.  A process that closes its datastore
\* ("closeData") is not counted and not protected: Close gives the lock back first, so that a
\* reset may remove the directory of a datastore that is still being closed.
OneNode ==
    /\ ~touched
    /\ \A p \in Procs : running(p) => flk = p /\ badger = p /\ IsInit /\ identity = "whole"
    /\ Cardinality({p \in Procs : proc[p].pc \notin {"idle", "initRoot", "lock", "closeData"}}) <= 1

\* A lock belongs to a process that still works with what it guards, and a key is half written
\* only while it is written, or after a process has died.
LocksSound ==
    /\ badger # NoProc => proc[badger].pc \in {"key", "writeKey", "start", "running", "close", "closeData"}
    /\ identity = "broken" => crashes > 0 \/ \E p \in Procs : proc[p].pc = "writeKey"
    /\ flk # NoProc => proc[flk].pc \notin {"idle", "initRoot", "lock", "closeData"}

StoreSound == TypeOK /\ OneNode /\ LocksSound

=============================================================================
