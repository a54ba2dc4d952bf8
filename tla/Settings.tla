------------------------------ MODULE Settings -----------------------------
(***************************************************************************)
(* Where the connector keeps the endpoint of the PiDog: class Settings of  *)
(* src/pidog_nova/settings.py over config_store.py.  An update goes to the *)
(* memory of the process, then to the Nova object store, then to a local   *)
(* JSON file; a boot reads the object store and falls back to the file.    *)
(*                                                                         *)
(* All of it is synchronous code, so nothing interleaves with an update    *)
(* but a crash of the process.  save() and load() of config_store swallow  *)
(* every exception, and nobody looks at what save() returns.               *)
(*                                                                         *)
(* Endpoints are numbered by the update that asked for them, so that an    *)
(* older endpoint is a smaller number; 0 is the one of the environment.    *)
(* What has gone wrong so far is recorded, since what can be promised      *)
(* depends on it.                                                          *)
(*                                                                         *)
(* Unchecked, FileFirst, PreferLocal and AckBeforeSave are wrong versions  *)
(* of the definitions after them, kept to see the properties fail.         *)
(***************************************************************************)
EXTENDS Naturals

CONSTANTS
    MaxUpdates,   \* bound: how many updates the operator makes
    MaxBoots,     \* bound: how often the process starts
    Missing,      \* no object, no file
    Torn          \* a file that is cut short: json.loads() fails

ASSUME SettingsAssumption ==
    /\ MaxUpdates \in Nat
    /\ MaxBoots \in Nat
    /\ Missing \notin Nat /\ Torn \notin Nat /\ Missing # Torn

Endpoints == 0 .. MaxUpdates

VARIABLES
    phase,    \* what the process is doing, "down" between crash and boot
    boots,    \* how often it was started
    memory,   \* pidog_ip and pidog_port of the Settings object
    remote,   \* the object in the Nova object store
    local,    \* the JSON file
    updates,  \* how many updates were asked for
    acked,    \* the last update that update_config() answered
    mishaps   \* what has gone wrong so far: a GET or PUT of the object
              \* store, a write of the file, the file lost with the pod

vars == << phase, boots, memory, remote, local, updates, acked, mishaps >>

Happens(what) == mishaps' = mishaps \cup {what}

TypeOK ==
    /\ phase \in {"down", "load", "migrate", "up", "put", "open", "write"}
    /\ boots \in 0 .. MaxBoots
    /\ memory \in 0 .. updates
    /\ remote \in 0 .. updates \cup {Missing}
    /\ local \in 0 .. updates \cup {Missing, Torn}
    /\ updates \in Endpoints
    /\ acked \in 0 .. updates
    /\ mishaps \subseteq {"get", "put", "file", "pod"}

\* A first installation: nothing is persisted yet.
Init ==
    /\ phase = "down" /\ boots = 0
    /\ memory = 0 /\ remote = Missing /\ local = Missing
    /\ updates = 0 /\ acked = 0 /\ mishaps = {}

(***************************************************************************)
(* model_post_init()                                                       *)
(***************************************************************************)

\* The environment is read first.
Boot ==
    /\ phase = "down"
    /\ boots < MaxBoots
    /\ boots' = boots + 1
    /\ memory' = 0
    /\ phase' = "load"
    /\ UNCHANGED << remote, local, updates, acked, mishaps >>

\* config_store.load() returns a dict, or None for a 404 and for an error.
LoadFound == remote # Missing
FileFirst == (remote = Missing \/ local # Missing) /\ UNCHANGED mishaps
LoadNone  == \/ remote = Missing /\ UNCHANGED mishaps
             \/ Happens("get")

PreferLocal ==
    /\ phase = "load"
    /\ LoadFound
    /\ memory' = IF local \in Endpoints THEN local ELSE remote
    /\ phase' = "up"
    /\ UNCHANGED << boots, remote, local, updates, acked, mishaps >>

LoadRemote ==
    /\ phase = "load"
    /\ LoadFound
    /\ memory' = remote
    /\ phase' = "up"
    /\ UNCHANGED << boots, remote, local, updates, acked, mishaps >>

Unchecked == TRUE
\* _read_local_json() gives None without a file and for a torn one.
Readable == local \in Endpoints

LoadLocal ==
    /\ phase = "load"
    /\ LoadNone
    /\ Readable
    /\ memory' = local
    /\ phase' = "migrate"
    /\ UNCHANGED << boots, remote, local, updates, acked >>

\* Neither an object nor a file that can be read.
LoadNothing ==
    /\ phase = "load"
    /\ LoadNone
    /\ ~Readable
    /\ phase' = "up"
    /\ UNCHANGED << boots, memory, remote, local, updates, acked >>

\* config_store.save(): an error may hide a PUT that has been carried out.
Put == \/ remote' = memory /\ UNCHANGED mishaps
       \/ remote' \in {remote, memory} /\ Happens("put")

\* "Auto-migrate local -> object store on first boot".
Migrate ==
    /\ phase = "migrate"
    /\ Put
    /\ phase' = "up"
    /\ UNCHANGED << boots, memory, local, updates, acked >>

(***************************************************************************)
(* update_config() and save_pidog_endpoint()                               *)
(***************************************************************************)

AckBeforeSave ==
    /\ phase = "up"
    /\ updates < MaxUpdates
    /\ updates' = updates + 1
    /\ memory' = updates + 1
    /\ acked' = updates + 1
    /\ phase' = "put"
    /\ UNCHANGED << boots, remote, local, mishaps >>

Update ==
    /\ phase = "up"
    /\ updates < MaxUpdates
    /\ updates' = updates + 1
    /\ memory' = updates + 1
    /\ phase' = "put"
    /\ UNCHANGED << boots, remote, local, acked, mishaps >>

SaveRemote ==
    /\ phase = "put"
    /\ Put
    /\ phase' = "open"
    /\ UNCHANGED << boots, memory, local, updates, acked >>

\* write_text() opens the file, which empties it.
OpenFile ==
    /\ phase = "open"
    /\ local' = Torn
    /\ phase' = "write"
    /\ UNCHANGED << boots, memory, remote, updates, acked, mishaps >>

\* The text is written and the file closed; update_config() returns.
WriteFile ==
    /\ phase = "write"
    /\ local' = memory
    /\ phase' = "up"
    /\ acked' = memory
    /\ UNCHANGED << boots, memory, remote, updates, mishaps >>

\* The file cannot be opened, or the disk is full: a warning, no more.
FileFails ==
    /\ phase \in {"open", "write"}
    /\ Happens("file")
    /\ phase' = "up"
    /\ acked' = memory
    /\ UNCHANGED << boots, memory, remote, local, updates >>

\* The pod is killed and perhaps moved: what is in memory is lost.
Crash ==
    /\ phase # "down"
    /\ phase' = "down"
    /\ memory' = 0
    /\ \/ UNCHANGED << local, mishaps >>
       \/ local' = Missing /\ Happens("pod")
    /\ UNCHANGED << boots, remote, updates, acked >>

Next ==
    \/ Boot \/ LoadRemote \/ LoadLocal \/ LoadNothing \/ Migrate
    \/ Update \/ SaveRemote \/ OpenFile \/ WriteFile \/ FileFails
    \/ Crash

Spec == Init /\ [][Next]_vars

-----------------------------------------------------------------------------
(***************************************************************************)
(* Properties                                                              *)
(***************************************************************************)

\* No call of the object store has failed so far.
StoreReliable == mishaps \cap {"get", "put"} = {}

\* An endpoint that update_config() confirmed is not forgotten as long as the
\* object store works: a process that is up uses that one or a later one,
\* whatever crashes came between and whatever became of the file.
SurvivesRestart == StoreReliable /\ phase = "up" => memory >= acked

\* The object store, "canonical, shared across pod restarts", never goes
\* back to an older endpoint as long as its calls work.
StoreNeverRollsBack ==
    [][StoreReliable' /\ remote # Missing
           => remote' # Missing /\ remote' >= remote]_vars

\* The connector is the register of module EndpointRegister until a call of
\* the object store fails: the object is what is durable, a boot serves it or
\* the endpoint of the environment and nothing else.  The file does not show:
\* it is written after the object, so there is none to migrate without one.
Register == INSTANCE EndpointRegister WITH
    kept <- IF remote = Missing THEN 0 ELSE remote,
    inUse <- IF phase \in {"down", "load"} THEN Missing ELSE memory,
    confirmed <- acked,
    Endpoints <- Endpoints,
    Down <- Missing
ServesAsRegister ==
    Register!Init /\ [][StoreReliable' => Register!Next \/ UNCHANGED Register!registerVars]_vars

\* Where nothing has reached an object store ("dev mode") the file is all
\* there is.  A confirmed endpoint is lost only when the process died while
\* it rewrote the file, or when the file could not be kept.
FileSurvivesRestart ==
    remote = Missing /\ mishaps \cap {"file", "pod"} = {} /\ phase = "up"
        => memory >= acked \/ local = Torn

\* The local file is "a dev/offline fallback": an endpoint that only the
\* file has, because the store was offline, is still in use after a restart.
FileIsFallback ==
    mishaps \subseteq {"put"} /\ phase = "up" /\ local \in Endpoints => memory >= local

\* "if the object store is empty but a local config exists, we auto-promote
\* it": a migration never replaces an object.
MigratesIntoEmptyStore ==
    [][phase = "migrate" /\ remote' # remote => remote = Missing]_vars

=============================================================================
