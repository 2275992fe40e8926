---------------------------- MODULE ResumeState ----------------------------
(***************************************************************************)
(* The receiver's files of one destination, as resume.rs and the receive   *)
(* loop of main.rs change them system call by system call: the .part file, *)
(* its .part.map and the destination, through any number of receiver       *)
(* processes, process crashes and power losses.                            *)
(*                                                                         *)
(* A file's data is what processes read (part) and what a power loss       *)
(* leaves of it (stable); the kernel may write any chunk back at any time. *)
(* Creations, truncations, renames and removals are taken to be atomic,    *)
(* ordered and durable (a journalling file system); resume.rs never syncs  *)
(* the directory and relies on this.  A crash inside a step before its     *)
(* rename leaves a temporary map that no process reads.                    *)
(*                                                                         *)
(* The identity in a map (size, chunk count, payload size and hash) is     *)
(* the object; objects of one length are the hard case.  The chunks        *)
(* written are those of the object: a source that changes while it is sent *)
(* is modelled in UdpTransfer.                                             *)
(***************************************************************************)
EXTENDS Integers, FiniteSets

CONSTANTS N,          \* chunks of an object
          Bytes,      \* contents of a chunk
          Zero,       \* what a hole reads as
          None,       \* an absent file
          Ids,        \* the objects that are transferred
          MaxCrashes  \* bound

Chunks == 0 .. N - 1
Objects == [Chunks -> Bytes]
Maps == [id : Objects, chunks : SUBSET Chunks]

ASSUME ResumeAssumption ==
    /\ N \in Nat
    /\ Zero \in Bytes
    /\ None \notin Objects \cup Maps
    /\ Ids \subseteq Objects
    /\ MaxCrashes \in Nat

VARIABLES
    pc,       \* the next system call of the receiver process, or "off"
    id,       \* the object of the process
    bitmap,   \* its receipt bitmap
    part,     \* the .part file: an object-sized file, Short or None
    stable,   \* what a power loss leaves of the .part file
    map,      \* the .part.map file, or None
    dest,     \* the destination, or None
    crashes,  \* history: crashes so far
    torn      \* history: a crash between truncation and new map, map present

vars == <<pc, id, bitmap, part, stable, map, dest, crashes, torn>>

(* The .part file between O_TRUNC and set_len.                             *)
Short == <<>>
Blank == [c \in Chunks |-> Zero]

Files == Objects \cup {None, Short}

Steps == {"off", "set_len", "create_sync", "create_map", "run", "sync_data",
          "rename_map", "install", "unlink_map", "discard"}

TypeOK ==
    /\ pc \in Steps
    /\ id \in Ids
    /\ bitmap \subseteq Chunks
    /\ part \in Files
    /\ stable \in Files
    /\ map \in Maps \cup {None}
    /\ dest \in Ids \cup {None}
    /\ crashes \in Nat
    /\ torn \in BOOLEAN

Init ==
    /\ pc = "off"
    /\ id \in Ids
    /\ bitmap = {}
    /\ part = None
    /\ stable = None
    /\ map = None
    /\ dest = None
    /\ crashes = 0
    /\ torn = FALSE

history == <<crashes, torn>>

-----------------------------------------------------------------------------
(* load_map and the test of the .part file's length.                       *)
Trusted(object) == map # None /\ map.id = object /\ part \in Objects

(* A receiver starts for an object the destination does not hold yet.      *)
Open(object) ==
    /\ pc = "off"
    /\ dest # object
    /\ id' = object
    /\ IF Trusted(object)
       THEN /\ bitmap' = map.chunks
            /\ pc' = "run"
            /\ UNCHANGED <<part, stable>>
       ELSE /\ bitmap' = {}
            /\ part' = Short
            /\ stable' = Short
            /\ pc' = "set_len"
    /\ UNCHANGED <<map, dest, history>>

SetLen ==
    /\ pc = "set_len"
    /\ part' = Blank
    /\ stable' = Blank
    /\ pc' = "create_sync"
    /\ UNCHANGED <<id, bitmap, map, dest, history>>

(* The receive loop writes a chunk it does not hold.                       *)
Write(c) ==
    /\ pc = "run"
    /\ c \notin bitmap
    /\ part' = [part EXCEPT ![c] = id[c]]
    /\ bitmap' = bitmap \cup {c}
    /\ UNCHANGED <<pc, id, stable, map, dest, history>>

(* checkpoint: sync_data, the temporary map with its sync_all, the rename; *)
(* at the end of open, and when the loop has new chunks.                   *)
CheckpointStart ==
    /\ pc = "run"
    /\ bitmap # map.chunks
    /\ pc' = "sync_data"
    /\ UNCHANGED <<id, bitmap, part, stable, map, dest, history>>

(* Seeded fault: the map is renamed before the data is on disk.            *)
NoSync ==
    /\ pc \in {"create_sync", "sync_data"}
    /\ pc' = IF pc = "sync_data" THEN "rename_map" ELSE "create_map"
    /\ UNCHANGED <<id, bitmap, part, stable, map, dest, history>>

SyncData ==
    /\ pc \in {"create_sync", "sync_data"}
    /\ stable' = part
    /\ pc' = IF pc = "sync_data" THEN "rename_map" ELSE "create_map"
    /\ UNCHANGED <<id, bitmap, part, map, dest, history>>

RenameMap ==
    /\ pc \in {"create_map", "rename_map"}
    /\ map' = [id |-> id, chunks |-> bitmap]
    /\ pc' = "run"
    /\ UNCHANGED <<id, bitmap, part, stable, dest, history>>

(* Seeded fault: the hash is not compared.                                 *)
AnyHash == TRUE

(* The hash of the .part file is the one offered.                          *)
HashMatches == part = id

(* Everything is held: sync_all and the comparison of the hashes.          *)
SyncAll ==
    /\ pc = "run"
    /\ bitmap = Chunks
    /\ stable' = part
    /\ pc' = IF HashMatches THEN "install" ELSE "discard"
    /\ UNCHANGED <<id, bitmap, part, map, dest, history>>

(* install: the rename, then the removal of the map.                       *)
Install ==
    /\ pc = "install"
    /\ dest' = part
    /\ part' = None
    /\ stable' = None
    /\ pc' = "unlink_map"
    /\ UNCHANGED <<id, bitmap, map, history>>

UnlinkMap ==
    /\ pc = "unlink_map"
    /\ map' = None
    /\ pc' = "off"
    /\ UNCHANGED <<id, bitmap, part, stable, dest, history>>

(* Seeded fault: the files of a failed transfer are kept.                  *)
KeepFiles ==
    /\ pc = "discard"
    /\ pc' = "off"
    /\ UNCHANGED <<id, bitmap, part, stable, map, dest, history>>

(* discard: the removal of the .part file, then that of the map.           *)
Discard ==
    /\ pc = "discard"
    /\ part' = None
    /\ stable' = None
    /\ pc' = "unlink_map"
    /\ UNCHANGED <<id, bitmap, map, dest, history>>

-----------------------------------------------------------------------------
(* The kernel writes back a chunk of its own accord.                       *)
Writeback(c) ==
    /\ part \in Objects /\ stable \in Objects
    /\ stable' = [stable EXCEPT ![c] = part[c]]
    /\ UNCHANGED <<pc, id, bitmap, part, map, dest, history>>

(* open has truncated the .part file; a map beside it is an old one.       *)
Truncated == pc \in {"set_len", "create_sync", "create_map"}

Crashed ==
    /\ pc # "off"
    /\ crashes < MaxCrashes
    /\ crashes' = crashes + 1
    /\ torn' = (torn \/ (Truncated /\ map # None))
    /\ pc' = "off"

(* The process dies or gives up (an error return of receive_udp); its      *)
(* writes are still in the kernel.                                         *)
Crash ==
    /\ Crashed
    /\ UNCHANGED <<id, bitmap, part, stable, map, dest>>

(* The host loses power.                                                   *)
PowerLoss ==
    /\ Crashed
    /\ part' = stable
    /\ UNCHANGED <<id, bitmap, stable, map, dest>>

(* The user takes the installed file away.                                 *)
RemoveDest ==
    /\ pc = "off"
    /\ dest # None
    /\ dest' = None
    /\ UNCHANGED <<pc, id, bitmap, part, stable, map, history>>

(* The steps of a running process.                                         *)
Step ==
    \/ SetLen \/ SyncData \/ RenameMap
    \/ \E c \in Chunks : Write(c)
    \/ SyncAll \/ Install \/ UnlinkMap \/ Discard

Next ==
    \/ \E object \in Ids : Open(object)
    \/ Step
    \/ CheckpointStart
    \/ \E c \in Chunks : Writeback(c)
    \/ Crash \/ PowerLoss
    \/ RemoveDest

Spec == Init /\ [][Next]_vars

-----------------------------------------------------------------------------
(* Every chunk the map claims is on stable storage with the content of the *)
(* map's object.                                                           *)
ClaimsDurable ==
    (map # None /\ part \in Objects) =>
        \A c \in map.chunks : stable[c] = map.id[c] /\ part[c] = map.id[c]

(* The comment of ResumeState::checkpoint as it is written: no restart     *)
(* meets a map entry that refers to data that was not written.             *)
RestartTrustsOnlyDurable == pc = "off" => ClaimsDurable

(* What the code guarantees of it: at every moment, also in the middle of  *)
(* a checkpoint, the map's claims are durable, except after a crash of     *)
(* open between the truncation of the .part file and the new map.          *)
ClaimsDurableUnlessTorn == (~torn /\ ~Truncated) => ClaimsDurable

(* Whatever happened before, a process that gets as far as the install     *)
(* renames a whole, durable file of its object over the destination.       *)
InstallsWholeObject ==
    [][dest' # dest /\ dest' # None => dest' = id /\ stable = id]_vars

(* A process runs on, and after it ended another one is started.           *)
FairSpec ==
    /\ Spec
    /\ WF_vars(Step)
    /\ WF_vars(\E object \in Ids : Open(object))

(* No combination of crashes leaves files behind that keep an object from  *)
(* ever being installed: an object that from some time on is the only one  *)
(* tried gets installed, again after every removal.  A torn map is found   *)
(* out by the final hash and discarded, and the next attempt succeeds.     *)
Recovers == \A object \in Ids : <>[](id = object) => []<>(dest = object)
=============================================================================
