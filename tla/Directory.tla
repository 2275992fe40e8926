----------------------------- MODULE Directory -----------------------------
(***************************************************************************)
(* Directory transfer: send_dir and receive_dir of main.rs with the        *)
(* staging tree of directory.rs, through failing sessions, crashes of the  *)
(* receiver between any two of its changes to the disk, and retries.       *)
(*                                                                         *)
(* The files of a tree are numbered in the manifest's canonical order, so  *)
(* a manifest is the content of each file; its hash names the staging      *)
(* tree, one for each manifest.  Entry 0 of a tree is the marker           *)
(* .packet-tide-manifest, unless a file of the source has that very name.  *)
(* One file's session is what TransferContract promises of it, together    *)
(* with the files that ResumeState keeps beside the destination; it is     *)
(* bound to no manifest entry, so the file a sender offers need not be the *)
(* one that the receiver has reached.                                      *)
(*                                                                         *)
(* All files are there at the start and keep their names; the user may     *)
(* edit them, remove an installed tree or put another one in its place.    *)
(***************************************************************************)
EXTENDS Integers, FiniteSets

CONSTANTS N,           \* files of the source tree
          Contents,    \* contents of a file
          Dirs,        \* its directories
          MarkerFile,  \* the file named like the marker, or 0
          ReadOnly,    \* files whose mode denies their owner to write
          BareOut,     \* --out is a bare name, without a parent directory
          Senders,     \* send-dir processes
          CrashPoints, \* where the receiver process may die
          MaxFaults,   \* bound: crashes and broken connections
          MaxChanges,  \* bound: what the user changes
          None,        \* an absent file or tree
          Torn,        \* a marker that is not written completely
          Foreign      \* a tree the user put at the destination

Files == 1 .. N
Manifests == [Files -> Contents]

(* Where the marker is written.                                            *)
Marker == MarkerFile

Trees == [entry  : [0 .. N -> Contents \cup Manifests \cup {None, Torn}],
          part   : SUBSET Files,  \* X.part
          map    : SUBSET Files,  \* X.part.map
          tmp    : SUBSET Files,  \* X.part.map.tmp.PID
          sealed : SUBSET Files,  \* files with their final mode and time
          dirs   : SUBSET Dirs]

Steps == {"off", "listen", "create_marker", "write_marker", "dirs", "file",
          "receiving", "checkpoint", "unlink_map", "installed", "acked",
          "install", "seal", "seal_dirs", "unmark", "rename", "sync_parent"}

ASSUME DirectoryAssumption ==
    /\ N \in Nat \ {0}
    /\ MarkerFile \in 0 .. N
    /\ ReadOnly \subseteq Files
    /\ BareOut \in BOOLEAN
    /\ CrashPoints \subseteq Steps
    /\ MaxFaults \in Nat /\ MaxChanges \in Nat
    /\ None \notin Contents \cup Manifests \cup Trees
    /\ Torn \notin Contents \cup Manifests
    /\ Foreign \notin Trees \cup {None}

VARIABLES
    source,   \* the source tree
    spc,      \* each sender: what it does next
    sent,     \* the manifest it built
    si,       \* the file it is at
    pc,       \* the next change the receiver makes, or "off"
    manifest, \* the manifest it received
    peer,     \* the sender of its current session
    ri,       \* the file it is at
    offered,  \* the content that the hello of the session names
    staging,  \* the staging tree of each manifest, or None
    dest,     \* the destination
    outcome,  \* how the last receiver ended
    faults,   \* history
    changes   \* history

sender == <<spc, sent, si>>
session == <<manifest, peer, ri, offered>>
disk == <<staging, dest>>
history == <<faults, changes>>
vars == <<source, sender, pc, session, disk, outcome, history>>

SenderSteps == {"idle", "greeting", "waiting", "accepted", "files", "sending",
                "ok", "error"}

TypeOK ==
    /\ source \in Manifests
    /\ spc \in [Senders -> SenderSteps]
    /\ sent \in [Senders -> Manifests]
    /\ si \in [Senders -> Files]
    /\ pc \in Steps
    /\ manifest \in Manifests
    /\ peer \in Senders
    /\ ri \in Files
    /\ offered \in Contents
    /\ staging \in [Manifests -> Trees \cup {None}]
    /\ dest \in Trees \cup {None, Foreign}
    /\ outcome \in {"none", "ok", "error"}
    /\ faults \in Nat /\ changes \in Nat

Init ==
    /\ source \in Manifests
    /\ spc = [s \in Senders |-> "idle"]
    /\ sent = [s \in Senders |-> source]
    /\ si = [s \in Senders |-> 1]
    /\ pc = "off"
    /\ manifest = source
    /\ peer \in Senders
    /\ ri = 1
    /\ offered \in Contents
    /\ staging = [m \in Manifests |-> None]
    /\ dest = None
    /\ outcome = "none"
    /\ faults = 0
    /\ changes = 0

Tree == staging[manifest]

(* The receiver process ends.                                              *)
End(how) == pc' = "off" /\ outcome' = how

-----------------------------------------------------------------------------
(* Seeded fault: the end of the list is noticed one file late.             *)
PastLast(i) == i > N

(* Seeded fault: the last file is left out.                                *)
LastButOne(i) == i >= N - 1

(* The loops over the entries end with the last file.                      *)
IsLast(i) == i = N

(* The sender.  build reads and hashes the source tree, which is then      *)
(* offered at the manifest port.                                           *)
Build(s) ==
    /\ spc[s] \in {"idle", "ok", "error"}
    /\ spc' = [spc EXCEPT ![s] = "greeting"]
    /\ sent' = [sent EXCEPT ![s] = source]
    /\ si' = [si EXCEPT ![s] = 1]
    /\ UNCHANGED <<source, pc, session, disk, outcome, history>>

(* MANIFEST_OK has arrived; the loop over the files begins.                *)
ManifestAccepted(s) ==
    /\ spc[s] = "accepted"
    /\ spc' = [spc EXCEPT ![s] = "files"]
    /\ UNCHANGED <<source, sent, si, pc, session, disk, outcome, history>>

(* The session of a file succeeded: the next file, or the end.             *)
FileSent(s) ==
    /\ spc[s] = "sending" /\ peer = s
    /\ pc = "installed"
    /\ pc' = "acked"
    /\ IF IsLast(si[s])
       THEN /\ spc' = [spc EXCEPT ![s] = "ok"]
            /\ UNCHANGED si
       ELSE /\ spc' = [spc EXCEPT ![s] = "files"]
            /\ si' = [si EXCEPT ![s] = @ + 1]
    /\ UNCHANGED <<source, sent, session, disk, outcome, history>>

InSession == {"receiving", "checkpoint", "unlink_map", "installed"}

(* Nobody serves the sender: the receiver is gone or serves another one,   *)
(* or its next session has not been accepted for idle_timeout.             *)
Deserted(s) ==
    \/ spc[s] = "greeting" /\ pc # "listen"
    \/ spc[s] = "waiting"
         /\ (pc \notin {"create_marker", "write_marker", "dirs"} \/ peer # s)
    \/ spc[s] = "files" /\ pc \notin {"file", "acked"}
    \/ spc[s] = "sending" /\ (pc \notin InSession \/ peer # s)

Desert(s) ==
    /\ Deserted(s)
    /\ spc' = [spc EXCEPT ![s] = "error"]
    /\ UNCHANGED <<source, sent, si, pc, session, disk, outcome, history>>

SenderFails(s) ==
    /\ spc[s] \notin {"idle", "ok", "error"}
    /\ faults < MaxFaults
    /\ faults' = faults + 1
    /\ spc' = [spc EXCEPT ![s] = "error"]
    /\ UNCHANGED <<source, sent, si, pc, session, disk, outcome, changes>>

-----------------------------------------------------------------------------
(* The receiver: receive_dir binds its ports and accepts a sender.         *)
Listen ==
    /\ pc = "off"
    /\ pc' = "listen"
    /\ outcome' = "none"
    /\ UNCHANGED <<source, sender, session, disk, history>>

NewTree == [entry |-> [k \in 0 .. N |-> None], part |-> {}, map |-> {},
            tmp |-> {}, sealed |-> {}, dirs |-> {}]

(* The manifest arrives; prepare_staging up to the creation of the tree.   *)
PrepareStaging(s) ==
    /\ pc = "listen"
    /\ spc[s] = "greeting"
    /\ spc' = [spc EXCEPT ![s] = "waiting"]
    /\ peer' = s
    /\ manifest' = sent[s]
    /\ \/ /\ dest # None
          /\ End("error")
          /\ UNCHANGED staging
       \/ /\ dest = None
          /\ staging[sent[s]] = None
          /\ staging' = [staging EXCEPT ![sent[s]] = NewTree]
          /\ pc' = "create_marker"
          /\ UNCHANGED outcome
       \/ /\ dest = None
          /\ staging[sent[s]] # None
          /\ IF staging[sent[s]].entry[Marker] = sent[s]
             THEN pc' = "dirs" /\ UNCHANGED outcome
             ELSE End("error")
          /\ UNCHANGED staging
    /\ UNCHANGED <<source, sent, si, ri, offered, dest, history>>

CreateMarker ==
    /\ pc = "create_marker"
    /\ staging' = [staging EXCEPT ![manifest].entry[Marker] = Torn]
    /\ pc' = "write_marker"
    /\ UNCHANGED <<source, sender, session, dest, outcome, history>>

WriteMarker ==
    /\ pc = "write_marker"
    /\ staging' = [staging EXCEPT ![manifest].entry[Marker] = manifest]
    /\ pc' = "dirs"
    /\ UNCHANGED <<source, sender, session, dest, outcome, history>>

CreateDir(d) ==
    /\ pc = "dirs"
    /\ d \notin Tree.dirs
    /\ staging' = [staging EXCEPT ![manifest].dirs = @ \cup {d}]
    /\ UNCHANGED <<source, sender, pc, session, dest, outcome, history>>

(* Seeded fault: the files of an interrupted session are unexpected.       *)
NothingPartial(allowPartial) ==
    Tree.tmp = {} /\ Tree.part = {} /\ Tree.map = {}

(* validate_staging_tree: no file in the tree is unexpected.               *)
ValidTree(allowPartial) ==
    Tree.tmp = {} /\ (allowPartial \/ (Tree.part = {} /\ Tree.map = {}))

(* The end of prepare_staging; MANIFEST_OK goes out, and if the sender is  *)
(* gone the write may fail.                                                *)
StagingReady ==
    /\ pc = "dirs"
    /\ Tree.dirs = Dirs
    /\ \/ /\ ValidTree(TRUE)
          /\ pc' = "file"
          /\ ri' = 1
          /\ spc' = [spc EXCEPT ![peer] =
                        IF @ = "waiting" THEN "accepted" ELSE @]
          /\ UNCHANGED outcome
       \/ /\ ~ValidTree(TRUE) \/ spc[peer] # "waiting"
          /\ End("error")
          /\ UNCHANGED <<ri, spc>>
    /\ UNCHANGED <<source, sent, si, manifest, peer, offered, disk, history>>

(* The data port accepts a sender; its hello names the file that the       *)
(* sender is at, as it is now.  A staged file that matches is complete.    *)
StartSession(s) ==
    /\ pc = "file"
    /\ spc[s] = "files"
    /\ spc' = [spc EXCEPT ![s] = "sending"]
    /\ peer' = s
    /\ offered' = source[si[s]]
    /\ IF Tree.entry[ri] = source[si[s]]
       THEN pc' = "installed" /\ UNCHANGED staging
       ELSE /\ pc' = "receiving"
            /\ staging' = [staging EXCEPT ![manifest].part = @ \cup {ri}]
    /\ UNCHANGED <<source, sent, si, manifest, ri, dest, outcome, history>>

(* checkpoint: the temporary map, then its rename.                         *)
Checkpoint ==
    /\ pc = "receiving"
    /\ staging' = [staging EXCEPT ![manifest].tmp = @ \cup {ri}]
    /\ pc' = "checkpoint"
    /\ UNCHANGED <<source, sender, session, dest, outcome, history>>

RenameMap ==
    /\ pc = "checkpoint"
    /\ staging' = [staging EXCEPT ![manifest].tmp = @ \ {ri},
                                  ![manifest].map = @ \cup {ri}]
    /\ pc' = "receiving"
    /\ UNCHANGED <<source, sender, session, dest, outcome, history>>

(* The file is whole: ResumeState::install renames it, then removes the    *)
(* map.                                                                    *)
RenamePart ==
    /\ pc = "receiving"
    /\ ri \in Tree.map
    /\ staging' = [staging EXCEPT ![manifest].entry[ri] = offered,
                                  ![manifest].part = @ \ {ri},
                                  ![manifest].sealed = @ \ {ri}]
    /\ pc' = "unlink_map"
    /\ UNCHANGED <<source, sender, session, dest, outcome, history>>

UnlinkMap ==
    /\ pc = "unlink_map"
    /\ staging' = [staging EXCEPT ![manifest].map = @ \ {ri}]
    /\ pc' = "installed"
    /\ UNCHANGED <<source, sender, session, dest, outcome, history>>

(* The file changed while it was sent: the hash differs and the receiver   *)
(* discards what it has.                                                   *)
Discard ==
    /\ pc = "receiving"
    /\ source[si[peer]] # offered
    /\ staging' = [staging EXCEPT ![manifest].part = @ \ {ri},
                                  ![manifest].map = @ \ {ri}]
    /\ End("error")
    /\ UNCHANGED <<source, sender, session, dest, history>>

(* The session of a file ended: the next file, or the install.             *)
FileReceived ==
    /\ pc = "acked"
    /\ IF IsLast(ri) THEN pc' = "install" /\ UNCHANGED ri
                     ELSE pc' = "file" /\ ri' = ri + 1
    /\ UNCHANGED <<source, sender, manifest, peer, offered, disk, outcome,
                   history>>

(* The sender of the session is gone.                                      *)
LosePeer ==
    /\ pc \in {"receiving", "installed"}
    /\ spc[peer] # "sending"
    /\ End("error")
    /\ UNCHANGED <<source, sender, session, disk, history>>

-----------------------------------------------------------------------------
(* directory::install.                                                     *)
CheckTree ==
    /\ pc = "install"
    /\ IF ValidTree(FALSE) /\ dest = None
       THEN pc' = "seal" /\ ri' = 1 /\ UNCHANGED outcome
       ELSE End("error") /\ UNCHANGED ri
    /\ UNCHANGED <<source, sender, manifest, peer, offered, disk, history>>

(* Seeded fault: the hash of the manifest entry is not compared.           *)
AnyContent(k) == Tree.entry[k] # None /\ k \notin Tree.sealed \cap ReadOnly

(* A file can be opened for writing and has the entry's size and hash.     *)
Verified(k) ==
    Tree.entry[k] = manifest[k] /\ k \notin Tree.sealed \cap ReadOnly

SealFile ==
    /\ pc = "seal"
    /\ IF Verified(ri)
       THEN /\ staging' = [staging EXCEPT ![manifest].sealed = @ \cup {ri}]
            /\ IF IsLast(ri) THEN pc' = "seal_dirs" /\ UNCHANGED ri
                             ELSE ri' = ri + 1 /\ UNCHANGED pc
            /\ UNCHANGED outcome
       ELSE /\ End("error")
            /\ UNCHANGED <<staging, ri>>
    /\ UNCHANGED <<source, sender, manifest, peer, offered, dest, history>>

SealDirs ==
    /\ pc = "seal_dirs"
    /\ pc' = "unmark"
    /\ UNCHANGED <<source, sender, session, disk, outcome, history>>

RemoveMarker ==
    /\ pc = "unmark"
    /\ staging' = [staging EXCEPT ![manifest].entry[Marker] = None]
    /\ pc' = "rename"
    /\ UNCHANGED <<source, sender, session, dest, outcome, history>>

(* rename(2) does not replace a directory that has entries.                *)
Rename ==
    /\ pc = "rename"
    /\ IF dest = None
       THEN /\ dest' = Tree
            /\ staging' = [staging EXCEPT ![manifest] = None]
            /\ pc' = "sync_parent"
            /\ UNCHANGED outcome
       ELSE /\ End("error")
            /\ UNCHANGED disk
    /\ UNCHANGED <<source, sender, session, history>>

(* The parent of a bare name is the empty path, which cannot be opened.    *)
SyncParent ==
    /\ pc = "sync_parent"
    /\ End(IF BareOut THEN "error" ELSE "ok")
    /\ UNCHANGED <<source, sender, session, disk, history>>

-----------------------------------------------------------------------------
(* The receiver process dies where it is.                                  *)
Crash ==
    /\ pc \in CrashPoints \ {"off"}
    /\ faults < MaxFaults
    /\ faults' = faults + 1
    /\ End("none")
    /\ UNCHANGED <<source, sender, session, disk, changes>>

(* The user stops a receiver that waits for a session nobody will start:   *)
(* accept has no timeout.                                                  *)
Stop ==
    /\ pc = "file"
    /\ \A s \in Senders : spc[s] \notin {"accepted", "files"}
    /\ End("none")
    /\ UNCHANGED <<source, sender, session, disk, history>>

Changes == changes < MaxChanges /\ changes' = changes + 1

Edit(k, content) ==
    /\ Changes
    /\ source[k] # content
    /\ source' = [source EXCEPT ![k] = content]
    /\ UNCHANGED <<sender, pc, session, disk, outcome, faults>>

Occupy ==
    /\ Changes
    /\ dest = None
    /\ dest' = Foreign
    /\ UNCHANGED <<source, sender, pc, session, staging, outcome, faults>>

RemoveDest ==
    /\ Changes
    /\ dest # None
    /\ dest' = None
    /\ UNCHANGED <<source, sender, pc, session, staging, outcome, faults>>

SenderStep(s) ==
    Build(s) \/ ManifestAccepted(s) \/ FileSent(s) \/ Desert(s)

(* What a running receiver does.                                           *)
Work ==
    \/ \E s \in Senders : PrepareStaging(s) \/ StartSession(s)
    \/ CreateMarker \/ WriteMarker
    \/ \E d \in Dirs : CreateDir(d)
    \/ StagingReady
    \/ RenameMap \/ RenamePart \/ UnlinkMap
    \/ FileReceived \/ LosePeer
    \/ CheckTree \/ SealFile \/ SealDirs \/ RemoveMarker \/ Rename \/ SyncParent

User == Occupy \/ RemoveDest \/ \E k \in Files, c \in Contents : Edit(k, c)

Next ==
    \/ \E s \in Senders : SenderStep(s) \/ SenderFails(s)
    \/ Listen \/ Work \/ Checkpoint \/ Discard
    \/ Crash \/ Stop
    \/ User

Spec == Init /\ [][Next]_vars

-----------------------------------------------------------------------------
(* A whole tree of a manifest: every file with its content and metadata,   *)
(* every directory and nothing else.                                       *)
Whole(m) ==
    [entry |-> [k \in 0 .. N |-> IF k = 0 THEN None ELSE m[k]],
     part |-> {}, map |-> {}, tmp |-> {}, sealed |-> Files, dirs |-> Dirs]

(* What README.md says of install: whatever sessions were mixed up,        *)
(* interrupted or retried and whatever the user edited meanwhile, a tree   *)
(* that appears at the destination is the whole tree of the manifest that  *)
(* its receiver was sent, and it never takes the place of another one.     *)
InstallsWholeTree ==
    [][dest' \notin {dest, None, Foreign} =>
          dest = None /\ dest' = Whole(manifest)]_vars

(* A sender that reports success while its source has not changed has      *)
(* every file of its manifest staged.                                      *)
StagedAtSuccess ==
    \A s \in Senders :
        (spc'[s] = "ok" /\ spc[s] # "ok" /\ changes = 0) =>
            \A k \in Files : staging[sent[s]].entry[k] = sent[s][k]

(* A sender alone whose source did not change reports success only when    *)
(* every file of its manifest is staged, whatever attempts came before     *)
(* (send_dir never learns of the install itself).                          *)
SuccessMeansStaged == [][StagedAtSuccess]_vars

(* Both processes run on, give up when they are deserted, and are started  *)
(* again after they ended; a session makes progress between checkpoints;   *)
(* the user stops a receiver that waits for a sender which is gone.        *)
FairSpec ==
    /\ Spec
    /\ \A s \in Senders : WF_vars(SenderStep(s))
    /\ WF_vars(Listen)
    /\ WF_vars(Work)
    /\ WF_vars(Checkpoint /\ ri \notin Tree.map)
    /\ SF_vars(RenamePart)
    /\ WF_vars(Stop)

(* A receiver died and left a staging tree that no later one takes up:     *)
(* without a whole marker, with a temporary map, with the map of a file    *)
(* that was renamed already, or with a file it may not open any more.      *)
Stuck ==
    /\ pc = "off"
    /\ staging[source] # None
    /\ \/ staging[source].entry[Marker] # source
       \/ staging[source].tmp # {}
       \/ staging[source].map \ staging[source].part # {}
       \/ staging[source].sealed \cap ReadOnly # {}

(* Wherever receivers died and sessions broke: once that is over, a tree   *)
(* is installed, unless a death left the staging tree in one of the states *)
(* of Stuck.  Nothing else keeps a transfer from being resumed.            *)
Recovers == <>(dest # None \/ Stuck)
=============================================================================
