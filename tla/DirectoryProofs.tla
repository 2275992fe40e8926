-------------------------- MODULE DirectoryProofs --------------------------
(***************************************************************************)
(* Proofs about Directory, for every number of files, contents, senders,   *)
(* faults and changes, and wherever the receiver dies.                     *)
(***************************************************************************)
EXTENDS Directory, TLAPS

(* Points of install at which the tree has been validated.                 *)
Installing == {"seal", "seal_dirs", "unmark", "rename"}

(* Points at which prepare_staging has returned.                           *)
Prepared ==
    {"file", "receiving", "checkpoint", "unlink_map", "installed", "acked",
     "install"} \cup Installing

(* From its creation to the final rename the receiver's staging tree is    *)
(* there, and after prepare_staging so are its directories.                *)
TreePresent ==
    /\ pc \notin {"off", "listen", "sync_parent"} => Tree \in Trees
    /\ pc \in Prepared => Tree.dirs = Dirs

(* While install runs nothing partial is in the tree, and the files it has *)
(* passed have their content and metadata; the marker goes before the      *)
(* rename.                                                                 *)
Sealed(k) == Tree.entry[k] = manifest[k] /\ k \in Tree.sealed

InstallProgress ==
    /\ pc \in Installing => Tree.part = {} /\ Tree.map = {} /\ Tree.tmp = {}
    /\ pc = "seal" => \A k \in 1 .. ri - 1 : Sealed(k)
    /\ pc \in {"seal_dirs", "unmark", "rename"} => \A k \in Files : Sealed(k)
    /\ pc = "rename" => Tree.entry[0] = None

Typed == TypeOK /\ TreePresent

-----------------------------------------------------------------------------
LEMMA NewTreeIsTree == NewTree \in Trees /\ NewTree.dirs = {}
BY DEF NewTree, Trees

LEMMA InitTyped == Init => Typed
<1> SUFFICES ASSUME Init PROVE Typed
  OBVIOUS
<1>1. TypeOK BY DirectoryAssumption DEF Init, TypeOK, SenderSteps, Steps, Files
<1>2. TreePresent BY DEF Init, TreePresent, Prepared, Installing
<1> QED BY <1>1, <1>2 DEF Typed

(* What the senders and the user do concerns no tree.                      *)
LEMMA OthersTyped ==
    ASSUME Typed,
           \/ \E s \in Senders : \/ Build(s) \/ ManifestAccepted(s) \/ FileSent(s)
                                 \/ Desert(s) \/ SenderFails(s)
           \/ User \/ UNCHANGED vars
    PROVE  Typed'
<1> USE DirectoryAssumption
    DEF Typed, TypeOK, SenderSteps, Steps, Files, sender, session, disk, history
<1>1. TypeOK'
  <2>1. ASSUME NEW s \in Senders, Build(s) PROVE TypeOK' BY <2>1 DEF Build
  <2>2. ASSUME NEW s \in Senders, ManifestAccepted(s) PROVE TypeOK'
    BY <2>2 DEF ManifestAccepted
  <2>3. ASSUME NEW s \in Senders, FileSent(s) PROVE TypeOK'
    BY <2>3 DEF FileSent, IsLast
  <2>4. ASSUME NEW s \in Senders, Desert(s) PROVE TypeOK' BY <2>4 DEF Desert
  <2>5. ASSUME NEW s \in Senders, SenderFails(s) PROVE TypeOK'
    BY <2>5 DEF SenderFails
  <2>6. CASE Occupy BY <2>6 DEF Occupy, Changes
  <2>7. CASE RemoveDest BY <2>7 DEF RemoveDest, Changes
  <2>8. ASSUME NEW k \in Files, NEW c \in Contents, Edit(k, c) PROVE TypeOK'
    BY <2>8 DEF Edit, Changes, Manifests
  <2>9. CASE UNCHANGED vars BY <2>9 DEF vars
  <2> QED BY <2>1, <2>2, <2>3, <2>4, <2>5, <2>6, <2>7, <2>8, <2>9 DEF User
<1>2. /\ UNCHANGED <<manifest, staging>>
      /\ UNCHANGED pc \/ (pc = "installed" /\ pc' = "acked")
  BY DEF Build, ManifestAccepted, FileSent, Desert, SenderFails, User, Occupy,
         RemoveDest, Edit, vars
<1>3. TreePresent' BY <1>2 DEF TreePresent, Tree, Prepared, Installing
<1> QED BY <1>1, <1>3

LEMMA TreeReplaced ==
    ASSUME TypeOK, NEW t \in Trees, UNCHANGED manifest,
           staging' = [staging EXCEPT ![manifest] = t]
    PROVE  /\ staging' \in [Manifests -> Trees \cup {None}]
           /\ Tree' = t
BY DEF TypeOK, Tree

(* The receiver up to MANIFEST_OK.                                         *)
LEMMA StagingTyped ==
    ASSUME Typed,
           \/ Listen \/ \E s \in Senders : PrepareStaging(s)
           \/ CreateMarker \/ WriteMarker \/ StagingReady
           \/ \E d \in Dirs : CreateDir(d)
    PROVE  Typed'
<1> USE DirectoryAssumption
    DEF Typed, TypeOK, TreePresent, Tree, Prepared, Installing,
        SenderSteps, Steps, Files, sender, session, disk, history
<1>1. CASE Listen BY <1>1 DEF Listen
<1>2. ASSUME NEW s \in Senders, PrepareStaging(s) PROVE Typed'
  BY <1>2, NewTreeIsTree DEF PrepareStaging, End
<1>3. CASE CreateMarker
  <2>1. [Tree EXCEPT !.entry[Marker] = Torn] \in Trees
    BY <1>3 DEF CreateMarker, Trees, Marker
  <2> QED BY <1>3, <2>1 DEF CreateMarker
<1>4. CASE WriteMarker
  <2>1. [Tree EXCEPT !.entry[Marker] = manifest] \in Trees
    BY <1>4 DEF WriteMarker, Trees, Marker
  <2> QED BY <1>4, <2>1 DEF WriteMarker
<1>5. CASE StagingReady
  <2>1. Tree \in Trees /\ Tree.dirs = Dirs BY <1>5 DEF StagingReady
  <2>2. CASE pc' = "off" BY <1>5, <2>2 DEF StagingReady, End
  <2>3. CASE pc' = "file"
    <3>1. spc' \in [Senders -> SenderSteps]
      BY <1>5, <2>3 DEF StagingReady, End
    <3>2. TypeOK' BY <1>5, <2>3, <3>1 DEF StagingReady, End
    <3> QED BY <1>5, <2>1, <2>3, <3>2 DEF StagingReady, End
  <2> QED BY <1>5, <2>2, <2>3 DEF StagingReady, End
<1>6. ASSUME NEW d \in Dirs, CreateDir(d) PROVE Typed'
  <2>1. [Tree EXCEPT !.dirs = @ \cup {d}] \in Trees
    BY <1>6 DEF CreateDir, Trees
  <2> QED BY <1>6, <2>1 DEF CreateDir
<1> QED BY <1>1, <1>2, <1>3, <1>4, <1>5, <1>6

(* The session of a file.                                                  *)
LEMMA SessionTyped ==
    ASSUME Typed,
           \/ \E s \in Senders : StartSession(s)
           \/ Checkpoint \/ RenameMap \/ RenamePart \/ UnlinkMap
           \/ Discard \/ FileReceived \/ LosePeer
    PROVE  Typed'
<1> USE DirectoryAssumption
    DEF Typed, TypeOK, TreePresent, Tree, Prepared, Installing,
        SenderSteps, Steps, Files, sender, session, disk, history
<1>1. ASSUME NEW s \in Senders, StartSession(s) PROVE Typed'
  <2> DEFINE t == [Tree EXCEPT !.part = @ \cup {ri}]
  <2>1. Tree \in Trees /\ Tree.dirs = Dirs BY <1>1 DEF StartSession
  <2>2. t \in Trees /\ t.dirs = Dirs BY <2>1 DEF Trees
  <2>3. offered' \in Contents BY <1>1 DEF StartSession, Manifests
  <2>4. CASE UNCHANGED staging BY <1>1, <2>1, <2>3, <2>4 DEF StartSession
  <2>5. CASE staging' = [staging EXCEPT ![manifest] = t]
    <3>1. staging' \in [Manifests -> Trees \cup {None}] /\ Tree' = t
      BY <1>1, <2>2, <2>5, TreeReplaced DEF StartSession
    <3> HIDE DEF t
    <3> QED BY <1>1, <2>2, <2>3, <3>1 DEF StartSession
  <2> QED BY <1>1, <2>4, <2>5 DEF StartSession
<1>2. CASE Checkpoint
  <2> DEFINE t == [Tree EXCEPT !.tmp = @ \cup {ri}]
  <2>1. Tree \in Trees /\ Tree.dirs = Dirs BY <1>2 DEF Checkpoint
  <2>2. t \in Trees /\ t.dirs = Dirs BY <2>1 DEF Trees
  <2>3. staging' = [staging EXCEPT ![manifest] = t] BY <1>2 DEF Checkpoint
  <2>4. staging' \in [Manifests -> Trees \cup {None}] /\ Tree' = t
    BY <1>2, <2>2, <2>3, TreeReplaced DEF Checkpoint
  <2> HIDE DEF t
  <2> QED BY <1>2, <2>2, <2>4 DEF Checkpoint
<1>3. CASE RenameMap
  <2> DEFINE t == [Tree EXCEPT !.tmp = @ \ {ri}, !.map = @ \cup {ri}]
  <2>1. Tree \in Trees /\ Tree.dirs = Dirs BY <1>3 DEF RenameMap
  <2>2. t \in Trees /\ t.dirs = Dirs BY <2>1 DEF Trees
  <2>3. staging' = [staging EXCEPT ![manifest] = t] BY <1>3 DEF RenameMap
  <2>4. staging' \in [Manifests -> Trees \cup {None}] /\ Tree' = t
    BY <1>3, <2>2, <2>3, TreeReplaced DEF RenameMap
  <2> HIDE DEF t
  <2> QED BY <1>3, <2>2, <2>4 DEF RenameMap
<1>4. CASE RenamePart
  <2> DEFINE t == [Tree EXCEPT !.entry[ri] = offered, !.part = @ \ {ri},
                           !.sealed = @ \ {ri}]
  <2>1. Tree \in Trees /\ Tree.dirs = Dirs BY <1>4 DEF RenamePart
  <2>2. t \in Trees /\ t.dirs = Dirs BY <2>1 DEF Trees
  <2>3. staging' = [staging EXCEPT ![manifest] = t] BY <1>4 DEF RenamePart
  <2>4. staging' \in [Manifests -> Trees \cup {None}] /\ Tree' = t
    BY <1>4, <2>2, <2>3, TreeReplaced DEF RenamePart
  <2> HIDE DEF t
  <2> QED BY <1>4, <2>2, <2>4 DEF RenamePart
<1>5. CASE UnlinkMap
  <2> DEFINE t == [Tree EXCEPT !.map = @ \ {ri}]
  <2>1. Tree \in Trees /\ Tree.dirs = Dirs BY <1>5 DEF UnlinkMap
  <2>2. t \in Trees /\ t.dirs = Dirs BY <2>1 DEF Trees
  <2>3. staging' = [staging EXCEPT ![manifest] = t] BY <1>5 DEF UnlinkMap
  <2>4. staging' \in [Manifests -> Trees \cup {None}] /\ Tree' = t
    BY <1>5, <2>2, <2>3, TreeReplaced DEF UnlinkMap
  <2> HIDE DEF t
  <2> QED BY <1>5, <2>2, <2>4 DEF UnlinkMap
<1>6. CASE Discard
  <2> DEFINE t == [Tree EXCEPT !.part = @ \ {ri}, !.map = @ \ {ri}]
  <2>1. Tree \in Trees BY <1>6 DEF Discard
  <2>2. t \in Trees BY <2>1 DEF Trees
  <2>3. staging' = [staging EXCEPT ![manifest] = t] BY <1>6 DEF Discard
  <2>4. staging' \in [Manifests -> Trees \cup {None}] /\ Tree' = t
    BY <1>6, <2>2, <2>3, TreeReplaced DEF Discard
  <2> HIDE DEF t
  <2> QED BY <1>6, <2>2, <2>4 DEF Discard, End
<1>7. CASE FileReceived
  <2>1. /\ ri' \in Files /\ pc' \in {"file", "install"}
        /\ pc = "acked" /\ UNCHANGED staging
    BY <1>7 DEF FileReceived, IsLast
  <2>2. TypeOK' BY <1>7, <2>1 DEF FileReceived
  <2>3. TreePresent' BY <1>7, <2>1 DEF FileReceived
  <2> QED BY <2>2, <2>3
<1>8. CASE LosePeer BY <1>8 DEF LosePeer, End
<1> QED BY <1>1, <1>2, <1>3, <1>4, <1>5, <1>6, <1>7, <1>8

(* install, and the ends of a receiver.                                    *)
LEMMA InstallTyped ==
    ASSUME Typed,
           \/ CheckTree \/ SealFile \/ SealDirs \/ RemoveMarker \/ Rename
           \/ SyncParent \/ Crash \/ Stop
    PROVE  Typed'
<1> USE DirectoryAssumption
    DEF Typed, TypeOK, TreePresent, Tree, Prepared, Installing,
        SenderSteps, Steps, Files, sender, session, disk, history
<1>1. CASE CheckTree
  <2>1. /\ ri' \in Files /\ pc' \in {"off", "seal"}
        /\ pc = "install" /\ UNCHANGED staging
    <3>1. 1 \in Files OBVIOUS
    <3>2. CASE ValidTree(FALSE) /\ dest = None BY <1>1, <3>1, <3>2 DEF CheckTree
    <3>3. CASE ~(ValidTree(FALSE) /\ dest = None)
      BY <1>1, <3>3 DEF CheckTree, End
    <3> QED BY <3>2, <3>3
  <2>2. TypeOK' BY <1>1, <2>1 DEF CheckTree, End
  <2>3. TreePresent' BY <1>1, <2>1 DEF CheckTree
  <2> QED BY <2>2, <2>3
<1>2. CASE SealFile
  <2> DEFINE t == [Tree EXCEPT !.sealed = @ \cup {ri}]
  <2>1. Tree \in Trees /\ Tree.dirs = Dirs BY <1>2 DEF SealFile
  <2>2. t \in Trees /\ t.dirs = Dirs BY <2>1 DEF Trees
  <2>3. CASE UNCHANGED staging BY <1>2, <2>1, <2>3 DEF SealFile, IsLast, End
  <2>4. CASE staging' = [staging EXCEPT ![manifest] = t]
    <3>1. staging' \in [Manifests -> Trees \cup {None}] /\ Tree' = t
      BY <1>2, <2>2, <2>4, TreeReplaced DEF SealFile
    <3> HIDE DEF t
    <3> QED BY <1>2, <2>2, <3>1 DEF SealFile, IsLast, End
  <2> QED BY <1>2, <2>3, <2>4 DEF SealFile
<1>3. CASE SealDirs BY <1>3 DEF SealDirs
<1>4. CASE RemoveMarker
  <2> DEFINE t == [Tree EXCEPT !.entry[Marker] = None]
  <2>1. Tree \in Trees /\ Tree.dirs = Dirs BY <1>4 DEF RemoveMarker
  <2>2. t \in Trees /\ t.dirs = Dirs BY <2>1 DEF Trees, Marker
  <2>3. staging' = [staging EXCEPT ![manifest] = t] BY <1>4 DEF RemoveMarker, Marker
  <2>4. staging' \in [Manifests -> Trees \cup {None}] /\ Tree' = t
    BY <1>4, <2>2, <2>3, TreeReplaced DEF RemoveMarker
  <2> HIDE DEF t
  <2> QED BY <1>4, <2>2, <2>4 DEF RemoveMarker
<1>5. CASE Rename BY <1>5 DEF Rename, End
<1>6. CASE SyncParent BY <1>6 DEF SyncParent, End
<1>7. CASE Crash BY <1>7 DEF Crash, End
<1>8. CASE Stop BY <1>8 DEF Stop, End
<1> QED BY <1>1, <1>2, <1>3, <1>4, <1>5, <1>6, <1>7, <1>8

LEMMA NextTyped == Typed /\ [Next]_vars => Typed'
BY OthersTyped, StagingTyped, SessionTyped, InstallTyped
   DEF Next, SenderStep, Work

(* Every variable of Directory has its type, also when sessions of several *)
(* senders are mixed up: each staging tree is absent or a tree.            *)
THEOREM TypeCorrect == Spec => []TypeOK
<1>1. Typed => TypeOK BY DEF Typed
<1> QED BY <1>1, InitTyped, NextTyped, PTL DEF Spec

-----------------------------------------------------------------------------
LEMMA InitProgress == Init => InstallProgress
BY DEF Init, InstallProgress, Installing

(* Only install goes on from one of its points to another; all else leaves *)
(* the receiver's tree alone while install runs, or ends elsewhere.        *)
LEMMA Elsewhere ==
    ASSUME Typed, InstallProgress, [Next]_vars,
           ~CheckTree, ~SealFile, ~SealDirs, ~RemoveMarker
    PROVE  InstallProgress'
<1>1. \/ pc' \notin Installing
      \/ UNCHANGED <<pc, manifest, ri, staging>>
  <2> USE DEF Installing, sender, session, disk, history
  <2>1. ASSUME NEW s \in Senders, SenderStep(s) \/ SenderFails(s)
        PROVE  pc' \notin Installing \/ UNCHANGED <<pc, manifest, ri, staging>>
    BY <2>1 DEF SenderStep, Build, ManifestAccepted, FileSent, Desert, SenderFails
  <2>2. CASE User BY <2>2 DEF User, Occupy, RemoveDest, Edit
  <2>3. CASE UNCHANGED vars BY <2>3 DEF vars
  <2>4. CASE Crash \/ Stop BY <2>4 DEF Crash, Stop, End
  <2>5. CASE Listen \/ Checkpoint \/ Discard
    BY <2>5 DEF Listen, Checkpoint, Discard, End
  <2>6. CASE Work
    <3>1. ASSUME NEW s \in Senders, PrepareStaging(s) \/ StartSession(s)
          PROVE  pc' \notin Installing
      BY <3>1 DEF PrepareStaging, StartSession, End
    <3>2. CASE CreateMarker \/ WriteMarker \/ \E d \in Dirs : CreateDir(d)
      BY <3>2 DEF CreateMarker, WriteMarker, CreateDir
    <3>3. CASE StagingReady BY <3>3 DEF StagingReady, End
    <3>4. CASE RenameMap \/ RenamePart \/ UnlinkMap
      BY <3>4 DEF RenameMap, RenamePart, UnlinkMap
    <3>5. CASE FileReceived \/ LosePeer BY <3>5 DEF FileReceived, LosePeer, End
    <3>6. CASE Rename \/ SyncParent BY <3>6 DEF Rename, SyncParent, End
    <3> QED BY <2>6, <3>1, <3>2, <3>3, <3>4, <3>5, <3>6 DEF Work
  <2> QED BY <2>1, <2>2, <2>3, <2>4, <2>5, <2>6 DEF Next
<1> QED BY <1>1 DEF InstallProgress, Installing, Sealed, Tree

LEMMA InstallStep ==
    ASSUME Typed, InstallProgress, MarkerFile = 0,
           CheckTree \/ SealFile \/ SealDirs \/ RemoveMarker
    PROVE  InstallProgress'
<1> USE DirectoryAssumption DEF Typed, TypeOK, Files, Installing, session, disk
<1>1. CASE CheckTree
  BY <1>1 DEF CheckTree, ValidTree, End, InstallProgress, Sealed, Tree
<1>2. CASE SealFile
  <2> DEFINE t == [Tree EXCEPT !.sealed = @ \cup {ri}]
  <2>1. CASE ~Verified(ri) BY <1>2, <2>1 DEF SealFile, End, InstallProgress
  <2>2. CASE Verified(ri)
    <3>1. Tree \in Trees BY <1>2 DEF SealFile, TreePresent
    <3>2. /\ t \in Trees
          /\ t.part = Tree.part /\ t.map = Tree.map /\ t.tmp = Tree.tmp
          /\ t.entry = Tree.entry /\ t.sealed = Tree.sealed \cup {ri}
      BY <3>1 DEF Trees
    <3>3. Tree' = t /\ UNCHANGED manifest
      <4>1. UNCHANGED manifest BY <1>2 DEF SealFile
      <4>2. staging' = [staging EXCEPT ![manifest] = t]
        BY <1>2, <2>2 DEF SealFile, Tree
      <4> HIDE DEF t
      <4> QED BY <3>2, <4>1, <4>2, TreeReplaced
    <3>4. t.part = {} /\ t.map = {} /\ t.tmp = {}
      BY <1>2, <3>2 DEF SealFile, InstallProgress
    <3>5. \A k \in 1 .. ri : Sealed(k)'
      BY <1>2, <2>2, <3>2, <3>3 DEF SealFile, InstallProgress, Sealed, Verified
    <3>6. \/ pc' = "seal" /\ ri' = ri + 1
          \/ pc' = "seal_dirs" /\ ri = N
      BY <1>2, <2>2 DEF SealFile, IsLast
    <3> HIDE DEF t
    <3> QED BY <3>3, <3>4, <3>5, <3>6 DEF InstallProgress
  <2> QED BY <2>1, <2>2
<1>3. CASE SealDirs BY <1>3 DEF SealDirs, InstallProgress, Sealed, Tree
<1>4. CASE RemoveMarker
  <2> DEFINE t == [Tree EXCEPT !.entry[Marker] = None]
  <2>1. Tree \in Trees BY <1>4 DEF RemoveMarker, TreePresent
  <2>2. /\ t \in Trees
        /\ t.part = Tree.part /\ t.map = Tree.map /\ t.tmp = Tree.tmp
        /\ t.sealed = Tree.sealed
        /\ t.entry = [Tree.entry EXCEPT ![0] = None]
    BY <2>1 DEF Trees, Marker
  <2>3. t.entry[0] = None /\ \A k \in Files : t.entry[k] = Tree.entry[k]
    <3>1. Tree.entry \in [0 .. N -> Contents \cup Manifests \cup {None, Torn}]
      BY <2>1 DEF Trees
    <3>2. 0 \in 0 .. N /\ \A k \in Files : k \in 0 .. N /\ k # 0 OBVIOUS
    <3> HIDE DEF t
    <3> QED BY <2>2, <3>1, <3>2
  <2>4. Tree' = t /\ UNCHANGED manifest
    <3>1. UNCHANGED manifest BY <1>4 DEF RemoveMarker
    <3>2. staging' = [staging EXCEPT ![manifest] = t]
      BY <1>4 DEF RemoveMarker, Tree
    <3> HIDE DEF t
    <3> QED BY <2>2, <3>1, <3>2, TreeReplaced
  <2> HIDE DEF t
  <2> QED BY <1>4, <2>2, <2>3, <2>4 DEF RemoveMarker, InstallProgress, Sealed
<1> QED BY <1>1, <1>2, <1>3, <1>4

(* The rename is of the whole tree of the manifest.                        *)
LEMMA RenameIsWhole ==
    ASSUME Typed, InstallProgress, [Next]_vars, dest' \notin {dest, None, Foreign}
    PROVE  dest = None /\ dest' = Whole(manifest)
<1>1. Rename /\ dest = None /\ dest' = Tree
  BY DEF Next, SenderStep, Work, User, vars, sender, session, disk, history,
         Build, ManifestAccepted, FileSent, Desert, SenderFails, Occupy,
         RemoveDest, Edit, Crash, Stop, Listen, Checkpoint, Discard,
         PrepareStaging, StartSession, CreateMarker, WriteMarker, CreateDir,
         StagingReady, RenameMap, RenamePart, UnlinkMap, FileReceived, LosePeer,
         CheckTree, SealFile, SealDirs, RemoveMarker, Rename, SyncParent
<1>2. /\ Tree \in Trees /\ Tree.dirs = Dirs
      /\ Tree.part = {} /\ Tree.map = {} /\ Tree.tmp = {}
      /\ \A k \in Files : Sealed(k)
      /\ Tree.entry[0] = None
  BY <1>1 DEF Rename, Typed, TreePresent, Prepared, Installing, InstallProgress
<1>3. Tree.sealed = Files BY <1>2 DEF Trees, Sealed
<1>4. Tree.entry = [k \in 0 .. N |-> IF k = 0 THEN None ELSE manifest[k]]
  <2>1. \A k \in 0 .. N : k = 0 \/ k \in Files BY DirectoryAssumption DEF Files
  <2> QED BY <1>2, <2>1 DEF Trees, Sealed
<1>5. Tree = Whole(manifest)
  <2>1. Tree = [entry |-> Tree.entry, part |-> Tree.part, map |-> Tree.map,
                tmp |-> Tree.tmp, sealed |-> Tree.sealed, dirs |-> Tree.dirs]
    BY <1>2 DEF Trees
  <2> QED BY <1>2, <1>3, <1>4, <2>1 DEF Whole
<1> QED BY <1>1, <1>5

(* Unless a file of the source has the name of the marker, directory's     *)
(* install puts nothing but the whole tree of the receiver's manifest at a *)
(* free destination, whichever senders' sessions came in which order,      *)
(* whatever was edited and wherever earlier receivers died.                *)
THEOREM InstallIsWhole ==
    ASSUME MarkerFile = 0
    PROVE  Spec => InstallsWholeTree
<1> DEFINE IInv == Typed /\ InstallProgress
<1>1. Init => IInv BY InitTyped, InitProgress
<1>2. IInv /\ [Next]_vars => IInv' BY NextTyped, Elsewhere, InstallStep
<1>3. IInv /\ [Next]_vars =>
        [dest' \notin {dest, None, Foreign} =>
            dest = None /\ dest' = Whole(manifest)]_vars
  BY RenameIsWhole
<1> HIDE DEF IInv
<1> QED BY <1>1, <1>2, <1>3, PTL DEF Spec, InstallsWholeTree

-----------------------------------------------------------------------------
(* A sender alone whose source does not change: sender and receiver are at *)
(* the same file.  A sender that was accepted by an earlier receiver meets *)
(* none that serves it before it has built its manifest anew.              *)
InStep(s) ==
    /\ sent[s] = source /\ manifest = source
    /\ spc[s] \in {"greeting", "waiting", "accepted"} => si[s] = 1
    /\ spc[s] \in {"accepted", "files"} =>
         \/ pc \in {"off", "listen"}
         \/ pc = "file" /\ si[s] = ri
         \/ pc = "acked" /\ spc[s] = "files" /\ si[s] = ri + 1
    /\ spc[s] = "sending" =>
         \/ pc \in {"off", "listen"}
         \/ pc \in InSession /\ si[s] = ri

(* The files that the receiver has passed are staged, also those that it   *)
(* found in a staging tree that an earlier one left.                       *)
StagedSoFar ==
    /\ pc \in {"file", "acked"} \cup InSession =>
         \A k \in 1 .. ri - 1 : Tree.entry[k] = manifest[k]
    /\ pc \in {"receiving", "checkpoint"} => offered = manifest[ri]
    /\ pc \in {"unlink_map", "installed", "acked"} => Tree.entry[ri] = manifest[ri]

SoleInv(s) == InStep(s) /\ StagedSoFar

LEMMA SoleSenderSteps ==
    ASSUME NEW s, Senders = {s}, Typed, SoleInv(s), changes' = 0,
           \/ Build(s) \/ ManifestAccepted(s) \/ FileSent(s) \/ Desert(s)
           \/ SenderFails(s) \/ User \/ UNCHANGED vars
    PROVE  SoleInv(s)'
<1> USE DirectoryAssumption
    DEF Typed, TypeOK, Files, sender, session, disk, history, SoleInv, InStep
<1>1. UNCHANGED <<source, manifest, ri, offered, staging>>
  BY DEF Build, ManifestAccepted, FileSent, Desert, SenderFails, User, Changes,
         Occupy, RemoveDest, Edit, vars
<1>2. UNCHANGED pc \/ (pc = "installed" /\ pc' = "acked")
  BY DEF Build, ManifestAccepted, FileSent, Desert, SenderFails, User, Occupy,
         RemoveDest, Edit, vars
<1>3. StagedSoFar' BY <1>1, <1>2 DEF StagedSoFar, Tree, InSession
<1>4. InStep(s)'
  <2>1. CASE Build(s) BY <1>1, <2>1 DEF Build
  <2>2. CASE ManifestAccepted(s) BY <1>1, <2>2 DEF ManifestAccepted
  <2>3. CASE FileSent(s) BY <1>1, <2>3 DEF FileSent, IsLast, InSession
  <2>4. CASE Desert(s) BY <1>1, <2>4 DEF Desert
  <2>5. CASE SenderFails(s) BY <1>1, <2>5 DEF SenderFails
  <2>6. CASE User
    BY <1>1, <2>6 DEF User, Occupy, RemoveDest, Edit
  <2>7. CASE UNCHANGED vars BY <1>1, <2>7 DEF vars
  <2> QED BY <2>1, <2>2, <2>3, <2>4, <2>5, <2>6, <2>7
<1> QED BY <1>3, <1>4

LEMMA SoleStaging ==
    ASSUME NEW s, Senders = {s}, Typed, SoleInv(s),
           \/ Listen \/ PrepareStaging(s) \/ CreateMarker \/ WriteMarker
           \/ StagingReady
           \/ \E d \in Dirs : CreateDir(d)
    PROVE  SoleInv(s)'
<1> USE DirectoryAssumption
    DEF Typed, TypeOK, Files, sender, session, disk, history, SoleInv, InStep,
        StagedSoFar, InSession
<1>1. CASE Listen BY <1>1 DEF Listen
<1>2. CASE PrepareStaging(s) BY <1>2 DEF PrepareStaging, End
<1>3. CASE CreateMarker \/ WriteMarker \/ \E d \in Dirs : CreateDir(d)
  BY <1>3 DEF CreateMarker, WriteMarker, CreateDir
<1>4. CASE StagingReady
  <2>1. peer = s OBVIOUS
  <2>2. /\ pc = "dirs" /\ spc \in [Senders -> SenderSteps]
        /\ UNCHANGED <<source, sent, si, manifest, staging, offered>>
    BY <1>4 DEF StagingReady
  <2>3. CASE pc' = "off" /\ UNCHANGED <<ri, spc>> BY <2>2, <2>3
  <2>4. CASE /\ pc' = "file" /\ ri' = 1
             /\ spc' = [spc EXCEPT ![s] = IF @ = "waiting" THEN "accepted" ELSE @]
    <3>1. spc'[s] = IF spc[s] = "waiting" THEN "accepted" ELSE spc[s] BY <2>2, <2>4
    <3>2. InStep(s)' BY <2>2, <2>4, <3>1
    <3>3. StagedSoFar' BY <2>4
    <3> QED BY <3>2, <3>3
  <2> QED BY <1>4, <2>1, <2>3, <2>4 DEF StagingReady, End
<1> QED BY <1>1, <1>2, <1>3, <1>4

LEMMA SoleSession ==
    ASSUME NEW s, Senders = {s}, Typed, SoleInv(s),
           \/ StartSession(s)
           \/ Checkpoint \/ RenameMap \/ RenamePart \/ UnlinkMap
           \/ Discard \/ FileReceived \/ LosePeer
    PROVE  SoleInv(s)'
<1> USE DirectoryAssumption
    DEF Typed, TypeOK, Files, sender, session, disk, history, SoleInv
<1>0. pc \in Prepared => Tree \in Trees
  BY DEF TreePresent, Prepared, Installing
<1>1. CASE StartSession(s)
  <2>1. /\ pc = "file" /\ spc[s] = "files" /\ si[s] = ri
        /\ spc' = [spc EXCEPT ![s] = "sending"] /\ offered' = source[si[s]]
        /\ UNCHANGED <<source, sent, si, manifest, ri>>
    BY <1>1 DEF StartSession, InStep
  <2>2. pc' \in {"receiving", "installed"} BY <1>1 DEF StartSession
  <2>3. InStep(s)' BY <2>1, <2>2 DEF InStep, InSession
  <2>4. offered' = manifest[ri] BY <2>1 DEF InStep
  <2>5. /\ Tree'.entry = Tree.entry
        /\ pc' = "installed" => Tree.entry[ri] = manifest[ri]
    <3>1. CASE Tree.entry[ri] = source[si[s]]
      <4>1. UNCHANGED staging BY <1>1, <3>1 DEF StartSession
      <4> QED BY <2>1, <3>1, <4>1 DEF Tree, InStep
    <3>2. CASE Tree.entry[ri] # source[si[s]]
      <4> DEFINE t == [Tree EXCEPT !.part = @ \cup {ri}]
      <4>1. pc' = "receiving" /\ staging' = [staging EXCEPT ![manifest] = t]
        BY <1>1, <3>2 DEF StartSession, Tree
      <4>2. t \in Trees /\ t.entry = Tree.entry
        BY <1>0, <2>1 DEF Trees, Prepared
      <4> HIDE DEF t
      <4> QED BY <2>1, <4>1, <4>2, TreeReplaced
    <3> QED BY <3>1, <3>2
  <2> QED BY <2>1, <2>2, <2>3, <2>4, <2>5 DEF StagedSoFar, InSession
<1>2. CASE Checkpoint
  <2> DEFINE t == [Tree EXCEPT !.tmp = @ \cup {ri}]
  <2>1. /\ pc = "receiving" /\ pc' = "checkpoint"
        /\ staging' = [staging EXCEPT ![manifest] = t]
        /\ UNCHANGED <<source, spc, sent, si, manifest, ri, offered>>
    BY <1>2 DEF Checkpoint, Tree
  <2>2. t \in Trees /\ t.entry = Tree.entry BY <1>0, <2>1 DEF Trees, Prepared
  <2> HIDE DEF t
  <2>3. Tree'.entry = Tree.entry BY <2>1, <2>2, TreeReplaced
  <2> QED BY <2>1, <2>3 DEF StagedSoFar, InStep, InSession
<1>3. CASE RenameMap
  <2> DEFINE t == [Tree EXCEPT !.tmp = @ \ {ri}, !.map = @ \cup {ri}]
  <2>1. /\ pc = "checkpoint" /\ pc' = "receiving"
        /\ UNCHANGED <<source, spc, sent, si, manifest, ri, offered>>
    BY <1>3 DEF RenameMap
  <2>2. t \in Trees /\ t.entry = Tree.entry BY <1>0, <2>1 DEF Trees, Prepared
  <2>3. staging' = [staging EXCEPT ![manifest] = t]
    BY <1>3, <1>0, <2>1 DEF RenameMap, Tree, Trees, Prepared
  <2> HIDE DEF t
  <2>4. Tree'.entry = Tree.entry BY <2>1, <2>2, <2>3, TreeReplaced
  <2> QED BY <2>1, <2>4 DEF StagedSoFar, InStep, InSession
<1>4. CASE RenamePart
  <2> DEFINE t == [Tree EXCEPT !.entry[ri] = offered, !.part = @ \ {ri},
                               !.sealed = @ \ {ri}]
  <2>1. /\ pc = "receiving" /\ pc' = "unlink_map"
        /\ UNCHANGED <<source, spc, sent, si, manifest, ri, offered>>
    BY <1>4 DEF RenamePart
  <2>2. t \in Trees /\ t.entry = [Tree.entry EXCEPT ![ri] = offered]
    BY <1>0, <2>1 DEF Trees, Prepared
  <2>3. staging' = [staging EXCEPT ![manifest] = t]
    BY <1>4, <1>0, <2>1 DEF RenamePart, Tree, Trees, Prepared
  <2> HIDE DEF t
  <2>4. Tree' = t BY <2>1, <2>2, <2>3, TreeReplaced
  <2>5. \A k \in 0 .. N : Tree'.entry[k] = IF k = ri THEN offered ELSE Tree.entry[k]
    BY <1>0, <2>1, <2>2, <2>4 DEF Trees, Prepared
  <2>6. offered = manifest[ri] /\ \A k \in 1 .. ri - 1 : Tree.entry[k] = manifest[k]
    BY <2>1 DEF StagedSoFar, InSession
  <2>7. StagedSoFar' BY <2>1, <2>5, <2>6 DEF StagedSoFar
  <2> QED BY <2>1, <2>7 DEF InStep, InSession
<1>5. CASE UnlinkMap
  <2> DEFINE t == [Tree EXCEPT !.map = @ \ {ri}]
  <2>1. /\ pc = "unlink_map" /\ pc' = "installed"
        /\ staging' = [staging EXCEPT ![manifest] = t]
        /\ UNCHANGED <<source, spc, sent, si, manifest, ri, offered>>
    BY <1>5 DEF UnlinkMap, Tree
  <2>2. t \in Trees /\ t.entry = Tree.entry BY <1>0, <2>1 DEF Trees, Prepared
  <2> HIDE DEF t
  <2>3. Tree'.entry = Tree.entry BY <2>1, <2>2, TreeReplaced
  <2> QED BY <2>1, <2>3 DEF StagedSoFar, InStep, InSession
<1>6. CASE Discard \/ LosePeer
  BY <1>6 DEF Discard, LosePeer, End, StagedSoFar, InStep, InSession
<1>7. CASE FileReceived
  BY <1>7 DEF FileReceived, IsLast, StagedSoFar, InStep, InSession, Tree
<1> QED BY <1>1, <1>2, <1>3, <1>4, <1>5, <1>6, <1>7

LEMMA SoleInstall ==
    ASSUME NEW s, Senders = {s}, Typed, SoleInv(s),
           \/ CheckTree \/ SealFile \/ SealDirs \/ RemoveMarker
           \/ Rename \/ SyncParent \/ Crash \/ Stop
    PROVE  SoleInv(s)'
<1>1. /\ UNCHANGED <<source, sent, spc, si, manifest>>
      /\ pc' \notin {"file", "acked"} \cup InSession
      /\ pc' = "off" \/ pc \notin {"off", "listen", "file", "acked"} \cup InSession
  BY DEF CheckTree, SealFile, SealDirs, RemoveMarker, Rename, SyncParent, Crash,
         Stop, End, sender, session, InSession
<1> QED BY <1>1 DEF SoleInv, InStep, StagedSoFar, InSession

LEMMA NextSole ==
    ASSUME NEW s, Senders = {s}, Typed, changes = 0 => SoleInv(s), [Next]_vars
    PROVE  changes' = 0 => SoleInv(s)'
<1> SUFFICES ASSUME changes' = 0 PROVE SoleInv(s)' OBVIOUS
<1>1. changes = 0
  <2>1. changes \in Nat BY DEF Typed, TypeOK
  <2>2. changes' \in {changes, changes + 1}
    BY DEF Next, SenderStep, Work, User, vars, sender, session, disk, history,
       Build, ManifestAccepted, FileSent, Desert, SenderFails, Occupy,
       RemoveDest, Edit, Crash, Stop, Listen, Checkpoint, Discard, Changes,
       PrepareStaging, StartSession, CreateMarker, WriteMarker, CreateDir,
       StagingReady, RenameMap, RenamePart, UnlinkMap, FileReceived, LosePeer,
       CheckTree, SealFile, SealDirs, RemoveMarker, Rename, SyncParent
  <2> QED BY <2>1, <2>2
<1>2. SoleInv(s) BY <1>1
<1> QED BY <1>2, SoleSenderSteps, SoleStaging, SoleSession, SoleInstall
        DEF Next, SenderStep, Work

(* A sender reports success only at the end of the last file's session.    *)
LEMMA SuccessIsStaged ==
    ASSUME NEW s, Senders = {s}, Typed, SoleInv(s), [Next]_vars,
           spc'[s] = "ok", spc[s] # "ok"
    PROVE  \A k \in Files : staging[sent[s]].entry[k] = sent[s][k]
<1>1. FileSent(s) /\ IsLast(si[s])
  <2> USE DEF Typed, TypeOK
  <2>1. CASE \E r \in Senders : SenderStep(r) \/ SenderFails(r)
    BY <2>1 DEF SenderStep, SenderFails, Build, ManifestAccepted, FileSent, Desert
  <2>2. CASE UNCHANGED spc BY <2>2
  <2>3. CASE \E r \in Senders : PrepareStaging(r) \/ StartSession(r)
    BY <2>3 DEF PrepareStaging, StartSession
  <2>4. CASE StagingReady BY <2>4 DEF StagingReady
  <2> QED BY <2>1, <2>2, <2>3, <2>4
      DEF Next, Work, User, vars, sender, Occupy, RemoveDest, Edit, Crash, Stop, Listen,
       Checkpoint, Discard, CreateMarker, WriteMarker, CreateDir,
       RenameMap, RenamePart, UnlinkMap, FileReceived, LosePeer,
       CheckTree, SealFile, SealDirs, RemoveMarker, Rename, SyncParent
<1>2. pc = "installed" /\ spc[s] = "sending" /\ si[s] = N
  BY <1>1 DEF FileSent, IsLast
<1>3. ri = N /\ sent[s] = manifest BY <1>2 DEF SoleInv, InStep, InSession
<1>4. \A k \in 1 .. ri : Tree.entry[k] = manifest[k]
  <2>1. \A k \in 1 .. ri : k = ri \/ k \in 1 .. ri - 1
    BY DEF Typed, TypeOK, Files
  <2> QED BY <1>2, <2>1 DEF SoleInv, StagedSoFar, InSession
<1> QED BY <1>3, <1>4 DEF Files, Tree

(* A send_dir that nobody competes with, of a source that does not change, *)
(* ends well only when every file of its manifest is staged: whatever      *)
(* attempts came before and wherever receivers died, it never skips a file *)
(* that a resumed receiver still lacks, for any number of files.           *)
THEOREM SuccessIsMeant ==
    ASSUME NEW only, Senders = {only}
    PROVE  Spec => SuccessMeansStaged
<1> DEFINE I == Typed /\ (changes = 0 => SoleInv(only))
<1>1. Init => I
  <2> SUFFICES ASSUME Init PROVE I OBVIOUS
  <2>1. SoleInv(only) BY DEF Init, SoleInv, InStep, StagedSoFar, InSession
  <2> QED BY <2>1, InitTyped
<1>2. I /\ [Next]_vars => I' BY NextTyped, NextSole
<1>3. I /\ [Next]_vars => [StagedAtSuccess]_vars
  BY SuccessIsStaged DEF StagedAtSuccess
<1> HIDE DEF I
<1> QED BY <1>1, <1>2, <1>3, PTL DEF Spec, SuccessMeansStaged
=============================================================================
