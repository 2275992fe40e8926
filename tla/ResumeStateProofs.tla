------------------------- MODULE ResumeStateProofs -------------------------
(***************************************************************************)
(* Proofs about ResumeState, for every number of chunks, every set of      *)
(* objects and any number of crashes.                                      *)
(***************************************************************************)
EXTENDS ResumeState, TLAPS

(* The .part file is in place from set_len to the install or the discard,  *)
(* and what a power loss leaves of it has the same length.                 *)
PartInPlace ==
    /\ pc \notin {"off", "set_len", "unlink_map"} => part \in Objects
    /\ part \in Objects <=> stable \in Objects

(* While the receive loop runs the map is the process's own and claims no  *)
(* more than its bitmap.                                                   *)
MapIsOwn ==
    pc \in {"run", "sync_data", "rename_map"} =>
        map # None /\ map.id = id /\ map.chunks \subseteq bitmap

(* What the bitmap says was written; by the rename of the map it is also   *)
(* durable.                                                                *)
BitmapWritten ==
    /\ Truncated => bitmap = {}
    /\ ~torn /\ pc \in {"run", "sync_data", "rename_map"} =>
            \A c \in bitmap : part[c] = id[c]
    /\ ~torn /\ pc = "rename_map" => \A c \in bitmap : stable[c] = id[c]

(* Between the comparison of the hashes and the rename.                    *)
ReadyToInstall == pc = "install" => part = id /\ stable = id

IInv ==
    /\ TypeOK
    /\ PartInPlace
    /\ MapIsOwn
    /\ BitmapWritten
    /\ ReadyToInstall
    /\ ClaimsDurableUnlessTorn

-----------------------------------------------------------------------------
LEMMA BlankIsObject == Blank \in Objects
BY ResumeAssumption DEF Blank, Objects

LEMMA InitIInv == Init => IInv
<1> SUFFICES ASSUME Init PROVE IInv
  OBVIOUS
<1>1. TypeOK BY ResumeAssumption DEF Init, TypeOK, Files, Steps
<1>2. PartInPlace BY DEF Init, PartInPlace
<1>3. MapIsOwn /\ BitmapWritten /\ ReadyToInstall
  BY DEF Init, MapIsOwn, BitmapWritten, ReadyToInstall, Truncated
<1>4. ClaimsDurableUnlessTorn BY DEF Init, ClaimsDurableUnlessTorn, ClaimsDurable
<1> QED BY <1>1, <1>2, <1>3, <1>4 DEF IInv

(* The type invariant is inductive with the place of the .part file.       *)
LEMMA NextTypeOK ==
    ASSUME TypeOK, PartInPlace, ReadyToInstall, [Next]_vars
    PROVE  TypeOK'
<1> USE ResumeAssumption DEF TypeOK, Files, Steps, history
<1>1. ASSUME NEW object \in Ids, Open(object) PROVE TypeOK'
  BY <1>1 DEF Open, Trusted, Maps
<1>2. CASE SetLen
  BY <1>2, BlankIsObject DEF SetLen
<1>3. ASSUME NEW c \in Chunks, Write(c) PROVE TypeOK'
  <2>1. part \in Objects /\ id \in Objects BY <1>3 DEF Write, PartInPlace
  <2>2. part' \in Objects BY <1>3, <2>1 DEF Write, Objects
  <2> QED BY <1>3, <2>2 DEF Write
<1>4. CASE CheckpointStart BY <1>4 DEF CheckpointStart
<1>5. CASE SyncData BY <1>5 DEF SyncData
<1>6. CASE RenameMap BY <1>6 DEF RenameMap, Maps
<1>7. CASE SyncAll BY <1>7 DEF SyncAll
<1>8. CASE Install BY <1>8 DEF Install, ReadyToInstall
<1>9. CASE UnlinkMap BY <1>9 DEF UnlinkMap
<1>10. CASE Discard BY <1>10 DEF Discard
<1>11. ASSUME NEW c \in Chunks, Writeback(c) PROVE TypeOK'
  <2>1. stable' \in Objects BY <1>11 DEF Writeback, Objects
  <2> QED BY <1>11, <2>1 DEF Writeback
<1>12. CASE Crash BY <1>12 DEF Crash, Crashed
<1>13. CASE PowerLoss BY <1>13 DEF PowerLoss, Crashed
<1>14. CASE RemoveDest BY <1>14 DEF RemoveDest
<1>15. CASE UNCHANGED vars BY <1>15 DEF vars
<1> QED
  BY <1>1, <1>2, <1>3, <1>4, <1>5, <1>6, <1>7, <1>8, <1>9, <1>10, <1>11,
     <1>12, <1>13, <1>14, <1>15 DEF Next, Step

(* Every step keeps the other parts of the invariant.                      *)
LEMMA NextIInv == IInv /\ [Next]_vars => IInv'
<1> SUFFICES ASSUME IInv, [Next]_vars PROVE IInv'
  OBVIOUS
<1>t. TypeOK' BY NextTypeOK DEF IInv
<1>i. TypeOK /\ PartInPlace /\ MapIsOwn /\ BitmapWritten /\ ReadyToInstall
      /\ ClaimsDurableUnlessTorn
  BY DEF IInv
<1> DEFINE Rest == /\ PartInPlace
                   /\ MapIsOwn
                   /\ BitmapWritten
                   /\ ReadyToInstall
                   /\ ClaimsDurableUnlessTorn
<1> SUFFICES Rest'
  BY <1>t DEF IInv
<1> USE ResumeAssumption
    DEF PartInPlace, MapIsOwn, BitmapWritten, ReadyToInstall,
        ClaimsDurableUnlessTorn, ClaimsDurable, Truncated, history
<1>1. ASSUME NEW object \in Ids, Open(object) PROVE Rest'
  <2>1. CASE Trusted(object)
    BY <1>1, <2>1, <1>i DEF Open, Trusted, TypeOK, Files, Maps
  <2>2. CASE ~Trusted(object)
    BY <1>1, <2>2, <1>i DEF Open
  <2> QED BY <2>1, <2>2
<1>2. CASE SetLen
  BY <1>2, <1>i, BlankIsObject DEF SetLen
<1>3. ASSUME NEW c \in Chunks, Write(c) PROVE Rest'
  <2>1. part \in Objects /\ id \in Objects BY <1>3, <1>i DEF Write, TypeOK
  <2>2. part' \in Objects BY <1>3, <2>1 DEF Write, Objects
  <2>3. part'[c] = id[c] /\ \A d \in Chunks : d # c => part'[d] = part[d]
    BY <1>3, <2>1 DEF Write, Objects
  <2>4. pc = "run" /\ map \in Maps /\ map.chunks \subseteq bitmap /\ c \notin bitmap
    BY <1>3, <1>i DEF Write, TypeOK
  <2>5. bitmap \subseteq Chunks BY <1>i DEF TypeOK
  <2> QED BY <1>3, <1>i, <2>2, <2>3, <2>4, <2>5 DEF Write
<1>4. CASE CheckpointStart BY <1>4, <1>i DEF CheckpointStart
<1>5. CASE SyncData BY <1>5, <1>i DEF SyncData
<1>6. CASE RenameMap
  <2>1. map' \in Maps /\ map'.id = id /\ map'.chunks = bitmap
    BY <1>6, <1>i DEF RenameMap, TypeOK, Maps
  <2> QED BY <1>6, <1>i, <2>1 DEF RenameMap
<1>7. CASE SyncAll BY <1>7, <1>i DEF SyncAll, HashMatches
<1>8. CASE Install BY <1>8, <1>i DEF Install
<1>9. CASE UnlinkMap BY <1>9, <1>i DEF UnlinkMap
<1>10. CASE Discard BY <1>10, <1>i DEF Discard
<1>11. ASSUME NEW c \in Chunks, Writeback(c) PROVE Rest'
  <2>1. /\ stable' \in Objects
        /\ stable'[c] = part[c]
        /\ \A d \in Chunks : d # c => stable'[d] = stable[d]
    BY <1>11 DEF Writeback, Objects
  <2>2. bitmap \subseteq Chunks /\ (map # None => map.chunks \subseteq Chunks)
    BY <1>i DEF TypeOK, Maps
  <2>3. pc = "install" => stable' = id
    BY <1>11, <1>i DEF Writeback, Objects
  <2> QED BY <1>11, <1>i, <2>1, <2>2, <2>3 DEF Writeback
<1>12. CASE Crash BY <1>12, <1>i DEF Crash, Crashed
<1>13. CASE PowerLoss BY <1>13, <1>i DEF PowerLoss, Crashed
<1>14. CASE RemoveDest BY <1>14, <1>i DEF RemoveDest
<1>15. CASE UNCHANGED vars BY <1>15, <1>i DEF vars
<1> QED
  BY <1>1, <1>2, <1>3, <1>4, <1>5, <1>6, <1>7, <1>8, <1>9, <1>10, <1>11,
     <1>12, <1>13, <1>14, <1>15 DEF Next, Step

-----------------------------------------------------------------------------
(* The inductive invariant holds in every reachable state.                 *)
THEOREM Invariance == Spec => []IInv
BY InitIInv, NextIInv, PTL DEF Spec

(* The files and the process always have their types.                      *)
THEOREM TypeCorrect == Spec => []TypeOK
<1>1. IInv => TypeOK BY DEF IInv
<1> QED BY <1>1, Invariance, PTL

(* checkpoint's order of sync and rename makes every claim of the map      *)
(* durable, for any number of chunks, objects, crashes and power losses,   *)
(* as long as no crash falls between the truncation and the new map in     *)
(* ResumeState::open.                                                      *)
THEOREM ClaimsAreDurable == Spec => []ClaimsDurableUnlessTorn
<1>1. IInv => ClaimsDurableUnlessTorn BY DEF IInv
<1> QED BY <1>1, Invariance, PTL

(* Nothing but the whole object of the process, already on stable storage, *)
(* is ever renamed over the destination, also after a torn open.           *)
THEOREM InstallIsWhole == Spec => InstallsWholeObject
<1> DEFINE Good == dest' # dest /\ dest' # None => dest' = id /\ stable = id
<1>1. IInv /\ [Next]_vars => [Good]_vars
  <2> SUFFICES ASSUME IInv, [Next]_vars, dest' # dest, dest' # None
               PROVE  dest' = id /\ stable = id
    BY DEF vars
  <2>1. CASE Install BY <2>1 DEF Install, IInv, ReadyToInstall
  <2>2. CASE RemoveDest BY <2>2 DEF RemoveDest
  <2> QED
    BY <2>1, <2>2
       DEF Next, Step, vars, Open, SetLen, Write, CheckpointStart, SyncData,
           RenameMap, SyncAll, UnlinkMap, Discard, Writeback, Crash, PowerLoss
<1> QED BY <1>1, Invariance, PTL DEF Spec, InstallsWholeObject
=============================================================================
