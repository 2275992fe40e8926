------------------------------- MODULE Reuse --------------------------------
(***************************************************************************)
(* Content reuse: the sender offers a manifest of content-defined chunks   *)
(* (cdc.rs), and apply_reusable_content copies the chunks that the         *)
(* --reuse-from candidate has too into the .part file and marks the        *)
(* packets they cover, before the first datagram is sent.                  *)
(*                                                                         *)
(* Chunks end where the content says so, packets every Payload bytes.  A   *)
(* chunk's hash is its content.  The rolling hash depends on the bytes of  *)
(* the chunk; at which of them it is zero is a parameter.  Source and      *)
(* candidate may be edited between any two reads of them; a scan is one    *)
(* read.                                                                   *)
(***************************************************************************)
EXTENDS Integers, FiniteSets, Sequences, SequencesExt

CONSTANTS Bytes,
          Cuts,                \* chunks after which the rolling hash is zero
          MinChunk, MaxChunk,  \* MIN_CHUNK_BYTES, MAX_CHUNK_BYTES
          MaxChunks,           \* MAX_CHUNKS of a manifest
          MaxEncoded,          \* MAX_ENCODED_BYTES of its text
          Payload,             \* udp_payload_bytes
          Files,               \* what source and candidate may be at first
          MaxEdits,            \* bound: edits of the two files
          None,                \* no candidate
          Hole                 \* a byte of the .part file not written yet

ASSUME ReuseAssumption ==
    /\ Cuts \subseteq Seq(Bytes)
    /\ MaxChunks \in Nat /\ MaxEncoded \in Nat
    /\ MinChunk \in Nat \ {0} /\ MaxChunk \in Nat /\ MinChunk <= MaxChunk
    /\ Payload \in Nat \ {0}
    /\ Files \subseteq Seq(Bytes)
    /\ MaxEdits \in Nat
    /\ Hole \notin Bytes
    /\ None \notin Seq(Bytes)

VARIABLES
    source,     \* the file to send
    candidate,  \* the receiver's --reuse-from file, or None
    pc,         \* the next step of the two processes
    size,       \* of hello
    object,     \* the content whose hash hello names
    target,     \* the source's chunks
    available,  \* the candidate's chunks
    part,       \* the .part file
    bitmap,     \* the packets held
    at,         \* the chunk of target to copy next
    copied,     \* ranges [from, to) that were copied
    edited,     \* history: the source was edited
    edits       \* history

vars == <<source, candidate, pc, size, object, target, available, part, bitmap,
          at, copied, edited, edits>>

Init ==
    /\ source \in Files
    /\ candidate \in Files \cup {None}
    /\ pc = "hash"
    /\ size = Len(source)
    /\ object = <<>> /\ target = <<>> /\ available = <<>>
    /\ part = <<>> /\ bitmap = {}
    /\ at = 1 /\ copied = <<>>
    /\ edited = FALSE /\ edits = 0

-----------------------------------------------------------------------------
(* scan: the file cut into chunks.                                         *)
Chunk(offset, bytes) == [offset |-> offset, length |-> Len(bytes), hash |-> bytes]

push_chunk(chunks, bytes) ==
    LET last == chunks[Len(chunks)]
        offset == IF chunks = <<>> THEN 0 ELSE last.offset + last.length
    IN  Append(chunks, Chunk(offset, bytes))

IsEnd(chunk) ==
    /\ Len(chunk) >= MinChunk
    /\ chunk \in Cuts \/ Len(chunk) >= MaxChunk

(* One byte more: the chunks so far, and the bytes of the one under way.   *)
TakeByte(state, byte) ==
    LET chunk == Append(state.chunk, byte)
    IN  IF IsEnd(chunk)
        THEN [chunks |-> push_chunk(state.chunks, chunk), chunk |-> <<>>]
        ELSE [chunks |-> state.chunks, chunk |-> chunk]

Scanned(file) ==
    LET state[n \in 0 .. Len(file)] ==
            IF n = 0 THEN [chunks |-> <<>>, chunk |-> <<>>]
            ELSE TakeByte(state[n - 1], file[n])
    IN  state

scan(file) ==
    LET end == Scanned(file)[Len(file)]
    IN  IF end.chunk = <<>> THEN end.chunks ELSE push_chunk(end.chunks, end.chunk)

Covered(chunks) ==
    IF chunks = <<>> THEN 0 ELSE Last(chunks).offset + Last(chunks).length

(* How many decimal digits a u64 is written with.                          *)
Digits(n) ==
    LET quotient[k \in 0 .. 19] == IF k = 0 THEN n ELSE quotient[k - 1] \div 10
    IN  1 + Cardinality({k \in 1 .. 19 : quotient[k] > 0})

(* How long the text of a manifest is: a line "CDC1 size count", then for  *)
(* each chunk a line "C offset length hash" with 64 digits of hash.        *)
BodyLengths(chunks) ==
    LET length[n \in 0 .. Len(chunks)] ==
            IF n = 0 THEN 7 + Digits(Covered(chunks)) + Digits(Len(chunks))
            ELSE length[n - 1] + 69 + Digits(chunks[n].offset) + Digits(chunks[n].length)
    IN  length

canonical_body(chunks) == BodyLengths(chunks)[Len(chunks)]

(* The last line, "CHASH hash", has 71 bytes with its end.                 *)
encode(chunks) == canonical_body(chunks) + 71

(* push_chunk fails, and scan with it.                                     *)
TooMany(chunks) == Len(chunks) > MaxChunks

(* scan leaves room for 70 bytes after the body.                           *)
ScanFails(chunks) == TooMany(chunks) \/ canonical_body(chunks) + 70 > MaxEncoded

(* Seeded fault: a short last chunk is refused.                            *)
StrictLength(chunk, total) == chunk.length \in MinChunk .. MaxChunk

(* Only the last chunk may be short.                                       *)
ValidLength(chunk, total) ==
    /\ chunk.length \in 1 .. MaxChunk
    /\ chunk.length < MinChunk => chunk.offset + chunk.length = total

(* parse and read_reuse_manifest: what the receiver asks of a manifest.    *)
Accepted(chunks) ==
    /\ \A k \in 1 .. Len(chunks) :
          /\ chunks[k].offset = Covered(SubSeq(chunks, 1, k - 1))
          /\ ValidLength(chunks[k], Covered(chunks))
    /\ Covered(chunks) = size
    /\ ~TooMany(chunks)
    /\ encode(chunks) <= MaxEncoded

-----------------------------------------------------------------------------
(* The sender reads the source's size, its hash and its chunks.            *)
HashSource ==
    /\ pc = "hash"
    /\ object' = source
    /\ pc' = "scan"
    /\ UNCHANGED <<source, candidate, size, target, available, part, bitmap,
                   at, copied, edited, edits>>

ScanSource ==
    /\ pc = "scan"
    /\ target' = scan(source)
    /\ pc' = IF ScanFails(target') THEN "error" ELSE "parse"
    /\ UNCHANGED <<source, candidate, size, object, available, part, bitmap,
                   at, copied, edited, edits>>

Packets == 0 .. (size + Payload - 1) \div Payload - 1
Start(c) == c * Payload
Upto(c) == IF Start(c) + Payload < size THEN Start(c) + Payload ELSE size
Within(c) == Start(c) + 1 .. Upto(c)
PacketOf(i) == (i - 1) \div Payload

(* read_reuse_manifest, then ResumeState::open with what an earlier        *)
(* session has left of the object.                                         *)
OpenPart ==
    /\ pc = "parse"
    /\ \/ /\ ~Accepted(target)
          /\ pc' = "error"
          /\ UNCHANGED <<part, bitmap>>
       \/ /\ Accepted(target)
          /\ \E held \in SUBSET Packets :
                /\ bitmap' = held
                /\ part' = [i \in 1 .. size |->
                              IF PacketOf(i) \in held /\ i <= Len(object)
                              THEN object[i] ELSE Hole]
          /\ pc' = "candidate"
    /\ UNCHANGED <<source, candidate, size, object, target, available, at,
                   copied, edited, edits>>

(* A missing candidate is no error, one that cannot be scanned is.         *)
ScanCandidate ==
    /\ pc = "candidate"
    /\ IF candidate = None
       THEN pc' = "done" /\ UNCHANGED available
       ELSE /\ available' = scan(candidate)
            /\ pc' = IF ScanFails(available') THEN "error" ELSE "open"
    /\ UNCHANGED <<source, candidate, size, object, target, part, bitmap, at,
                   copied, edited, edits>>

OpenCandidate ==
    /\ pc = "open"
    /\ pc' = IF candidate = None THEN "error" ELSE "copy"
    /\ UNCHANGED <<source, candidate, size, object, target, available, part,
                   bitmap, at, copied, edited, edits>>

(* The first of the candidate's chunks that is the same by length and hash.*)
Matches(chunk) ==
    {k \in 1 .. Len(available) : available[k].hash = chunk.hash}

FirstMatch(chunk) == CHOOSE k \in Matches(chunk) : \A j \in Matches(chunk) : k <= j

(* Seeded fault: the scan is trusted, what is read is not hashed again.    *)
TrustScan(chunk, from) == TRUE

SameContent(chunk, from) ==
    SubSeq(candidate, from + 1, from + chunk.length) = chunk.hash

(* One turn of the copy loop, over the target's chunks.                    *)
CopyChunk ==
    /\ pc = "copy"
    /\ at <= Len(target)
    /\ LET chunk == target[at]
           from == available[FirstMatch(chunk)].offset
       IN  IF Matches(chunk) = {}
           THEN UNCHANGED <<pc, part, copied>>
           ELSE \/ /\ from + chunk.length > Len(candidate)
                   /\ pc' = "error"
                   /\ UNCHANGED <<part, copied>>
                \/ /\ from + chunk.length <= Len(candidate)
                   /\ ~SameContent(chunk, from)
                   /\ UNCHANGED <<pc, part, copied>>
                \/ /\ from + chunk.length <= Len(candidate)
                   /\ SameContent(chunk, from)
                   /\ part' = [i \in DOMAIN part |->
                                 IF i \in chunk.offset + 1 .. chunk.offset + chunk.length
                                 THEN candidate[from + i - chunk.offset]
                                 ELSE part[i]]
                   /\ copied' = Append(copied, [from |-> chunk.offset,
                                                to |-> chunk.offset + chunk.length])
                   /\ UNCHANGED pc
    /\ at' = at + 1
    /\ UNCHANGED <<source, candidate, size, object, target, available, bitmap,
                   edited, edits>>

(* Seeded fault: adjacent ranges stay apart.                               *)
Overlap(range, last) == range.from < last.to

Joins(range, last) == range.from <= last.to

AddRange(ranges, range) ==
    LET last == Last(ranges)
        joint == [from |-> last.from,
                  to |-> IF range.to > last.to THEN range.to ELSE last.to]
    IN  IF ranges # <<>> /\ Joins(range, last)
        THEN [ranges EXCEPT ![Len(ranges)] = joint]
        ELSE Append(ranges, range)

Merging(list) ==
    LET ranges[n \in 0 .. Len(list)] ==
            IF n = 0 THEN <<>> ELSE AddRange(ranges[n - 1], list[n])
    IN  ranges

merged == Merging(copied)[Len(copied)]

(* Seeded fault: a packet that a range reaches into counts as covered.     *)
ReachedInto(range, c) == range.from <= Start(c)

CoveredBy(range, c) == range.from <= Start(c) /\ range.to >= Upto(c)

(* A packet is held when the first range that ends after its start covers  *)
(* all of it.                                                              *)
Reused ==
    {c \in Packets :
        \E k \in 1 .. Len(merged) :
            /\ merged[k].to > Start(c)
            /\ \A j \in 1 .. k - 1 : merged[j].to <= Start(c)
            /\ CoveredBy(merged[k], c)}

MarkReused ==
    /\ pc = "copy"
    /\ at > Len(target)
    /\ bitmap' = bitmap \cup Reused
    /\ pc' = "done"
    /\ UNCHANGED <<source, candidate, size, object, target, available, part,
                   at, copied, edited, edits>>

-----------------------------------------------------------------------------
(* A byte of a file is changed, or its last one is cut off.                *)
Edited(file) ==
    {[file EXCEPT ![i] = b] : i \in DOMAIN file, b \in Bytes}
        \cup (IF file = <<>> THEN {} ELSE {SubSeq(file, 1, Len(file) - 1)})

EditSource ==
    /\ pc \in {"hash", "scan"}
    /\ edits < MaxEdits
    /\ edits' = edits + 1
    /\ source' \in Edited(source) \ {source}
    /\ edited' = TRUE
    /\ UNCHANGED <<candidate, pc, size, object, target, available, part, bitmap,
                   at, copied>>

EditCandidate ==
    /\ pc \in {"open", "copy"}
    /\ edits < MaxEdits
    /\ edits' = edits + 1
    /\ candidate # None
    /\ candidate' \in (Edited(candidate) \ {candidate})
                        \cup (IF pc = "open" THEN {None} ELSE {})
    /\ UNCHANGED <<source, pc, size, object, target, available, part, bitmap,
                   at, copied, edited>>

Next ==
    \/ HashSource \/ ScanSource
    \/ OpenPart \/ ScanCandidate \/ OpenCandidate \/ CopyChunk \/ MarkReused
    \/ EditSource \/ EditCandidate

Spec == Init /\ [][Next]_vars

-----------------------------------------------------------------------------
(* What apply_reusable_content claims is true: as long as the source was   *)
(* not edited, every packet marked as held has the bytes of the object,    *)
(* also when the candidate was edited after it was scanned, and packets    *)
(* held from an earlier session keep theirs when they are written over.    *)
ClaimsAreTrue ==
    ~edited => \A c \in bitmap : \A i \in Within(c) : part[i] = object[i]

(* The bytes of the target in chunks that the candidate has as well.       *)
Shared ==
    UNION {chunk.offset + 1 .. chunk.offset + chunk.length :
              chunk \in {k \in ToSet(target) : Matches(k) # {}}}

(* Nothing is sent that could have been reused: without edits a packet     *)
(* whose bytes are all in shared chunks is marked, also when it straddles  *)
(* chunks that come from different places of the candidate.                *)
ReuseIsComplete ==
    pc = "done" /\ edits = 0 =>
        \A c \in Packets : Within(c) \subseteq Shared => c \in bitmap

(* Reuse is an optimisation: of whatever files, it fails a transfer only   *)
(* when one of them was changed under it or is beyond the limits of a      *)
(* manifest that scan tests, in chunks or in bytes.  cdc::parse accepts    *)
(* whatever cdc::scan produces but for one length: scan counts 70 bytes    *)
(* for a last line of 71, so a manifest one byte too long passes scan, and *)
(* the receiver refuses it after the hello.                                *)
NoSpuriousFailure ==
    pc = "error" => \/ edits > 0
                    \/ ScanFails(target) \/ ScanFails(available)
                    \/ encode(target) = MaxEncoded + 1
=============================================================================
