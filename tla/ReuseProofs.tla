---------------------------- MODULE ReuseProofs -----------------------------
(***************************************************************************)
(* Proofs about Reuse, for files of every length, every rolling hash, all  *)
(* bounds of a chunk and of a manifest and every packet size.              *)
(*                                                                         *)
(* Section 1 has induction and recursion over natural numbers, section 2   *)
(* what scan computes, section 3 what the merging of ranges computes,      *)
(* section 4 the packets, section 5 the invariant and the theorems.        *)
(***************************************************************************)
EXTENDS Reuse, FiniteSetTheorems, SequenceTheorems, WellFoundedInduction, TLAPS

-----------------------------------------------------------------------------
(* 1. A set of natural numbers that is not empty has a least element.      *)
LEMMA LeastNatural ==
    ASSUME NEW T, T \subseteq Nat, T # {}
    PROVE  \E x \in T : \A y \in T : x <= y
<1> DEFINE R == OpToRel(<, Nat)
<1>1. \A x, y \in Nat : y < x => <<y, x>> \in R BY DEF OpToRel
<1>2. IsWellFoundedOn(R, Nat) BY NatLessThanWellFounded
<1> HIDE DEF R
<1>3. \E x \in T : \A y \in T : ~(<<y, x>> \in R) BY <1>2, WFMin
<1>4. PICK x \in T : \A y \in T : ~(<<y, x>> \in R) BY <1>3
<1>5. \A y \in T : ~(y < x) BY <1>1, <1>4
<1>6. \A y \in T : x <= y BY <1>5
<1> QED BY <1>6

(* Induction up to n, for the set of the numbers that have a property.     *)
LEMMA Induction ==
    ASSUME NEW n \in Nat, NEW G, 0 \in G,
           \A k \in 1 .. n : k - 1 \in G => k \in G
    PROVE  \A k \in 0 .. n : k \in G
<1> DEFINE T == {k \in 0 .. n : k \notin G}
<1> SUFFICES ASSUME T # {} PROVE FALSE OBVIOUS
<1>1. T \subseteq Nat OBVIOUS
<1>2. PICK x \in T : \A y \in T : x <= y
  <2> HIDE DEF T
  <2> QED BY <1>1, LeastNatural
<1>3. x \in 0 .. n /\ x \notin G OBVIOUS
<1>4. x # 0 BY <1>3
<1>5. x \in 1 .. n BY <1>3, <1>4
<1>6. x - 1 \in 0 .. n /\ ~(x <= x - 1) BY <1>5
<1>7. x - 1 \in G BY <1>2, <1>6
<1> QED BY <1>3, <1>5, <1>7

(* A function may be defined by recursion over the numbers up to n.        *)
Steps(S) == [S \X Nat -> S]

Follows(g, base, step, n) ==
    /\ g[0] = base
    /\ \A k \in 1 .. n : g[k] = step[<<g[k - 1], k>>]

LEMMA Recursion ==
    ASSUME NEW S, NEW base \in S, NEW step \in Steps(S), NEW n \in Nat
    PROVE  \E g \in [0 .. n -> S] : Follows(g, base, step, n)
<1> USE DEF Steps, Follows
<1> DEFINE Good(m) == \E g \in [0 .. m -> S] :
                         /\ g[0] = base
                         /\ \A k \in 1 .. m : g[k] = step[<<g[k - 1], k>>]
           G == {m \in 0 .. n : Good(m)}
<1>1. Good(0)
  <2> DEFINE g == [k \in 0 .. 0 |-> base]
  <2>1. g \in [0 .. 0 -> S] /\ g[0] = base OBVIOUS
  <2>2. \A k \in 1 .. 0 : g[k] = step[<<g[k - 1], k>>] OBVIOUS
  <2> QED BY <2>1, <2>2
<1>2. ASSUME NEW m \in 1 .. n, Good(m - 1)
      PROVE  Good(m)
  <2>1. PICK g \in [0 .. m - 1 -> S] :
               /\ g[0] = base
               /\ \A k \in 1 .. m - 1 : g[k] = step[<<g[k - 1], k>>]
    BY <1>2
  <2> DEFINE h == [k \in 0 .. m |-> IF k = m THEN step[<<g[m - 1], m>>] ELSE g[k]]
  <2>2. g[m - 1] \in S OBVIOUS
  <2>3. step[<<g[m - 1], m>>] \in S BY <2>2
  <2>4. h \in [0 .. m -> S] BY <2>3
  <2>5. h[0] = base BY <2>1
  <2>6. \A k \in 1 .. m : h[k] = step[<<h[k - 1], k>>]
    <3> SUFFICES ASSUME NEW k \in 1 .. m PROVE h[k] = step[<<h[k - 1], k>>] OBVIOUS
    <3>1. h[k - 1] = g[k - 1] OBVIOUS
    <3>2. CASE k = m
      <4>1. h[m] = step[<<g[m - 1], m>>] OBVIOUS
      <4>2. h[m - 1] = g[m - 1] BY <3>1, <3>2
      <4> HIDE DEF h
      <4> QED BY <3>2, <4>1, <4>2
    <3>3. CASE k # m
      <4>1. k \in 1 .. m - 1 BY <3>3
      <4>2. h[k] = g[k] BY <4>1
      <4> QED BY <2>1, <3>1, <4>1, <4>2
    <3> QED BY <3>2, <3>3
  <2> HIDE DEF h
  <2> QED BY <2>4, <2>5, <2>6
<1>3. 0 \in G BY <1>1
<1>4. ASSUME NEW k \in 1 .. n, k - 1 \in G PROVE k \in G
  <2>1. Good(k - 1) BY <1>4
  <2>2. Good(k) BY <1>2, <2>1
  <2>3. k \in 0 .. n OBVIOUS
  <2> HIDE DEF Good
  <2> QED BY <2>2, <2>3
<1> HIDE DEF G
<1>5. n \in G BY <1>3, <1>4, Induction
<1> QED BY <1>5 DEF G

-----------------------------------------------------------------------------
(* 2. What scan computes.                                                  *)
ChunkSet == [offset : Nat, length : Nat, hash : Seq(Bytes)]

(* The chunks lie side by side in the file, and each has its bytes.        *)
IsChunkOf(chunk, file) ==
    /\ chunk.length \in 1 .. MaxChunk
    /\ chunk.offset + chunk.length <= Len(file)
    /\ Len(chunk.hash) = chunk.length
    /\ \A i \in 1 .. chunk.length : chunk.hash[i] = file[chunk.offset + i]

Tiles(chunks, file) ==
    /\ chunks \in Seq(ChunkSet)
    /\ \A k \in 1 .. Len(chunks) : IsChunkOf(chunks[k], file)
    /\ \A k \in 1 .. Len(chunks) :
          IF k = 1 THEN chunks[k].offset = 0
          ELSE chunks[k].offset = chunks[k - 1].offset + chunks[k - 1].length
    /\ \A j, k \in 1 .. Len(chunks) :
          j < k => chunks[j].offset + chunks[j].length <= chunks[k].offset

LongUpTo(chunks, n) == \A k \in 1 .. n : chunks[k].length >= MinChunk

States == [chunks : Seq(ChunkSet), chunk : Seq(Bytes)]

LEMMA CoveredType ==
    ASSUME NEW chunks \in Seq(ChunkSet)
    PROVE  Covered(chunks) \in Nat
<1>1. CASE chunks = <<>> BY <1>1 DEF Covered
<1>2. CASE chunks # <<>>
  <2>1. Len(chunks) \in 1 .. Len(chunks) BY <1>2, EmptySeq, LenProperties
  <2>2. chunks[Len(chunks)] \in ChunkSet BY <2>1, ElementOfSeq
  <2> QED BY <1>2, <2>2 DEF Covered, Last, ChunkSet
<1> QED BY <1>1, <1>2

LEMMA PushIsAppend ==
    ASSUME NEW chunks \in Seq(ChunkSet), NEW bytes \in Seq(Bytes)
    PROVE  LET chunk == [offset |-> Covered(chunks), length |-> Len(bytes), hash |-> bytes]
           IN  /\ chunk \in ChunkSet
               /\ push_chunk(chunks, bytes) = Append(chunks, chunk)
               /\ push_chunk(chunks, bytes) \in Seq(ChunkSet)
<1> DEFINE chunk == [offset |-> Covered(chunks), length |-> Len(bytes), hash |-> bytes]
<1>1. Covered(chunks) \in Nat BY CoveredType
<1>2. Len(bytes) \in Nat BY LenProperties
<1>3. chunk \in ChunkSet BY <1>1, <1>2 DEF ChunkSet
<1>4. push_chunk(chunks, bytes) = Append(chunks, chunk)
  <2>1. CASE chunks = <<>> BY <2>1 DEF push_chunk, Chunk, Covered
  <2>2. CASE chunks # <<>> BY <2>2 DEF push_chunk, Chunk, Covered, Last
  <2> QED BY <2>1, <2>2
<1> HIDE DEF chunk
<1>5. Append(chunks, chunk) \in Seq(ChunkSet) BY <1>3, AppendProperties
<1> QED BY <1>3, <1>4, <1>5 DEF chunk

LEMMA TakeByteType ==
    ASSUME NEW state \in States, NEW byte \in Bytes
    PROVE  TakeByte(state, byte) \in States
<1>1. state.chunks \in Seq(ChunkSet) /\ state.chunk \in Seq(Bytes) BY DEF States
<1>2. Append(state.chunk, byte) \in Seq(Bytes) BY <1>1, AppendProperties
<1>3. push_chunk(state.chunks, Append(state.chunk, byte)) \in Seq(ChunkSet)
  BY <1>1, <1>2, PushIsAppend
<1>4. <<>> \in Seq(Bytes) OBVIOUS
<1> QED BY <1>1, <1>2, <1>3, <1>4 DEF TakeByte, States

(* The loop of scan takes the bytes of the file in their order.            *)
LEMMA ScannedSteps ==
    ASSUME NEW file \in Seq(Bytes)
    PROVE  /\ Scanned(file)[0] = [chunks |-> <<>>, chunk |-> <<>>]
           /\ \A k \in 1 .. Len(file) :
                 Scanned(file)[k] = TakeByte(Scanned(file)[k - 1], file[k])
<1> DEFINE n == Len(file)
           base == [chunks |-> <<>>, chunk |-> <<>>]
           step == [p \in States \X Nat |->
                      IF p[2] \in 1 .. n THEN TakeByte(p[1], file[p[2]]) ELSE p[1]]
           Body(g) == [k \in 0 .. n |-> IF k = 0 THEN base ELSE TakeByte(g[k - 1], file[k])]
<1>1. n \in Nat BY LenProperties
<1>2. base \in States
  <2>1. <<>> \in Seq(Bytes) /\ <<>> \in Seq(ChunkSet) OBVIOUS
  <2> QED BY <2>1 DEF States
<1>3. step \in [States \X Nat -> States]
  <2> SUFFICES ASSUME NEW p \in States \X Nat
               PROVE  (IF p[2] \in 1 .. n THEN TakeByte(p[1], file[p[2]]) ELSE p[1]) \in States
    OBVIOUS
  <2>1. p[1] \in States OBVIOUS
  <2>2. ASSUME p[2] \in 1 .. n PROVE TakeByte(p[1], file[p[2]]) \in States
    <3>1. file[p[2]] \in Bytes BY <2>2, ElementOfSeq
    <3> QED BY <2>1, <3>1, TakeByteType
  <2> QED BY <2>1, <2>2
<1>4. \A s \in States : \A k \in 1 .. n : step[<<s, k>>] = TakeByte(s, file[k])
  <2> SUFFICES ASSUME NEW s \in States, NEW k \in 1 .. n
               PROVE  step[<<s, k>>] = TakeByte(s, file[k])
    OBVIOUS
  <2>1. <<s, k>> \in States \X Nat BY <1>1
  <2> QED BY <2>1
<1> HIDE DEF step, base
<1>5. PICK g \in [0 .. n -> States] :
             /\ g[0] = base
             /\ \A k \in 1 .. n : g[k] = step[<<g[k - 1], k>>]
  <2>1. step \in Steps(States) BY <1>3 DEF Steps
  <2>2. \E g \in [0 .. n -> States] : Follows(g, base, step, n)
    BY <1>1, <1>2, <2>1, Recursion
  <2> QED BY <2>2 DEF Follows
<1>6. g = Body(g)
  <2>1. \A k \in 0 .. n : g[k] = Body(g)[k]
    <3> SUFFICES ASSUME NEW k \in 0 .. n PROVE g[k] = Body(g)[k] OBVIOUS
    <3>1. CASE k = 0 BY <1>5, <3>1
    <3>2. CASE k # 0
      <4>1. k \in 1 .. n /\ k - 1 \in 0 .. n BY <1>1, <3>2
      <4>2. g[k - 1] \in States BY <4>1
      <4>3. g[k] = TakeByte(g[k - 1], file[k]) BY <1>4, <1>5, <4>1, <4>2
      <4> QED BY <3>2, <4>3
    <3> QED BY <3>1, <3>2
  <2>2. DOMAIN g = 0 .. n OBVIOUS
  <2> QED BY <2>1, <2>2
<1>7. Scanned(file) = CHOOSE f : f = Body(f)
  BY DEF Scanned, base
<1>8. Scanned(file) = Body(Scanned(file))
  BY <1>6, <1>7
<1> QED BY <1>1, <1>8 DEF base

LEMMA ChunkTypes ==
    ASSUME NEW chunks \in Seq(ChunkSet), NEW k \in 1 .. Len(chunks)
    PROVE  /\ chunks[k] \in ChunkSet
           /\ chunks[k].offset \in Nat /\ chunks[k].length \in Nat
           /\ chunks[k].hash \in Seq(Bytes)
<1>1. chunks[k] \in ChunkSet BY ElementOfSeq
<1> QED BY <1>1 DEF ChunkSet

(* No chunk ends after the bytes covered.                                  *)
LEMMA EndsWithinCovered ==
    ASSUME NEW file, NEW chunks, Tiles(chunks, file), NEW k \in 1 .. Len(chunks)
    PROVE  /\ Covered(chunks) = chunks[Len(chunks)].offset + chunks[Len(chunks)].length
           /\ chunks[k].offset + chunks[k].length <= Covered(chunks)
<1> DEFINE n == Len(chunks)
<1>1. chunks \in Seq(ChunkSet) BY DEF Tiles
<1>2. n \in Nat /\ n \in 1 .. n BY <1>1, LenProperties
<1>3. chunks # <<>> BY <1>2
<1>4. Covered(chunks) = chunks[n].offset + chunks[n].length BY <1>3 DEF Covered, Last
<1>5. CASE k = n BY <1>1, <1>2, <1>4, <1>5, ChunkTypes
<1>6. CASE k # n
  <2>1. k < n BY <1>2, <1>6
  <2>2. chunks[k].offset + chunks[k].length <= chunks[n].offset BY <1>2, <2>1 DEF Tiles
  <2>3. PICK o \in Nat, l \in Nat : o = chunks[n].offset /\ l = chunks[n].length
    BY <1>1, <1>2, ChunkTypes
  <2>4. PICK e \in Nat : e = chunks[k].offset + chunks[k].length
    BY <1>1, ChunkTypes
  <2> QED BY <1>4, <2>2, <2>3, <2>4
<1> QED BY <1>4, <1>5, <1>6

(* The next chunk and no other is added.                                   *)
Adds(more, chunks, bytes, file) ==
    /\ Tiles(more, file)
    /\ Len(more) = Len(chunks) + 1
    /\ Covered(more) = Covered(chunks) + Len(bytes)
    /\ \A k \in 1 .. Len(chunks) : more[k] = chunks[k]
    /\ more[Len(chunks) + 1].length = Len(bytes)

(* The bytes are those that follow the chunks.                             *)
AreNext(bytes, chunks, file) ==
    /\ bytes \in Seq(Bytes) /\ Len(bytes) \in 1 .. MaxChunk
    /\ Covered(chunks) + Len(bytes) <= Len(file)
    /\ \A i \in 1 .. Len(bytes) : bytes[i] = file[Covered(chunks) + i]

LEMMA PushTiles ==
    ASSUME NEW file \in Seq(Bytes), NEW chunks, NEW bytes, Tiles(chunks, file),
           AreNext(bytes, chunks, file)
    PROVE  Adds(push_chunk(chunks, bytes), chunks, bytes, file)
<1> USE DEF AreNext
<1> DEFINE n == Len(chunks)
           c == Covered(chunks)
           chunk == [offset |-> c, length |-> Len(bytes), hash |-> bytes]
           more == push_chunk(chunks, bytes)
<1>1. chunks \in Seq(ChunkSet) /\ n \in Nat /\ c \in Nat
  BY LenProperties, CoveredType DEF Tiles
<1>2. /\ chunk \in ChunkSet
      /\ more = Append(chunks, chunk)
      /\ more \in Seq(ChunkSet)
  BY <1>1, PushIsAppend
<1>3. /\ Len(more) = n + 1
      /\ more[n + 1] = chunk
      /\ \A k \in 1 .. n : more[k] = chunks[k]
  <2> HIDE DEF chunk
  <2> QED BY <1>1, <1>2, AppendProperties
<1>4. chunk.offset = c /\ chunk.length = Len(bytes) /\ chunk.hash = bytes OBVIOUS
<1> HIDE DEF chunk, more
<1>5. IsChunkOf(chunk, file) BY <1>4 DEF IsChunkOf
<1>6. \A k \in 1 .. n + 1 : IsChunkOf(more[k], file)
  <2> SUFFICES ASSUME NEW k \in 1 .. n + 1 PROVE IsChunkOf(more[k], file) OBVIOUS
  <2>1. CASE k \in 1 .. n
    <3>1. more[k] = chunks[k] BY <1>3, <2>1
    <3>2. IsChunkOf(chunks[k], file) BY <2>1 DEF Tiles
    <3> QED BY <3>1, <3>2
  <2>2. CASE k = n + 1 BY <1>3, <1>5, <2>2
  <2> QED BY <1>1, <2>1, <2>2
<1>7. \A k \in 1 .. n : chunks[k].offset + chunks[k].length <= c
  BY EndsWithinCovered
<1>8. \A k \in 1 .. n + 1 :
         IF k = 1 THEN more[k].offset = 0
         ELSE more[k].offset = more[k - 1].offset + more[k - 1].length
  <2> SUFFICES ASSUME NEW k \in 1 .. n + 1
               PROVE  IF k = 1 THEN more[k].offset = 0
                      ELSE more[k].offset = more[k - 1].offset + more[k - 1].length
    OBVIOUS
  <2>1. CASE k \in 1 .. n
    <3>1. more[k] = chunks[k] BY <1>3, <2>1
    <3>2. k # 1 => more[k - 1] = chunks[k - 1]
      <4>1. k # 1 => k - 1 \in 1 .. n BY <1>1, <2>1
      <4> QED BY <1>3, <4>1
    <3> QED BY <2>1, <3>1, <3>2 DEF Tiles
  <2>2. CASE k = n + 1 /\ n = 0
    <3>1. chunks = <<>> BY <1>1, <2>2, EmptySeq
    <3>2. c = 0 BY <3>1 DEF Covered
    <3> QED BY <1>3, <1>4, <2>2, <3>2
  <2>3. CASE k = n + 1 /\ n # 0
    <3>1. n \in 1 .. n /\ k - 1 = n /\ k # 1 BY <1>1, <2>3
    <3>2. c = chunks[n].offset + chunks[n].length BY <3>1, EndsWithinCovered
    <3>3. more[k - 1] = chunks[n] /\ more[k].offset = c BY <1>3, <1>4, <2>3, <3>1
    <3> QED BY <3>1, <3>2, <3>3
  <2> QED BY <1>1, <2>1, <2>2, <2>3
<1>9. \A j, k \in 1 .. n + 1 :
         j < k => more[j].offset + more[j].length <= more[k].offset
  <2> SUFFICES ASSUME NEW j \in 1 .. n + 1, NEW k \in 1 .. n + 1, j < k
               PROVE  more[j].offset + more[j].length <= more[k].offset
    OBVIOUS
  <2>1. j \in 1 .. n BY <1>1
  <2>2. more[j] = chunks[j] BY <1>3, <2>1
  <2>3. CASE k \in 1 .. n BY <1>3, <2>1, <2>2, <2>3 DEF Tiles
  <2>4. CASE k = n + 1 BY <1>3, <1>4, <1>7, <2>1, <2>2, <2>4
  <2> QED BY <1>1, <2>3, <2>4
<1>10. Tiles(more, file) BY <1>2, <1>3, <1>6, <1>8, <1>9 DEF Tiles
<1>11. Covered(more) = c + Len(bytes)
  <2>1. Len(more) \in 1 .. Len(more) BY <1>1, <1>3
  <2> QED BY <1>3, <1>4, <1>10, <2>1, EndsWithinCovered
<1> QED BY <1>3, <1>4, <1>10, <1>11 DEF more, Adds

(* The loop invariant of scan, after n bytes.                              *)
ScanInv(file, n, state) ==
    /\ state \in States
    /\ Tiles(state.chunks, file)
    /\ LongUpTo(state.chunks, Len(state.chunks))
    /\ Covered(state.chunks) + Len(state.chunk) = n
    /\ Len(state.chunk) < MaxChunk
    /\ \A i \in 1 .. Len(state.chunk) :
          state.chunk[i] = file[Covered(state.chunks) + i]

LEMMA TakeByteKeeps ==
    ASSUME NEW file \in Seq(Bytes), NEW n \in 1 .. Len(file), NEW state,
           ScanInv(file, n - 1, state)
    PROVE  ScanInv(file, n, TakeByte(state, file[n]))
<1> DEFINE c == Covered(state.chunks)
           l == Len(state.chunk)
           chunk == Append(state.chunk, file[n])
           more == push_chunk(state.chunks, chunk)
<1>1. /\ state \in States
      /\ state.chunks \in Seq(ChunkSet) /\ state.chunk \in Seq(Bytes)
  BY DEF ScanInv, States
<1>2. c \in Nat /\ l \in Nat /\ n \in Nat /\ Len(file) \in Nat /\ n <= Len(file)
  BY <1>1, CoveredType, LenProperties
<1>3. c + l = n - 1 /\ l < MaxChunk BY DEF ScanInv
<1>4. MinChunk \in Nat /\ MaxChunk \in Nat /\ 1 <= MinChunk /\ MinChunk <= MaxChunk
  BY ReuseAssumption
<1>5. file[n] \in Bytes BY ElementOfSeq
<1>6. /\ chunk \in Seq(Bytes) /\ Len(chunk) = l + 1 /\ chunk[l + 1] = file[n]
      /\ \A i \in 1 .. l : chunk[i] = state.chunk[i]
  BY <1>1, <1>5, AppendProperties
<1>7. \A i \in 1 .. l + 1 : chunk[i] = file[c + i]
  <2> SUFFICES ASSUME NEW i \in 1 .. l + 1 PROVE chunk[i] = file[c + i] OBVIOUS
  <2>1. CASE i = l + 1
    <3>1. c + i = n BY <1>2, <1>3, <2>1
    <3> QED BY <1>6, <2>1, <3>1
  <2>2. CASE i \in 1 .. l BY <1>6, <2>2 DEF ScanInv
  <2> QED BY <1>2, <2>1, <2>2
<1>8. TakeByte(state, file[n]) \in States BY <1>1, <1>5, TakeByteType
<1> HIDE DEF chunk
<1>9. CASE IsEnd(chunk)
  <2>1. TakeByte(state, file[n]) = [chunks |-> more, chunk |-> <<>>]
    BY <1>9 DEF TakeByte, chunk
  <2>2. l + 1 >= MinChunk BY <1>6, <1>9 DEF IsEnd
  <2>3. Len(chunk) \in 1 .. MaxChunk /\ c + Len(chunk) <= Len(file)
    BY <1>2, <1>3, <1>4, <1>6
  <2>4. /\ Tiles(more, file)
        /\ Len(more) = Len(state.chunks) + 1
        /\ Covered(more) = c + Len(chunk)
        /\ \A k \in 1 .. Len(state.chunks) : more[k] = state.chunks[k]
        /\ more[Len(state.chunks) + 1].length = Len(chunk)
    <3>1. Tiles(state.chunks, file) BY DEF ScanInv
    <3>2. \A i \in 1 .. Len(chunk) : chunk[i] = file[c + i] BY <1>6, <1>7
    <3>3. AreNext(chunk, state.chunks, file) BY <1>6, <2>3, <3>2 DEF AreNext
    <3>4. Adds(more, state.chunks, chunk, file) BY <3>1, <3>3, PushTiles
    <3> QED BY <3>4 DEF Adds
  <2> HIDE DEF more
  <2>5. LongUpTo(more, Len(more))
    <3>1. Len(state.chunks) \in Nat BY <1>1, LenProperties
    <3> SUFFICES ASSUME NEW k \in 1 .. Len(state.chunks) + 1 PROVE more[k].length >= MinChunk
      BY <2>4 DEF LongUpTo
    <3>2. CASE k \in 1 .. Len(state.chunks) BY <2>4, <3>2 DEF ScanInv, LongUpTo
    <3>3. CASE k = Len(state.chunks) + 1 BY <1>6, <2>2, <2>4, <3>3
    <3> QED BY <3>1, <3>2, <3>3
  <2>6. Covered(more) + 0 = n
    <3>1. Covered(more) = c + (l + 1) BY <1>6, <2>4
    <3>2. c + (l + 1) = n BY <1>2, <1>3
    <3> QED BY <1>2, <3>1, <3>2
  <2>7. Len(<<>>) = 0 /\ 0 < MaxChunk BY <1>4
  <2> QED BY <1>8, <2>1, <2>4, <2>5, <2>6, <2>7 DEF ScanInv
<1>10. CASE ~IsEnd(chunk)
  <2>1. TakeByte(state, file[n]) = [chunks |-> state.chunks, chunk |-> chunk]
    BY <1>10 DEF TakeByte, chunk
  <2>2. l + 1 < MaxChunk BY <1>2, <1>4, <1>6, <1>10 DEF IsEnd
  <2>3. c + (l + 1) = n BY <1>2, <1>3
  <2> QED BY <1>6, <1>7, <1>8, <2>1, <2>2, <2>3 DEF ScanInv
<1> QED BY <1>9, <1>10

(* scan cuts the whole file into chunks, of which only the last is short.  *)
LEMMA ScanTiles ==
    ASSUME NEW file \in Seq(Bytes)
    PROVE  /\ Tiles(scan(file), file)
           /\ Covered(scan(file)) = Len(file)
           /\ LongUpTo(scan(file), Len(scan(file)) - 1)
<1> DEFINE n == Len(file)
           G == {k \in 0 .. n : ScanInv(file, k, Scanned(file)[k])}
           end == Scanned(file)[n]
<1>1. n \in Nat BY LenProperties
<1>2. 0 \in G
  <2> DEFINE base == [chunks |-> <<>>, chunk |-> <<>>]
  <2>1. Scanned(file)[0] = base BY ScannedSteps
  <2>2. base \in States
    <3>1. <<>> \in Seq(Bytes) /\ <<>> \in Seq(ChunkSet) OBVIOUS
    <3> QED BY <3>1 DEF States
  <2>3. base.chunks = <<>> /\ base.chunk = <<>> OBVIOUS
  <2>4. Tiles(<<>>, file) /\ LongUpTo(<<>>, Len(<<>>)) /\ Covered(<<>>) = 0
    BY DEF Tiles, LongUpTo, Covered
  <2>5. Len(<<>>) = 0 /\ 0 < MaxChunk BY ReuseAssumption
  <2> HIDE DEF base
  <2>6. ScanInv(file, 0, base) BY <2>2, <2>3, <2>4, <2>5 DEF ScanInv
  <2> QED BY <1>1, <2>1, <2>6
<1>3. ASSUME NEW k \in 1 .. n, k - 1 \in G PROVE k \in G
  <2>1. ScanInv(file, k - 1, Scanned(file)[k - 1]) BY <1>3
  <2>2. ScanInv(file, k, TakeByte(Scanned(file)[k - 1], file[k])) BY <2>1, TakeByteKeeps
  <2>3. Scanned(file)[k] = TakeByte(Scanned(file)[k - 1], file[k]) BY ScannedSteps
  <2> QED BY <1>1, <2>2, <2>3
<1>4. ScanInv(file, n, end)
  <2> HIDE DEF G
  <2>1. \A k \in 1 .. n : k - 1 \in G => k \in G BY <1>3
  <2>2. \A k \in 0 .. n : k \in G
    <3> HIDE DEF n
    <3> QED BY <1>1, <1>2, <2>1, Induction
  <2>3. n \in 0 .. n BY <1>1
  <2> QED BY <2>2, <2>3 DEF G
<1> HIDE DEF end
<1>5. /\ end.chunks \in Seq(ChunkSet) /\ end.chunk \in Seq(Bytes)
      /\ Len(end.chunks) \in Nat /\ Len(end.chunk) \in Nat
      /\ Covered(end.chunks) \in Nat
  BY <1>4, LenProperties, CoveredType DEF ScanInv, States
<1>6. CASE end.chunk = <<>>
  <2>1. scan(file) = end.chunks BY <1>6 DEF scan, end
  <2>2. Len(end.chunk) = 0 BY <1>6
  <2>3. Covered(end.chunks) = n BY <1>4, <1>5, <2>2 DEF ScanInv
  <2>4. LongUpTo(end.chunks, Len(end.chunks) - 1) BY <1>4, <1>5 DEF ScanInv, LongUpTo
  <2> QED BY <1>4, <2>1, <2>3, <2>4 DEF ScanInv
<1>7. CASE end.chunk # <<>>
  <2> DEFINE more == push_chunk(end.chunks, end.chunk)
  <2>1. scan(file) = more BY <1>7 DEF scan, end
  <2>2. Len(end.chunk) # 0 BY <1>5, <1>7, EmptySeq
  <2>3. Covered(end.chunks) + Len(end.chunk) = n /\ Len(end.chunk) < MaxChunk
    BY <1>4 DEF ScanInv
  <2>4. Len(end.chunk) \in 1 .. MaxChunk /\ Covered(end.chunks) + Len(end.chunk) <= n
    BY <1>1, <1>5, <2>2, <2>3, ReuseAssumption
  <2>5. /\ Tiles(more, file)
        /\ Len(more) = Len(end.chunks) + 1
        /\ Covered(more) = Covered(end.chunks) + Len(end.chunk)
        /\ \A k \in 1 .. Len(end.chunks) : more[k] = end.chunks[k]
    <3>1. Tiles(end.chunks, file) BY <1>4 DEF ScanInv
    <3>2. \A i \in 1 .. Len(end.chunk) : end.chunk[i] = file[Covered(end.chunks) + i]
      BY <1>4 DEF ScanInv
    <3>3. AreNext(end.chunk, end.chunks, file) BY <1>5, <2>4, <3>2 DEF AreNext
    <3>4. Adds(more, end.chunks, end.chunk, file) BY <3>1, <3>3, PushTiles
    <3> QED BY <3>4 DEF Adds
  <2> HIDE DEF more
  <2>6. LongUpTo(more, Len(more) - 1)
    <3>1. Len(more) - 1 = Len(end.chunks) BY <1>5, <2>5
    <3> QED BY <1>4, <2>5, <3>1 DEF ScanInv, LongUpTo
  <2> QED BY <2>1, <2>3, <2>5, <2>6
<1> QED BY <1>6, <1>7

(* The length of a manifest's text is a number, and its last line adds 71. *)
LEMMA DigitsType ==
    ASSUME NEW n
    PROVE  Digits(n) \in Nat
<1> DEFINE Body(g) == [k \in 0 .. 19 |-> IF k = 0 THEN n ELSE g[k - 1] \div 10]
           q == CHOOSE f : f = Body(f)
           Q == {k \in 1 .. 19 : q[k] > 0}
<1>1. Digits(n) = 1 + Cardinality(Q) BY DEF Digits
<1>2. Q \subseteq 1 .. 19 OBVIOUS
<1> HIDE DEF Q
<1>3. IsFiniteSet(1 .. 19)
  <2>1. \A a, b \in Int : IsFiniteSet(a .. b) BY FS_Interval
  <2>2. 1 \in Int /\ 19 \in Int OBVIOUS
  <2> QED BY <2>1, <2>2
<1>4. IsFiniteSet(Q) BY <1>2, <1>3, FS_Subset
<1>5. Cardinality(Q) \in Nat BY <1>4, FS_CardinalityType
<1> QED BY <1>1, <1>5

LEMMA BodyType ==
    ASSUME NEW chunks \in Seq(ChunkSet)
    PROVE  canonical_body(chunks) \in Nat
<1> DEFINE n == Len(chunks)
           base == 7 + Digits(Covered(chunks)) + Digits(Len(chunks))
           Add(a, k) == a + 69 + Digits(chunks[k].offset) + Digits(chunks[k].length)
           step == [p \in Nat \X Nat |-> Add(p[1], p[2])]
           Body(g) == [k \in 0 .. n |-> IF k = 0 THEN base ELSE Add(g[k - 1], k)]
<1>1. n \in Nat BY LenProperties
<1>2. base \in Nat
  <2>1. Digits(Covered(chunks)) \in Nat /\ Digits(Len(chunks)) \in Nat BY DigitsType
  <2> QED BY <2>1
<1>3. \A a \in Nat : \A k : Add(a, k) \in Nat
  <2> SUFFICES ASSUME NEW a \in Nat, NEW k PROVE Add(a, k) \in Nat OBVIOUS
  <2>1. Digits(chunks[k].offset) \in Nat /\ Digits(chunks[k].length) \in Nat BY DigitsType
  <2> QED BY <2>1
<1>7. BodyLengths(chunks) = CHOOSE f : f = Body(f) BY DEF BodyLengths
<1> HIDE DEF base, Add
<1>4. \A a \in Nat : \A k \in 1 .. n : step[<<a, k>>] = Add(a, k)
  <2> SUFFICES ASSUME NEW a \in Nat, NEW k \in 1 .. n PROVE step[<<a, k>>] = Add(a, k)
    OBVIOUS
  <2>1. <<a, k>> \in Nat \X Nat BY <1>1
  <2> QED BY <2>1
<1>5. PICK g \in [0 .. n -> Nat] :
             /\ g[0] = base
             /\ \A k \in 1 .. n : g[k] = step[<<g[k - 1], k>>]
  <2>1. step \in Steps(Nat) BY <1>3 DEF Steps
  <2> HIDE DEF step
  <2>2. \E g \in [0 .. n -> Nat] : Follows(g, base, step, n)
    BY <1>1, <1>2, <2>1, Recursion
  <2> QED BY <2>2 DEF Follows
<1> HIDE DEF step
<1>6. g = Body(g)
  <2>1. \A k \in 0 .. n : g[k] = Body(g)[k]
    <3> SUFFICES ASSUME NEW k \in 0 .. n PROVE g[k] = Body(g)[k] OBVIOUS
    <3>1. CASE k = 0 BY <1>5, <3>1
    <3>2. CASE k # 0
      <4>1. k \in 1 .. n /\ k - 1 \in 0 .. n BY <1>1, <3>2
      <4>2. g[k - 1] \in Nat BY <4>1
      <4>3. g[k] = Add(g[k - 1], k) BY <1>4, <1>5, <4>1, <4>2
      <4> QED BY <3>2, <4>3
    <3> QED BY <3>1, <3>2
  <2>2. DOMAIN g = 0 .. n OBVIOUS
  <2> QED BY <2>1, <2>2
<1>8. BodyLengths(chunks) = Body(BodyLengths(chunks)) BY <1>6, <1>7
<1> DEFINE f == BodyLengths(chunks)
           G == {k \in Nat : f[k] \in Nat}
<1>9. f[0] = base /\ \A k \in 1 .. n : f[k] = Add(f[k - 1], k) BY <1>1, <1>8
<1> HIDE DEF f
<1>10. \A k \in 0 .. n : k \in G
  <2>1. 0 \in G BY <1>2, <1>9
  <2>2. \A k \in 1 .. n : k - 1 \in G => k \in G BY <1>1, <1>3, <1>9
  <2> HIDE DEF G
  <2> QED BY <1>1, <2>1, <2>2, Induction
<1>11. f[n] \in Nat BY <1>1, <1>10
<1> QED BY <1>11 DEF canonical_body, f

(* parse accepts what scan has produced of a file of the offered size, if  *)
(* it is not of the one length that scan lets pass and parse does not.     *)
LEMMA ScanAccepted ==
    ASSUME NEW file \in Seq(Bytes), Len(file) = size, ~ScanFails(scan(file)),
           encode(scan(file)) # MaxEncoded + 1
    PROVE  Accepted(scan(file))
<1> DEFINE chunks == scan(file)
           n == Len(chunks)
<1>1. /\ Tiles(chunks, file) /\ Covered(chunks) = Len(file)
      /\ LongUpTo(chunks, n - 1)
  BY ScanTiles
<1> HIDE DEF chunks
<1>2. chunks \in Seq(ChunkSet) /\ n \in Nat BY <1>1, LenProperties DEF Tiles
<1>3. ASSUME NEW k \in 1 .. n
      PROVE  /\ chunks[k].offset = Covered(SubSeq(chunks, 1, k - 1))
             /\ ValidLength(chunks[k], Covered(chunks))
  <2>1. chunks[k].offset = Covered(SubSeq(chunks, 1, k - 1))
    <3> DEFINE front == SubSeq(chunks, 1, k - 1)
    <3>1. /\ front \in Seq(ChunkSet) /\ Len(front) = k - 1
          /\ \A i \in 1 .. k - 1 : front[i] = chunks[i]
      <4>1. k - 1 \in 0 .. n /\ 1 \in 1 .. (n + 1) BY <1>2
      <4>2. \A i \in 1 .. k - 1 : chunks[i] \in ChunkSet
        <5>1. \A i \in 1 .. k - 1 : i \in 1 .. n BY <1>2
        <5> QED BY <1>2, <5>1, ElementOfSeq
      <4>3. front = [i \in 1 .. k - 1 |-> chunks[i]] BY <1>2
      <4> QED BY <4>1, <4>2, <4>3
    <3> HIDE DEF front
    <3>2. CASE k = 1
      <4>1. front = <<>> BY <3>1, <3>2, EmptySeq
      <4>2. Covered(front) = 0 BY <4>1 DEF Covered
      <4>3. chunks[k].offset = 0 BY <1>1, <3>2 DEF Tiles
      <4> QED BY <4>2, <4>3 DEF front
    <3>3. CASE k # 1
      <4>1. k - 1 \in 1 .. k - 1 /\ k - 1 # 0 BY <1>2, <3>3
      <4>2. front # <<>> BY <3>1, <4>1
      <4>3. Covered(front) = chunks[k - 1].offset + chunks[k - 1].length
        BY <3>1, <4>1, <4>2 DEF Covered, Last
      <4>4. chunks[k].offset = chunks[k - 1].offset + chunks[k - 1].length
        BY <1>1, <3>3 DEF Tiles
      <4> QED BY <4>3, <4>4 DEF front
    <3> QED BY <3>2, <3>3
  <2>2. chunks[k].length \in 1 .. MaxChunk BY <1>1 DEF Tiles, IsChunkOf
  <2>3. CASE k \in 1 .. n - 1
    <3>1. chunks[k].length >= MinChunk BY <1>1, <2>3 DEF LongUpTo
    <3>2. ~(chunks[k].length < MinChunk) BY <2>2, <3>1, ReuseAssumption
    <3> QED BY <2>1, <2>2, <3>2 DEF ValidLength
  <2>4. CASE k = n
    <3>1. Covered(chunks) = chunks[k].offset + chunks[k].length
      BY <1>1, <2>4, EndsWithinCovered
    <3> QED BY <2>1, <2>2, <3>1 DEF ValidLength
  <2> QED BY <1>2, <2>3, <2>4
<1>4. ~TooMany(chunks) BY DEF ScanFails, chunks
<1>5. encode(chunks) <= MaxEncoded
  <2>1. canonical_body(chunks) \in Nat /\ MaxEncoded \in Nat
    BY <1>2, BodyType, ReuseAssumption
  <2>2. ~(canonical_body(chunks) + 70 > MaxEncoded) BY DEF ScanFails, chunks
  <2>3. canonical_body(chunks) + 71 # MaxEncoded + 1 BY DEF encode, chunks
  <2> QED BY <2>1, <2>2, <2>3 DEF encode
<1> QED BY <1>1, <1>3, <1>4, <1>5 DEF Accepted, chunks

-----------------------------------------------------------------------------
(* 3. What the merging of the copied ranges computes.                      *)
RangeSet == [from : Nat, to : Nat]

(* Ranges that are not empty and follow one another.                       *)
Ascending(list) ==
    /\ list \in Seq(RangeSet)
    /\ \A j \in 1 .. Len(list) : list[j].from < list[j].to
    /\ \A j, k \in 1 .. Len(list) : j < k => list[j].to <= list[k].from

In(i, range) == range.from < i /\ i <= range.to

(* The loop invariant of the merging: the ranges are apart, have no byte   *)
(* but those of the first n of the list, and each of these lies in one.    *)
MergeInv(list, n, ranges) ==
    /\ ranges \in Seq(RangeSet)
    /\ \A k \in 1 .. Len(ranges) : ranges[k].from < ranges[k].to
    /\ \A j, k \in 1 .. Len(ranges) : j < k => ranges[j].to < ranges[k].from
    /\ \A k \in 1 .. Len(ranges) : \A i \in Nat :
          In(i, ranges[k]) => \E j \in 1 .. n : In(i, list[j])
    /\ \A j \in 1 .. n : \E k \in 1 .. Len(ranges) :
          ranges[k].from <= list[j].from /\ list[j].to <= ranges[k].to
    /\ IF n = 0 THEN ranges = <<>>
       ELSE ranges # <<>> /\ Last(ranges).to = list[n].to

LEMMA RangeTypes ==
    ASSUME NEW list \in Seq(RangeSet), NEW k \in 1 .. Len(list)
    PROVE  list[k] \in RangeSet /\ list[k].from \in Nat /\ list[k].to \in Nat
<1>1. list[k] \in RangeSet BY ElementOfSeq
<1> QED BY <1>1 DEF RangeSet

LEMMA AddRangeType ==
    ASSUME NEW ranges \in Seq(RangeSet), NEW range \in RangeSet
    PROVE  AddRange(ranges, range) \in Seq(RangeSet)
<1> DEFINE n == Len(ranges)
           last == Last(ranges)
           joint == [from |-> last.from,
                     to |-> IF range.to > last.to THEN range.to ELSE last.to]
<1>1. CASE ranges # <<>> /\ Joins(range, last)
  <2>1. n \in Nat /\ n \in 1 .. n BY <1>1, LenProperties, EmptySeq
  <2>2. last \in RangeSet BY <2>1, RangeTypes DEF Last
  <2>3. joint \in RangeSet BY <2>2 DEF RangeSet
  <2>4. AddRange(ranges, range) = [ranges EXCEPT ![n] = joint] BY <1>1 DEF AddRange
  <2> HIDE DEF joint
  <2>5. [ranges EXCEPT ![n] = joint] \in Seq(RangeSet) BY <2>1, <2>3, ExceptSeq
  <2> QED BY <2>4, <2>5
<1>2. CASE ~(ranges # <<>> /\ Joins(range, last))
  <2>1. AddRange(ranges, range) = Append(ranges, range) BY <1>2 DEF AddRange
  <2> QED BY <2>1, AppendProperties
<1> QED BY <1>1, <1>2

LEMMA MergingSteps ==
    ASSUME NEW list \in Seq(RangeSet)
    PROVE  /\ Merging(list)[0] = <<>>
           /\ \A k \in 1 .. Len(list) :
                 Merging(list)[k] = AddRange(Merging(list)[k - 1], list[k])
<1> DEFINE n == Len(list)
           S == Seq(RangeSet)
           step == [p \in S \X Nat |->
                      IF p[2] \in 1 .. n THEN AddRange(p[1], list[p[2]]) ELSE p[1]]
           Body(g) == [k \in 0 .. n |-> IF k = 0 THEN <<>> ELSE AddRange(g[k - 1], list[k])]
<1>1. n \in Nat BY LenProperties
<1>2. <<>> \in S OBVIOUS
<1>3. step \in Steps(S)
  <2> SUFFICES ASSUME NEW p \in S \X Nat
               PROVE  (IF p[2] \in 1 .. n THEN AddRange(p[1], list[p[2]]) ELSE p[1]) \in S
    BY DEF Steps
  <2>1. p[1] \in S OBVIOUS
  <2>2. ASSUME p[2] \in 1 .. n PROVE AddRange(p[1], list[p[2]]) \in S
    <3>1. list[p[2]] \in RangeSet BY <2>2, ElementOfSeq
    <3> QED BY <2>1, <3>1, AddRangeType
  <2> QED BY <2>1, <2>2
<1>4. \A s \in S : \A k \in 1 .. n : step[<<s, k>>] = AddRange(s, list[k])
  <2> SUFFICES ASSUME NEW s \in S, NEW k \in 1 .. n
               PROVE  step[<<s, k>>] = AddRange(s, list[k])
    OBVIOUS
  <2>1. <<s, k>> \in S \X Nat BY <1>1
  <2> QED BY <2>1
<1> HIDE DEF step, S
<1>5. PICK g \in [0 .. n -> S] :
             /\ g[0] = <<>>
             /\ \A k \in 1 .. n : g[k] = step[<<g[k - 1], k>>]
  <2>1. \E g \in [0 .. n -> S] : Follows(g, <<>>, step, n)
    BY <1>1, <1>2, <1>3, Recursion
  <2> QED BY <2>1 DEF Follows
<1>6. g = Body(g)
  <2>1. \A k \in 0 .. n : g[k] = Body(g)[k]
    <3> SUFFICES ASSUME NEW k \in 0 .. n PROVE g[k] = Body(g)[k] OBVIOUS
    <3>1. CASE k = 0 BY <1>5, <3>1
    <3>2. CASE k # 0
      <4>1. k \in 1 .. n /\ k - 1 \in 0 .. n BY <1>1, <3>2
      <4>2. g[k - 1] \in S BY <4>1
      <4>3. g[k] = AddRange(g[k - 1], list[k]) BY <1>4, <1>5, <4>1, <4>2
      <4> QED BY <3>2, <4>3
    <3> QED BY <3>1, <3>2
  <2>2. DOMAIN g = 0 .. n OBVIOUS
  <2> QED BY <2>1, <2>2
<1>7. Merging(list) = CHOOSE f : f = Body(f) BY DEF Merging
<1>8. Merging(list) = Body(Merging(list)) BY <1>6, <1>7
<1> QED BY <1>1, <1>8

(* A range that begins after the others is added to them.                  *)
LEMMA AppendKeeps ==
    ASSUME NEW list, Ascending(list), NEW n \in 1 .. Len(list), NEW ranges,
           MergeInv(list, n - 1, ranges),
           \A k \in 1 .. Len(ranges) : ranges[k].to < list[n].from
    PROVE  MergeInv(list, n, Append(ranges, list[n]))
<1> DEFINE m == Len(ranges)
           more == Append(ranges, list[n])
<1>1. /\ ranges \in Seq(RangeSet) /\ list \in Seq(RangeSet)
      /\ m \in Nat /\ n \in Nat /\ n # 0
  BY LenProperties DEF MergeInv, Ascending
<1>2. list[n] \in RangeSet /\ list[n].from < list[n].to
  BY <1>1, RangeTypes DEF Ascending
<1>3. /\ more \in Seq(RangeSet) /\ Len(more) = m + 1 /\ more[m + 1] = list[n]
      /\ \A k \in 1 .. m : more[k] = ranges[k]
  BY <1>1, <1>2, AppendProperties
<1> HIDE DEF more
<1>4. \A k \in 1 .. m + 1 : k \in 1 .. m \/ k = m + 1 BY <1>1
<1>5. \A j \in 1 .. n : j \in 1 .. n - 1 \/ j = n BY <1>1
<1>6. \A k \in 1 .. m + 1 : more[k].from < more[k].to
  BY <1>2, <1>3, <1>4 DEF MergeInv
<1>7. ASSUME NEW j \in 1 .. m + 1, NEW k \in 1 .. m + 1, j < k
      PROVE  more[j].to < more[k].from
  <2>1. j \in 1 .. m /\ more[j] = ranges[j] BY <1>1, <1>3, <1>7
  <2>2. CASE k \in 1 .. m BY <1>3, <1>7, <2>1, <2>2 DEF MergeInv
  <2>3. CASE k = m + 1 BY <1>3, <2>1, <2>3
  <2> QED BY <1>4, <2>2, <2>3
<1>8. ASSUME NEW k \in 1 .. m + 1, NEW i \in Nat, In(i, more[k])
      PROVE  \E j \in 1 .. n : In(i, list[j])
  <2>1. CASE k \in 1 .. m
    <3>1. In(i, ranges[k]) BY <1>3, <1>8, <2>1
    <3>2. PICK j \in 1 .. n - 1 : In(i, list[j]) BY <2>1, <3>1 DEF MergeInv
    <3>3. j \in 1 .. n BY <1>1
    <3> QED BY <3>2, <3>3
  <2>2. CASE k = m + 1
    <3>1. In(i, list[n]) BY <1>3, <1>8, <2>2
    <3>2. n \in 1 .. n BY <1>1
    <3> QED BY <3>1, <3>2
  <2> QED BY <1>4, <2>1, <2>2
<1>9. ASSUME NEW j \in 1 .. n
      PROVE  \E k \in 1 .. m + 1 : more[k].from <= list[j].from /\ list[j].to <= more[k].to
  <2>1. CASE j \in 1 .. n - 1
    <3>1. PICK k \in 1 .. m : ranges[k].from <= list[j].from /\ list[j].to <= ranges[k].to
      BY <2>1 DEF MergeInv
    <3>2. k \in 1 .. m + 1 /\ more[k] = ranges[k] BY <1>1, <1>3
    <3> QED BY <3>1, <3>2
  <2>2. CASE j = n
    <3>1. m + 1 \in 1 .. m + 1 BY <1>1
    <3>2. list[n].from <= list[n].from /\ list[n].to <= list[n].to BY <1>2 DEF RangeSet
    <3> QED BY <1>3, <2>2, <3>1, <3>2
  <2> QED BY <1>5, <2>1, <2>2
<1>10. more # <<>> /\ Last(more).to = list[n].to BY <1>1, <1>3 DEF Last
<1> QED BY <1>1, <1>3, <1>6, <1>7, <1>8, <1>9, <1>10 DEF MergeInv, more

(* A range that begins where the last one ends is joined to it.            *)
LEMMA JoinKeeps ==
    ASSUME NEW list, Ascending(list), NEW n \in 2 .. Len(list), NEW ranges,
           MergeInv(list, n - 1, ranges), Joins(list[n], Last(ranges))
    PROVE  MergeInv(list, n, AddRange(ranges, list[n]))
<1> DEFINE m == Len(ranges)
           last == Last(ranges)
           joint == [from |-> last.from, to |-> list[n].to]
           more == AddRange(ranges, list[n])
<1>1. /\ ranges \in Seq(RangeSet) /\ list \in Seq(RangeSet)
      /\ m \in Nat /\ n \in Nat /\ n # 0 /\ n - 1 # 0
      /\ n \in 1 .. Len(list) /\ n - 1 \in 1 .. Len(list) /\ n - 1 < n
  BY LenProperties DEF MergeInv, Ascending
<1>2. ranges # <<>> /\ last.to = list[n - 1].to BY <1>1 DEF MergeInv
<1>3. m \in 1 .. m /\ last = ranges[m] BY <1>1, <1>2, EmptySeq DEF Last
<1>4. PICK f \in Nat, t \in Nat, a \in Nat :
             f = last.from /\ t = list[n].to /\ a = list[n].from
  BY <1>1, <1>3, RangeTypes
<1>5. a = last.to /\ last.to \in Nat /\ f < a /\ a < t
  <2>1. PICK b \in Nat : b = last.to BY <1>1, <1>3, RangeTypes
  <2>2. b <= a BY <1>1, <1>2, <1>4, <2>1 DEF Ascending
  <2>3. a <= b BY <1>4, <2>1 DEF Joins
  <2>4. f < b BY <1>3, <1>4, <2>1 DEF MergeInv
  <2>5. a < t BY <1>1, <1>4 DEF Ascending
  <2> QED BY <2>1, <2>2, <2>3, <2>4, <2>5
<1>6. joint \in RangeSet /\ joint.from = f /\ joint.to = t BY <1>4 DEF RangeSet
<1>7. more = [ranges EXCEPT ![m] = joint]
  <2>1. list[n].to > last.to BY <1>4, <1>5
  <2> QED BY <1>2, <2>1 DEF AddRange
<1> HIDE DEF joint
<1>8. /\ more \in Seq(RangeSet) /\ Len(more) = m
      /\ \A k \in 1 .. m : more[k] = IF k = m THEN joint ELSE ranges[k]
  BY <1>1, <1>3, <1>6, <1>7, ExceptSeq
<1> HIDE DEF more
<1>9. more[m] = joint BY <1>3, <1>8
<1>10. \A k \in 1 .. m : more[k].from = ranges[k].from
  BY <1>3, <1>4, <1>6, <1>8
<1>11. \A k \in 1 .. m : k # m => more[k] = ranges[k] BY <1>8
<1>12. ASSUME NEW k \in 1 .. m PROVE more[k].from < more[k].to
  <2>1. CASE k = m
    <3>1. f < t BY <1>4, <1>5
    <3> QED BY <1>6, <1>9, <2>1, <3>1
  <2>2. CASE k # m BY <1>11, <2>2 DEF MergeInv
  <2> QED BY <2>1, <2>2
<1>13. ASSUME NEW j \in 1 .. m, NEW k \in 1 .. m, j < k
       PROVE  more[j].to < more[k].from
  <2>1. j # m BY <1>1, <1>13
  <2> QED BY <1>10, <1>11, <1>13, <2>1 DEF MergeInv
<1>14. ASSUME NEW k \in 1 .. m, NEW i \in Nat, In(i, more[k])
       PROVE  \E j \in 1 .. n : In(i, list[j])
  <2>1. CASE In(i, ranges[k])
    <3>1. PICK j \in 1 .. n - 1 : In(i, list[j]) BY <2>1 DEF MergeInv
    <3>2. j \in 1 .. n BY <1>1
    <3> QED BY <3>1, <3>2
  <2>2. CASE ~In(i, ranges[k])
    <3>1. k = m BY <1>11, <1>14, <2>2
    <3>2. f < i /\ i <= t BY <1>6, <1>9, <1>14, <3>1 DEF In
    <3>3. ~(i <= a) BY <1>3, <1>4, <1>5, <2>2, <3>1, <3>2 DEF In
    <3>4. a < i BY <3>3
    <3>5. In(i, list[n]) BY <1>4, <3>2, <3>4 DEF In
    <3>6. n \in 1 .. n BY <1>1
    <3> QED BY <3>5, <3>6
  <2> QED BY <2>1, <2>2
<1>15. ASSUME NEW j \in 1 .. n
       PROVE  \E k \in 1 .. m : more[k].from <= list[j].from /\ list[j].to <= more[k].to
  <2>1. CASE j \in 1 .. n - 1
    <3>1. PICK k \in 1 .. m : ranges[k].from <= list[j].from /\ list[j].to <= ranges[k].to
      BY <2>1 DEF MergeInv
    <3>2. CASE k # m BY <1>11, <3>1, <3>2
    <3>3. CASE k = m
      <4>1. j \in 1 .. Len(list) BY <1>1, <2>1
      <4>2. PICK e \in Nat : e = list[j].to BY <1>1, <4>1, RangeTypes
      <4>3. e <= a BY <1>3, <1>5, <3>1, <3>3, <4>2
      <4>4. e <= t BY <1>4, <1>5, <4>3
      <4> QED BY <1>6, <1>9, <1>10, <3>1, <3>3, <4>2, <4>4
    <3> QED BY <3>2, <3>3
  <2>2. CASE j = n
    <3>1. f <= a /\ t <= t BY <1>4, <1>5
    <3> QED BY <1>3, <1>4, <1>6, <1>9, <2>2, <3>1
  <2> QED BY <1>1, <2>1, <2>2
<1>16. more # <<>> /\ Last(more).to = list[n].to
  BY <1>3, <1>4, <1>6, <1>8, <1>9 DEF Last
<1> QED BY <1>1, <1>8, <1>12, <1>13, <1>14, <1>15, <1>16 DEF MergeInv, more

LEMMA MergeKeeps ==
    ASSUME NEW list, Ascending(list), NEW n \in 1 .. Len(list), NEW ranges,
           MergeInv(list, n - 1, ranges)
    PROVE  MergeInv(list, n, AddRange(ranges, list[n]))
<1> DEFINE m == Len(ranges)
<1>1. /\ ranges \in Seq(RangeSet) /\ list \in Seq(RangeSet)
      /\ m \in Nat /\ n \in Nat /\ Len(list) \in Nat
  BY LenProperties DEF MergeInv, Ascending
<1>2. CASE ranges = <<>>
  <2>1. AddRange(ranges, list[n]) = Append(ranges, list[n]) BY <1>2 DEF AddRange
  <2>2. \A k \in 1 .. m : ranges[k].to < list[n].from BY <1>2
  <2> QED BY <2>1, <2>2, AppendKeeps
<1>3. CASE ranges # <<>> /\ Joins(list[n], Last(ranges))
  <2>1. n - 1 # 0 BY <1>3 DEF MergeInv
  <2>2. n \in 2 .. Len(list) BY <1>1, <2>1
  <2> QED BY <1>3, <2>2, JoinKeeps
<1>4. CASE ranges # <<>> /\ ~Joins(list[n], Last(ranges))
  <2>1. AddRange(ranges, list[n]) = Append(ranges, list[n]) BY <1>4 DEF AddRange
  <2>2. m \in 1 .. m BY <1>1, <1>4, EmptySeq
  <2>3. PICK a \in Nat, b \in Nat : a = list[n].from /\ b = ranges[m].to
    BY <1>1, <2>2, RangeTypes
  <2>4. b < a BY <1>4, <2>3 DEF Joins, Last
  <2>5. ASSUME NEW k \in 1 .. m PROVE ranges[k].to < list[n].from
    <3>1. CASE k = m BY <2>3, <2>4, <3>1
    <3>2. CASE k # m
      <4>1. k < m BY <1>1, <3>2
      <4>2. PICK f \in Nat, t \in Nat : f = ranges[m].from /\ t = ranges[k].to
        BY <1>1, <2>2, RangeTypes
      <4>3. t < f BY <2>2, <4>1, <4>2 DEF MergeInv
      <4>4. f < b BY <2>2, <2>3, <4>2 DEF MergeInv
      <4>5. t < a BY <2>4, <4>3, <4>4
      <4> QED BY <2>3, <4>2, <4>5
    <3> QED BY <3>1, <3>2
  <2> QED BY <2>1, <2>5, AppendKeeps
<1> QED BY <1>2, <1>3, <1>4

LEMMA MergedRight ==
    ASSUME Ascending(copied)
    PROVE  MergeInv(copied, Len(copied), merged)
<1> DEFINE n == Len(copied)
           G == {k \in 0 .. n : MergeInv(copied, k, Merging(copied)[k])}
<1>1. copied \in Seq(RangeSet) /\ n \in Nat BY LenProperties DEF Ascending
<1>2. 0 \in G
  <2>1. <<>> \in Seq(RangeSet) /\ Len(<<>>) = 0 OBVIOUS
  <2>2. MergeInv(copied, 0, <<>>) BY <2>1 DEF MergeInv
  <2>3. Merging(copied)[0] = <<>> BY <1>1, MergingSteps
  <2> QED BY <1>1, <2>2, <2>3
<1>3. ASSUME NEW k \in 1 .. n, k - 1 \in G PROVE k \in G
  <2>1. MergeInv(copied, k - 1, Merging(copied)[k - 1]) BY <1>3
  <2>2. MergeInv(copied, k, AddRange(Merging(copied)[k - 1], copied[k]))
    BY <2>1, MergeKeeps
  <2>3. Merging(copied)[k] = AddRange(Merging(copied)[k - 1], copied[k])
    BY <1>1, MergingSteps
  <2> QED BY <1>1, <2>2, <2>3
<1> HIDE DEF G
<1>4. \A k \in 1 .. n : k - 1 \in G => k \in G BY <1>3
<1>5. \A k \in 0 .. n : k \in G
  <2> HIDE DEF n
  <2> QED BY <1>1, <1>2, <1>4, Induction
<1>6. n \in 0 .. n BY <1>1
<1> QED BY <1>5, <1>6 DEF G, merged

-----------------------------------------------------------------------------
(* 4. Packets.                                                             *)
LEMMA Division ==
    ASSUME NEW a \in Int, NEW b \in Nat \ {0}
    PROVE  /\ a \div b \in Int
           /\ b * (a \div b) <= a /\ a < b * (a \div b) + b
  OBVIOUS

(* The packets divide the file, and none of them is empty.                 *)
LEMMA PacketBounds ==
    ASSUME size \in Nat, NEW c \in Packets
    PROVE  /\ c \in Nat /\ Start(c) \in Nat /\ Upto(c) \in Nat
           /\ Start(c) < Upto(c) /\ Upto(c) <= size
           /\ Upto(c) <= Start(c) + Payload
<1> DEFINE q == (size + Payload - 1) \div Payload
<1>1. Payload \in Nat /\ Payload >= 1 BY ReuseAssumption
<1>2. q \in Int /\ Payload * q <= size + Payload - 1
  <2>1. size + Payload - 1 \in Int /\ Payload \in Nat \ {0} BY <1>1
  <2> HIDE DEF q
  <2> QED BY <2>1, Division DEF q
<1>3. c \in 0 .. q - 1 BY DEF Packets
<1> HIDE DEF q
<1>4. c \in Nat /\ c + 1 <= q BY <1>2, <1>3
<1>5. PICK s \in Nat : s = c * Payload BY <1>1, <1>4
<1>6. Payload * (c + 1) = s + Payload BY <1>1, <1>4, <1>5
<1>7. Payload * (c + 1) <= Payload * q
  <2>1. PICK d \in Nat : q = c + 1 + d
    <3>1. q - (c + 1) \in Nat /\ q = c + 1 + (q - (c + 1)) BY <1>2, <1>4
    <3> QED BY <3>1
  <2>2. Payload * q = Payload * (c + 1) + Payload * d BY <1>1, <1>4, <2>1
  <2>3. Payload * d \in Nat /\ Payload * (c + 1) \in Nat BY <1>1, <1>4, <2>1
  <2> QED BY <2>2, <2>3
<1>8. s + Payload <= size + Payload - 1
  <2>1. PICK x \in Int : x = Payload * q BY <1>1, <1>2
  <2> QED BY <1>1, <1>2, <1>5, <1>6, <1>7, <2>1
<1>9. s < size BY <1>1, <1>5, <1>8
<1>10. Start(c) = s BY <1>5 DEF Start
<1> QED BY <1>1, <1>4, <1>5, <1>9, <1>10 DEF Upto

LEMMA BytesOfPacket ==
    ASSUME size \in Nat, NEW c \in Packets, NEW i \in Within(c)
    PROVE  /\ i \in 1 .. size /\ i \in Nat
           /\ Start(c) < i /\ i <= Upto(c)
           /\ PacketOf(i) = c
<1>1. /\ c \in Nat /\ Start(c) \in Nat /\ Upto(c) \in Nat
      /\ Upto(c) <= size /\ Upto(c) <= Start(c) + Payload
  BY PacketBounds
<1>2. /\ i \in 1 .. size /\ i \in Nat /\ Start(c) < i /\ i <= Upto(c)
  BY <1>1 DEF Within
<1>3. Payload \in Nat \ {0} BY ReuseAssumption
<1>4. PICK s \in Nat : s = Start(c) /\ s = Payload * c
  BY <1>1, <1>3 DEF Start
<1>5. s <= i - 1 /\ i - 1 < s + Payload BY <1>1, <1>2, <1>3, <1>4
<1> DEFINE q == (i - 1) \div Payload
<1>6. q \in Int /\ Payload * q <= i - 1 /\ i - 1 < Payload * q + Payload
  <2>1. i - 1 \in Int BY <1>2
  <2> HIDE DEF q
  <2> QED BY <1>3, <2>1, Division DEF q
<1> HIDE DEF q
<1>7. ~(q > c)
  <2> SUFFICES ASSUME q > c PROVE FALSE OBVIOUS
  <2>1. PICK d \in Nat : q = c + 1 + d
    <3>1. q - (c + 1) \in Nat /\ q = c + 1 + (q - (c + 1)) BY <1>1, <1>6
    <3> QED BY <3>1
  <2>2. Payload * q = Payload * c + Payload + Payload * d BY <1>1, <1>3, <2>1
  <2>3. PICK x \in Nat : x = Payload * d BY <1>3, <2>1
  <2>4. PICK y \in Int : y = Payload * q BY <1>3, <1>6
  <2>5. y = s + Payload + x BY <1>4, <2>2, <2>3, <2>4
  <2>6. y <= i - 1 BY <1>6, <2>4
  <2> QED BY <1>2, <1>3, <1>5, <2>5, <2>6
<1>8. ~(q < c)
  <2> SUFFICES ASSUME q < c PROVE FALSE OBVIOUS
  <2>1. PICK d \in Nat : c = q + 1 + d
    <3>1. c - (q + 1) \in Nat /\ c = q + 1 + (c - (q + 1)) BY <1>1, <1>6
    <3> QED BY <3>1
  <2>2. Payload * c = Payload * q + Payload + Payload * d BY <1>3, <1>6, <2>1
  <2>3. PICK x \in Nat : x = Payload * d BY <1>3, <2>1
  <2>4. PICK y \in Int : y = Payload * q BY <1>3, <1>6
  <2>5. s = y + Payload + x BY <1>4, <2>2, <2>3, <2>4
  <2>6. i - 1 < y + Payload BY <1>6, <2>4
  <2> QED BY <1>2, <1>3, <1>5, <2>5, <2>6
<1>9. q = c BY <1>1, <1>6, <1>7, <1>8
<1> QED BY <1>2, <1>9 DEF PacketOf, q

-----------------------------------------------------------------------------
(* 5. The invariant.                                                       *)
Typed ==
    /\ source \in Seq(Bytes) /\ candidate \in Seq(Bytes) \cup {None}
    /\ pc \in {"hash", "scan", "parse", "candidate", "open", "copy", "done", "error"}
    /\ pc = "copy" => candidate # None
    /\ size \in Nat /\ at \in Nat \ {0}
    /\ target \in Seq(ChunkSet) /\ available \in Seq(ChunkSet)
    /\ edited \in BOOLEAN /\ edits \in Nat
    /\ edited => edits > 0

(* What a later step sets is empty before it.                              *)
Fresh ==
    /\ pc \in {"hash", "scan", "parse"} => bitmap = {}
    /\ pc \in {"hash", "scan", "parse", "candidate"} => available = <<>>
    /\ pc \in {"hash", "scan", "parse", "candidate", "open"} => at = 1 /\ copied = <<>>

(* Size, object and manifest are those of one and the same file.           *)
SourceKept ==
    ~edited => /\ size = Len(source)
               /\ pc # "hash" => object = source
               /\ pc \notin {"hash", "scan"} => target = scan(source)

(* The bytes of a packet held are the object's.                            *)
HeldRight ==
    ~edited => /\ bitmap \subseteq Packets
               /\ \A c \in bitmap : \A i \in Within(c) : part[i] = object[i]
               /\ pc \in {"candidate", "open", "copy"} => DOMAIN part = 1 .. size

(* The ranges copied are in order, before what is still to be copied, and  *)
(* their bytes are the object's.                                           *)
CopiedRight ==
    ~edited => /\ Ascending(copied)
               /\ \A j \in 1 .. Len(copied) :
                     /\ copied[j].to <= size
                     /\ \A i \in Nat : In(i, copied[j]) => part[i] = object[i]
                     /\ \A k \in 1 .. Len(target) :
                           k >= at => copied[j].to <= target[k].offset

RangeOf(chunk) == [from |-> chunk.offset, to |-> chunk.offset + chunk.length]

(* Without edits, the candidate is the file that was scanned, and every    *)
(* chunk that it has is copied when its turn has come.                     *)
AllCopied ==
    edits = 0 =>
        /\ pc \in {"open", "copy"} => candidate # None /\ available = scan(candidate)
        /\ pc = "copy" =>
              \A k \in 1 .. Len(target) : k < at /\ Matches(target[k]) # {} =>
                  \E j \in 1 .. Len(copied) : copied[j] = RangeOf(target[k])

IInv ==
    /\ Typed /\ Fresh /\ SourceKept /\ HeldRight /\ CopiedRight /\ AllCopied
    /\ ReuseIsComplete /\ NoSpuriousFailure

LEMMA InitIInv == Init => IInv
<1> SUFFICES ASSUME Init PROVE IInv OBVIOUS
<1>1. /\ source \in Seq(Bytes) /\ candidate \in Seq(Bytes) \cup {None}
      /\ Len(source) \in Nat
  BY ReuseAssumption, LenProperties DEF Init
<1>2. /\ pc = "hash" /\ size = Len(source) /\ target = <<>> /\ available = <<>>
      /\ bitmap = {}
      /\ at = 1 /\ copied = <<>> /\ edited = FALSE /\ edits = 0
  BY DEF Init
<1>3. <<>> \in Seq(ChunkSet) /\ <<>> \in Seq(RangeSet) /\ Len(<<>>) = 0 OBVIOUS
<1>4. Typed
  <2>1. edited \in BOOLEAN /\ ~edited BY <1>2
  <2>2. /\ size \in Nat /\ at \in Nat \ {0}
        /\ target \in Seq(ChunkSet) /\ available \in Seq(ChunkSet)
        /\ edits \in Nat
    BY <1>1, <1>2, <1>3
  <2>3. pc # "copy" BY <1>2
  <2> QED BY <1>1, <1>2, <2>1, <2>2, <2>3 DEF Typed
<1>5. Ascending(copied) BY <1>2, <1>3 DEF Ascending
<1>6. CopiedRight BY <1>2, <1>3, <1>5 DEF CopiedRight
<1>7. Fresh /\ SourceKept /\ HeldRight /\ AllCopied
  BY <1>2 DEF Fresh, SourceKept, HeldRight, AllCopied
<1>8. ReuseIsComplete /\ NoSpuriousFailure BY <1>2 DEF ReuseIsComplete, NoSpuriousFailure
<1> QED BY <1>4, <1>6, <1>7, <1>8 DEF IInv

LEMMA SizeKept ==
    ASSUME size' = size
    PROVE  /\ Packets' = Packets
           /\ \A c : Within(c)' = Within(c)
  BY DEF Packets, Within, Upto, Start

(* The steps of the sender.                                                *)
LEMMA HashSourceKeeps ==
    ASSUME IInv, HashSource
    PROVE  IInv'
<1>1. /\ pc = "hash" /\ pc' = "scan" /\ object' = source /\ source' = source
      /\ candidate' = candidate /\ size' = size /\ target' = target
      /\ available' = available /\ part' = part /\ bitmap' = bitmap /\ at' = at
      /\ copied' = copied /\ edited' = edited /\ edits' = edits
  BY DEF HashSource
<1>2. bitmap = {} /\ at = 1 /\ copied = <<>> /\ available = <<>> BY <1>1 DEF IInv, Fresh
<1>3. Typed' BY <1>1 DEF IInv, Typed
<1>4. Fresh' BY <1>1, <1>2 DEF Fresh
<1>5. SourceKept' BY <1>1 DEF IInv, SourceKept
<1>6. HeldRight' BY <1>1, <1>2 DEF HeldRight
<1>7. CopiedRight'
  <2>1. ~edited => Ascending(copied) BY DEF IInv, CopiedRight
  <2>2. ~edited => Ascending(copied)' BY <1>1, <2>1 DEF Ascending
  <2>3. Len(copied') = 0 BY <1>1, <1>2
  <2> QED BY <1>1, <2>2, <2>3 DEF CopiedRight
<1>8. AllCopied' /\ ReuseIsComplete' /\ NoSpuriousFailure'
  BY <1>1 DEF AllCopied, ReuseIsComplete, NoSpuriousFailure
<1> QED BY <1>3, <1>4, <1>5, <1>6, <1>7, <1>8 DEF IInv

LEMMA ScanSourceKeeps ==
    ASSUME IInv, ScanSource
    PROVE  IInv'
<1>1. /\ pc = "scan" /\ pc' \in {"error", "parse"} /\ object' = object
      /\ source' = source /\ target' = scan(source)
      /\ candidate' = candidate /\ size' = size
      /\ available' = available /\ part' = part /\ bitmap' = bitmap /\ at' = at
      /\ copied' = copied /\ edited' = edited /\ edits' = edits
  BY DEF ScanSource
<1>2. bitmap = {} /\ at = 1 /\ copied = <<>> /\ available = <<>> BY <1>1 DEF IInv, Fresh
<1>3. Typed'
  <2>1. target' \in Seq(ChunkSet) BY <1>1, ScanTiles DEF IInv, Typed, Tiles
  <2> QED BY <1>1, <2>1 DEF IInv, Typed
<1>4. Fresh' BY <1>1, <1>2 DEF Fresh
<1>5. SourceKept' BY <1>1 DEF IInv, SourceKept
<1>6. HeldRight' BY <1>1, <1>2 DEF HeldRight
<1>7. CopiedRight'
  <2>1. ~edited => Ascending(copied) BY DEF IInv, CopiedRight
  <2>2. ~edited => Ascending(copied)' BY <1>1, <2>1 DEF Ascending
  <2>3. Len(copied') = 0 BY <1>1, <1>2
  <2> QED BY <1>1, <2>2, <2>3 DEF CopiedRight
<1>8. AllCopied' /\ ReuseIsComplete' BY <1>1 DEF AllCopied, ReuseIsComplete
<1>9. NoSpuriousFailure'
  <2>1. pc' = "error" => ScanFails(target') BY <1>1 DEF ScanSource
  <2> QED BY <2>1 DEF NoSpuriousFailure
<1> QED BY <1>3, <1>4, <1>5, <1>6, <1>7, <1>8, <1>9 DEF IInv

(* The receiver opens the .part file: what an earlier session left of the  *)
(* object is right.                                                        *)
LEMMA OpenPartKeeps ==
    ASSUME IInv, OpenPart
    PROVE  IInv'
<1>1. /\ pc = "parse" /\ pc' \in {"error", "candidate"} /\ object' = object
      /\ source' = source /\ target' = target
      /\ candidate' = candidate /\ size' = size
      /\ available' = available /\ at' = at
      /\ copied' = copied /\ edited' = edited /\ edits' = edits
  BY DEF OpenPart
<1>2. bitmap = {} /\ at = 1 /\ copied = <<>> /\ available = <<>> BY <1>1 DEF IInv, Fresh
<1>3. Typed' BY <1>1 DEF IInv, Typed
<1>4. Fresh' BY <1>1, <1>2 DEF Fresh
<1>5. SourceKept' BY <1>1 DEF IInv, SourceKept
<1>6. HeldRight'
  <2> SUFFICES ASSUME ~edited PROVE HeldRight' BY <1>1 DEF HeldRight
  <2>1. size \in Nat /\ Len(object) = size BY <1>1 DEF IInv, Typed, SourceKept
  <2>2. CASE pc' = "error"
    <3>1. bitmap' = {} BY <1>2, <2>2 DEF OpenPart
    <3> QED BY <2>2, <3>1 DEF HeldRight
  <2>3. CASE pc' = "candidate"
    <3>1. PICK held \in SUBSET Packets :
             /\ bitmap' = held
             /\ part' = [i \in 1 .. size |->
                           IF PacketOf(i) \in held /\ i <= Len(object)
                           THEN object[i] ELSE Hole]
      BY <2>3 DEF OpenPart
    <3>2. DOMAIN part' = 1 .. size BY <3>1
    <3>3. ASSUME NEW c \in held, NEW i \in Within(c) PROVE part'[i] = object[i]
      <4>1. i \in 1 .. size /\ i \in Nat /\ PacketOf(i) = c
        BY <2>1, <3>3, BytesOfPacket
      <4>2. i <= Len(object) BY <2>1, <4>1
      <4> QED BY <3>1, <4>1, <4>2
    <3> QED BY <1>1, <3>1, <3>2, <3>3, SizeKept DEF HeldRight
  <2> QED BY <1>1, <2>2, <2>3
<1>7. CopiedRight'
  <2>1. ~edited => Ascending(copied) BY DEF IInv, CopiedRight
  <2>2. ~edited => Ascending(copied)' BY <1>1, <2>1 DEF Ascending
  <2>3. Len(copied') = 0 BY <1>1, <1>2
  <2> QED BY <1>1, <2>2, <2>3 DEF CopiedRight
<1>8. AllCopied' /\ ReuseIsComplete' BY <1>1 DEF AllCopied, ReuseIsComplete
<1>9. NoSpuriousFailure'
  <2> SUFFICES ASSUME pc' = "error", edits = 0, ~ScanFails(target),
                      encode(target) # MaxEncoded + 1
               PROVE  FALSE
    <3>1. edits \in Nat BY DEF IInv, Typed
    <3> QED BY <1>1, <3>1 DEF NoSpuriousFailure
  <2>1. ~edited BY DEF IInv, Typed
  <2>2. /\ source \in Seq(Bytes) /\ Len(source) = size /\ target = scan(source)
    BY <1>1, <2>1 DEF IInv, Typed, SourceKept
  <2>3. Accepted(target) BY <2>2, ScanAccepted
  <2> QED BY <2>3 DEF OpenPart
<1> QED BY <1>3, <1>4, <1>5, <1>6, <1>7, <1>8, <1>9 DEF IInv

(* The candidate is scanned.  When there is none, nothing is shared.       *)
LEMMA NothingShared ==
    ASSUME IInv, pc' = "done", available' = <<>>, size' = size
    PROVE  ReuseIsComplete'
<1>1. \A k : Matches(k)' = {} BY DEF Matches
<1>2. Shared' = {} BY <1>1 DEF Shared
<1>3. ASSUME NEW c \in Packets PROVE Within(c) # {}
  <2>1. /\ Start(c) \in Nat /\ Upto(c) \in Nat /\ Start(c) < Upto(c)
    BY PacketBounds DEF IInv, Typed
  <2>2. Start(c) + 1 \in Start(c) + 1 .. Upto(c) BY <2>1
  <2> QED BY <2>2 DEF Within
<1> QED BY <1>2, <1>3, SizeKept DEF ReuseIsComplete

LEMMA ScanCandidateKeeps ==
    ASSUME IInv, ScanCandidate
    PROVE  IInv'
<1>1. /\ pc = "candidate" /\ pc' \in {"done", "error", "open"} /\ object' = object
      /\ source' = source /\ target' = target
      /\ candidate' = candidate /\ size' = size
      /\ part' = part /\ bitmap' = bitmap /\ at' = at
      /\ copied' = copied /\ edited' = edited /\ edits' = edits
  BY DEF ScanCandidate
<1>2. at = 1 /\ copied = <<>> /\ available = <<>> BY <1>1 DEF IInv, Fresh
<1>3. \/ candidate = None /\ pc' = "done" /\ available' = available
      \/ /\ candidate # None /\ candidate \in Seq(Bytes)
         /\ available' = scan(candidate) /\ pc' # "done"
  BY <1>1 DEF ScanCandidate, IInv, Typed
<1>4. Typed'
  <2>1. available' \in Seq(ChunkSet)
    <3>1. CASE available' = available BY <3>1 DEF IInv, Typed
    <3>2. CASE candidate \in Seq(Bytes) /\ available' = scan(candidate)
      BY <3>2, ScanTiles DEF Tiles
    <3> QED BY <1>3, <3>1, <3>2
  <2> QED BY <1>1, <2>1 DEF IInv, Typed
<1>5. Fresh' BY <1>1, <1>2 DEF Fresh
<1>6. SourceKept' BY <1>1 DEF IInv, SourceKept
<1>7. HeldRight' BY <1>1, SizeKept DEF IInv, HeldRight
<1>8. CopiedRight'
  <2>1. ~edited => Ascending(copied) BY DEF IInv, CopiedRight
  <2>2. ~edited => Ascending(copied)' BY <1>1, <2>1 DEF Ascending
  <2>3. Len(copied') = 0 BY <1>1, <1>2
  <2> QED BY <1>1, <2>2, <2>3 DEF CopiedRight
<1>9. AllCopied' BY <1>1, <1>3 DEF AllCopied
<1>10. ReuseIsComplete'
  <2>1. CASE pc' = "done" BY <1>1, <1>2, <1>3, <2>1, NothingShared
  <2>2. CASE pc' # "done" BY <2>2 DEF ReuseIsComplete
  <2> QED BY <2>1, <2>2
<1>11. NoSpuriousFailure'
  <2>1. pc' = "error" => ScanFails(available') BY <1>1 DEF ScanCandidate
  <2> QED BY <2>1 DEF NoSpuriousFailure
<1> QED BY <1>4, <1>5, <1>6, <1>7, <1>8, <1>9, <1>10, <1>11 DEF IInv

LEMMA OpenCandidateKeeps ==
    ASSUME IInv, OpenCandidate
    PROVE  IInv'
<1>1. /\ pc = "open" /\ pc' = IF candidate = None THEN "error" ELSE "copy"
      /\ object' = object
      /\ source' = source /\ target' = target /\ available' = available
      /\ candidate' = candidate /\ size' = size
      /\ part' = part /\ bitmap' = bitmap /\ at' = at
      /\ copied' = copied /\ edited' = edited /\ edits' = edits
  BY DEF OpenCandidate
<1>2. at = 1 /\ copied = <<>> BY <1>1 DEF IInv, Fresh
<1>3. Typed' BY <1>1 DEF IInv, Typed
<1>4. Fresh' BY <1>1 DEF Fresh
<1>5. SourceKept' BY <1>1 DEF IInv, SourceKept
<1>6. HeldRight' BY <1>1, SizeKept DEF IInv, HeldRight
<1>7. CopiedRight'
  <2>1. ~edited => Ascending(copied) BY DEF IInv, CopiedRight
  <2>2. ~edited => Ascending(copied)' BY <1>1, <2>1 DEF Ascending
  <2>3. Len(copied') = 0 BY <1>1, <1>2
  <2> QED BY <1>1, <2>2, <2>3 DEF CopiedRight
<1>8. AllCopied'
  <2>1. \A k \in 1 .. Len(target) : ~(k < at) BY <1>2
  <2> QED BY <1>1, <2>1 DEF IInv, AllCopied
<1>9. ReuseIsComplete' BY <1>1 DEF ReuseIsComplete
<1>10. NoSpuriousFailure'
  <2>1. pc' = "error" => edits # 0 BY <1>1 DEF IInv, AllCopied
  <2>2. edits \in Nat BY DEF IInv, Typed
  <2> QED BY <1>1, <2>1, <2>2 DEF NoSpuriousFailure
<1> QED BY <1>3, <1>4, <1>5, <1>6, <1>7, <1>8, <1>9, <1>10 DEF IInv

-----------------------------------------------------------------------------
(* The copy of a chunk.                                                    *)
LEMMA FirstMatchFound ==
    ASSUME Typed, NEW chunk, Matches(chunk) # {}
    PROVE  /\ FirstMatch(chunk) \in 1 .. Len(available)
           /\ available[FirstMatch(chunk)].hash = chunk.hash
           /\ available[FirstMatch(chunk)].offset \in Nat
<1> DEFINE T == Matches(chunk)
<1>1. T \subseteq Nat BY DEF Matches
<1>2. \E k \in T : \A j \in T : k <= j
  <2> HIDE DEF T
  <2> QED BY <1>1, LeastNatural DEF T
<1>3. FirstMatch(chunk) \in T BY <1>2 DEF FirstMatch
<1>4. /\ FirstMatch(chunk) \in 1 .. Len(available)
      /\ available[FirstMatch(chunk)].hash = chunk.hash
  BY <1>3 DEF Matches
<1> QED BY <1>4, ChunkTypes DEF Typed

(* What passes the second hash is the object's.                            *)
LEMMA CopyIsRight ==
    ASSUME IInv, ~edited, pc = "copy", at <= Len(target), NEW from \in Nat,
           from + target[at].length <= Len(candidate), SameContent(target[at], from)
    PROVE  LET chunk == target[at]
           IN  /\ chunk.offset \in Nat /\ chunk.length \in Nat \ {0}
               /\ chunk.offset + chunk.length <= size
               /\ \A i \in chunk.offset + 1 .. chunk.offset + chunk.length :
                     candidate[from + i - chunk.offset] = object[i]
<1> DEFINE chunk == target[at]
<1>1. /\ source \in Seq(Bytes) /\ size = Len(source) /\ object = source
      /\ target = scan(source) /\ candidate \in Seq(Bytes)
  BY DEF IInv, Typed, SourceKept
<1>2. Tiles(target, source) BY <1>1, ScanTiles
<1>3. target \in Seq(ChunkSet) /\ at \in 1 .. Len(target)
  BY <1>2, LenProperties DEF Tiles, IInv, Typed
<1>4. IsChunkOf(chunk, source) BY <1>2, <1>3 DEF Tiles
<1>5. PICK o \in Nat, l \in Nat : o = chunk.offset /\ l = chunk.length /\ l # 0
  <2>1. chunk.offset \in Nat BY <1>3, ChunkTypes
  <2>2. chunk.length \in Nat \ {0} BY <1>4, ReuseAssumption DEF IsChunkOf
  <2> QED BY <2>1, <2>2
<1>6. o + l <= size BY <1>1, <1>4, <1>5 DEF IsChunkOf
<1>7. SubSeq(candidate, from + 1, from + l) = chunk.hash BY <1>5 DEF SameContent
<1>8. ASSUME NEW i \in o + 1 .. o + l PROVE candidate[from + i - o] = object[i]
  <2>1. i - o \in 1 .. l /\ o + (i - o) = i OBVIOUS
  <2>2. chunk.hash[i - o] = source[i] BY <1>4, <1>5, <2>1 DEF IsChunkOf
  <2>3. SubSeq(candidate, from + 1, from + l)[i - o] = candidate[from + i - o]
    <3>1. SubSeq(candidate, from + 1, from + l) =
             [j \in 1 .. ((from + l) - (from + 1) + 1) |-> candidate[j + (from + 1) - 1]]
      OBVIOUS
    <3>2. (from + l) - (from + 1) + 1 = l OBVIOUS
    <3>3. (i - o) + (from + 1) - 1 = from + i - o OBVIOUS
    <3> QED BY <2>1, <3>1, <3>2, <3>3
  <2> QED BY <1>1, <1>7, <2>2, <2>3
<1> QED BY <1>5, <1>6, <1>8

(* Without edits, the candidate still has what it had when it was scanned. *)
LEMMA MatchIsContent ==
    ASSUME IInv, edits = 0, pc = "copy", at <= Len(target), Matches(target[at]) # {}
    PROVE  LET from == available[FirstMatch(target[at])].offset
           IN  /\ from + target[at].length <= Len(candidate)
               /\ SameContent(target[at], from)
<1> DEFINE chunk == target[at]
           m == FirstMatch(chunk)
           from == available[m].offset
<1>1. ~edited BY DEF IInv, Typed
<1>2. /\ source \in Seq(Bytes) /\ target = scan(source)
      /\ candidate \in Seq(Bytes) /\ available = scan(candidate)
  BY <1>1 DEF IInv, Typed, SourceKept, AllCopied
<1>3. Tiles(target, source) /\ Tiles(available, candidate) BY <1>2, ScanTiles
<1>4. at \in 1 .. Len(target) BY <1>3, LenProperties DEF Tiles, IInv, Typed
<1>5. m \in 1 .. Len(available) /\ available[m].hash = chunk.hash /\ from \in Nat
  BY FirstMatchFound DEF IInv
<1>6. IsChunkOf(chunk, source) /\ IsChunkOf(available[m], candidate)
  BY <1>3, <1>4, <1>5 DEF Tiles
<1>7. PICK l \in Nat : l = chunk.length /\ l = Len(chunk.hash) /\ l = available[m].length
  BY <1>5, <1>6, ReuseAssumption DEF IsChunkOf
<1>8. from + l <= Len(candidate) BY <1>6, <1>7 DEF IsChunkOf
<1>9. SubSeq(candidate, from + 1, from + l) = chunk.hash
  <2> HIDE DEF from
  <2> DEFINE sub == SubSeq(candidate, from + 1, from + l)
  <2>1. sub = [j \in 1 .. ((from + l) - (from + 1) + 1) |-> candidate[j + (from + 1) - 1]]
    BY <1>5
  <2>2. (from + l) - (from + 1) + 1 = l BY <1>5
  <2>3. \A j \in 1 .. l : j + (from + 1) - 1 = from + j BY <1>5
  <2>4. sub = [j \in 1 .. l |-> candidate[from + j]]
    BY <2>1, <2>2, <2>3
  <2>5. chunk.hash \in Seq(Bytes) BY <1>3, <1>4, ChunkTypes DEF Tiles
  <2>6. chunk.hash = [j \in 1 .. l |-> chunk.hash[j]]
    <3>1. chunk.hash \in [1 .. Len(chunk.hash) -> Bytes] BY <2>5, LenProperties
    <3> QED BY <1>7, <3>1
  <2>7. \A j \in 1 .. l : chunk.hash[j] = candidate[from + j]
    BY <1>5, <1>6, <1>7 DEF IsChunkOf, from
  <2> HIDE DEF sub
  <2> QED BY <2>4, <2>6, <2>7 DEF sub
<1> QED BY <1>7, <1>8, <1>9 DEF SameContent

(* One turn of the loop that copies nothing.                               *)
LEMMA SkipKeeps ==
    ASSUME IInv, pc = "copy", at <= Len(target), at' = at + 1, pc' \in {"copy", "error"},
           edits = 0 => pc' = "copy" /\ Matches(target[at]) = {},
           UNCHANGED <<source, candidate, size, object, target, available, part,
                       copied, bitmap, edited, edits>>
    PROVE  IInv'
<1>1. at \in Nat /\ edits \in Nat BY DEF IInv, Typed
<1>2. /\ object' = object /\ source' = source /\ target' = target
      /\ available' = available /\ candidate' = candidate /\ size' = size
      /\ part' = part /\ bitmap' = bitmap
      /\ copied' = copied /\ edited' = edited /\ edits' = edits
  OBVIOUS
<1>3. Typed'
  <2>1. at' \in Nat \ {0} BY <1>1
  <2> QED BY <1>2, <2>1 DEF IInv, Typed
<1>4. Fresh' BY DEF Fresh
<1>5. SourceKept' BY <1>2 DEF IInv, SourceKept
<1>6. HeldRight' BY <1>2, SizeKept DEF IInv, HeldRight
<1>7. CopiedRight'
  <2> SUFFICES ASSUME ~edited PROVE CopiedRight' BY <1>2 DEF CopiedRight
  <2>1. Ascending(copied)' BY <1>2 DEF IInv, CopiedRight, Ascending
  <2>2. \A k \in 1 .. Len(target) : k >= at + 1 => k >= at BY <1>1
  <2>3. ASSUME NEW j \in 1 .. Len(copied)
        PROVE  /\ copied[j].to <= size
               /\ \A i \in Nat : In(i, copied[j]) => part[i] = object[i]
               /\ \A k \in 1 .. Len(target) : k >= at + 1 => copied[j].to <= target[k].offset
    BY <2>2 DEF IInv, CopiedRight
  <2> QED BY <1>2, <2>1, <2>3 DEF CopiedRight, In
<1>8. AllCopied'
  <2> SUFFICES ASSUME edits = 0 PROVE AllCopied' BY <1>2 DEF AllCopied
  <2>1. \A k : Matches(k)' = Matches(k) BY <1>2 DEF Matches
  <2>2. ASSUME NEW k \in 1 .. Len(target), k < at + 1, Matches(target[k]) # {}
        PROVE  \E j \in 1 .. Len(copied) : copied[j] = RangeOf(target[k])
    <3>1. k # at BY <2>2
    <3>2. k < at BY <1>1, <2>2, <3>1
    <3> QED BY <2>2, <3>2 DEF IInv, AllCopied
  <2>3. candidate # None /\ available = scan(candidate) BY DEF IInv, AllCopied
  <2> QED BY <1>2, <2>1, <2>2, <2>3 DEF AllCopied, RangeOf
<1>9. ReuseIsComplete' BY DEF ReuseIsComplete
<1>10. NoSpuriousFailure' BY <1>1, <1>2 DEF NoSpuriousFailure
<1> QED BY <1>3, <1>4, <1>5, <1>6, <1>7, <1>8, <1>9, <1>10 DEF IInv

(* One that copies the chunk.                                              *)
LEMMA CopyKeeps ==
    ASSUME IInv, pc = "copy", at <= Len(target), at' = at + 1, pc' = pc,
           UNCHANGED <<source, candidate, size, object, target, available,
                       bitmap, edited, edits>>,
           NEW from \in Nat,
           from + target[at].length <= Len(candidate), SameContent(target[at], from),
           part' = [i \in DOMAIN part |->
                      IF i \in target[at].offset + 1 .. target[at].offset + target[at].length
                      THEN candidate[from + i - target[at].offset]
                      ELSE part[i]],
           copied' = Append(copied, RangeOf(target[at]))
    PROVE  IInv'
<1> DEFINE chunk == target[at]
           n == Len(copied)
<1>1. at \in Nat /\ edits \in Nat /\ size \in Nat BY DEF IInv, Typed
<1>2. /\ object' = object /\ source' = source /\ target' = target
      /\ available' = available /\ candidate' = candidate /\ size' = size
      /\ bitmap' = bitmap /\ edited' = edited /\ edits' = edits
  OBVIOUS
<1>3. ASSUME ~edited
      PROVE  /\ target \in Seq(ChunkSet) /\ at \in 1 .. Len(target)
             /\ chunk.offset \in Nat /\ chunk.length \in Nat \ {0}
             /\ chunk.offset + chunk.length <= size
             /\ \A i \in 1 .. size :
                   part'[i] = IF i \in chunk.offset + 1 .. chunk.offset + chunk.length
                              THEN object[i] ELSE part[i]
  <2>1. /\ chunk.offset \in Nat /\ chunk.length \in Nat \ {0}
        /\ chunk.offset + chunk.length <= size
        /\ \A i \in chunk.offset + 1 .. chunk.offset + chunk.length :
              candidate[from + i - chunk.offset] = object[i]
    BY <1>3, CopyIsRight
  <2>2. DOMAIN part = 1 .. size BY <1>3 DEF IInv, HeldRight
  <2>3. target \in Seq(ChunkSet)
    BY <1>3, ScanTiles DEF IInv, Typed, SourceKept, Tiles
  <2>4. at \in 1 .. Len(target) BY <2>3, LenProperties DEF IInv, Typed
  <2> QED BY <2>1, <2>2, <2>3, <2>4
<1>4. Typed'
  <2>1. at' \in Nat \ {0} BY <1>1
  <2> QED BY <1>2, <2>1 DEF IInv, Typed
<1>5. Fresh' BY DEF Fresh
<1>6. SourceKept' BY <1>2 DEF IInv, SourceKept
<1>7. HeldRight'
  <2> SUFFICES ASSUME ~edited PROVE HeldRight'
    <3>1. CASE edited BY <1>2, <3>1, Zenon DEF HeldRight
    <3> QED BY <3>1
  <2>1. DOMAIN part' = 1 .. size BY DEF IInv, HeldRight
  <2>2. ASSUME NEW c \in bitmap, NEW i \in Within(c) PROVE part'[i] = object[i]
    <3>1. c \in Packets /\ part[i] = object[i] BY <2>2 DEF IInv, HeldRight
    <3>2. i \in 1 .. size BY <1>1, <2>2, <3>1, BytesOfPacket
    <3> QED BY <1>3, <3>1, <3>2
  <2>3. bitmap \subseteq Packets BY DEF IInv, HeldRight
  <2> QED BY <1>2, <2>1, <2>2, <2>3, SizeKept DEF HeldRight
<1>8. CopiedRight'
  <2> SUFFICES ASSUME ~edited PROVE CopiedRight'
    <3>1. CASE edited BY <1>2, <3>1, Zenon DEF CopiedRight
    <3> QED BY <3>1
  <2>1. Ascending(copied) /\ copied \in Seq(RangeSet) /\ n \in Nat
    BY LenProperties DEF IInv, CopiedRight, Ascending
  <2>2. PICK o \in Nat, e \in Nat : o = chunk.offset /\ e = chunk.offset + chunk.length /\ o < e
    <3>1. chunk.offset \in Nat /\ chunk.length \in Nat /\ chunk.length # 0 BY <1>3
    <3>2. PICK o \in Nat, l \in Nat : o = chunk.offset /\ l = chunk.length BY <3>1
    <3>3. o + l \in Nat /\ (l # 0 => o < o + l) OBVIOUS
    <3> QED BY <3>1, <3>2, <3>3
  <2> DEFINE range == RangeOf(chunk)
  <2>3. range \in RangeSet /\ range.from = o /\ range.to = e
    BY <2>2 DEF RangeOf, RangeSet
  <2> HIDE DEF range
  <2>4. /\ copied' \in Seq(RangeSet) /\ Len(copied') = n + 1 /\ copied'[n + 1] = range
        /\ \A j \in 1 .. n : copied'[j] = copied[j]
    BY <2>1, <2>3, AppendProperties DEF range
  <2>5. \A j \in 1 .. n + 1 : j \in 1 .. n \/ j = n + 1 BY <2>1
  <2>6. \A j \in 1 .. n : copied[j].to <= o
    <3>1. at >= at BY <1>1
    <3> QED BY <1>3, <2>2, <3>1 DEF IInv, CopiedRight
  <2>7. Ascending(copied')
    <3>1. ASSUME NEW j \in 1 .. n + 1 PROVE copied'[j].from < copied'[j].to
      <4>1. CASE j \in 1 .. n BY <2>1, <2>4, <4>1 DEF Ascending
      <4>2. CASE j = n + 1 BY <2>2, <2>3, <2>4, <4>2
      <4> QED BY <2>5, <4>1, <4>2
    <3>2. ASSUME NEW j \in 1 .. n + 1, NEW k \in 1 .. n + 1, j < k
          PROVE  copied'[j].to <= copied'[k].from
      <4>1. j \in 1 .. n BY <2>1, <3>2
      <4>2. CASE k \in 1 .. n BY <2>1, <2>4, <3>2, <4>1, <4>2 DEF Ascending
      <4>3. CASE k = n + 1 BY <2>3, <2>4, <2>6, <4>1, <4>3
      <4> QED BY <2>5, <4>2, <4>3
    <3> QED BY <2>4, <3>1, <3>2 DEF Ascending
  <2>8. ASSUME NEW j \in 1 .. n + 1
        PROVE  /\ copied'[j].to <= size
               /\ \A i \in Nat : In(i, copied'[j]) => part'[i] = object[i]
               /\ \A k \in 1 .. Len(target) :
                     k >= at + 1 => copied'[j].to <= target[k].offset
    <3>1. CASE j \in 1 .. n
      <4>1. copied'[j] = copied[j] BY <2>4, <3>1
      <4>2. copied[j].from \in Nat /\ copied[j].to \in Nat BY <2>1, <3>1, RangeTypes
      <4>3. copied[j].to <= size BY <3>1 DEF IInv, CopiedRight
      <4>4. ASSUME NEW i \in Nat, In(i, copied[j]) PROVE part'[i] = object[i]
        <5>1. part[i] = object[i] BY <3>1, <4>4 DEF IInv, CopiedRight
        <5>2. i \in 1 .. size BY <1>1, <4>2, <4>3, <4>4 DEF In
        <5> QED BY <1>3, <5>1, <5>2
      <4>5. \A k \in 1 .. Len(target) : k >= at + 1 => k >= at BY <1>1
      <4>6. \A k \in 1 .. Len(target) : k >= at + 1 => copied[j].to <= target[k].offset
        BY <3>1, <4>5 DEF IInv, CopiedRight
      <4> QED BY <4>1, <4>3, <4>4, <4>6
    <3>2. CASE j = n + 1
      <4>1. copied'[j] = range BY <2>4, <3>2
      <4>2. e <= size BY <1>3, <2>2
      <4>3. ASSUME NEW i \in Nat, In(i, range) PROVE part'[i] = object[i]
        <5>1. o < i /\ i <= e BY <2>3, <4>3 DEF In
        <5>2. i \in 1 .. size /\ i \in o + 1 .. e BY <1>1, <2>2, <4>2, <5>1
        <5> QED BY <1>3, <2>2, <5>2
      <4>4. ASSUME NEW k \in 1 .. Len(target), k >= at + 1 PROVE e <= target[k].offset
        <5>1. Tiles(target, source) BY ScanTiles DEF IInv, Typed, SourceKept
        <5>2. at < k BY <1>1, <4>4
        <5>3. chunk.offset + chunk.length <= target[k].offset
          BY <1>3, <5>1, <5>2 DEF Tiles
        <5> QED BY <2>2, <5>3
      <4> QED BY <2>3, <4>1, <4>2, <4>3, <4>4
    <3> QED BY <2>5, <3>1, <3>2
  <2>9. Ascending(copied)' BY <2>7 DEF Ascending
  <2> QED BY <1>2, <2>4, <2>8, <2>9 DEF CopiedRight, In
<1>9. AllCopied'
  <2> SUFFICES ASSUME edits = 0 PROVE AllCopied' BY <1>2 DEF AllCopied
  <2>1. \A k : Matches(k)' = Matches(k) BY <1>2 DEF Matches
  <2>2. ~edited BY DEF IInv, Typed
  <2>3. copied \in Seq(RangeSet) /\ n \in Nat
    BY <2>2, LenProperties DEF IInv, CopiedRight, Ascending
  <2>4. RangeOf(chunk) \in RangeSet BY <1>3, <2>2 DEF RangeOf, RangeSet
  <2>5. /\ Len(copied') = n + 1 /\ copied'[n + 1] = RangeOf(chunk)
        /\ \A j \in 1 .. n : copied'[j] = copied[j]
    <3> DEFINE range == RangeOf(chunk)
    <3> HIDE DEF range
    <3> QED BY <2>3, <2>4, AppendProperties DEF range
  <2>6. ASSUME NEW k \in 1 .. Len(target), k < at + 1, Matches(target[k]) # {}
        PROVE  \E j \in 1 .. n + 1 : copied'[j] = RangeOf(target[k])
    <3>1. CASE k = at
      <4>1. n + 1 \in 1 .. n + 1 BY <2>3
      <4> QED BY <2>5, <3>1, <4>1
    <3>2. CASE k # at
      <4>1. k < at BY <1>1, <2>6, <3>2
      <4>2. PICK j \in 1 .. n : copied[j] = RangeOf(target[k])
        BY <2>6, <4>1 DEF IInv, AllCopied
      <4>3. j \in 1 .. n + 1 /\ copied'[j] = copied[j] BY <2>3, <2>5
      <4> QED BY <4>2, <4>3
    <3> QED BY <3>1, <3>2
  <2>7. candidate # None /\ available = scan(candidate) BY DEF IInv, AllCopied
  <2> QED BY <1>2, <2>1, <2>5, <2>6, <2>7 DEF AllCopied, RangeOf
<1>10. ReuseIsComplete' /\ NoSpuriousFailure' BY DEF ReuseIsComplete, NoSpuriousFailure
<1> QED BY <1>4, <1>5, <1>6, <1>7, <1>8, <1>9, <1>10 DEF IInv

LEMMA CopyChunkKeeps ==
    ASSUME IInv, CopyChunk
    PROVE  IInv'
<1> DEFINE chunk == target[at]
           from == available[FirstMatch(chunk)].offset
<1>1. /\ pc = "copy" /\ at <= Len(target) /\ at' = at + 1
      /\ UNCHANGED <<source, candidate, size, object, target, available,
                     bitmap, edited, edits>>
  BY DEF CopyChunk
<1>0. /\ chunk.length \in Nat /\ Len(candidate) \in Nat
      /\ Matches(chunk) # {} => from \in Nat
  <2>1. target \in Seq(ChunkSet) /\ candidate \in Seq(Bytes) BY <1>1 DEF IInv, Typed
  <2>2. at \in 1 .. Len(target) BY <1>1, <2>1, LenProperties DEF IInv, Typed
  <2>3. chunk.length \in Nat /\ Len(candidate) \in Nat
    BY <2>1, <2>2, ChunkTypes, LenProperties
  <2> QED BY <2>3, FirstMatchFound DEF IInv
<1>2. CASE Matches(chunk) = {}
  <2>1. pc' = pc /\ part' = part /\ copied' = copied BY <1>2 DEF CopyChunk
  <2> QED BY <1>1, <1>2, <2>1, SkipKeeps
<1>3. CASE Matches(chunk) # {} /\ from + chunk.length > Len(candidate)
  <2>1. edits # 0
    <3> SUFFICES ASSUME edits = 0 PROVE FALSE OBVIOUS
    <3>1. from + chunk.length <= Len(candidate) BY <1>1, <1>3, MatchIsContent
    <3> QED BY <1>0, <1>3, <3>1
  <2>2. ~(from + chunk.length <= Len(candidate)) BY <1>0, <1>3
  <2>3. part' = part /\ copied' = copied /\ pc' \in {"copy", "error"}
    BY <1>1, <1>3, <2>2 DEF CopyChunk
  <2> QED BY <1>1, <2>1, <2>3, SkipKeeps
<1>4. CASE /\ Matches(chunk) # {} /\ ~(from + chunk.length > Len(candidate))
           /\ ~SameContent(chunk, from)
  <2>1. edits # 0 BY <1>1, <1>4, MatchIsContent
  <2>2. part' = part /\ copied' = copied /\ pc' \in {"copy", "error"}
    BY <1>1, <1>4 DEF CopyChunk
  <2> QED BY <1>1, <2>1, <2>2, SkipKeeps
<1>5. CASE /\ Matches(chunk) # {} /\ ~(from + chunk.length > Len(candidate))
           /\ SameContent(chunk, from)
  <2>1. /\ from + chunk.length <= Len(candidate) /\ pc' = pc
        /\ part' = [i \in DOMAIN part |->
                      IF i \in chunk.offset + 1 .. chunk.offset + chunk.length
                      THEN candidate[from + i - chunk.offset]
                      ELSE part[i]]
        /\ copied' = Append(copied, RangeOf(chunk))
    BY <1>5 DEF CopyChunk, RangeOf
  <2>2. from \in Nat BY <1>0, <1>5
  <2> HIDE DEF from
  <2> QED BY <1>1, <1>5, <2>1, <2>2, CopyKeeps
<1> QED BY <1>2, <1>3, <1>4, <1>5

-----------------------------------------------------------------------------
(* The packets are marked.  All bytes of a marked packet were copied.      *)
LEMMA ReusedIsRight ==
    ASSUME IInv, ~edited, NEW c \in Reused, NEW i \in Within(c)
    PROVE  part[i] = object[i]
<1>1. size \in Nat /\ c \in Packets BY DEF IInv, Typed, Reused
<1>2. i \in Nat /\ Start(c) < i /\ i <= Upto(c) /\ Start(c) \in Nat /\ Upto(c) \in Nat
  BY <1>1, BytesOfPacket, PacketBounds
<1>3. MergeInv(copied, Len(copied), merged) BY MergedRight DEF IInv, CopiedRight
<1>4. PICK k \in 1 .. Len(merged) : CoveredBy(merged[k], c) BY DEF Reused
<1>5. merged[k].from \in Nat /\ merged[k].to \in Nat
  BY <1>3, RangeTypes DEF MergeInv
<1>6. In(i, merged[k]) BY <1>2, <1>4, <1>5 DEF CoveredBy, In
<1>7. PICK j \in 1 .. Len(copied) : In(i, copied[j]) BY <1>2, <1>3, <1>6 DEF MergeInv
<1> QED BY <1>2, <1>7 DEF IInv, CopiedRight

(* A packet of shared bytes lies within one of the merged ranges, and it   *)
(* is the range that the search finds.                                     *)
LEMMA SharedIsReused ==
    ASSUME IInv, edits = 0, pc = "copy", at > Len(target),
           NEW c \in Packets, Within(c) \subseteq Shared
    PROVE  c \in Reused
<1> DEFINE n == Len(merged)
<1>1. ~edited /\ size \in Nat BY DEF IInv, Typed
<1>2. MergeInv(copied, Len(copied), merged) BY <1>1, MergedRight DEF IInv, CopiedRight
<1>3. merged \in Seq(RangeSet) /\ n \in Nat BY <1>2, LenProperties DEF MergeInv
<1>4. copied \in Seq(RangeSet) /\ target \in Seq(ChunkSet) /\ at \in Nat
  BY <1>1 DEF IInv, CopiedRight, Ascending, Typed
<1>5. ASSUME NEW i \in Within(c) PROVE \E k \in 1 .. n : In(i, merged[k])
  <2>1. i \in Nat BY <1>1, <1>5, BytesOfPacket
  <2>2. PICK h \in 1 .. Len(target) :
               /\ Matches(target[h]) # {}
               /\ i \in target[h].offset + 1 .. target[h].offset + target[h].length
    <3>1. i \in Shared BY <1>5
    <3>2. PICK chunk \in ToSet(target) :
                 /\ Matches(chunk) # {}
                 /\ i \in chunk.offset + 1 .. chunk.offset + chunk.length
      BY <3>1 DEF Shared
    <3>3. PICK h \in DOMAIN target : chunk = target[h] BY DEF ToSet
    <3>4. h \in 1 .. Len(target) BY <1>4, <3>3, LenProperties
    <3> QED BY <3>2, <3>3, <3>4
  <2>3. h < at
    <3>1. Len(target) \in Nat BY <1>4, LenProperties
    <3> QED BY <1>4, <3>1
  <2>4. PICK j \in 1 .. Len(copied) : copied[j] = RangeOf(target[h])
    BY <2>2, <2>3 DEF IInv, AllCopied
  <2>5. PICK o \in Nat, e \in Nat : /\ o = target[h].offset
                                   /\ e = target[h].offset + target[h].length
    BY <1>4, ChunkTypes
  <2>6. o < i /\ i <= e BY <2>1, <2>2, <2>5
  <2>7. copied[j].from = o /\ copied[j].to = e BY <2>4, <2>5 DEF RangeOf
  <2>8. PICK k \in 1 .. n : merged[k].from <= copied[j].from /\ copied[j].to <= merged[k].to
    BY <1>2 DEF MergeInv
  <2>9. PICK f \in Nat, t \in Nat : f = merged[k].from /\ t = merged[k].to
    BY <1>3, RangeTypes
  <2>10. f < i /\ i <= t
    <3>1. f <= o /\ e <= t BY <2>7, <2>8, <2>9
    <3> QED BY <2>1, <2>6, <3>1
  <2> QED BY <2>9, <2>10 DEF In
<1>6. PICK s \in Nat, u \in Nat : s = Start(c) /\ u = Upto(c) /\ s < u
  BY <1>1, PacketBounds
<1>7. \A i \in Nat : s < i /\ i <= u => i \in Within(c) BY <1>6 DEF Within
<1>8. PICK k \in 1 .. n : In(s + 1, merged[k])
  <2>1. s + 1 \in Within(c) BY <1>6, <1>7
  <2> QED BY <1>5, <2>1
<1>9. PICK f \in Nat, t \in Nat : f = merged[k].from /\ t = merged[k].to
  BY <1>3, RangeTypes
<1>10. f <= s /\ s < t BY <1>6, <1>8, <1>9 DEF In
<1>11. ASSUME NEW j \in 1 .. k - 1 PROVE merged[j].to <= s
  <2>1. j \in 1 .. n /\ j < k BY <1>3
  <2>2. PICK e \in Nat : e = merged[j].to BY <1>3, <2>1, RangeTypes
  <2>3. e < f BY <1>2, <1>9, <2>1, <2>2 DEF MergeInv
  <2> QED BY <1>6, <1>9, <1>10, <2>2, <2>3
<1>12. t >= u
  <2> SUFFICES ASSUME t < u PROVE FALSE BY <1>6, <1>9
  <2>1. t + 1 \in Within(c) BY <1>6, <1>7, <1>9, <1>10
  <2>2. PICK m \in 1 .. n : In(t + 1, merged[m]) BY <1>5, <2>1
  <2>3. PICK a \in Nat, b \in Nat : a = merged[m].from /\ b = merged[m].to
    BY <1>3, RangeTypes
  <2>4. a <= t /\ t < b
    <3>1. a < t + 1 /\ t + 1 <= b BY <2>2, <2>3 DEF In
    <3> QED BY <3>1
  <2>5. CASE m = k BY <1>9, <2>3, <2>4, <2>5
  <2>6. CASE k < m
    <3>1. t < a BY <1>2, <1>9, <2>3, <2>6 DEF MergeInv
    <3> QED BY <1>9, <2>3, <2>4, <3>1
  <2>7. CASE m < k
    <3>1. b < f BY <1>2, <1>9, <2>3, <2>7 DEF MergeInv
    <3> QED BY <1>6, <1>9, <1>10, <2>3, <2>4, <3>1
  <2> QED BY <1>3, <2>5, <2>6, <2>7
<1>13. CoveredBy(merged[k], c) BY <1>6, <1>9, <1>10, <1>12 DEF CoveredBy
<1>14. merged[k].to > Start(c) /\ \A j \in 1 .. k - 1 : merged[j].to <= Start(c)
  BY <1>6, <1>9, <1>10, <1>11
<1> QED BY <1>13, <1>14 DEF Reused

LEMMA MarkReusedKeeps ==
    ASSUME IInv, MarkReused
    PROVE  IInv'
<1>1. /\ pc = "copy" /\ pc' = "done" /\ at > Len(target)
      /\ bitmap' = bitmap \cup Reused
      /\ object' = object /\ source' = source /\ target' = target
      /\ available' = available /\ candidate' = candidate /\ size' = size
      /\ part' = part /\ at' = at
      /\ copied' = copied /\ edited' = edited /\ edits' = edits
  BY DEF MarkReused
<1>2. Typed' BY <1>1 DEF IInv, Typed
<1>3. Fresh' BY <1>1 DEF Fresh
<1>4. SourceKept' BY <1>1 DEF IInv, SourceKept
<1>5. HeldRight'
  <2> SUFFICES ASSUME ~edited PROVE HeldRight' BY <1>1 DEF HeldRight
  <2>1. bitmap' \subseteq Packets BY <1>1 DEF IInv, HeldRight, Reused
  <2>2. \A c \in bitmap : \A i \in Within(c) : part[i] = object[i] BY DEF IInv, HeldRight
  <2>3. \A c \in Reused : \A i \in Within(c) : part[i] = object[i] BY ReusedIsRight
  <2>4. \A c \in bitmap' : \A i \in Within(c) : part[i] = object[i]
    <3> HIDE DEF Reused
    <3> QED BY <1>1, <2>2, <2>3
  <2> QED BY <1>1, <2>1, <2>4, SizeKept DEF HeldRight
<1>6. CopiedRight' BY <1>1 DEF IInv, CopiedRight, Ascending, In
<1>7. AllCopied' BY <1>1 DEF AllCopied
<1>8. ReuseIsComplete'
  <2> SUFFICES ASSUME edits = 0, NEW c \in Packets, Within(c) \subseteq Shared
               PROVE  c \in bitmap'
    <3>1. Shared' = Shared BY <1>1 DEF Shared, Matches
    <3> QED BY <1>1, <3>1, SizeKept DEF ReuseIsComplete
  <2>1. c \in Reused BY <1>1, SharedIsReused
  <2> QED BY <1>1, <2>1
<1>9. NoSpuriousFailure' BY <1>1 DEF NoSpuriousFailure
<1> QED BY <1>2, <1>3, <1>4, <1>5, <1>6, <1>7, <1>8, <1>9 DEF IInv

-----------------------------------------------------------------------------
(* The users edit their files.                                             *)
LEMMA EditedIsFile ==
    ASSUME NEW file \in Seq(Bytes), NEW other \in Edited(file)
    PROVE  other \in Seq(Bytes)
<1>1. ASSUME NEW i \in DOMAIN file, NEW b \in Bytes PROVE [file EXCEPT ![i] = b] \in Seq(Bytes)
  <2>1. i \in 1 .. Len(file) BY LenProperties
  <2> QED BY <2>1, ExceptSeq
<1>2. ASSUME file # <<>> PROVE SubSeq(file, 1, Len(file) - 1) \in Seq(Bytes)
  <2>1. Len(file) \in Nat /\ Len(file) # 0 BY <1>2, LenProperties, EmptySeq
  <2>2. \A i \in 1 .. Len(file) - 1 : file[i] \in Bytes
    <3>1. \A i \in 1 .. Len(file) - 1 : i \in 1 .. Len(file) BY <2>1
    <3> QED BY <3>1, ElementOfSeq
  <2>3. SubSeq(file, 1, Len(file) - 1) = [i \in 1 .. Len(file) - 1 |-> file[i]] BY <2>1
  <2>4. Len(file) - 1 \in Nat BY <2>1
  <2> QED BY <2>2, <2>3, <2>4
<1> QED BY <1>1, <1>2 DEF Edited

LEMMA EditSourceKeeps ==
    ASSUME IInv, EditSource
    PROVE  IInv'
<1>1. /\ pc \in {"hash", "scan"} /\ pc' = pc /\ edits' = edits + 1 /\ edited' = TRUE
      /\ source' \in Edited(source)
      /\ object' = object /\ target' = target
      /\ available' = available /\ candidate' = candidate /\ size' = size
      /\ part' = part /\ bitmap' = bitmap /\ at' = at /\ copied' = copied
  BY DEF EditSource
<1>2. edits' \in Nat /\ edits' > 0 /\ edits' # 0 BY <1>1 DEF IInv, Typed
<1>3. edited' \in BOOLEAN /\ edited' BY <1>1
<1>4. source' \in Seq(Bytes) BY <1>1, EditedIsFile DEF IInv, Typed
<1>5. Typed' BY <1>1, <1>2, <1>3, <1>4 DEF IInv, Typed
<1>6. Fresh' BY <1>1 DEF IInv, Fresh
<1>7. SourceKept' /\ HeldRight' /\ CopiedRight'
  BY <1>3 DEF SourceKept, HeldRight, CopiedRight
<1>8. AllCopied' /\ ReuseIsComplete' /\ NoSpuriousFailure'
  BY <1>2 DEF AllCopied, ReuseIsComplete, NoSpuriousFailure
<1> QED BY <1>5, <1>6, <1>7, <1>8 DEF IInv

LEMMA EditCandidateKeeps ==
    ASSUME IInv, EditCandidate
    PROVE  IInv'
<1>1. /\ pc \in {"open", "copy"} /\ pc' = pc /\ edits' = edits + 1 /\ edited' = edited
      /\ candidate # None
      /\ object' = object /\ target' = target
      /\ available' = available /\ source' = source /\ size' = size
      /\ part' = part /\ bitmap' = bitmap /\ at' = at /\ copied' = copied
  BY DEF EditCandidate
<1>2. edits' \in Nat /\ edits' > 0 /\ edits' # 0 BY <1>1 DEF IInv, Typed
<1>3. candidate' \in Seq(Bytes) \/ (pc = "open" /\ candidate' = None)
  <2>1. candidate \in Seq(Bytes) BY <1>1 DEF IInv, Typed
  <2>2. candidate' \in Edited(candidate) \/ (pc = "open" /\ candidate' = None)
    <3>1. CASE pc = "open" BY <3>1 DEF EditCandidate
    <3>2. CASE pc # "open" BY <3>2 DEF EditCandidate
    <3> QED BY <3>1, <3>2
  <2> QED BY <2>1, <2>2, EditedIsFile
<1>4. Typed'
  <2>1. pc' = "copy" => candidate' # None BY <1>1, <1>3, ReuseAssumption
  <2> QED BY <1>1, <1>2, <1>3, <2>1 DEF IInv, Typed
<1>5. Fresh' BY <1>1 DEF IInv, Fresh
<1>6. SourceKept' BY <1>1 DEF IInv, SourceKept
<1>7. HeldRight' BY <1>1, SizeKept DEF IInv, HeldRight
<1>8. CopiedRight' BY <1>1 DEF IInv, CopiedRight, Ascending, In
<1>9. AllCopied' /\ ReuseIsComplete' /\ NoSpuriousFailure'
  BY <1>2 DEF AllCopied, ReuseIsComplete, NoSpuriousFailure
<1> QED BY <1>4, <1>5, <1>6, <1>7, <1>8, <1>9 DEF IInv

LEMMA NextIInv == IInv /\ [Next]_vars => IInv'
<1> SUFFICES ASSUME IInv, [Next]_vars PROVE IInv' OBVIOUS
<1>1. CASE UNCHANGED vars
  <2>1. /\ source' = source /\ candidate' = candidate /\ pc' = pc /\ size' = size
        /\ object' = object /\ target' = target /\ available' = available
        /\ part' = part /\ bitmap' = bitmap /\ at' = at /\ copied' = copied
        /\ edited' = edited /\ edits' = edits
    BY <1>1 DEF vars
  <2>2. Typed' /\ Fresh' /\ SourceKept' BY <2>1 DEF IInv, Typed, Fresh, SourceKept
  <2>3. HeldRight' BY <2>1, SizeKept DEF IInv, HeldRight
  <2>4. CopiedRight' BY <2>1 DEF IInv, CopiedRight, Ascending, In
  <2>5. AllCopied' BY <2>1 DEF IInv, AllCopied, Matches, RangeOf
  <2>6. ReuseIsComplete'
    <3>1. Packets' = Packets /\ \A c : Within(c)' = Within(c) BY <2>1, SizeKept
    <3>2. Shared' = Shared BY <2>1 DEF Shared, Matches
    <3> QED BY <2>1, <3>1, <3>2 DEF IInv, ReuseIsComplete
  <2>7. NoSpuriousFailure' BY <2>1 DEF IInv, NoSpuriousFailure
  <2> QED BY <2>2, <2>3, <2>4, <2>5, <2>6, <2>7 DEF IInv
<1>2. CASE Next
  BY <1>2, HashSourceKeeps, ScanSourceKeeps, OpenPartKeeps, ScanCandidateKeeps,
     OpenCandidateKeeps, CopyChunkKeeps, MarkReusedKeeps, EditSourceKeeps,
     EditCandidateKeeps DEF Next
<1> QED BY <1>1, <1>2

THEOREM InvariantHolds == Spec => []IInv
  BY InitIInv, NextIInv, PTL DEF Spec

(* What apply_reusable_content marks has the bytes of the object, also     *)
(* when the candidate is edited between its scan and the copy: whatever    *)
(* the files, the rolling hash, the bounds of a chunk and the packet size. *)
THEOREM ReusedIsTrue == Spec => []ClaimsAreTrue
<1>1. IInv => ClaimsAreTrue BY DEF IInv, HeldRight, ClaimsAreTrue
<1> QED BY <1>1, InvariantHolds, PTL

(* apply_reusable_content marks every packet whose bytes all lie in chunks *)
(* that the candidate has as well, when no file is edited: the search for  *)
(* the first range that ends after the packet's start misses none.         *)
THEOREM NothingIsMissed == Spec => []ReuseIsComplete
<1>1. IInv => ReuseIsComplete BY DEF IInv
<1> QED BY <1>1, InvariantHolds, PTL

(* cdc::parse accepts what cdc::scan produces, and reading the candidate   *)
(* again does not fail, unless a file was edited, scan itself refuses it   *)
(* for its chunks or its bytes, or the manifest has the one length, a byte *)
(* above MAX_ENCODED_BYTES, that scan lets pass and parse does not.        *)
THEOREM ReuseDoesNotFail == Spec => []NoSpuriousFailure
<1>1. IInv => NoSpuriousFailure BY DEF IInv
<1> QED BY <1>1, InvariantHolds, PTL
=============================================================================
