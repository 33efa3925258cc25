------------------------- MODULE ContentStoreProofs -------------------------
(***************************************************************************)
(* ContentStore implements Disk, for every number and size of chunks, every*)
(* image and chain of parents, every sequence of commands and every        *)
(* interleaving of the NBD thread, the saving thread and other processes.  *)
(* A seal that ends during a save is covered for disks without an image.   *)
(***************************************************************************)
EXTENDS ContentStore, SequenceTheorems, WellFoundedInduction, TLAPS

Hash == Contents \union {Zero}
Holding == [i \in Index |-> [k \in 1 .. CHUNK_SIZE |-> Held(i, k)]]
BaseChunks == [i \in Index |-> BaseChunk(i)]
Threads == {"nbd", "save"}

Types ==
  /\ store \in [Contents -> {"absent", "seen", "durable"}]
  /\ index \in [Index -> Hash] /\ parents \in Seq([Index -> Hash])
  /\ base \in Seq(Bytes) /\ dirty \in [Index -> Hash]
  /\ file = <<>> \/ file \in [Index -> Hash]
  /\ cmd \in [kind: {"none", "read", "write", "flush", "other"}, at: Nat, len: Nat,
              data: Seq(Bytes), got: Seq(Bytes)]
  /\ rc \in [Threads -> [at: {"none", "dirty", "index", "put", "set", "done",
                              "failed"}, chunk: Index, data: Hash]]
  /\ save \in [at: {"none", "flush", "collect", "base"}, next: Nat,
               hashes: [Index -> Hash] \union {<<>>}, sealed: BOOLEAN]
  /\ left \in [cmds: Nat, saves: Nat, faults: Nat, runs: Nat, others: Nat,
               cuts: Nat, lapses: Nat, power: BOOLEAN]

\* Every hash something may read is in the store, and stays; and no image is
\* under a disk whose seal may end early.
Stored ==
  /\ \A i \in Index : index[i] # Zero => store[index[i]] # "absent"
  /\ \A p \in DOMAIN parents, i \in Index :
       parents[p][i] # Zero => store[parents[p][i]] # "absent"
  /\ file # <<>> =>
       \A i \in Index : file[i] # Zero => store[file[i]] # "absent"
  /\ \A s \in Starts :
       /\ \A i \in Index : s.index[i] # Zero => store[s.index[i]] # "absent"
       /\ \A p \in DOMAIN s.parents, i \in Index :
            s.parents[p][i] # Zero => store[s.parents[p][i]] # "absent"
  /\ left.power =>
       /\ left.others = 0 /\ left.cuts = 0
       /\ \A c \in Contents : store[c] # "seen"
  /\ left.lapses > 0 => base = <<>> /\ \A s \in Starts : s.base = <<>>

\* Between its locks a read_chunk has what it will find: nothing dirty, a
\* base chunk no parent hides, and in the end the bytes of the chunk.
Reading(t) ==
  LET i == rc[t].chunk
  IN /\ rc[t].at \in {"index", "put", "set"} => dirty[i] = Zero
     /\ rc[t].at \in {"put", "set"} =>
          /\ i * CHUNK_SIZE < Len(base) /\ rc[t].data = BaseChunks[i]
          /\ rc[t].data \in Contents
          /\ index[i] \in {Zero, rc[t].data}
          /\ \A p \in DOMAIN parents : parents[p][i] = Zero
     /\ rc[t].at = "set" => store[rc[t].data] # "absent"
     /\ rc[t].at = "done" =>
          /\ rc[t].data \in Contents
          /\ \A k \in 1 .. CHUNK_SIZE : Byte(rc[t].data, k) = Holding[i][k]

\* The command being served is within the disk and what it has read so far
\* is what the disk holds.
Serving ==
  /\ cmd.kind = "none" => cmd = NoCmd
  /\ cmd.kind \in {"read", "write"} =>
       Position + Wanted <= Chunks * CHUNK_SIZE /\ 0 <= Wanted
  /\ \A j \in 1 .. Len(cmd.got) :
       cmd.got[j] = DiskNow[cmd.at + j]
  /\ cmd.kind # "read" => cmd.got = <<>>
  /\ rc["nbd"].at = "none" => rc["nbd"] = NoRead
  /\ rc["nbd"].at # "none" =>
       /\ cmd.kind \in {"read", "write"} /\ Wanted > 0
       /\ rc["nbd"].chunk = Position \div CHUNK_SIZE

\* While the guest is sealed nothing is written, and the hashes collected so
\* far are the disk's; once it is not, they are only in the store.
Saving ==
  /\ save.at = "none" => save = NoSave
  /\ save.sealed => cmd.kind # "write"
  /\ save.sealed /\ save.at \in {"collect", "base"} => dirty = NoDirty
  /\ save.at # "none" /\ ~save.sealed => base = <<>>
  /\ rc["save"].at = "none" => rc["save"] = NoRead
  /\ rc["save"].at # "none" =>
       /\ save.at = "base" /\ save.next < Chunks /\ rc["save"].chunk = save.next
       /\ save.hashes[save.next] = Zero /\ save.next * CHUNK_SIZE < Len(base)
  /\ save.at = "base" =>
       /\ save.next <= Chunks /\ save.hashes \in [Index -> Hash]
       /\ \A i \in Index :
            /\ save.hashes[i] # Zero => store[save.hashes[i]] # "absent"
            /\ save.sealed /\ save.hashes[i] # Zero =>
                 \A k \in 1 .. CHUNK_SIZE : Byte(save.hashes[i], k) = Holding[i][k]
            /\ save.sealed /\ save.hashes[i] = Zero
                 /\ (i < save.next \/ Len(base) <= i * CHUNK_SIZE) =>
                 \A k \in 1 .. CHUNK_SIZE : Holding[i][k] = 0

IndInv ==
  Types /\ Stored /\ (\A t \in Threads : Reading(t)) /\ Serving /\ Saving

----------------------------------------------------------------------------
(* Addresses and chunks. *)

\* Quotient and remainder.
LEMMA DivMod ==
  ASSUME NEW c \in Nat \ {0}, NEW a \in Nat
  PROVE  /\ a \div c \in Nat /\ (a % c) \in 0 .. c - 1
         /\ a = (a \div c) * c + (a % c)
<1>1. a \div c \in Int /\ (a % c) \in 0 .. c - 1 /\ a = c * (a \div c) + (a % c)
  OBVIOUS
<1>2. c * (a \div c) = (a \div c) * c
  BY <1>1
<1>3. ASSUME a \div c < 0 PROVE FALSE
  <2>1. PICK q \in Int : q = a \div c
    BY <1>1
  <2>2. q <= -1
    BY <1>3, <2>1
  <2>3. c * q <= c * (-1)
    BY <2>2
  <2> QED
    BY <1>1, <2>1, <2>3
<1> QED
  BY <1>1, <1>2, <1>3

\* Chunks follow each other without a gap.
LEMMA ChunksOrdered ==
  ASSUME NEW c \in Nat \ {0}, NEW i \in Nat, NEW j \in Nat, i < j
  PROVE  i * c \in Nat /\ j * c \in Nat /\ i * c + c <= j * c
<1>1. PICK d \in Nat : j = i + 1 + d
  BY j - i - 1 \in Nat
<1>2. (i + 1 + d) * c = i * c + c + d * c
  OBVIOUS
<1>3. d * c \in Nat /\ i * c \in Nat /\ j * c \in Nat
  OBVIOUS
<1> QED
  BY <1>1, <1>2, <1>3

\* An address is one byte of one chunk.
LEMMA AddressOf ==
  ASSUME StoreConstants, NEW a \in Addresses
  PROVE  /\ ChunkOf(a) \in Index /\ OffsetOf(a) \in 1 .. CHUNK_SIZE
         /\ ChunkOf(a) * CHUNK_SIZE \in Nat
         /\ a = ChunkOf(a) * CHUNK_SIZE + OffsetOf(a)
<1>1. /\ Chunks \in Nat \ {0} /\ CHUNK_SIZE \in Nat \ {0}
      /\ Chunks * CHUNK_SIZE \in Nat
  BY DEF StoreConstants
<1>2. a \in Nat /\ a - 1 \in Nat /\ a <= Chunks * CHUNK_SIZE
  BY <1>1 DEF Addresses
<1>3. PICK q \in Nat, r \in 0 .. CHUNK_SIZE - 1 :
        /\ q = (a - 1) \div CHUNK_SIZE /\ r = (a - 1) % CHUNK_SIZE
        /\ a - 1 = q * CHUNK_SIZE + r
  BY <1>1, <1>2, DivMod
<1>4. q < Chunks
  <2> SUFFICES ASSUME q >= Chunks PROVE FALSE
    BY <1>1
  <2>1. q * CHUNK_SIZE >= Chunks * CHUNK_SIZE
    <3>1. CASE q = Chunks
      BY <1>1, <3>1
    <3>2. CASE Chunks < q
      BY <1>1, <3>2, ChunksOrdered
    <3> QED
      BY <1>1, <3>1, <3>2
  <2>2. PICK m \in Nat, p \in Nat : m = q * CHUNK_SIZE /\ p = Chunks * CHUNK_SIZE
    BY <1>1
  <2>3. a - 1 = m + r /\ m >= p /\ a <= p
    BY <1>2, <1>3, <2>1, <2>2
  <2> QED
    BY <1>1, <1>2, <2>3
<1>5. q * CHUNK_SIZE \in Nat
  BY <1>1
<1>6. a = q * CHUNK_SIZE + (r + 1)
  <2>1. PICK m \in Nat : m = q * CHUNK_SIZE
    BY <1>5
  <2>2. a - 1 = m + r
    BY <1>3, <2>1
  <2>3. a = m + (r + 1)
    BY <1>1, <1>2, <2>2
  <2> QED
    BY <2>1, <2>3
<1> QED
  BY <1>1, <1>3, <1>4, <1>5, <1>6 DEF ChunkOf, OffsetOf, Index

\* The n bytes from at on that are in the chunk of at.
LEMMA InOneChunk ==
  ASSUME StoreConstants, NEW at \in Nat, NEW n \in Nat,
         (at % CHUNK_SIZE) + n <= CHUNK_SIZE, NEW a \in Addresses
  PROVE  /\ at \div CHUNK_SIZE \in Nat /\ (at % CHUNK_SIZE) \in Nat
         /\ ChunkOf(a) = at \div CHUNK_SIZE =>
              a - at = OffsetOf(a) - (at % CHUNK_SIZE)
         /\ a - at \in 1 .. n => ChunkOf(a) = at \div CHUNK_SIZE
<1> DEFINE c == CHUNK_SIZE
<1>1. c \in Nat \ {0}
  BY DEF StoreConstants
<1>2. PICK q \in Nat, r \in 0 .. c - 1 :
        q = at \div c /\ r = (at % c) /\ at = q * c + r
  BY <1>1, DivMod
<1>3. PICK i \in Nat, k \in 1 .. c :
        i = ChunkOf(a) /\ k = OffsetOf(a) /\ a = i * c + k
  BY <1>1, AddressOf DEF Index
<1> HIDE DEF c
<1>4. q * c \in Nat /\ i * c \in Nat /\ r + n <= c
  BY <1>1, <1>2 DEF c
<1>5. i = q => a - at = k - r
  <2>1. PICK m \in Nat : m = q * c
    BY <1>4
  <2>2. i = q => a = m + k /\ at = m + r
    BY <1>2, <1>3, <2>1
  <2> QED
    BY <1>1, <2>2
<1>6. ASSUME a - at \in 1 .. n PROVE i = q
  <2>1. CASE i < q
    <3>1. i * c + c <= q * c
      BY <1>1, <2>1, ChunksOrdered
    <3> QED
      BY <1>1, <1>2, <1>3, <1>4, <1>6, <3>1
  <2>2. CASE q < i
    <3>1. q * c + c <= i * c
      BY <1>1, <2>2, ChunksOrdered
    <3> QED
      BY <1>1, <1>2, <1>3, <1>4, <1>6, <3>1
  <2> QED
    BY <2>1, <2>2
<1> QED
  BY <1>2, <1>3, <1>5, <1>6 DEF c

----------------------------------------------------------------------------
(* Chunks and hashes. *)

\* A content is a sequence of at most CHUNK_SIZE bytes, and never Zero.
LEMMA ContentIsSeq ==
  ASSUME StoreConstants
  PROVE  /\ \A c \in Contents : /\ c \in Seq(Bytes) /\ Len(c) \in 1 .. CHUNK_SIZE
                                /\ DOMAIN c = 1 .. Len(c)
         /\ \A c \in Seq(Bytes) : Len(c) \in 1 .. CHUNK_SIZE => c \in Contents
         /\ Zero \notin Contents
<1>0. CHUNK_SIZE \in Nat \ {0}
  BY DEF StoreConstants
<1>1. ASSUME NEW c \in Contents
      PROVE  /\ c \in Seq(Bytes) /\ Len(c) \in 1 .. CHUNK_SIZE
             /\ DOMAIN c = 1 .. Len(c)
  <2>1. PICK n \in 1 .. CHUNK_SIZE : c \in [1 .. n -> Bytes]
    BY DEF Contents
  <2>2. n \in Nat
    BY <1>0
  <2> QED
    BY <2>1, <2>2
<1>2. ASSUME NEW c \in Seq(Bytes), Len(c) \in 1 .. CHUNK_SIZE
      PROVE  c \in Contents
  <2>1. c \in [1 .. Len(c) -> Bytes]
    BY LenProperties
  <2> QED
    BY <1>2, <2>1 DEF Contents
<1>3. Zero \notin Contents
  <2>1. Len(Zero) = 0
    BY DEF Zero
  <2> QED
    BY <1>0, <1>1, <2>1
<1> QED
  BY <1>1, <1>2, <1>3

\* The bytes of a chunk are bytes, also beyond its end.
LEMMA ByteType ==
  ASSUME StoreConstants, NEW c \in Contents, NEW k
  PROVE  Byte(c, k) \in Bytes
<1>1. c \in Seq(Bytes) /\ DOMAIN c = 1 .. Len(c)
  BY ContentIsSeq
<1>2. \A j \in 1 .. Len(c) : c[j] \in Bytes
  BY <1>1, ElementOfSeq
<1>3. 0 \in Bytes
  BY DEF Bytes
<1> QED
  BY <1>1, <1>2, <1>3 DEF Byte

\* A chunk of zeros is a content.
LEMMA ZeroChunkIsContent ==
  ASSUME StoreConstants
  PROVE  ZeroChunk \in Contents /\ \A k : Byte(ZeroChunk, k) = 0
<1>1. CHUNK_SIZE \in Nat \ {0} /\ 0 \in Bytes
  BY DEF StoreConstants, Bytes
<1>2. ZeroChunk \in [1 .. CHUNK_SIZE -> Bytes] /\ CHUNK_SIZE \in 1 .. CHUNK_SIZE
  BY <1>1 DEF ZeroChunk
<1> QED
  BY <1>2 DEF Contents, ZeroChunk, Byte

\* A chunk that is all zeros reads as zeros.
LEMMA AllZeroReads ==
  ASSUME NEW c, AllZero(c), NEW k
  PROVE  Byte(c, k) = 0
BY DEF AllZero, Byte

\* The part of the base image in a chunk has the image's bytes.
LEMMA BaseChunkHas ==
  ASSUME StoreConstants, base \in Seq(Bytes), NEW i \in Index,
         i * CHUNK_SIZE < Len(base)
  PROVE  /\ BaseChunk(i) \in Contents
         /\ \A k \in 1 .. CHUNK_SIZE : Byte(BaseChunk(i), k) = Based(base, i, k)
<1>1. CHUNK_SIZE \in Nat \ {0} /\ i \in Nat /\ Len(base) \in Nat
  BY LenProperties DEF StoreConstants, Index
<1>2. PICK f \in Nat : f = i * CHUNK_SIZE
  BY <1>1
<1>3. PICK e \in Nat : e = Min2(f + CHUNK_SIZE, Len(base))
  BY <1>1 DEF Min2
<1>4. e <= Len(base) /\ e <= f + CHUNK_SIZE /\ f < e
      /\ (e = Len(base) \/ e = f + CHUNK_SIZE)
  BY <1>1, <1>2, <1>3 DEF Min2
<1>5. BaseChunk(i) = SubSeq(base, f + 1, e)
  BY <1>2, <1>3 DEF BaseChunk
<1>6. \A j \in 1 .. Len(base) : base[j] \in Bytes
  BY ElementOfSeq
<1>7. /\ SubSeq(base, f + 1, e) \in Seq(Bytes)
      /\ Len(SubSeq(base, f + 1, e)) = IF f + 1 <= e THEN e - (f + 1) + 1 ELSE 0
      /\ \A k \in 1 .. e - (f + 1) + 1 :
           SubSeq(base, f + 1, e)[k] = base[f + 1 + k - 1]
  <2>1. \A j \in f + 1 .. e : base[j] \in Bytes
    BY <1>1, <1>4, <1>6
  <2>2. f + 1 \in Int /\ e \in Int
    OBVIOUS
  <2> QED
    BY <2>1, <2>2, SubSeqProperties
<1>8. Len(BaseChunk(i)) = e - f
  BY <1>4, <1>5, <1>7
<1>9. BaseChunk(i) \in Contents
  <2>1. BaseChunk(i) \in Seq(Bytes)
    BY <1>5, <1>7
  <2>2. Len(BaseChunk(i)) \in 1 .. CHUNK_SIZE
    BY <1>1, <1>4, <1>8
  <2> QED
    BY <2>1, <2>2, ContentIsSeq
<1>10. ASSUME NEW k \in 1 .. CHUNK_SIZE
       PROVE  Byte(BaseChunk(i), k) = Based(base, i, k)
  <2>1. DOMAIN BaseChunk(i) = 1 .. e - f
    BY <1>8, <1>9, ContentIsSeq
  <2>2. CASE k <= e - f
    <3>1. k \in 1 .. e - f /\ k \in 1 .. e - (f + 1) + 1 /\ f + 1 + k - 1 = f + k
          /\ f + k <= Len(base)
      BY <1>1, <1>4, <2>2
    <3>2. BaseChunk(i)[k] = base[f + k]
      BY <1>5, <1>7, <3>1
    <3> QED
      BY <1>2, <2>1, <3>1, <3>2 DEF Byte, Based
  <2>3. CASE e - f < k
    <3>1. ~(f + k <= Len(base)) /\ k \notin 1 .. e - f
      BY <1>1, <1>4, <2>3
    <3> QED
      BY <1>2, <2>1, <3>1 DEF Byte, Based
  <2> QED
    BY <1>1, <2>2, <2>3
<1> QED
  BY <1>9, <1>10

\* Beyond the end of the base image there are zeros.
LEMMA BasedBeyond ==
  ASSUME StoreConstants, NEW image \in Seq(Bytes), NEW i \in Index,
         ~(i * CHUNK_SIZE < Len(image)), NEW k \in 1 .. CHUNK_SIZE
  PROVE  Based(image, i, k) = 0
<1>1. CHUNK_SIZE \in Nat \ {0} /\ i \in Nat /\ Len(image) \in Nat
  BY LenProperties DEF StoreConstants, Index
<1>2. PICK f \in Nat : f = i * CHUNK_SIZE
  BY <1>1
<1>3. ~(f + k <= Len(image))
  BY <1>1, <1>2
<1> QED
  BY <1>2, <1>3 DEF Based

\* A set of naturals has a least member.
LEMMA LeastOf ==
  ASSUME NEW T, T \subseteq Nat, T # {}
  PROVE  \E x \in T : \A y \in T : x <= y
<1>1. IsWellFoundedOn(OpToRel(<, Nat), Nat)
  BY NatLessThanWellFounded
<1>2. PICK x \in T : \A y \in T : ~(<<y, x>> \in OpToRel(<, Nat))
  BY <1>1, WFMin
<1>3. ASSUME NEW y \in T PROVE x <= y
  <2>1. ~(<<y, x>> \in OpToRel(<, Nat))
    BY <1>2
  <2>2. ~(y < x)
    BY <2>1 DEF OpToRel
  <2> QED
    BY <2>2
<1> QED
  BY <1>3

\* A hash is found in the index or in one of the parents, and Zero only when
\* none of them has one.
LEMMA ResolvesTo ==
  ASSUME NEW own, NEW S, NEW chain \in Seq(S), NEW i
  PROVE  /\ own[i] # Zero => Resolves(own, chain, i) = own[i]
         /\ own[i] = Zero /\ (\A p \in DOMAIN chain : chain[p][i] = Zero)
              => Resolves(own, chain, i) = Zero
         /\ Resolves(own, chain, i) # Zero /\ own[i] = Zero =>
              \E p \in DOMAIN chain : /\ chain[p][i] # Zero
                                      /\ Resolves(own, chain, i) = chain[p][i]
         /\ Resolves(own, chain, i) = Zero =>
              own[i] = Zero /\ \A p \in DOMAIN chain : chain[p][i] = Zero
<1> DEFINE having == {k \in DOMAIN chain : chain[k][i] # Zero}
           first == CHOOSE k \in having : \A m \in having : k <= m
<1>1. having # {} => first \in having
  <2> SUFFICES ASSUME having # {} PROVE first \in having
    OBVIOUS
  <2>1. having \subseteq Nat
    BY LenProperties
  <2>2. \E k \in having : \A m \in having : k <= m
    BY <2>1, LeastOf
  <2> QED
    BY <2>2
<1>2. Resolves(own, chain, i) =
        IF own[i] # Zero THEN own[i]
        ELSE IF having = {} THEN Zero ELSE chain[first][i]
  BY DEF Resolves
<1>3. having = {} <=> \A p \in DOMAIN chain : chain[p][i] = Zero
  OBVIOUS
<1>4. first \in having => first \in DOMAIN chain /\ chain[first][i] # Zero
  OBVIOUS
<1> HIDE DEF having, first
<1>5. CASE own[i] # Zero
  BY <1>2, <1>5
<1>6. CASE own[i] = Zero /\ having = {}
  BY <1>2, <1>3, <1>6
<1>7. CASE own[i] = Zero /\ having # {}
  <2>1. /\ Resolves(own, chain, i) = chain[first][i] /\ chain[first][i] # Zero
        /\ first \in DOMAIN chain
    BY <1>1, <1>2, <1>4, <1>7
  <2> QED
    BY <1>7, <2>1
<1> QED
  BY <1>5, <1>6, <1>7

----------------------------------------------------------------------------
(* What the disk holds while every hash is in the store. *)

Value(own, chain, image, dirt, i, k) ==
  LET h == Resolves(own, chain, i)
  IN IF dirt[i] # Zero THEN Byte(dirt[i], k)
     ELSE IF h # Zero THEN Byte(h, k) ELSE Based(image, i, k)

\* A hash an index or its parents lead to is a hash, and in the store.
LEMMA ResolvesStored ==
  ASSUME NEW st, NEW own \in [Index -> Hash],
         NEW chain \in Seq([Index -> Hash]), NEW i \in Index,
         \A j \in Index : own[j] # Zero => st[own[j]] # "absent",
         \A p \in DOMAIN chain, j \in Index :
           chain[p][j] # Zero => st[chain[p][j]] # "absent"
  PROVE  /\ Resolves(own, chain, i) \in Hash
         /\ Resolves(own, chain, i) # Zero =>
              st[Resolves(own, chain, i)] # "absent"
<1>1. \A p \in DOMAIN chain : chain[p] \in [Index -> Hash]
  BY ElementOfSeq, LenProperties
<1>2. CASE own[i] # Zero
  BY <1>2, ResolvesTo
<1>3. CASE own[i] = Zero /\ Resolves(own, chain, i) = Zero
  BY <1>3 DEF Hash
<1>4. CASE own[i] = Zero /\ Resolves(own, chain, i) # Zero
  <2>1. PICK p \in DOMAIN chain : /\ chain[p][i] # Zero
                                  /\ Resolves(own, chain, i) = chain[p][i]
    BY <1>4, ResolvesTo
  <2>2. chain[p][i] \in Hash
    BY <1>1
  <2> QED
    BY <2>1, <2>2
<1> QED
  BY <1>2, <1>3, <1>4

\* Nothing the disk holds is missing from the store.
LEMMA HeldIsValue ==
  ASSUME Types, Stored
  PROVE  \A i \in Index : \A k :
           Held(i, k) = Value(index, parents, base, dirty, i, k)
<1> SUFFICES ASSUME NEW i \in Index, NEW k
             PROVE  Held(i, k) = Value(index, parents, base, dirty, i, k)
  OBVIOUS
<1> DEFINE h == Resolves(index, parents, i)
<1>1. h # Zero => store[h] # "absent"
  <2>1. index \in [Index -> Hash] /\ parents \in Seq([Index -> Hash])
    BY DEF Types
  <2>2. /\ \A j \in Index : index[j] # Zero => store[index[j]] # "absent"
        /\ \A p \in DOMAIN parents, j \in Index :
             parents[p][j] # Zero => store[parents[p][j]] # "absent"
    BY DEF Stored
  <2> QED
    BY <2>1, <2>2, ResolvesStored
<1>2. h # Zero => fetch_chunk(h) = h
  BY <1>1 DEF fetch_chunk
<1> QED
  BY <1>2, Zenon DEF Held, Value

\* The same after a step.
LEMMA HeldIsValuePrime ==
  ASSUME index' \in [Index -> Hash], parents' \in Seq([Index -> Hash]), Stored'
  PROVE  \A i \in Index : \A k :
           Held(i, k)' = Value(index', parents', base', dirty', i, k)
<1> SUFFICES ASSUME NEW i \in Index, NEW k
             PROVE  Held(i, k)' = Value(index', parents', base', dirty', i, k)
  OBVIOUS
<1> DEFINE h == Resolves(index', parents', i)
<1>1. h # Zero => store'[h] # "absent"
  <2>1. index' \in [Index -> Hash] /\ parents' \in Seq([Index -> Hash])
    OBVIOUS
  <2>2. /\ \A j \in Index : index'[j] # Zero => store'[index'[j]] # "absent"
        /\ \A p \in DOMAIN parents', j \in Index :
             parents'[p][j] # Zero => store'[parents'[p][j]] # "absent"
    BY DEF Stored
  <2> QED
    BY <2>1, <2>2, ResolvesStored
<1>2. h # Zero => (IF store'[h] # "absent" THEN h ELSE ZeroChunk) = h
  BY <1>1
<1> QED
  BY <1>2, Zenon DEF Held, Value, fetch_chunk, ZeroChunk

\* What the disk holds is bytes.
LEMMA HeldType ==
  ASSUME StoreConstants, Types, Stored, NEW i \in Index, NEW k \in 1 .. CHUNK_SIZE
  PROVE  Held(i, k) \in Bytes
<1>1. Held(i, k) = Value(index, parents, base, dirty, i, k)
  BY HeldIsValue
<1> DEFINE h == Resolves(index, parents, i)
<1>2. h \in Hash /\ dirty[i] \in Hash
  BY ResolvesStored DEF Types, Stored
<1>3. \A c \in Hash : c # Zero => Byte(c, k) \in Bytes
  BY ByteType DEF Hash
<1>4. Based(base, i, k) \in Bytes
  <2>1. CHUNK_SIZE \in Nat \ {0} /\ i \in Nat /\ base \in Seq(Bytes)
    BY DEF StoreConstants, Index, Types
  <2>2. PICK f \in Nat : f = i * CHUNK_SIZE
    BY <2>1
  <2>3. f + k <= Len(base) => base[f + k] \in Bytes
    BY <2>1, <2>2, ElementOfSeq, LenProperties
  <2>4. 0 \in Bytes
    BY DEF Bytes
  <2> QED
    BY <2>2, <2>3, <2>4 DEF Based
<1> HIDE DEF h
<1>5. Value(index, parents, base, dirty, i, k) =
        IF dirty[i] # Zero THEN Byte(dirty[i], k)
        ELSE IF h # Zero THEN Byte(h, k) ELSE Based(base, i, k)
  BY Zenon DEF Value, h
<1> QED
  BY <1>1, <1>2, <1>3, <1>4, <1>5

----------------------------------------------------------------------------
(* What most steps keep. *)

Grows == \A c \in Contents : store[c] # "absent" => store'[c] # "absent"

\* The same value of every byte of every chunk is the same disk.
LEMMA SameValuesOf ==
  ASSUME Types, Stored, index' \in [Index -> Hash], parents' \in Seq([Index -> Hash]),
         Stored',
         \A i \in Index : \A k \in 1 .. CHUNK_SIZE :
           Value(index', parents', base', dirty', i, k)
             = Value(index, parents, base, dirty, i, k)
  PROVE  Holding' = Holding
<1>1. \A i \in Index : \A k \in 1 .. CHUNK_SIZE : Held(i, k)' = Held(i, k)
  BY HeldIsValue, HeldIsValuePrime
<1> QED
  BY <1>1, Zenon DEF Holding

\* The same, from the types of the state after the step.
LEMMA SameValues ==
  ASSUME Types, Stored, Types', Stored',
         \A i \in Index : \A k \in 1 .. CHUNK_SIZE :
           Value(index', parents', base', dirty', i, k)
             = Value(index, parents, base, dirty, i, k)
  PROVE  Holding' = Holding
<1>1. index' \in [Index -> Hash] /\ parents' \in Seq([Index -> Hash])
  BY DEF Types
<1> QED
  BY <1>1, SameValuesOf

\* The disk as a function of its addresses.
LEMMA DiskIsHolding ==
  ASSUME StoreConstants, NEW a \in Addresses
  PROVE  /\ DiskNow[a] = Holding[ChunkOf(a)][OffsetOf(a)]
         /\ DiskNow'[a] = Holding'[ChunkOf(a)][OffsetOf(a)]
<1>1. ChunkOf(a) \in Index /\ OffsetOf(a) \in 1 .. CHUNK_SIZE
  BY AddressOf
<1> QED
  BY <1>1 DEF DiskNow, Holding

\* The same chunks are the same disk.
LEMMA DiskKept ==
  ASSUME StoreConstants, Holding' = Holding
  PROVE  DiskNow' = DiskNow
<1>1. \A a \in Addresses : DiskNow'[a] = DiskNow[a]
  BY DiskIsHolding
<1>2. /\ DiskNow = [a \in Addresses |-> DiskNow[a]]
      /\ DiskNow' = [a \in Addresses |-> DiskNow'[a]]
  BY DEF DiskNow
<1> QED
  BY <1>1, <1>2, Zenon

\* A checkpoint whose hashes stay in the store is the same checkpoint.
LEMMA CheckpointKept ==
  ASSUME StoreConstants, Types, Stored, Stored', file' = file
  PROVE  Checkpoint' = Checkpoint
<1>1. CASE file = <<>>
  BY <1>1 DEF Checkpoint
<1>2. CASE file # <<>>
  <2>1. ASSUME NEW a \in Addresses
        PROVE  Saved(file[ChunkOf(a)], OffsetOf(a))'
                 = Saved(file[ChunkOf(a)], OffsetOf(a))
    <3>1. PICK i \in Index : i = ChunkOf(a)
      BY AddressOf
    <3>2. file[i] # Zero => store[file[i]] # "absent" /\ store'[file[i]] # "absent"
      BY <1>2 DEF Stored
    <3> QED
      BY <3>1, <3>2 DEF Saved, fetch_chunk
  <2> QED
    BY <1>2, <2>1, Zenon DEF Checkpoint
<1> QED
  BY <1>1, <1>2

\* What of the bounds the store depends on.
BoundsKept ==
  /\ left'.power => left.power /\ left'.others = 0 /\ left'.cuts = 0
  /\ left'.lapses > 0 => left.lapses > 0

\* Nothing a step can lose.
LEMMA StoredKept ==
  ASSUME StoreConstants, Types, Stored, Grows, UNCHANGED <<parents, base, file>>,
         \A i \in Index : index'[i] = index[i] \/ store'[index'[i]] # "absent",
         BoundsKept,
         left.power => \A c \in Contents : store'[c] = "seen" => store[c] = "seen"
  PROVE  Stored'
<1>1. \A h \in Hash : h # Zero /\ store[h] # "absent" => store'[h] # "absent"
  BY DEF Grows, Hash
<1>2. \A i \in Index : index'[i] # Zero => store'[index'[i]] # "absent"
  BY <1>1 DEF Stored, Types
<1>3. \A p \in DOMAIN parents', i \in Index :
        parents'[p][i] # Zero => store'[parents'[p][i]] # "absent"
  <2>1. \A p \in DOMAIN parents : parents[p] \in [Index -> Hash]
    BY ElementOfSeq, LenProperties DEF Types
  <2> QED
    BY <1>1, <2>1 DEF Stored
<1>4. file' # <<>> =>
        \A i \in Index : file'[i] # Zero => store'[file'[i]] # "absent"
  BY <1>1 DEF Stored, Types
<1>5. ASSUME NEW s \in Starts
      PROVE  /\ \A i \in Index : s.index[i] # Zero => store'[s.index[i]] # "absent"
             /\ \A p \in DOMAIN s.parents, i \in Index :
                  s.parents[p][i] # Zero => store'[s.parents[p][i]] # "absent"
  <2>1. s.index \in [Index -> Hash] /\ s.parents \in Seq([Index -> Hash])
    BY DEF StoreConstants, Hash
  <2>2. \A p \in DOMAIN s.parents : s.parents[p] \in [Index -> Hash]
    BY <2>1, ElementOfSeq, LenProperties
  <2> QED
    BY <1>1, <2>1, <2>2 DEF Stored
<1>6. left'.power => /\ left'.others = 0 /\ left'.cuts = 0
                     /\ \A c \in Contents : store'[c] # "seen"
  BY DEF Stored, BoundsKept
<1>7. left'.lapses > 0 => base' = <<>> /\ \A s \in Starts : s.base = <<>>
  BY DEF Stored, BoundsKept
<1> QED
  BY <1>2, <1>3, <1>4, <1>5, <1>6, <1>7 DEF Stored

\* A read_chunk a step does not concern still has what it will find.
LEMMA ReadingKept ==
  ASSUME Types, NEW t \in Threads, Reading(t), rc'[t] = rc[t], Grows,
         UNCHANGED <<parents, base>>, Holding' = Holding,
         rc[t].at \in {"index", "put", "set"} => dirty'[rc[t].chunk] = Zero,
         rc[t].at \in {"put", "set"} => index'[rc[t].chunk] \in {Zero, rc[t].data}
  PROVE  Reading(t)'
<1>1. BaseChunks' = BaseChunks
  BY DEF BaseChunks, BaseChunk
<1>2. rc[t].data \in Hash /\ rc[t].chunk \in Index
  BY DEF Types
<1>3. rc[t].at = "set" => store'[rc[t].data] # "absent"
  <2>1. rc[t].at = "set" => rc[t].data \in Contents /\ store[rc[t].data] # "absent"
    BY DEF Reading
  <2> QED
    BY <2>1 DEF Grows
<1> QED
  BY <1>1, <1>2, <1>3 DEF Reading

\* A command a step does not concern still has what it has read.
LEMMA ServingKept ==
  ASSUME StoreConstants, Serving, cmd' = cmd, rc'["nbd"] = rc["nbd"],
         Holding' = Holding
  PROVE  Serving'
<1>1. DiskNow' = DiskNow
  BY DiskKept
<1>2. Position' = Position /\ Wanted' = Wanted
  BY DEF Position, Wanted
<1> QED
  BY <1>1, <1>2 DEF Serving

\* A save a step does not concern still has the hashes of the disk.
LEMMA SavingKept ==
  ASSUME StoreConstants, Types, Saving, save' = save,
         rc'["save"] = rc["save"], Grows, base' = base, Holding' = Holding,
         save.sealed => cmd'.kind # "write",
         save.sealed /\ save.at \in {"collect", "base"} => dirty' = NoDirty
  PROVE  Saving'
<1>1. ASSUME save.at = "base", NEW i \in Index, save.hashes[i] # Zero
      PROVE  store'[save.hashes[i]] # "absent"
  <2>1. save.hashes[i] \in Contents /\ store[save.hashes[i]] # "absent"
    BY <1>1 DEF Saving, Hash
  <2> QED
    BY <2>1 DEF Grows
<1> QED
  BY <1>1 DEF Saving

Budget == [cmds: Nat, saves: Nat, faults: Nat, runs: Nat, others: Nat, cuts: Nat,
           lapses: Nat, power: BOOLEAN]
Spends ==
  \/ left' = left
  \/ left.cmds > 0 /\ left' = [left EXCEPT !.cmds = @ - 1]
  \/ left.saves > 0 /\ left' = [left EXCEPT !.saves = @ - 1]
  \/ left.faults > 0 /\ left' = [left EXCEPT !.faults = @ - 1]
  \/ left.runs > 0 /\ left' = [left EXCEPT !.runs = @ - 1]
  \/ left.others > 0 /\ left' = [left EXCEPT !.others = @ - 1]
  \/ left.cuts > 0 /\ left' = [left EXCEPT !.cuts = @ - 1]
  \/ left.lapses > 0 /\ left' = [left EXCEPT !.lapses = @ - 1]

\* Spending of a bound leaves a bound.
LEMMA SpendsKeeps ==
  ASSUME Types, Spends
  PROVE  /\ left' \in Budget /\ left'.power = left.power /\ left'.others <= left.others
         /\ left'.cuts <= left.cuts /\ left'.lapses <= left.lapses
<1>1. left \in Budget
  BY DEF Types, Budget
<1> QED
  BY <1>1 DEF Spends, Budget

\* Spending of a bound keeps what the store depends on.
LEMMA PowerKept ==
  ASSUME Types, Stored, Spends
  PROVE  BoundsKept
<1>1. /\ left' \in Budget /\ left'.power = left.power /\ left'.others <= left.others
      /\ left'.cuts <= left.cuts /\ left'.lapses <= left.lapses /\ left \in Budget
  BY SpendsKeeps DEF Types, Budget
<1>2. left.power => left.others = 0 /\ left.cuts = 0
  BY DEF Stored
<1>3. /\ left'.others \in Nat /\ left'.cuts \in Nat /\ left'.lapses \in Nat
      /\ left.lapses \in Nat
  BY <1>1 DEF Budget
<1> QED
  BY <1>1, <1>2, <1>3 DEF BoundsKept

\* A step that leaves the chunks and the indexes alone.
Still == UNCHANGED <<store, index, parents, base, dirty, file>>

\* The disk and the checkpoint stay what they are.
LEMMA StillKeeps ==
  ASSUME StoreConstants, IndInv, Still, Spends
  PROVE  /\ Stored' /\ Grows /\ Holding' = Holding /\ DiskNow' = DiskNow
         /\ Checkpoint' = Checkpoint
<1>1. Grows
  BY DEF Grows, Still
<1>2. Stored'
  BY <1>1, PowerKept, StoredKept DEF IndInv, Still
<1>3. Holding' = Holding
  BY DEF Holding, Held, Still, fetch_chunk, Resolves, Based
<1>4. Checkpoint' = Checkpoint
  BY <1>2, CheckpointKept DEF IndInv, Still
<1> QED
  BY <1>1, <1>2, <1>3, <1>4, DiskKept

\* A step of the store is one of Disk, or none, and keeps the invariant.
Implements == IndInv' /\ [D!Next]_(D!vars)

\* A step the guest cannot see.
LEMMA DiskStutters ==
  ASSUME UNCHANGED <<DiskNow, Command, reply, Checkpoint>>
  PROVE  [D!Next]_(D!vars)
BY DEF D!vars

----------------------------------------------------------------------------
(* The NBD thread. *)

\* Connecting, the handshake and a client that leaves.
LEMMA QuietStep ==
  ASSUME StoreConstants, IndInv, accept \/ stores_fd \/ handshake \/ Client \/ UNCHANGED vars
  PROVE  Implements
<1>1. /\ Still /\ Spends /\ UNCHANGED <<cmd, reply, rc, save, left>>
  BY DEF accept, stores_fd, handshake, Client, vars, Still, Spends
<1>2. /\ Stored' /\ Grows /\ Holding' = Holding /\ DiskNow' = DiskNow
      /\ Checkpoint' = Checkpoint
  BY <1>1, StillKeeps
<1>3. Types'
  BY <1>1 DEF IndInv, Types, Still
<1>4. \A t \in Threads : Reading(t)'
  BY <1>1, <1>2, ReadingKept DEF IndInv, Still, Reading
<1>5. Serving'
  BY <1>1, <1>2, ServingKept DEF IndInv
<1>6. Saving'
  BY <1>1, <1>2, SavingKept DEF IndInv, Still, Saving
<1>7. [D!Next]_(D!vars)
  <2>1. Command' = Command
    BY <1>1 DEF Command
  <2> QED
    BY <1>1, <1>2, <2>1, DiskStutters
<1> QED
  BY <1>2, <1>3, <1>4, <1>5, <1>6, <1>7 DEF IndInv, Implements

\* A command arrives, within the disk, and no write while the guest is sealed.
LEMMA TransmissionStep ==
  ASSUME StoreConstants, IndInv, transmission
  PROVE  Implements
<1>1. PICK r \in Requests :
        /\ r.kind = "write" => ~save.sealed
        /\ cmd' = [kind |-> r.kind, at |-> r.at, len |-> r.len,
                   data |-> r.data, got |-> <<>>]
  BY DEF transmission
<1>2. /\ Still /\ Spends /\ UNCHANGED <<reply, rc, save>> /\ cmd = NoCmd
  BY DEF transmission, Still, Spends
<1>3. /\ Stored' /\ Grows /\ Holding' = Holding /\ DiskNow' = DiskNow
      /\ Checkpoint' = Checkpoint
  BY <1>2, StillKeeps
<1>4. /\ r.kind \in {"read", "write", "flush", "other"} /\ r.at \in Nat /\ r.len \in Nat
      /\ r.data \in Seq(Bytes)
      /\ r.at + (IF r.kind = "read" THEN r.len ELSE Len(r.data)) <= Chunks * CHUNK_SIZE
  BY DEF StoreConstants
<1>5. <<>> \in Seq(Bytes) /\ Len(r.data) \in Nat
  BY <1>4, EmptySeq, LenProperties
<1>6. Types'
  <2>1. cmd' \in [kind: {"none", "read", "write", "flush", "other"}, at: Nat, len: Nat,
                  data: Seq(Bytes), got: Seq(Bytes)]
    BY <1>1, <1>4, <1>5
  <2>2. left' \in Budget
    BY <1>2, SpendsKeeps DEF IndInv
  <2> QED
    BY <1>2, <2>1, <2>2 DEF IndInv, Types, Still, Budget
<1>7. \A t \in Threads : Reading(t)'
  BY <1>2, <1>3, ReadingKept DEF IndInv, Still, Reading
<1>8. Serving'
  <2>1. rc["nbd"].at = "none" /\ rc["nbd"] = NoRead
    BY <1>2 DEF IndInv, Serving, NoCmd, Types, Threads
  <2>2. /\ cmd'.got = <<>> /\ cmd'.kind # "none"
        /\ Position' = r.at /\ Wanted' = IF r.kind = "read" THEN r.len ELSE Len(r.data)
    BY <1>1, <1>4 DEF Position, Wanted
  <2>3. Len(cmd'.got) = 0
    BY <2>2
  <2> QED
    BY <1>2, <1>4, <1>5, <2>1, <2>2, <2>3 DEF Serving
<1>9. Saving'
  <2>1. save.sealed => cmd'.kind # "write"
    BY <1>1
  <2> QED
    BY <1>2, <1>3, <2>1, SavingKept DEF IndInv, Still, Saving
<1>10. D!Next
  <2>1. Command = D!Idle /\ Command' # D!Idle
    BY <1>1, <1>2, <1>4 DEF Command, D!Idle, NoCmd
  <2> QED
    BY <1>2, <1>3, <2>1 DEF D!Next, D!Ask
<1> QED
  BY <1>3, <1>6, <1>7, <1>8, <1>9, <1>10 DEF IndInv, Implements

\* The chunk a command is at is one of the disk.
LEMMA AtChunk ==
  ASSUME StoreConstants, NEW at \in Nat, at < Chunks * CHUNK_SIZE
  PROVE  at \div CHUNK_SIZE \in Index
<1>1. Chunks \in Nat \ {0} /\ CHUNK_SIZE \in Nat \ {0}
  BY DEF StoreConstants
<1>2. PICK m \in Nat : m = Chunks * CHUNK_SIZE
  BY <1>1
<1>3. at + 1 \in Addresses
  BY <1>1, <1>2 DEF Addresses
<1>4. at + 1 - 1 = at
  OBVIOUS
<1> QED
  BY <1>3, <1>4, AddressOf DEF ChunkOf

\* The fields of a command that is a read or a write.
LEMMA CommandFields ==
  ASSUME StoreConstants, IndInv
  PROVE  /\ cmd.at \in Nat /\ cmd.len \in Nat /\ cmd.data \in Seq(Bytes)
         /\ cmd.got \in Seq(Bytes) /\ Len(cmd.data) \in Nat /\ Len(cmd.got) \in Nat
         /\ Position \in Nat /\ Wanted \in Int /\ Chunks * CHUNK_SIZE \in Nat
<1>1. /\ cmd.at \in Nat /\ cmd.len \in Nat /\ cmd.data \in Seq(Bytes)
      /\ cmd.got \in Seq(Bytes)
  BY DEF IndInv, Types
<1>2. Len(cmd.data) \in Nat /\ Len(cmd.got) \in Nat
  BY <1>1, LenProperties
<1>3. Chunks * CHUNK_SIZE \in Nat
  BY DEF StoreConstants
<1> QED
  BY <1>1, <1>2, <1>3 DEF Position, Wanted

\* The loop of read or write takes up the next chunk.
LEMMA BeginsChunkStep ==
  ASSUME StoreConstants, IndInv, BeginsChunk
  PROVE  Implements
<1> DEFINE c == Position \div CHUNK_SIZE
<1>1. /\ Still /\ Spends /\ UNCHANGED <<reply, cmd, save, left>>
      /\ cmd.kind \in {"read", "write"} /\ Wanted > 0
      /\ rc["nbd"] = NoRead
      /\ rc' = [rc EXCEPT !["nbd"] = [at |-> "dirty", chunk |-> c, data |-> <<>>]]
  BY DEF BeginsChunk, Begins, Still, Spends
<1>2. /\ Stored' /\ Grows /\ Holding' = Holding /\ DiskNow' = DiskNow
      /\ Checkpoint' = Checkpoint
  BY <1>1, StillKeeps
<1>3. c \in Index
  <2>1. /\ Position \in Nat /\ Position < Chunks * CHUNK_SIZE
    BY <1>1, CommandFields DEF IndInv, Serving
  <2> QED
    BY <2>1, AtChunk
<1> HIDE DEF c
<1>4. /\ rc'["nbd"] = [at |-> "dirty", chunk |-> c, data |-> <<>>]
      /\ rc'["save"] = rc["save"]
  BY <1>1 DEF IndInv, Types, Threads
<1>5. Types'
  <2>1. [at |-> "dirty", chunk |-> c, data |-> <<>>] \in
          [at: {"none", "dirty", "index", "put", "set", "done", "failed"},
           chunk: Index, data: Hash]
    BY <1>3 DEF Hash, Zero
  <2>2. rc' \in [Threads -> [at: {"none", "dirty", "index", "put", "set",
                                  "done", "failed"}, chunk: Index, data: Hash]]
    BY <1>1, <2>1 DEF IndInv, Types
  <2> QED
    BY <1>1, <2>2 DEF IndInv, Types, Still
<1>6. Reading("nbd")'
  BY <1>4 DEF Reading
<1>7. Reading("save")'
  BY <1>1, <1>2, <1>4, ReadingKept DEF IndInv, Still, Reading, Threads
<1>8. Serving'
  <2>1. Position' = Position /\ Wanted' = Wanted
    BY <1>1 DEF Position, Wanted
  <2> QED
    BY <1>1, <1>2, <1>4, <2>1 DEF IndInv, Serving, c
<1>9. Saving'
  BY <1>1, <1>2, <1>4, SavingKept DEF IndInv, Still, Saving
<1>10. [D!Next]_(D!vars)
  <2>1. Command' = Command
    BY <1>1 DEF Command
  <2> QED
    BY <1>1, <1>2, <2>1, DiskStutters
<1> QED
  BY <1>2, <1>5, <1>6, <1>7, <1>8, <1>9, <1>10 DEF IndInv, Implements, Threads

\* handle_client ends between two chunks.
LEMMA EndsClientStep ==
  ASSUME StoreConstants, IndInv, EndsClient
  PROVE  Implements
<1>1. /\ Still /\ Spends /\ UNCHANGED <<reply, rc, save, left>>
      /\ cmd' = NoCmd /\ rc["nbd"] = NoRead
  BY DEF EndsClient, Still, Spends
<1>2. /\ Stored' /\ Grows /\ Holding' = Holding /\ DiskNow' = DiskNow
      /\ Checkpoint' = Checkpoint
  BY <1>1, StillKeeps
<1>3. Types'
  <2>1. NoCmd \in [kind: {"none", "read", "write", "flush", "other"}, at: Nat, len: Nat,
                   data: Seq(Bytes), got: Seq(Bytes)]
    BY EmptySeq DEF NoCmd
  <2> QED
    BY <1>1, <2>1 DEF IndInv, Types, Still
<1>4. \A t \in Threads : Reading(t)'
  BY <1>1, <1>2, ReadingKept DEF IndInv, Still, Reading
<1>5. Serving'
  <2>1. Len(cmd'.got) = 0 /\ cmd'.kind = "none" /\ cmd'.got = <<>>
    BY <1>1 DEF NoCmd
  <2> QED
    BY <1>1, <2>1 DEF Serving, NoRead
<1>6. Saving'
  BY <1>1, <1>2, SavingKept DEF IndInv, Still, Saving, NoCmd
<1>7. D!Next
  <2>1. Command' = D!Idle
    BY <1>1 DEF Command, D!Idle, NoCmd
  <2> QED
    BY <1>1, <1>2, <2>1 DEF D!Next, D!Disconnect
<1> QED
  BY <1>2, <1>3, <1>4, <1>5, <1>6, <1>7 DEF IndInv, Implements

RcRecord == [at: {"none", "dirty", "index", "put", "set", "done", "failed"},
             chunk: Index, data: Hash]
\* read_chunk moves on, in its own thread, without a change of the disk.
LEMMA RcMoves ==
  ASSUME StoreConstants, IndInv, NEW t \in Threads, Types', Stored', Grows,
         Holding' = Holding, UNCHANGED <<parents, base, dirty, file, reply, cmd, save>>,
         NEW r, rc' = [rc EXCEPT ![t] = r], rc[t].at # "none", r.at # "none",
         r.chunk = rc[t].chunk, Reading(t)',
         \A u \in Threads :
           rc[u].at \in {"put", "set"} => index'[rc[u].chunk] \in {Zero, rc[u].data}
  PROVE  Implements
<1>1. DiskNow' = DiskNow /\ Checkpoint' = Checkpoint
  BY DiskKept, CheckpointKept DEF IndInv
<1>2. rc \in [Threads -> RcRecord] /\ Threads = {"nbd", "save"}
  BY DEF IndInv, Types, RcRecord, Threads
<1>3. rc'[t] = r /\ \A u \in Threads : u # t => rc'[u] = rc[u]
  BY <1>2
<1>5. \A u \in Threads : Reading(u)'
  <2> SUFFICES ASSUME NEW u \in Threads, u # t PROVE Reading(u)'
    OBVIOUS
  <2>1. Reading(u) /\ Types /\ rc'[u] = rc[u]
    BY <1>3 DEF IndInv
  <2>2. rc[u].at \in {"index", "put", "set"} => dirty'[rc[u].chunk] = Zero
    BY <2>1 DEF Reading
  <2> QED
    BY <2>1, <2>2, ReadingKept
<1>6. Serving'
  <2>1. CASE t = "nbd"
    <3>1. Position' = Position /\ Wanted' = Wanted
      BY DEF Position, Wanted
    <3> QED
      BY <1>1, <1>3, <2>1, <3>1 DEF IndInv, Serving
  <2>2. CASE t # "nbd"
    <3>1. rc'["nbd"] = rc["nbd"]
      BY <1>2, <1>3, <2>2
    <3> QED
      BY <1>1, <3>1, ServingKept DEF IndInv
  <2> QED
    BY <2>1, <2>2
<1>7. Saving'
  <2>1. CASE t = "save"
    <3>1. \A i \in Index : save.at = "base" /\ save.hashes[i] # Zero =>
             store'[save.hashes[i]] # "absent"
      <4>1. \A i \in Index : save.at = "base" /\ save.hashes[i] # Zero =>
              save.hashes[i] \in Contents /\ store[save.hashes[i]] # "absent"
        BY DEF IndInv, Saving, Hash
      <4> QED
        BY <4>1 DEF Grows
    <3> QED
      BY <1>1, <1>3, <2>1, <3>1 DEF IndInv, Saving
  <2>2. CASE t # "save"
    <3>1. rc'["save"] = rc["save"]
      BY <1>2, <1>3, <2>2
    <3> QED
      BY <1>1, <3>1, SavingKept DEF IndInv, Saving
  <2> QED
    BY <2>1, <2>2
<1>8. [D!Next]_(D!vars)
  <2>1. Command' = Command
    BY DEF Command
  <2> QED
    BY <1>1, <2>1, DiskStutters
<1> QED
  BY <1>5, <1>6, <1>7, <1>8 DEF IndInv, Implements

\* read_chunk moves on and leaves the chunks alone.
LEMMA RcMovesStill ==
  ASSUME StoreConstants, IndInv, NEW t \in Threads, Still, Spends,
         UNCHANGED <<reply, cmd, save>>, NEW r \in RcRecord,
         rc' = [rc EXCEPT ![t] = r], rc[t].at # "none", r.at # "none",
         r.chunk = rc[t].chunk, Reading(t)'
  PROVE  Implements
<1>1. Stored' /\ Grows /\ Holding' = Holding
  BY StillKeeps
<1>2. rc' \in [Threads -> RcRecord]
  BY DEF IndInv, Types, RcRecord
<1>3. Types'
  <2>1. left' \in Budget
    BY SpendsKeeps DEF IndInv
  <2> QED
    BY <1>2, <2>1 DEF IndInv, Types, Still, Budget, RcRecord
<1>4. \A u \in Threads :
        rc[u].at \in {"put", "set"} => index'[rc[u].chunk] \in {Zero, rc[u].data}
  BY DEF IndInv, Reading, Still
<1>5. UNCHANGED <<parents, base, dirty, file, reply, cmd, save>>
  BY DEF Still
<1> QED
  BY <1>1, <1>3, <1>4, <1>5, RcMoves

\* The value of a chunk, by where read_chunk finds it.
LEMMA HoldingCases ==
  ASSUME StoreConstants, Types, Stored, NEW i \in Index, NEW k \in 1 .. CHUNK_SIZE
  PROVE  /\ dirty[i] # Zero => Holding[i][k] = Byte(dirty[i], k)
         /\ dirty[i] = Zero /\ Resolves(index, parents, i) # Zero =>
              /\ Resolves(index, parents, i) \in Contents
              /\ fetch_chunk(Resolves(index, parents, i)) = Resolves(index, parents, i)
              /\ Holding[i][k] = Byte(Resolves(index, parents, i), k)
         /\ dirty[i] = Zero /\ Resolves(index, parents, i) = Zero =>
              Holding[i][k] = Based(base, i, k)
<1> DEFINE h == Resolves(index, parents, i)
<1>1. Holding[i][k] = Value(index, parents, base, dirty, i, k)
  BY HeldIsValue DEF Holding
<1>2. h \in Hash /\ (h # Zero => store[h] # "absent")
  <2>1. index \in [Index -> Hash] /\ parents \in Seq([Index -> Hash])
    BY DEF Types
  <2>2. /\ \A j \in Index : index[j] # Zero => store[index[j]] # "absent"
        /\ \A p \in DOMAIN parents, j \in Index :
             parents[p][j] # Zero => store[parents[p][j]] # "absent"
    BY DEF Stored
  <2> QED
    BY <2>1, <2>2, ResolvesStored
<1>3. h # Zero => h \in Contents /\ fetch_chunk(h) = h
  BY <1>2 DEF Hash, fetch_chunk
<1>4. Value(index, parents, base, dirty, i, k) =
        IF dirty[i] # Zero THEN Byte(dirty[i], k)
        ELSE IF h # Zero THEN Byte(h, k) ELSE Based(base, i, k)
  BY Zenon DEF Value
<1> HIDE DEF h
<1>5. /\ dirty[i] # Zero => Holding[i][k] = Byte(dirty[i], k)
      /\ dirty[i] = Zero /\ h # Zero =>
           h \in Contents /\ fetch_chunk(h) = h /\ Holding[i][k] = Byte(h, k)
      /\ dirty[i] = Zero /\ h = Zero => Holding[i][k] = Based(base, i, k)
  BY <1>1, <1>3, <1>4
<1> QED
  BY <1>5 DEF h

\* read_chunk looks at the index, the parents and the base image.
LEMMA LooksStep ==
  ASSUME StoreConstants, IndInv, NEW t \in Threads, looks(t)
  PROVE  Implements
<1> DEFINE i == rc[t].chunk
           h == Resolves(index, parents, i)
<1>1. /\ rc[t].at = "index" /\ Still /\ UNCHANGED <<reply, cmd, save, left>> /\ Spends
  BY DEF looks, Still, Spends
<1>2. /\ rc \in [Threads -> RcRecord] /\ i \in Index /\ rc[t].data \in Hash
      /\ dirty[i] = Zero /\ base \in Seq(Bytes) /\ CHUNK_SIZE \in Nat \ {0}
  BY <1>1 DEF IndInv, Types, Reading, RcRecord, StoreConstants
<1>3. PICK r : /\ rc' = [rc EXCEPT ![t] = r]
               /\ \/ h # Zero /\ r = [at |-> "done", chunk |-> i, data |-> fetch_chunk(h)]
                  \/ /\ h = Zero /\ i * CHUNK_SIZE < Len(base)
                     /\ r = [at |-> "put", chunk |-> i, data |-> BaseChunk(i)]
                  \/ /\ h = Zero
                     /\ ~(i * CHUNK_SIZE < Len(base)) \/ AllZero(BaseChunk(i))
                     /\ r = [at |-> "done", chunk |-> i, data |-> ZeroChunk]
  BY Zenon DEF looks, Moves
<1>4. Holding' = Holding /\ BaseChunks' = BaseChunks
  BY <1>1, StillKeeps DEF BaseChunks, BaseChunk, Still
<1>5. rc'[t] = r
  BY <1>2, <1>3
<1>6. r \in RcRecord /\ r.at \in {"done", "put"} /\ r.chunk = i /\ Reading(t)'
  <2>1. CASE h # Zero /\ r = [at |-> "done", chunk |-> i, data |-> fetch_chunk(h)]
    <3>1. CHUNK_SIZE \in 1 .. CHUNK_SIZE
      BY <1>2
    <3>2. h \in Contents /\ fetch_chunk(h) = h
      BY <1>2, <2>1, <3>1, HoldingCases DEF IndInv
    <3>3. \A k \in 1 .. CHUNK_SIZE : Holding[i][k] = Byte(h, k)
      BY <1>2, <2>1, HoldingCases DEF IndInv
    <3> HIDE DEF h, i
    <3>4. /\ r.data = h /\ r.at = "done" /\ r.chunk = i
      BY <2>1, <3>2
    <3> QED
      BY <1>2, <1>4, <1>5, <2>1, <3>2, <3>3, <3>4 DEF Reading, RcRecord, Hash
  <2>2. CASE /\ h = Zero /\ i * CHUNK_SIZE < Len(base)
             /\ r = [at |-> "put", chunk |-> i, data |-> BaseChunk(i)]
    <3>1. BaseChunk(i) \in Contents /\ BaseChunks[i] = BaseChunk(i)
      BY <1>2, <2>2, BaseChunkHas DEF BaseChunks
    <3>2. index[i] = Zero /\ \A p \in DOMAIN parents : parents[p][i] = Zero
      <4>1. parents \in Seq([Index -> Hash])
        BY DEF IndInv, Types
      <4> QED
        BY <2>2, <4>1, ResolvesTo
    <3> HIDE DEF h, i
    <3>3. /\ r.data = BaseChunks[i] /\ r.at = "put" /\ r.chunk = i
          /\ r.data \in Contents
      BY <2>2, <3>1
    <3> QED
      BY <1>1, <1>2, <1>4, <1>5, <2>2, <3>2, <3>3 DEF Reading, RcRecord, Hash, Still
  <2>3. CASE /\ h = Zero
             /\ ~(i * CHUNK_SIZE < Len(base)) \/ AllZero(BaseChunk(i))
             /\ r = [at |-> "done", chunk |-> i, data |-> ZeroChunk]
    <3>1. ASSUME NEW k \in 1 .. CHUNK_SIZE PROVE Holding[i][k] = Byte(ZeroChunk, k)
      <4>1. Holding[i][k] = Based(base, i, k)
        BY <1>2, <2>3, HoldingCases DEF IndInv
      <4>2. Based(base, i, k) = 0
        <5>1. CASE ~(i * CHUNK_SIZE < Len(base))
          BY <1>2, <5>1, BasedBeyond
        <5>2. CASE i * CHUNK_SIZE < Len(base)
          <6>1. Byte(BaseChunk(i), k) = Based(base, i, k)
            BY <1>2, <5>2, BaseChunkHas
          <6>2. Byte(BaseChunk(i), k) = 0
            BY <2>3, <5>2, AllZeroReads
          <6> QED
            BY <6>1, <6>2
        <5> QED
          BY <5>1, <5>2
      <4> QED
        BY <4>1, <4>2, ZeroChunkIsContent
    <3>2. ZeroChunk \in Contents
      BY ZeroChunkIsContent
    <3> HIDE DEF h, i
    <3> QED
      BY <1>2, <1>4, <1>5, <2>3, <3>1, <3>2 DEF Reading, RcRecord, Hash
  <2> QED
    BY <1>3, <2>1, <2>2, <2>3
<1> HIDE DEF h
<1> QED
  BY <1>1, <1>3, <1>6, RcMovesStill

\* put only adds, and leaves nothing half done of its own.
LEMMA PutAdds ==
  ASSUME Types, NEW c \in Contents
  PROVE  /\ Put(store, c) \in [Contents -> {"absent", "seen", "durable"}]
         /\ Put(store, c)[c] # "absent"
         /\ \A d \in Contents :
              /\ store[d] # "absent" => Put(store, c)[d] # "absent"
              /\ Put(store, c)[d] = "seen" => store[d] = "seen"
<1>1. store \in [Contents -> {"absent", "seen", "durable"}]
  BY DEF Types
<1>2. CASE store[c] # "absent"
  BY <1>1, <1>2 DEF Put
<1>3. CASE store[c] = "absent"
  <2>1. Put(store, c) = [k \in Contents |-> IF k = c \/ store[k] = "seen" THEN "durable" ELSE store[k]]
    BY <1>3 DEF Put
  <2> QED
    BY <1>1, <2>1
<1> QED
  BY <1>2, <1>3

\* An index whose entry for a chunk is the same leads to the same hash.
LEMMA ResolvesSame ==
  ASSUME NEW own, NEW other, NEW chain, NEW i, own[i] = other[i]
  PROVE  Resolves(own, chain, i) = Resolves(other, chain, i)
BY DEF Resolves

\* The first look, at the dirty chunks.
LEMMA FindsDirtyStep ==
  ASSUME StoreConstants, IndInv, NEW t \in Threads, read_chunk(t), rc[t].at = "dirty"
  PROVE  Implements
<1>1. /\ Still /\ UNCHANGED <<reply, cmd, save, left>> /\ Spends
  BY DEF read_chunk, Still, Spends
<1>2. PICK i \in Index : i = rc[t].chunk
  BY DEF IndInv, Types
<1>3. rc \in [Threads -> RcRecord] /\ rc[t].data \in Hash /\ dirty \in [Index -> Hash]
  BY DEF IndInv, Types, RcRecord
<1>4. PICK r : /\ rc' = [rc EXCEPT ![t] = r]
               /\ \/ dirty[i] # Zero /\ r = [at |-> "done", chunk |-> i, data |-> dirty[i]]
                  \/ dirty[i] = Zero /\ r = [at |-> "index", chunk |-> i, data |-> rc[t].data]
  BY <1>2, Zenon DEF read_chunk, Moves
<1>5. Holding' = Holding
  BY <1>1, StillKeeps
<1>6. rc'[t] = r
  BY <1>3, <1>4
<1>7. r \in RcRecord /\ r.at \in {"done", "index"} /\ r.chunk = i
  BY <1>3, <1>4 DEF RcRecord
<1>8. Reading(t)'
  <2>1. CASE dirty[i] # Zero /\ r = [at |-> "done", chunk |-> i, data |-> dirty[i]]
    <3>1. \A k \in 1 .. CHUNK_SIZE : Holding[i][k] = Byte(dirty[i], k)
      BY <2>1, HoldingCases DEF IndInv
    <3>2. dirty[i] \in Contents
      BY <1>3, <2>1 DEF Hash
    <3> QED
      BY <1>5, <1>6, <2>1, <3>1, <3>2 DEF Reading
  <2>2. CASE dirty[i] = Zero /\ r = [at |-> "index", chunk |-> i, data |-> rc[t].data]
    BY <1>1, <1>6, <2>2 DEF Reading, Still
  <2> QED
    BY <1>4, <2>1, <2>2
<1> QED
  BY <1>1, <1>2, <1>4, <1>7, <1>8, RcMovesStill

\* Chunks that are not dirty are left as they are.
Settles ==
  /\ Grows /\ Holding' = Holding /\ UNCHANGED <<parents, base, file>>
  /\ \A i \in Index : dirty[i] = Zero => dirty'[i] = Zero /\ index'[i] = index[i]
  /\ dirty = NoDirty => dirty' = NoDirty

\* The store may grow: nothing reads differently.
LEMMA StoreGrows ==
  ASSUME StoreConstants, IndInv, Grows, Spends, UNCHANGED <<index, parents, base, dirty, file>>,
         left.power => \A c \in Contents : store'[c] = "seen" => store[c] = "seen"
  PROVE  Settles /\ Stored'
<1>1. Types /\ Stored /\ index \in [Index -> Hash] /\ parents \in Seq([Index -> Hash])
  BY DEF IndInv, Types
<1>2. BoundsKept
  BY <1>1, PowerKept
<1>3. Stored'
  BY <1>1, <1>2, StoredKept
<1>4. Holding' = Holding
  BY <1>1, <1>3, SameValuesOf
<1> QED
  BY <1>3, <1>4 DEF Settles

\* A put that fails may leave its chunk in the store, but not durable.
LEMMA PutFailsGrows ==
  ASSUME StoreConstants, IndInv, NEW c \in Contents, PutFails(c),
         UNCHANGED <<index, parents, base, dirty, file>>
  PROVE  /\ Spends /\ Settles /\ Stored' /\ Grows
         /\ store' \in [Contents -> {"absent", "seen", "durable"}]
<1>1. store \in [Contents -> {"absent", "seen", "durable"}]
  BY DEF IndInv, Types
<1>2. \/ left.faults > 0 /\ left' = [left EXCEPT !.faults = @ - 1] /\ store' = store
      \/ /\ left.cuts > 0 /\ left' = [left EXCEPT !.cuts = @ - 1]
         /\ store[c] = "absent" /\ store' = [store EXCEPT ![c] = "seen"]
  BY Zenon DEF PutFails
<1>3. Spends
  BY <1>2 DEF Spends
<1>4. Grows /\ store' \in [Contents -> {"absent", "seen", "durable"}]
  BY <1>1, <1>2 DEF Grows
<1>5. ASSUME left.power, NEW d \in Contents, store'[d] = "seen" PROVE store[d] = "seen"
  <2>1. ~(left.cuts > 0)
    BY <1>5 DEF IndInv, Stored
  <2> QED
    BY <1>2, <1>5, <2>1
<1> QED
  BY <1>3, <1>4, <1>5, StoreGrows

\* A base chunk that could not be put.
LEMMA PutBaseFailsStep ==
  ASSUME StoreConstants, IndInv, NEW t \in Threads, rc[t].at = "put", PutFails(rc[t].data),
         rc' = [rc EXCEPT ![t] = [at |-> "failed", chunk |-> rc[t].chunk, data |-> rc[t].data]],
         UNCHANGED <<index, parents, base, dirty, file, reply, cmd, save>>
  PROVE  Implements
<1>1. PICK r : r = [at |-> "failed", chunk |-> rc[t].chunk, data |-> rc[t].data]
  OBVIOUS
<1>2. rc \in [Threads -> RcRecord] /\ rc[t] \in RcRecord
  BY DEF IndInv, Types, RcRecord
<1>3. /\ r \in RcRecord /\ rc'[t] = r /\ r.at = "failed" /\ r.chunk = rc[t].chunk
      /\ rc' = [rc EXCEPT ![t] = r] /\ rc' \in [Threads -> RcRecord]
  BY <1>1, <1>2 DEF RcRecord
<1>4. rc[t].data \in Contents
  BY DEF IndInv, Reading
<1>5. /\ Spends /\ Settles /\ Stored' /\ Grows
      /\ store' \in [Contents -> {"absent", "seen", "durable"}]
  BY <1>4, PutFailsGrows
<1>6. Types'
  <2>1. left' \in Budget
    BY <1>5, SpendsKeeps DEF IndInv
  <2> QED
    BY <1>3, <1>5, <2>1 DEF IndInv, Types, Budget, RcRecord
<1>7. Holding' = Holding
  BY <1>5 DEF Settles
<1>8. Reading(t)'
  BY <1>3 DEF Reading
<1>9. \A u \in Threads :
        rc[u].at \in {"put", "set"} => index'[rc[u].chunk] \in {Zero, rc[u].data}
  BY DEF IndInv, Reading
<1>10. rc[t].at # "none" /\ r.at # "none"
  BY <1>3
<1> QED
  BY <1>3, <1>5, <1>6, <1>7, <1>8, <1>9, <1>10, RcMoves

\* A read that fails.
LEMMA ReadFailsStep ==
  ASSUME StoreConstants, IndInv, NEW t \in Threads, read_chunk(t), Still,
         rc' = [rc EXCEPT ![t] = [at |-> "failed", chunk |-> rc[t].chunk, data |-> rc[t].data]],
         rc[t].at # "none", left.faults > 0, left' = [left EXCEPT !.faults = @ - 1]
  PROVE  Implements
<1>1. /\ UNCHANGED <<reply, cmd, save>> /\ Spends
  BY DEF read_chunk, Spends
<1>2. PICK r : r = [at |-> "failed", chunk |-> rc[t].chunk, data |-> rc[t].data]
  OBVIOUS
<1>3. rc \in [Threads -> RcRecord] /\ rc[t] \in RcRecord
  BY DEF IndInv, Types, RcRecord
<1>4. r \in RcRecord /\ rc'[t] = r /\ r.at = "failed" /\ r.chunk = rc[t].chunk
  BY <1>2, <1>3 DEF RcRecord
<1>5. Reading(t)'
  BY <1>4 DEF Reading
<1> QED
  BY <1>1, <1>2, <1>4, <1>5, RcMovesStill

\* A base chunk is put.
LEMMA PutsBaseStep ==
  ASSUME StoreConstants, IndInv, NEW t \in Threads, read_chunk(t), rc[t].at = "put",
         store' = Put(store, rc[t].data),
         rc' = [rc EXCEPT ![t] = [at |-> "set", chunk |-> rc[t].chunk, data |-> rc[t].data]],
         UNCHANGED <<index, left>>
  PROVE  Implements
<1>1. /\ UNCHANGED <<index, parents, base, dirty, file, reply, cmd, save, left>> /\ Spends
  BY DEF read_chunk, Spends
<1>2. PICK i \in Index, d \in Contents : i = rc[t].chunk /\ d = rc[t].data
  BY DEF IndInv, Types, Reading
<1>3. rc \in [Threads -> RcRecord] /\ rc[t].data \in Hash
  BY DEF IndInv, Types, RcRecord
<1>4. PICK r : r = [at |-> "set", chunk |-> i, data |-> d] /\ rc' = [rc EXCEPT ![t] = r]
  BY <1>2
<1>5. /\ store' \in [Contents -> {"absent", "seen", "durable"}] /\ store'[d] # "absent"
      /\ Grows /\ \A c \in Contents : store'[c] = "seen" => store[c] = "seen"
  BY <1>2, PutAdds DEF IndInv, Grows
<1>6. r \in RcRecord /\ rc'[t] = r
  BY <1>3, <1>4 DEF RcRecord, Hash
<1>7. Types'
  <2>1. rc' \in [Threads -> RcRecord]
    BY <1>3, <1>4, <1>6
  <2> QED
    BY <1>1, <1>5, <2>1 DEF IndInv, Types, RcRecord
<1>8. Stored'
  BY <1>1, <1>5, PowerKept, StoredKept DEF IndInv
<1>9. Holding' = Holding
  BY <1>1, <1>7, <1>8, SameValues DEF IndInv
<1>10. Reading(t)'
  <2>1. BaseChunks' = BaseChunks
    BY <1>1 DEF BaseChunks, BaseChunk
  <2>2. Reading(t)
    BY DEF IndInv
  <2> QED
    BY <1>1, <1>2, <1>4, <1>5, <1>6, <2>1, <2>2 DEF Reading
<1>11. \A u \in Threads :
        rc[u].at \in {"put", "set"} => index'[rc[u].chunk] \in {Zero, rc[u].data}
  BY <1>1 DEF IndInv, Reading
<1>12. r.at # "none" /\ r.chunk = rc[t].chunk
  BY <1>2, <1>4
<1> QED
  BY <1>1, <1>4, <1>5, <1>7, <1>8, <1>9, <1>10, <1>11, <1>12, RcMoves

\* The hash of a base chunk is set, whose bytes the disk had already.
LEMMA SetsBaseStep ==
  ASSUME StoreConstants, IndInv, NEW t \in Threads, read_chunk(t), rc[t].at = "set",
         index' = [index EXCEPT ![rc[t].chunk] = rc[t].data],
         rc' = [rc EXCEPT ![t] = [at |-> "done", chunk |-> rc[t].chunk, data |-> rc[t].data]],
         UNCHANGED <<store, left>>
  PROVE  Implements
<1>1. /\ UNCHANGED <<store, parents, base, dirty, file, reply, cmd, save, left>> /\ Spends
  BY DEF read_chunk, Spends
<1>2. PICK i \in Index, d \in Contents : i = rc[t].chunk /\ d = rc[t].data
  BY DEF IndInv, Types, Reading
<1>3. /\ rc \in [Threads -> RcRecord] /\ index \in [Index -> Hash]
      /\ base \in Seq(Bytes) /\ parents \in Seq([Index -> Hash]) /\ d \in Hash
  BY DEF IndInv, Types, RcRecord, Hash
<1>4. PICK r : r = [at |-> "done", chunk |-> i, data |-> d] /\ rc' = [rc EXCEPT ![t] = r]
  BY <1>2
<1>5. /\ dirty[i] = Zero /\ i * CHUNK_SIZE < Len(base) /\ d = BaseChunks[i]
      /\ index[i] \in {Zero, d} /\ \A p \in DOMAIN parents : parents[p][i] = Zero
      /\ store[d] # "absent"
  BY <1>2 DEF IndInv, Reading
<1>6. r \in RcRecord /\ rc'[t] = r
  BY <1>3, <1>4 DEF RcRecord
<1>7. /\ index' \in [Index -> Hash] /\ index'[i] = d
      /\ \A j \in Index : j # i => index'[j] = index[j]
  BY <1>2, <1>3
<1>8. Types'
  <2>1. rc' \in [Threads -> RcRecord]
    BY <1>3, <1>4, <1>6
  <2> QED
    BY <1>1, <1>7, <2>1 DEF IndInv, Types, RcRecord
<1>9. Grows
  BY <1>1 DEF Grows
<1>10. Stored'
  <2>1. \A j \in Index : index'[j] = index[j] \/ store'[index'[j]] # "absent"
    BY <1>1, <1>5, <1>7
  <2> QED
    BY <1>1, <1>9, <2>1, PowerKept, StoredKept DEF IndInv
<1>11. \A k \in 1 .. CHUNK_SIZE : Byte(d, k) = Based(base, i, k)
  <2>1. d = BaseChunk(i)
    BY <1>5 DEF BaseChunks
  <2> QED
    BY <1>3, <1>5, <2>1, BaseChunkHas
<1>12. d # Zero
  BY ContentIsSeq
<1>13. ASSUME NEW j \in Index, NEW k \in 1 .. CHUNK_SIZE
       PROVE  Value(index', parents', base', dirty', j, k)
                = Value(index, parents, base, dirty, j, k)
  <2>1. CASE j # i
    <3>1. Resolves(index', parents, j) = Resolves(index, parents, j)
      <4>1. PICK own, other : own = index' /\ other = index
        OBVIOUS
      <4>2. own[j] = other[j]
        BY <1>7, <2>1, <4>1
      <4>3. Resolves(own, parents, j) = Resolves(other, parents, j)
        BY <4>2, ResolvesSame
      <4> QED
        BY <4>1, <4>3
    <3> QED
      BY <1>1, <3>1, Zenon DEF Value
  <2>2. CASE j = i
    <3>1. Resolves(index', parents, i) = d
      <4>1. PICK own : own = index' /\ own[i] = d
        BY <1>7
      <4>2. own[i] # Zero
        BY <1>12, <4>1
      <4>3. Resolves(own, parents, i) = own[i]
        BY <1>3, <4>2, ResolvesTo
      <4> QED
        BY <4>1, <4>3
    <3>2. Resolves(index, parents, i) = index[i]
      BY <1>3, <1>5, ResolvesTo
    <3>3. Value(index', parents, base, dirty, i, k) = Byte(d, k)
      BY <1>5, <1>12, <3>1, Zenon DEF Value
    <3>4. Value(index, parents, base, dirty, i, k)
            = IF index[i] # Zero THEN Byte(index[i], k) ELSE Based(base, i, k)
      BY <1>5, <3>2, Zenon DEF Value
    <3> QED
      BY <1>1, <1>5, <1>11, <2>2, <3>3, <3>4
  <2> QED
    BY <2>1, <2>2
<1>14. Holding' = Holding
  BY <1>8, <1>10, <1>13, SameValues DEF IndInv
<1>15. Reading(t)'
  <2>1. ASSUME NEW k \in 1 .. CHUNK_SIZE PROVE Byte(d, k) = Holding[i][k]
    <3>1. CASE index[i] = Zero
      <4>1. Resolves(index, parents, i) = Zero
        BY <1>3, <1>5, <3>1, ResolvesTo
      <4> QED
        BY <1>5, <1>11, <4>1, HoldingCases DEF IndInv
    <3>2. CASE index[i] = d
      <4>1. Resolves(index, parents, i) = d
        BY <1>3, <1>12, <3>2, ResolvesTo
      <4> QED
        BY <1>5, <1>12, <4>1, HoldingCases DEF IndInv
    <3> QED
      BY <1>5, <3>1, <3>2
  <2> QED
    BY <1>4, <1>6, <1>14, <2>1 DEF Reading
<1>16. ASSUME NEW u \in Threads, rc[u].at \in {"put", "set"}
       PROVE  index'[rc[u].chunk] \in {Zero, rc[u].data}
  <2>1. PICK j \in Index : j = rc[u].chunk
    BY DEF IndInv, Types
  <2>2. /\ rc[u].data = BaseChunks[j] /\ index[j] \in {Zero, rc[u].data}
    BY <1>16, <2>1 DEF IndInv, Reading
  <2> QED
    BY <1>5, <1>7, <2>1, <2>2
<1>17. r.at # "none" /\ r.chunk = rc[t].chunk
  BY <1>2, <1>4
<1> QED
  BY <1>1, <1>4, <1>8, <1>9, <1>10, <1>14, <1>15, <1>16, <1>17, RcMoves

\* Every step of read_chunk but its look at the indexes.
LEMMA ReadChunkStep ==
  ASSUME StoreConstants, IndInv, NEW t \in Threads, read_chunk(t)
  PROVE  Implements
<1>1. \/ rc[t].at = "dirty"
      \/ /\ rc[t].at = "put" /\ store' = Put(store, rc[t].data) /\ UNCHANGED <<index, left>>
         /\ rc' = [rc EXCEPT ![t] = [at |-> "set", chunk |-> rc[t].chunk, data |-> rc[t].data]]
      \/ /\ rc[t].at = "set" /\ index' = [index EXCEPT ![rc[t].chunk] = rc[t].data]
         /\ rc' = [rc EXCEPT ![t] = [at |-> "done", chunk |-> rc[t].chunk, data |-> rc[t].data]]
         /\ UNCHANGED <<store, left>>
      \/ /\ rc[t].at # "none" /\ left.faults > 0 /\ left' = [left EXCEPT !.faults = @ - 1]
         /\ rc' = [rc EXCEPT ![t] = [at |-> "failed", chunk |-> rc[t].chunk, data |-> rc[t].data]]
         /\ UNCHANGED <<store, index, parents, base, dirty, file>>
      \/ /\ rc[t].at = "put" /\ PutFails(rc[t].data) /\ UNCHANGED index
         /\ rc' = [rc EXCEPT ![t] = [at |-> "failed", chunk |-> rc[t].chunk, data |-> rc[t].data]]
  BY Zenon DEF read_chunk, Moves
<1>2. UNCHANGED <<parents, base, dirty, file, reply, cmd, save>>
  BY Zenon DEF read_chunk
<1> QED
  BY <1>1, <1>2, FindsDirtyStep, PutsBaseStep, SetsBaseStep, ReadFailsStep, PutBaseFailsStep
  DEF Still

\* The piece of a command that is in the chunk it is at.
LEMMA PieceFits ==
  ASSUME StoreConstants, IndInv, cmd.kind \in {"read", "write"}, Wanted > 0
  PROVE  /\ Position \in Nat /\ Wanted \in Nat /\ CHUNK_SIZE \in Nat \ {0}
         /\ Position \div CHUNK_SIZE \in Index
         /\ InChunk \in 0 .. CHUNK_SIZE - 1 /\ Piece \in 1 .. Wanted
         /\ InChunk + Piece <= CHUNK_SIZE
         /\ Position + Wanted <= Chunks * CHUNK_SIZE /\ Chunks * CHUNK_SIZE \in Nat
<1>1. CHUNK_SIZE \in Nat \ {0}
  BY DEF StoreConstants
<1>2. /\ Position \in Nat /\ Wanted \in Int /\ Chunks * CHUNK_SIZE \in Nat
      /\ Position + Wanted <= Chunks * CHUNK_SIZE
  BY CommandFields DEF IndInv, Serving
<1>3. Position < Chunks * CHUNK_SIZE
  BY <1>2
<1>4. Position \div CHUNK_SIZE \in Index
  BY <1>2, <1>3, AtChunk
<1>5. InChunk \in 0 .. CHUNK_SIZE - 1
  BY <1>1, <1>2, DivMod DEF InChunk
<1>6. Piece \in 1 .. Wanted /\ InChunk + Piece <= CHUNK_SIZE
  <2>1. PICK q \in 0 .. CHUNK_SIZE - 1 : q = InChunk
    BY <1>5
  <2>2. PICK w \in Int : w = Wanted
    BY <1>2
  <2>3. Piece = IF CHUNK_SIZE - q < w THEN CHUNK_SIZE - q ELSE w
    BY <2>1, <2>2 DEF Piece, Min2
  <2> QED
    BY <1>1, <2>1, <2>2, <2>3
<1> QED
  BY <1>1, <1>2, <1>4, <1>5, <1>6

\* The bytes of the piece are at the addresses from Position on.
LEMMA PieceAddresses ==
  ASSUME StoreConstants, IndInv, cmd.kind \in {"read", "write"}, Wanted > 0,
         NEW a \in Addresses
  PROVE  /\ a - Position \in 1 .. Piece => ChunkOf(a) = Position \div CHUNK_SIZE
         /\ ChunkOf(a) = Position \div CHUNK_SIZE =>
              a - Position = OffsetOf(a) - InChunk
<1>1. Position \in Nat /\ Piece \in Nat /\ (Position % CHUNK_SIZE) + Piece <= CHUNK_SIZE
  BY PieceFits DEF InChunk
<1> QED
  BY <1>1, InOneChunk DEF InChunk

\* What is appended follows what was there.
LEMMA Appended ==
  ASSUME NEW S, NEW g \in Seq(S), NEW b \in Seq(S)
  PROVE  /\ g \o b \in Seq(S) /\ Len(g \o b) = Len(g) + Len(b)
         /\ \A j \in 1 .. Len(g) : (g \o b)[j] = g[j]
         /\ \A k \in 1 .. Len(b) : (g \o b)[Len(g) + k] = b[k]
OBVIOUS

\* read takes what it wants of a chunk.
LEMMA ReadStep ==
  ASSUME StoreConstants, IndInv, read
  PROVE  Implements
<1> DEFINE data == rc["nbd"].data
           bytes == [k \in 1 .. Piece |-> Byte(data, InChunk + k)]
<1>1. /\ Still /\ Spends /\ UNCHANGED <<reply, save, left>>
      /\ cmd.kind = "read" /\ rc["nbd"].at = "done"
      /\ cmd' = [cmd EXCEPT !.got = cmd.got \o bytes]
      /\ rc' = [rc EXCEPT !["nbd"] = NoRead]
  BY DEF read, Still, Spends
<1>2. /\ Stored' /\ Grows /\ Holding' = Holding /\ DiskNow' = DiskNow
      /\ Checkpoint' = Checkpoint
  BY <1>1, StillKeeps
<1>3. /\ cmd.at \in Nat /\ cmd.len \in Nat /\ cmd.data \in Seq(Bytes)
      /\ cmd.got \in Seq(Bytes) /\ Len(cmd.got) \in Nat
  BY CommandFields
<1>4. Wanted > 0 /\ rc["nbd"].chunk = Position \div CHUNK_SIZE
  BY <1>1 DEF IndInv, Serving
<1>5. /\ Position \in Nat /\ Wanted \in Nat /\ CHUNK_SIZE \in Nat \ {0}
      /\ Position \div CHUNK_SIZE \in Index
      /\ InChunk \in 0 .. CHUNK_SIZE - 1 /\ Piece \in 1 .. Wanted
      /\ InChunk + Piece <= CHUNK_SIZE
      /\ Position + Wanted <= Chunks * CHUNK_SIZE /\ Chunks * CHUNK_SIZE \in Nat
  BY <1>1, <1>4, PieceFits
<1>6. data \in Contents
      /\ \A k \in 1 .. CHUNK_SIZE : Byte(data, k) = Holding[Position \div CHUNK_SIZE][k]
  BY <1>1, <1>4 DEF IndInv, Reading, Threads
<1>7. bytes \in Seq(Bytes) /\ Len(bytes) = Piece
      /\ \A k \in 1 .. Piece : bytes[k] = Byte(data, InChunk + k)
  <2>1. \A k \in 1 .. Piece : Byte(data, InChunk + k) \in Bytes
    BY <1>6, ByteType
  <2>2. Piece \in Nat
    BY <1>5
  <2> QED
    BY <2>1, <2>2
<1> HIDE DEF bytes, data
<1>8. /\ cmd.got \o bytes \in Seq(Bytes)
      /\ Len(cmd.got \o bytes) = Len(cmd.got) + Piece
      /\ \A j \in 1 .. Len(cmd.got) : (cmd.got \o bytes)[j] = cmd.got[j]
      /\ \A k \in 1 .. Piece : (cmd.got \o bytes)[Len(cmd.got) + k] = bytes[k]
  <2>1. PICK g \in Seq(Bytes), b \in Seq(Bytes) : g = cmd.got /\ b = bytes
    BY <1>3, <1>7
  <2>2. Len(b) = Piece
    BY <1>7, <2>1
  <2>3. /\ g \o b \in Seq(Bytes) /\ Len(g \o b) = Len(g) + Len(b)
        /\ \A j \in 1 .. Len(g) : (g \o b)[j] = g[j]
        /\ \A k \in 1 .. Len(b) : (g \o b)[Len(g) + k] = b[k]
    BY Appended
  <2> QED
    BY <2>1, <2>2, <2>3, Zenon
<1>9. /\ cmd'.kind = "read" /\ cmd'.at = cmd.at /\ cmd'.len = cmd.len
      /\ cmd'.data = cmd.data /\ cmd'.got = cmd.got \o bytes
      /\ cmd' \in [kind: {"none", "read", "write", "flush", "other"}, at: Nat, len: Nat,
                   data: Seq(Bytes), got: Seq(Bytes)]
  <2>1. PICK g \in Seq(Bytes) : g = cmd.got \o bytes /\ cmd' = [cmd EXCEPT !.got = g]
    BY <1>1, <1>8
  <2>2. cmd \in [kind: {"none", "read", "write", "flush", "other"}, at: Nat, len: Nat,
                data: Seq(Bytes), got: Seq(Bytes)]
    BY DEF IndInv, Types
  <2> QED
    BY <1>1, <2>1, <2>2
<1>10. rc'["nbd"] = NoRead /\ rc'["save"] = rc["save"] /\ rc' \in [Threads -> RcRecord]
  <2>1. NoRead \in RcRecord
    <3>1. 0 \in Index
      BY DEF StoreConstants, Index
    <3> QED
      BY <3>1 DEF NoRead, RcRecord, Hash, Zero
  <2>2. rc \in [Threads -> RcRecord] /\ Threads = {"nbd", "save"}
    BY DEF IndInv, Types, RcRecord, Threads
  <2> QED
    BY <1>1, <2>1, <2>2
<1>11. Types'
  BY <1>1, <1>9, <1>10 DEF IndInv, Types, Still, RcRecord
<1>12. Reading("nbd")' /\ Reading("save")'
  <2>1. Reading("nbd")'
    BY <1>10 DEF Reading, NoRead
  <2>2. Reading("save")'
    BY <1>1, <1>2, <1>10, ReadingKept DEF IndInv, Still, Reading, Threads
  <2> QED
    BY <2>1, <2>2
<1>13. Serving'
  <2>1. Position' = Position + Piece /\ Wanted' = Wanted - Piece
    <3>1. PICK g \in Nat : g = Len(cmd.got) /\ Len(cmd'.got) = g + Piece
      BY <1>3, <1>8, <1>9
    <3>2. Position = cmd.at + g /\ Wanted = cmd.len - g
      BY <1>1, <3>1 DEF Position, Wanted
    <3>3. Position' = cmd.at + (g + Piece) /\ Wanted' = cmd.len - (g + Piece)
      BY <1>9, <3>1 DEF Position, Wanted
    <3>4. PICK n \in Nat, a \in Nat, l \in Nat : n = Piece /\ a = cmd.at /\ l = cmd.len
      <4>1. Piece \in Nat
        BY <1>5
      <4> QED
        BY <1>3, <4>1
    <3>5. a + (g + n) = (a + g) + n /\ l - (g + n) = (l - g) - n
      OBVIOUS
    <3> QED
      BY <3>2, <3>3, <3>4, <3>5
  <2>2. Position' + Wanted' <= Chunks * CHUNK_SIZE /\ 0 <= Wanted'
    BY <1>5, <2>1
  <2>3. ASSUME NEW j \in 1 .. Len(cmd'.got)
        PROVE  cmd'.got[j] = DiskNow'[cmd'.at + j]
    <3>0. j \in 1 .. Len(cmd.got) + Piece
      BY <1>8, <1>9
    <3>1. CASE j <= Len(cmd.got)
      <4>1. j \in 1 .. Len(cmd.got)
        BY <1>3, <3>1
      <4> QED
        BY <1>2, <1>8, <1>9, <4>1 DEF IndInv, Serving
    <3>2. CASE j > Len(cmd.got)
      <4>1. PICK k \in 1 .. Piece : j = Len(cmd.got) + k
        <5>1. j - Len(cmd.got) \in 1 .. Piece
          BY <1>3, <1>5, <3>0, <3>2
        <5> QED
          BY <1>3, <5>1
      <4>2. PICK p \in Nat : p = Position /\ p = cmd.at + Len(cmd.got)
        BY <1>1, <1>3 DEF Position
      <4>3. PICK a \in Addresses : a = p + k
        <5>1. p + k \in 1 .. Chunks * CHUNK_SIZE
          BY <1>5, <4>2
        <5> QED
          BY <5>1 DEF Addresses
      <4>4. cmd.at + j = a
        BY <1>3, <4>1, <4>2, <4>3
      <4>5. a - Position = k
        BY <4>2, <4>3
      <4>6. ChunkOf(a) = Position \div CHUNK_SIZE /\ k = OffsetOf(a) - InChunk
        BY <1>1, <1>4, <4>5, PieceAddresses
      <4>7. OffsetOf(a) = InChunk + k /\ OffsetOf(a) \in 1 .. CHUNK_SIZE
        <5>1. OffsetOf(a) \in 1 .. CHUNK_SIZE
          BY AddressOf
        <5> QED
          BY <1>5, <4>6, <5>1
      <4>8. (cmd.got \o bytes)[j] = bytes[k]
        BY <1>8, <4>1
      <4>9. bytes[k] = Holding[ChunkOf(a)][OffsetOf(a)]
        BY <1>6, <1>7, <4>6, <4>7
      <4> QED
        BY <1>2, <1>9, <4>4, <4>8, <4>9, DiskIsHolding
    <3> QED
      BY <1>3, <3>0, <3>1, <3>2
  <2> QED
    BY <1>9, <1>10, <2>2, <2>3 DEF Serving, NoRead
<1>14. Saving'
  BY <1>1, <1>2, <1>9, <1>10, SavingKept DEF IndInv, Still, Saving
<1>15. [D!Next]_(D!vars)
  <2>1. Command' = Command
    BY <1>1, <1>9 DEF Command
  <2> QED
    BY <1>1, <1>2, <2>1, DiskStutters
<1> QED
  BY <1>2, <1>11, <1>12, <1>13, <1>14, <1>15 DEF IndInv, Implements, Threads

\* The length of a chunk of l bytes once bytes o + 1 to o + n are written.
LEMMA Resized ==
  ASSUME NEW c \in Nat \ {0}, NEW l \in 1 .. c, NEW o \in Nat, NEW n \in Nat \ {0},
         o + n <= c, NEW len, len = IF l < o + n THEN o + n ELSE l
  PROVE  /\ len \in 1 .. c /\ len \in Nat /\ l <= len
         /\ \A k \in 1 .. c :
              \/ k \in 1 .. len
              \/ k \notin 1 .. len /\ k \notin 1 .. l /\ k - o \notin 1 .. n
<1>1. CASE l < o + n
  BY <1>1
<1>2. CASE ~(l < o + n)
  BY <1>2
<1> QED
  BY <1>1, <1>2

\* A chunk with n bytes of d written over it from offset o on.
LEMMA Overwritten ==
  ASSUME StoreConstants, NEW old \in Contents, NEW d \in Seq(Bytes), NEW o \in Nat,
         NEW n \in Nat, n \in 1 .. Len(d), o + n <= CHUNK_SIZE
  PROVE  /\ Overwrite(old, d, o, n) \in Contents
         /\ \A k \in 1 .. CHUNK_SIZE :
              Byte(Overwrite(old, d, o, n), k) =
                IF k - o \in 1 .. n THEN d[k - o] ELSE Byte(old, k)
<1>1. /\ Len(old) \in 1 .. CHUNK_SIZE /\ DOMAIN old = 1 .. Len(old)
      /\ CHUNK_SIZE \in Nat \ {0}
  BY ContentIsSeq DEF StoreConstants
<1>2. n \in Nat \ {0}
  OBVIOUS
<1>3. PICK len : len = IF Len(old) < o + n THEN o + n ELSE Len(old)
  OBVIOUS
<1>4. /\ len \in 1 .. CHUNK_SIZE /\ len \in Nat
      /\ \A k \in 1 .. CHUNK_SIZE :
           \/ k \in 1 .. len
           \/ k \notin 1 .. len /\ k \notin 1 .. Len(old) /\ k - o \notin 1 .. n
  <2>1. PICK l \in 1 .. CHUNK_SIZE, c \in Nat \ {0} : l = Len(old) /\ c = CHUNK_SIZE
    BY <1>1
  <2>2. o + n <= c /\ l \in 1 .. c /\ len = IF l < o + n THEN o + n ELSE l
    BY <1>3, <2>1
  <2>3. /\ len \in 1 .. c /\ len \in Nat
        /\ \A k \in 1 .. c :
             \/ k \in 1 .. len
             \/ k \notin 1 .. len /\ k \notin 1 .. l /\ k - o \notin 1 .. n
    BY <1>2, <2>2, Resized
  <2> QED
    BY <2>1, <2>3
<1>5. ASSUME NEW k PROVE (IF k - o \in 1 .. n THEN d[k - o] ELSE Byte(old, k)) \in Bytes
  <2>1. ASSUME k - o \in 1 .. n PROVE d[k - o] \in Bytes
    <3>1. PICK l \in Nat : l = Len(d)
      BY LenProperties
    <3>2. k - o \in 1 .. Len(d)
      BY <2>1, <3>1
    <3> QED
      BY <3>2, ElementOfSeq
  <2>2. Byte(old, k) \in Bytes
    BY ByteType
  <2> QED
    BY <2>1, <2>2
<1>6. ASSUME NEW new,
             new = [k \in 1 .. len |-> IF k - o \in 1 .. n THEN d[k - o] ELSE Byte(old, k)]
      PROVE  /\ new \in Contents
             /\ \A k \in 1 .. CHUNK_SIZE :
                  Byte(new, k) = IF k - o \in 1 .. n THEN d[k - o] ELSE Byte(old, k)
  <2>1. new \in [1 .. len -> Bytes]
    BY <1>5, <1>6
  <2>2. new \in Contents
    BY <1>4, <2>1 DEF Contents
  <2>3. ASSUME NEW k \in 1 .. CHUNK_SIZE
        PROVE  Byte(new, k) = IF k - o \in 1 .. n THEN d[k - o] ELSE Byte(old, k)
    <3>1. DOMAIN new = 1 .. len
      BY <2>1
    <3>2. CASE k \in 1 .. len
      BY <1>6, <3>1, <3>2 DEF Byte
    <3>3. CASE k \notin 1 .. len /\ k \notin 1 .. Len(old) /\ k - o \notin 1 .. n
      BY <1>1, <3>1, <3>3 DEF Byte
    <3> QED
      BY <1>4, <3>2, <3>3
  <2> QED
    BY <2>2, <2>3
<1>7. Overwrite(old, d, o, n)
        = [k \in 1 .. len |-> IF k - o \in 1 .. n THEN d[k - o] ELSE Byte(old, k)]
  BY <1>3 DEF Overwrite
<1> QED
  BY <1>6, <1>7

\* What is left of a sequence after its first n.
LEMMA RestOf ==
  ASSUME NEW S, NEW d \in Seq(S), NEW n \in 1 .. Len(d)
  PROVE  SubSeq(d, n + 1, Len(d)) \in Seq(S) /\ Len(SubSeq(d, n + 1, Len(d))) = Len(d) - n
<1>1. Len(d) \in Nat /\ n \in Nat
  BY LenProperties
<1>2. \A i \in n + 1 .. Len(d) : d[i] \in S
  <2>1. \A i \in n + 1 .. Len(d) : i \in 1 .. Len(d)
    BY <1>1
  <2> QED
    BY <2>1, ElementOfSeq
<1>3. n + 1 \in Int /\ Len(d) \in Int
  BY <1>1
<1>4. /\ SubSeq(d, n + 1, Len(d)) \in Seq(S)
      /\ Len(SubSeq(d, n + 1, Len(d))) =
           IF n + 1 <= Len(d) THEN Len(d) - (n + 1) + 1 ELSE 0
  BY <1>2, <1>3, SubSeqProperties
<1> QED
  BY <1>1, <1>4

\* The NBD thread is done with a chunk.
LEMMA EndsRead ==
  ASSUME StoreConstants, Types, rc' = [rc EXCEPT !["nbd"] = NoRead]
  PROVE  rc'["nbd"] = NoRead /\ rc'["save"] = rc["save"] /\ rc' \in [Threads -> RcRecord]
<1>1. NoRead \in RcRecord
  <2>1. 0 \in Index
    BY DEF StoreConstants, Index
  <2> QED
    BY <2>1 DEF NoRead, RcRecord, Hash, Zero
<1>2. rc \in [Threads -> RcRecord] /\ Threads = {"nbd", "save"}
  BY DEF Types, RcRecord, Threads
<1> QED
  BY <1>1, <1>2

\* The saving thread reads a chunk of an image, and so in a sealed guest.
LEMMA ReadsSealed ==
  ASSUME StoreConstants, IndInv, rc["save"].at # "none"
  PROVE  save.sealed
<1>1. save.at = "base" /\ save.next * CHUNK_SIZE < Len(base) /\ save.next \in Nat
  BY DEF IndInv, Saving, Types
<1>2. PICK m \in Nat : m = save.next * CHUNK_SIZE
  BY <1>1 DEF StoreConstants
<1>3. base # <<>>
  <2>1. ~(m < 0) /\ Len(<<>>) = 0
    OBVIOUS
  <2> QED
    BY <1>1, <1>2, <2>1
<1> QED
  BY <1>1, <1>3 DEF IndInv, Saving

\* A write lands in the chunk it is at, and nowhere else.
LEMMA WriteStep ==
  ASSUME StoreConstants, IndInv, write
  PROVE  Implements
<1>1. /\ UNCHANGED <<store, index, parents, base, file, reply, save, left>> /\ Spends
      /\ cmd.kind = "write" /\ rc["nbd"].at = "done"
      /\ rc' = [rc EXCEPT !["nbd"] = NoRead]
  BY DEF write, Spends
<1>2. /\ cmd.at \in Nat /\ cmd.len \in Nat /\ cmd.data \in Seq(Bytes)
      /\ cmd.got = <<>> /\ cmd.got \in Seq(Bytes) /\ Len(cmd.data) \in Nat
  BY <1>1, CommandFields DEF IndInv, Serving
<1>3. /\ Wanted > 0 /\ rc["nbd"].chunk = Position \div CHUNK_SIZE
      /\ Position = cmd.at /\ Wanted = Len(cmd.data)
  BY <1>1 DEF IndInv, Serving, Position, Wanted
<1>4. /\ Position \in Nat /\ Wanted \in Nat /\ CHUNK_SIZE \in Nat \ {0}
      /\ Position \div CHUNK_SIZE \in Index
      /\ InChunk \in 0 .. CHUNK_SIZE - 1 /\ Piece \in 1 .. Wanted
      /\ InChunk + Piece <= CHUNK_SIZE
      /\ Position + Wanted <= Chunks * CHUNK_SIZE /\ Chunks * CHUNK_SIZE \in Nat
  BY <1>1, <1>3, PieceFits
<1>5. PICK c \in Index, old \in Contents, d \in Seq(Bytes), o \in Nat, n \in Nat, at \in Nat :
        /\ c = rc["nbd"].chunk /\ old = rc["nbd"].data /\ d = cmd.data /\ o = InChunk
        /\ n = Piece /\ at = cmd.at /\ n \in 1 .. Len(d)
  <2>1. rc["nbd"].data \in Contents
    BY <1>1 DEF IndInv, Reading, Threads
  <2>2. InChunk \in Nat /\ Piece \in Nat
    BY <1>4
  <2> QED
    BY <1>2, <1>3, <1>4, <2>1, <2>2
<1>6. PICK new : /\ dirty' = [dirty EXCEPT ![c] = new]
                 /\ new \in Contents
                 /\ \A k \in 1 .. CHUNK_SIZE :
                      Byte(new, k) = IF k - o \in 1 .. n THEN d[k - o] ELSE Byte(old, k)
  <2>1. PICK new : new = Overwrite(old, d, o, n)
    OBVIOUS
  <2>2. dirty' = [dirty EXCEPT ![c] = new]
    BY <1>5, <2>1 DEF write
  <2>3. o + n <= CHUNK_SIZE /\ n \in 1 .. Len(d)
    BY <1>4, <1>5
  <2>4. o + n <= CHUNK_SIZE
    BY <2>3
  <2>5. n \in 1 .. Len(d)
    BY <2>3
  <2>6. /\ Overwrite(old, d, o, n) \in Contents
        /\ \A k \in 1 .. CHUNK_SIZE :
             Byte(Overwrite(old, d, o, n), k) =
               IF k - o \in 1 .. n THEN d[k - o] ELSE Byte(old, k)
    BY <2>4, <2>5, Overwritten
  <2> QED
    BY <2>1, <2>2, <2>6, Zenon
<1>7. PICK rest : /\ rest = SubSeq(d, n + 1, Len(d)) /\ rest \in Seq(Bytes)
                  /\ Len(rest) = Len(d) - n
  BY <1>5, RestOf
<1>8. /\ cmd' = [kind |-> "write", at |-> at + n, len |-> cmd.len, data |-> rest, got |-> <<>>]
  BY <1>2, <1>5, <1>7 DEF write
<1>9. /\ cmd'.kind = "write" /\ cmd'.at = at + n /\ cmd'.len = cmd.len
      /\ cmd'.data = rest /\ cmd'.got = <<>>
      /\ cmd' \in [kind: {"none", "read", "write", "flush", "other"}, at: Nat, len: Nat,
                   data: Seq(Bytes), got: Seq(Bytes)]
  <2>1. at + n \in Nat
    BY <1>5
  <2> QED
    BY <1>2, <1>7, <1>8, <2>1
<1>10. rc'["nbd"] = NoRead /\ rc'["save"] = rc["save"] /\ rc' \in [Threads -> RcRecord]
  BY <1>1, EndsRead DEF IndInv
<1>11. dirty' \in [Index -> Hash] /\ dirty'[c] = new
       /\ \A i \in Index : i # c => dirty'[i] = dirty[i]
  BY <1>6 DEF IndInv, Types, Hash
<1>12. Types'
  BY <1>1, <1>9, <1>10, <1>11 DEF IndInv, Types, RcRecord
<1>13. Grows /\ Stored'
  <2>1. Grows
    BY <1>1 DEF Grows
  <2> QED
    BY <1>1, <2>1, PowerKept, StoredKept DEF IndInv
<1>14. Checkpoint' = Checkpoint
  BY <1>1, <1>13, CheckpointKept DEF IndInv
<1>15. ASSUME NEW i \in Index, NEW k \in 1 .. CHUNK_SIZE
       PROVE  Holding'[i][k] = IF i = c /\ k - o \in 1 .. n THEN d[k - o] ELSE Holding[i][k]
  <2>1. /\ Holding[i][k] = Value(index, parents, base, dirty, i, k)
        /\ Holding'[i][k] = Value(index', parents', base', dirty', i, k)
    <3>1. Holding[i][k] = Held(i, k) /\ Holding'[i][k] = Held(i, k)'
      BY DEF Holding
    <3>2. index' \in [Index -> Hash] /\ parents' \in Seq([Index -> Hash])
      BY <1>12 DEF Types
    <3> QED
      BY <1>13, <3>1, <3>2, HeldIsValue, HeldIsValuePrime DEF IndInv
  <2>2. CASE i # c
    <3>1. Value(index', parents', base', dirty', i, k) = Value(index, parents, base, dirty, i, k)
      <4>1. dirty'[i] = dirty[i]
        BY <1>11, <2>2
      <4> QED
        BY <1>1, <4>1, Zenon DEF Value
    <3> QED
      BY <2>1, <2>2, <3>1
  <2>3. CASE i = c
    <3>1. dirty'[i] = new /\ new # Zero
      BY <1>6, <1>11, <2>3, ContentIsSeq
    <3>2. Value(index', parents', base', dirty', i, k) = Byte(new, k)
      BY <3>1, Zenon DEF Value
    <3>3. Byte(old, k) = Holding[i][k]
      BY <1>1, <1>5, <2>3 DEF IndInv, Reading, Threads
    <3> QED
      BY <1>6, <2>1, <2>3, <3>2, <3>3
  <2> QED
    BY <2>2, <2>3
<1>16. DiskNow' = [a \in Addresses |-> IF a - at \in 1 .. n THEN d[a - at] ELSE DiskNow[a]]
  <2>1. ASSUME NEW a \in Addresses
        PROVE  DiskNow'[a] = IF a - at \in 1 .. n THEN d[a - at] ELSE DiskNow[a]
    <3>1. PICK i \in Index, k \in 1 .. CHUNK_SIZE : i = ChunkOf(a) /\ k = OffsetOf(a)
      BY AddressOf
    <3>2. /\ DiskNow'[a] = Holding'[i][k] /\ DiskNow[a] = Holding[i][k]
      BY <3>1, DiskIsHolding
    <3>3. /\ a - at \in 1 .. n => i = c
          /\ i = c => a - at = k - o
      BY <1>1, <1>3, <1>5, <3>1, PieceAddresses
    <3>4. CASE i = c
      <4>1. a - at = k - o
        BY <3>3, <3>4
      <4> QED
        BY <1>15, <3>2, <3>4, <4>1
    <3>5. CASE i # c
      BY <1>15, <3>2, <3>3, <3>5
    <3> QED
      BY <3>4, <3>5
  <2>2. DiskNow' = [a \in Addresses |-> DiskNow'[a]]
    BY DEF DiskNow
  <2> QED
    BY <2>1, <2>2, Zenon
<1>17. rc["save"].at = "none" /\ ~save.sealed
  BY <1>1, ReadsSealed DEF IndInv, Saving
<1>18. Reading("nbd")' /\ Reading("save")'
  BY <1>10, <1>17 DEF Reading, NoRead
<1>19. Serving'
  <2>1. Position' = at + n /\ Wanted' = Len(rest)
    BY <1>9 DEF Position, Wanted
  <2>2. Position' + Wanted' <= Chunks * CHUNK_SIZE /\ 0 <= Wanted'
    <3>1. PICK m \in Nat, l \in Nat : m = Chunks * CHUNK_SIZE /\ l = Len(d)
      BY <1>2, <1>4, <1>5
    <3>2. at + l <= m /\ n \in 1 .. l
      BY <1>3, <1>4, <1>5, <3>1
    <3>3. Len(rest) = l - n
      BY <1>7, <3>1
    <3>4. (at + n) + (l - n) <= m /\ 0 <= l - n
      BY <3>2
    <3> QED
      BY <2>1, <3>1, <3>3, <3>4
  <2>3. Len(cmd'.got) = 0
    BY <1>9
  <2> QED
    BY <1>9, <1>10, <2>2, <2>3 DEF Serving, NoRead
<1>20. Saving'
  BY <1>1, <1>10, <1>17 DEF IndInv, Saving
<1>21. D!Next
  <2>1. Command = [kind |-> "write", at |-> at, len |-> cmd.len, data |-> d]
    BY <1>1, <1>5 DEF Command
  <2>2. Command' = [kind |-> "write", at |-> at + n, len |-> cmd.len, data |-> rest]
    BY <1>9 DEF Command
  <2>4. Command.at = at /\ Command.data = d /\ Command.len = cmd.len /\ Command.kind = "write"
    BY <2>1
  <2>5. DOMAIN DiskNow = Addresses
    BY DEF DiskNow
  <2>6. D!Land
    <3>1. /\ n \in 1 .. Len(Command.data)
          /\ DiskNow' = [a \in DOMAIN DiskNow |->
                           IF a - Command.at \in 1 .. n THEN Command.data[a - Command.at]
                           ELSE DiskNow[a]]
      BY <1>5, <1>16, <2>4, <2>5
    <3>2. Command' = [kind |-> "write", at |-> Command.at + n, len |-> Command.len,
                      data |-> SubSeq(Command.data, n + 1, Len(Command.data))]
      BY <1>7, <2>2, <2>4
    <3>3. UNCHANGED <<reply, Checkpoint>>
      BY <1>1, <1>14
    <3> QED
      BY <2>4, <3>1, <3>2, <3>3 DEF D!Land
  <2> QED
    BY <2>6 DEF D!Next
<1> QED
  BY <1>12, <1>13, <1>18, <1>19, <1>20, <1>21 DEF IndInv, Implements, Threads

----------------------------------------------------------------------------
(* flush, and what ends a command or moves a save on. *)

\* A step that leaves the chunks alone is one of these.
LEMMA StillSettles ==
  ASSUME StoreConstants, IndInv, Still, Spends
  PROVE  Settles /\ Stored'
BY StillKeeps DEF Settles, Still

\* A read_chunk that a flush interleaves with keeps what it found.
LEMMA SettlesReading ==
  ASSUME IndInv, Settles, NEW t \in Threads, rc'[t] = rc[t]
  PROVE  Reading(t)'
<1>1. Types /\ Reading(t) /\ rc[t].chunk \in Index
  BY DEF IndInv, Types
<1>2. /\ Grows /\ Holding' = Holding /\ UNCHANGED <<parents, base>>
      /\ \A i \in Index : dirty[i] = Zero => dirty'[i] = Zero /\ index'[i] = index[i]
  BY DEF Settles
<1>3. rc[t].at \in {"index", "put", "set"} => dirty'[rc[t].chunk] = Zero
  BY <1>1, <1>2 DEF Reading
<1>4. rc[t].at \in {"put", "set"} => index'[rc[t].chunk] \in {Zero, rc[t].data}
  BY <1>1, <1>2 DEF Reading
<1> QED
  BY <1>1, <1>2, <1>3, <1>4, ReadingKept

\* The step of Disk that a step of the store is, by what it answers.
LEMMA SettlesDisk ==
  ASSUME StoreConstants, IndInv, Settles, Stored'
  PROVE  DiskNow' = DiskNow /\ Checkpoint' = Checkpoint
<1>1. Holding' = Holding /\ file' = file
  BY DEF Settles
<1> QED
  BY <1>1, DiskKept, CheckpointKept DEF IndInv

\* Every dirty chunk flush indexes is in the store first, and reads the same.
LEMMA FlushSettles ==
  ASSUME StoreConstants, IndInv, NEW done \in SUBSET Dirty, NEW part \in SUBSET Dirty,
         Flush(done, part), dirty' = dirty \/ (dirty' = NoDirty /\ done = Dirty),
         Spends, left.power => part = {}, UNCHANGED <<parents, base, file>>
  PROVE  /\ Settles /\ Stored'
         /\ store' \in [Contents -> {"absent", "seen", "durable"}]
         /\ index' \in [Index -> Hash] /\ dirty' \in [Index -> Hash]
<1>1. /\ store' = [c \in Contents |->
                      IF store[c] # "absent" THEN store[c]
                      ELSE IF \E i \in done : dirty[i] = c THEN "durable"
                      ELSE IF \E i \in part : dirty[i] = c THEN "seen" ELSE "absent"]
      /\ index' = [i \in Index |-> IF i \in done THEN dirty[i] ELSE index[i]]
      /\ done \subseteq Index /\ \A i \in done : dirty[i] # Zero
  BY DEF Flush, Dirty
<1>2. /\ store \in [Contents -> {"absent", "seen", "durable"}]
      /\ index \in [Index -> Hash] /\ dirty \in [Index -> Hash]
      /\ parents \in Seq([Index -> Hash]) /\ Types /\ Stored
  BY DEF IndInv, Types
<1>3. /\ store' \in [Contents -> {"absent", "seen", "durable"}]
      /\ index' \in [Index -> Hash] /\ dirty' \in [Index -> Hash]
  <2>1. NoDirty \in [Index -> Hash]
    BY DEF NoDirty, Hash
  <2>2. dirty' \in [Index -> Hash]
    BY <1>1, <1>2, <2>1
  <2>3. store' \in [Contents -> {"absent", "seen", "durable"}]
    BY <1>1, <1>2
  <2> QED
    BY <1>1, <1>2, <2>2, <2>3
<1>4. /\ Grows /\ (left.power => \A c \in Contents : store'[c] = "seen" => store[c] = "seen")
  <2>1. \A c \in Contents :
          store'[c] = IF store[c] # "absent" THEN store[c]
                      ELSE IF \E i \in done : dirty[i] = c THEN "durable"
                      ELSE IF \E i \in part : dirty[i] = c THEN "seen" ELSE "absent"
    BY <1>1
  <2>2. Grows
    BY <2>1 DEF Grows
  <2>3. part = {} => \A c \in Contents : store'[c] = "seen" => store[c] = "seen"
    BY <2>1
  <2> QED
    BY <2>2, <2>3
<1>5. \A i \in done : /\ i \in Index /\ dirty[i] \in Contents /\ index'[i] = dirty[i]
                      /\ store'[dirty[i]] # "absent"
  <2>1. \A i \in done : i \in Index /\ dirty[i] \in Contents
    BY <1>1, <1>2 DEF Hash
  <2> QED
    BY <1>1, <1>2, <2>1
<1>6. \A i \in Index : i \notin done => index'[i] = index[i] /\ dirty'[i] = dirty[i]
  <2>1. \A i \in Index : NoDirty[i] = Zero
    BY DEF NoDirty
  <2>2. \A i \in Index : i \notin done => index'[i] = index[i]
    BY <1>1
  <2>3. CASE dirty' = NoDirty /\ done = Dirty
    BY <2>1, <2>2, <2>3 DEF Dirty
  <2>4. CASE dirty' = dirty
    BY <2>2, <2>4
  <2> QED
    BY <2>3, <2>4
<1>7. Stored'
  <2>1. \A i \in Index : index'[i] = index[i] \/ store'[index'[i]] # "absent"
    BY <1>5, <1>6
  <2> QED
    BY <1>2, <1>4, <2>1, PowerKept, StoredKept
<1>8. ASSUME NEW i \in Index, NEW k \in 1 .. CHUNK_SIZE
      PROVE  Value(index', parents', base', dirty', i, k)
               = Value(index, parents, base, dirty, i, k)
  <2>1. CASE i \notin done
    <3>1. PICK own, other : own = index' /\ other = index
      OBVIOUS
    <3>2. own[i] = other[i] /\ dirty'[i] = dirty[i]
      BY <1>6, <2>1, <3>1
    <3>3. own[i] = other[i]
      BY <3>2
    <3>4. Resolves(own, parents, i) = Resolves(other, parents, i)
      BY <3>3, ResolvesSame
    <3>5. Resolves(index', parents', i) = Resolves(index, parents, i)
      BY <3>1, <3>4
    <3> QED
      BY <3>2, <3>5, Zenon DEF Value
  <2>2. CASE i \in done
    <3>1. PICK c \in Contents : c = dirty[i] /\ index'[i] = c
      BY <1>5, <2>2
    <3>2. c # Zero
      BY ContentIsSeq
    <3>3. dirty'[i] \in {c, Zero}
      <4>1. NoDirty[i] = Zero
        BY DEF NoDirty
      <4> QED
        BY <1>1, <3>1, <4>1
    <3>4. Resolves(index', parents', i) = c
      <4>1. PICK own : own = index' /\ own[i] = c
        BY <3>1
      <4> QED
        BY <1>2, <3>2, <4>1, ResolvesTo
    <3>5. Value(index, parents, base, dirty, i, k) = Byte(c, k)
      BY <3>1, <3>2, Zenon DEF Value
    <3>6. Value(index', parents', base', dirty', i, k)
            = IF dirty'[i] # Zero THEN Byte(dirty'[i], k) ELSE Byte(c, k)
      BY <3>2, <3>4, Zenon DEF Value
    <3> QED
      BY <3>3, <3>5, <3>6
  <2> QED
    BY <2>1, <2>2
<1>9. Holding' = Holding
  BY <1>2, <1>3, <1>7, <1>8, SameValuesOf
<1>10. \A i \in Index : dirty[i] = Zero => dirty'[i] = Zero /\ index'[i] = index[i]
  BY <1>1, <1>6
<1>11. dirty = NoDirty => dirty' = NoDirty
  OBVIOUS
<1> QED
  BY <1>3, <1>4, <1>7, <1>9, <1>10, <1>11 DEF Settles

\* flush, whether or not a put of it fails.
LEMMA FlushStep ==
  ASSUME StoreConstants, IndInv, Flushes \/ FlushFails, UNCHANGED <<parents, base, file>>
  PROVE  /\ Settles /\ Stored' /\ Spends
         /\ store' \in [Contents -> {"absent", "seen", "durable"}]
         /\ index' \in [Index -> Hash] /\ dirty' \in [Index -> Hash]
<1>1. CASE Flushes
  <2>1. Flush(Dirty, {}) /\ dirty' = NoDirty /\ Spends
    BY <1>1 DEF Flushes, Spends
  <2>2. PICK done \in SUBSET Dirty, part \in SUBSET Dirty : done = Dirty /\ part = {}
    OBVIOUS
  <2>3. Flush(done, part)
    BY <2>1, <2>2
  <2> QED
    BY <2>1, <2>2, <2>3, FlushSettles
<1>2. CASE FlushFails
  <2>1. dirty' = dirty
    BY <1>2 DEF FlushFails
  <2>2. PICK done \in SUBSET Dirty :
          \/ Flush(done, {}) /\ Fault
          \/ /\ left.cuts > 0 /\ left' = [left EXCEPT !.cuts = @ - 1]
             /\ \E i \in Dirty \ done : Flush(done, {i})
    BY <1>2, Zenon DEF FlushFails
  <2>3. Spends
    BY <2>2 DEF Spends, Fault
  <2>4. PICK part \in SUBSET Dirty : Flush(done, part) /\ (part = {} \/ left.cuts > 0)
    <3>1. CASE Flush(done, {})
      <4>1. PICK part \in SUBSET Dirty : part = {}
        OBVIOUS
      <4> QED
        BY <3>1, <4>1
    <3>2. CASE left.cuts > 0 /\ \E i \in Dirty \ done : Flush(done, {i})
      <4>1. PICK i \in Dirty : Flush(done, {i})
        BY <3>2
      <4>2. PICK part \in SUBSET Dirty : part = {i}
        OBVIOUS
      <4> QED
        BY <3>2, <4>1, <4>2
    <3> QED
      BY <2>2, <3>1, <3>2
  <2>5. left.power => part = {}
    BY <2>4 DEF IndInv, Stored
  <2> QED
    BY <2>1, <2>3, <2>4, <2>5, FlushSettles
<1> QED
  BY <1>1, <1>2

CmdRecord == [kind: {"none", "read", "write", "flush", "other"}, at: Nat, len: Nat,
              data: Seq(Bytes), got: Seq(Bytes)]
SaveRecord == [at: {"none", "flush", "collect", "base"}, next: Nat,
               hashes: [Index -> Hash] \union {<<>>}, sealed: BOOLEAN]

\* What a command that is answered leaves.
LEMMA EndsCommand ==
  ASSUME StoreConstants, IndInv, Settles, Stored', Spends, save' = save, cmd' = NoCmd,
         rc' = [rc EXCEPT !["nbd"] = NoRead],
         store' \in [Contents -> {"absent", "seen", "durable"}],
         index' \in [Index -> Hash], dirty' \in [Index -> Hash]
  PROVE  IndInv'
<1>1. rc'["nbd"] = NoRead /\ rc'["save"] = rc["save"] /\ rc' \in [Threads -> RcRecord]
  BY EndsRead DEF IndInv
<1>2. NoCmd \in CmdRecord
  BY EmptySeq DEF NoCmd, CmdRecord
<1>3. UNCHANGED <<parents, base, file>> /\ Grows /\ Holding' = Holding
      /\ (dirty = NoDirty => dirty' = NoDirty)
  BY DEF Settles
<1>4. Types'
  <2>1. left' \in Budget
    BY SpendsKeeps DEF IndInv
  <2> QED
    BY <1>1, <1>2, <1>3, <2>1 DEF IndInv, Types, RcRecord, Budget, CmdRecord
<1>5. Reading("nbd")' /\ Reading("save")'
  <2>1. Reading("nbd")'
    BY <1>1 DEF Reading, NoRead
  <2>2. Reading("save")'
    BY <1>1, SettlesReading DEF Threads
  <2> QED
    BY <2>1, <2>2
<1>6. Serving'
  <2>1. Len(cmd'.got) = 0 /\ cmd'.kind = "none" /\ cmd'.got = <<>>
    BY DEF NoCmd
  <2> QED
    BY <1>1, <2>1 DEF Serving, NoRead
<1>7. Saving'
  <2>1. cmd'.kind # "write"
    BY DEF NoCmd
  <2>2. save.sealed /\ save.at \in {"collect", "base"} => dirty' = NoDirty
    BY <1>3 DEF IndInv, Saving
  <2> QED
    BY <1>1, <1>3, <2>1, <2>2, SavingKept DEF IndInv
<1> QED
  BY <1>4, <1>5, <1>6, <1>7 DEF IndInv, Threads

\* The answer is the one Disk gives, or an error.
LEMMA SendReplyStep ==
  ASSUME StoreConstants, IndInv, send_reply
  PROVE  Implements
<1>1. /\ cmd' = NoCmd /\ rc' = [rc EXCEPT !["nbd"] = NoRead]
      /\ UNCHANGED <<parents, base, file, save>>
  BY DEF send_reply
<1>2. /\ store \in [Contents -> {"absent", "seen", "durable"}]
      /\ index \in [Index -> Hash] /\ dirty \in [Index -> Hash]
  BY DEF IndInv, Types
<1>3. Command' = D!Idle
  BY <1>1 DEF Command, D!Idle, NoCmd
<1>4. /\ cmd.at \in Nat /\ cmd.len \in Nat /\ cmd.data \in Seq(Bytes)
      /\ cmd.got \in Seq(Bytes) /\ Len(cmd.data) \in Nat /\ Len(cmd.got) \in Nat
  BY CommandFields
<1>5. /\ Command.kind = cmd.kind /\ Command.at = cmd.at /\ Command.len = cmd.len
      /\ Command.data = cmd.data
  BY DEF Command
<1>6. CASE /\ cmd.kind \in {"read", "write"} /\ Wanted = 0
           /\ reply' = [status |-> "ok", data |-> IF cmd.kind = "read" THEN cmd.got ELSE <<>>]
           /\ UNCHANGED <<store, index, dirty, left>>
  <2>1. Still /\ Spends
    BY <1>1, <1>6 DEF Still, Spends
  <2>2. Settles /\ Stored'
    BY <2>1, StillSettles
  <2>3. IndInv'
    BY <1>1, <1>2, <1>6, <2>1, <2>2, EndsCommand
  <2>4. DiskNow' = DiskNow /\ Checkpoint' = Checkpoint
    BY <2>2, SettlesDisk
  <2>5. CASE cmd.kind = "read"
    <3>1. Len(cmd.got) = cmd.len
      BY <1>4, <1>6, <2>5 DEF Wanted
    <3>2. cmd.got = [j \in 1 .. cmd.len |-> DiskNow[cmd.at + j]]
      <4>1. cmd.got = [j \in 1 .. cmd.len |-> cmd.got[j]]
        BY <1>4, <3>1, LenProperties
      <4>2. \A j \in 1 .. cmd.len : cmd.got[j] = DiskNow[cmd.at + j]
        BY <3>1 DEF IndInv, Serving
      <4> QED
        BY <4>1, <4>2, Zenon
    <3>3. reply' = D!Done(D!Slice(Command.at, Command.len))
      BY <1>5, <1>6, <2>5, <3>2 DEF D!Done, D!Slice
    <3> QED
      BY <1>3, <1>5, <2>3, <2>4, <2>5, <3>3 DEF Implements, D!Next, D!Answer
  <2>6. CASE cmd.kind = "write"
    <3>1. cmd.data = <<>>
      <4>1. Len(cmd.data) = 0
        BY <1>6, <2>6 DEF Wanted
      <4> QED
        BY <1>4, <4>1, EmptySeq
    <3>2. reply' = D!Done(<<>>)
      BY <1>6, <2>6 DEF D!Done
    <3> QED
      BY <1>3, <1>5, <2>3, <2>4, <2>6, <3>1, <3>2 DEF Implements, D!Next, D!Answer
  <2> QED
    BY <1>6, <2>5, <2>6
<1>7. CASE /\ rc["nbd"].at = "failed" \/ cmd.kind = "other"
           /\ reply' = Refused /\ UNCHANGED <<store, index, dirty, left>>
  <2>1. Still /\ Spends
    BY <1>1, <1>7 DEF Still, Spends
  <2>2. Settles /\ Stored'
    BY <2>1, StillSettles
  <2>3. IndInv'
    BY <1>1, <1>2, <1>7, <2>1, <2>2, EndsCommand
  <2>4. DiskNow' = DiskNow /\ Checkpoint' = Checkpoint
    BY <2>2, SettlesDisk
  <2>5. Command.kind # "none"
    BY <1>5, <1>7 DEF IndInv, Serving
  <2> QED
    BY <1>3, <1>7, <2>3, <2>4, <2>5 DEF Implements, D!Next, D!Fail, Refused
<1>8. CASE cmd.kind = "flush" /\ (Flushes \/ FlushFails) /\ reply' \in {NoReply, Refused}
  <2>1. /\ Settles /\ Stored' /\ Spends
        /\ store' \in [Contents -> {"absent", "seen", "durable"}]
        /\ index' \in [Index -> Hash] /\ dirty' \in [Index -> Hash]
    BY <1>1, <1>8, FlushStep
  <2>2. IndInv'
    BY <1>1, <2>1, EndsCommand
  <2>3. DiskNow' = DiskNow /\ Checkpoint' = Checkpoint
    BY <2>1, SettlesDisk
  <2>4. CASE reply' = NoReply
    <3>1. reply' = D!Done(<<>>)
      BY <2>4 DEF D!Done, NoReply
    <3> QED
      BY <1>3, <1>5, <1>8, <2>2, <2>3, <3>1 DEF Implements, D!Next, D!Answer
  <2>5. CASE reply' = Refused
    BY <1>3, <1>5, <1>8, <2>2, <2>3, <2>5 DEF Implements, D!Next, D!Fail, Refused
  <2> QED
    BY <1>8, <2>4, <2>5
<1> QED
  BY <1>6, <1>7, <1>8, Zenon DEF send_reply

----------------------------------------------------------------------------
(* save_index and drop. *)

\* A step of the saving thread that leaves the commands alone.
LEMMA SaverMoves ==
  ASSUME StoreConstants, IndInv, Settles, Stored', Spends,
         UNCHANGED <<reply, cmd, rc>>, save' \in SaveRecord, Saving',
         store' \in [Contents -> {"absent", "seen", "durable"}],
         index' \in [Index -> Hash], dirty' \in [Index -> Hash]
  PROVE  Implements
<1>1. UNCHANGED <<parents, base, file>> /\ Holding' = Holding
  BY DEF Settles
<1>2. Types'
  <2>1. left' \in Budget
    BY SpendsKeeps DEF IndInv
  <2> QED
    BY <1>1, <2>1 DEF IndInv, Types, Budget, SaveRecord
<1>3. \A t \in Threads : Reading(t)'
  BY SettlesReading
<1>4. Serving'
  BY <1>1, ServingKept DEF IndInv
<1>5. [D!Next]_(D!vars)
  <2>1. DiskNow' = DiskNow /\ Checkpoint' = Checkpoint
    BY SettlesDisk
  <2>2. Command' = Command
    BY DEF Command
  <2> QED
    BY <2>1, <2>2, DiskStutters
<1> QED
  BY <1>2, <1>3, <1>4, <1>5 DEF IndInv, Implements

\* save_index flushes, and collects the hashes of the chain.
LEMMA SaveIndexStep ==
  ASSUME StoreConstants, IndInv, save_index
  PROVE  Implements
<1>1. UNCHANGED <<parents, base, file, reply, cmd, rc>>
  BY DEF save_index
<1>2. /\ store \in [Contents -> {"absent", "seen", "durable"}]
      /\ index \in [Index -> Hash] /\ dirty \in [Index -> Hash]
      /\ parents \in Seq([Index -> Hash]) /\ base \in Seq(Bytes) /\ save \in SaveRecord
  BY DEF IndInv, Types, SaveRecord
<1>3. CASE /\ save.at = "none" /\ left.saves > 0 /\ cmd.kind # "write"
           /\ save' = [at |-> "flush", next |-> 0, hashes |-> <<>>, sealed |-> TRUE]
           /\ left' = [left EXCEPT !.saves = @ - 1] /\ UNCHANGED <<store, index, dirty>>
  <2>1. Still /\ Spends
    BY <1>1, <1>3 DEF Still, Spends
  <2>2. Settles /\ Stored'
    BY <2>1, StillSettles
  <2>3. save' \in SaveRecord /\ save'.at = "flush" /\ save'.sealed = TRUE
    BY <1>3 DEF SaveRecord
  <2>4. Saving'
    BY <1>1, <1>3, <2>3 DEF IndInv, Saving
  <2> QED
    BY <1>1, <1>2, <1>3, <2>1, <2>2, <2>3, <2>4, SaverMoves
<1>4. CASE save.at = "flush" /\ Flushes /\ save' = [save EXCEPT !.at = "collect"]
  <2>1. /\ Settles /\ Stored' /\ Spends /\ dirty' = NoDirty
        /\ store' \in [Contents -> {"absent", "seen", "durable"}]
        /\ index' \in [Index -> Hash] /\ dirty' \in [Index -> Hash]
    BY <1>1, <1>4, FlushStep DEF Flushes
  <2>2. save' \in SaveRecord /\ save'.at = "collect" /\ save'.sealed = save.sealed
    BY <1>2, <1>4 DEF SaveRecord
  <2>3. Saving'
    BY <1>1, <1>4, <2>1, <2>2 DEF IndInv, Saving
  <2> QED
    BY <1>1, <2>1, <2>2, <2>3, SaverMoves
<1>5. CASE save.at = "flush" /\ FlushFails /\ SaveFails
  <2>1. /\ Settles /\ Stored' /\ Spends
        /\ store' \in [Contents -> {"absent", "seen", "durable"}]
        /\ index' \in [Index -> Hash] /\ dirty' \in [Index -> Hash]
    BY <1>1, <1>5, FlushStep
  <2>2. save' \in SaveRecord /\ save'.at = "none" /\ save' = NoSave /\ ~save'.sealed
    BY <1>5 DEF SaveRecord, SaveFails, NoSave
  <2>3. Saving'
    BY <1>1, <1>5, <2>2 DEF IndInv, Saving
  <2> QED
    BY <1>1, <2>1, <2>2, <2>3, SaverMoves
<1>6. CASE /\ save.at = "collect"
           /\ save' = [at |-> "base", next |-> 0, hashes |-> Collected, sealed |-> save.sealed]
           /\ UNCHANGED <<store, index, dirty, left>>
  <2>1. Still /\ Spends
    BY <1>1, <1>6 DEF Still, Spends
  <2>2. Settles /\ Stored'
    BY <2>1, StillSettles
  <2>3. \A i \in Index : /\ Resolves(index, parents, i) \in Hash
                         /\ Resolves(index, parents, i) # Zero =>
                              store[Resolves(index, parents, i)] # "absent"
    BY <1>2, ResolvesStored, ZenonT(30) DEF IndInv, Stored
  <2>4. /\ Collected \in [Index -> Hash]
        /\ \A i \in Index : Collected[i] = Resolves(index, parents, i)
    BY <2>3 DEF Collected
  <2>5. save.sealed => \A i \in Index : dirty[i] = Zero
    BY <1>6 DEF IndInv, Saving, NoDirty
  <2>6. Holding' = Holding
    BY <2>2 DEF Settles
  <2>7. ASSUME NEW i \in Index, Collected[i] # Zero
        PROVE  /\ store'[Collected[i]] # "absent"
               /\ save.sealed =>
                    \A k \in 1 .. CHUNK_SIZE : Byte(Collected[i], k) = Holding'[i][k]
    BY <1>6, <2>3, <2>4, <2>5, <2>6, <2>7, HoldingCases DEF IndInv
  <2>8. ASSUME save.sealed, NEW i \in Index, Collected[i] = Zero,
               Len(base) <= i * CHUNK_SIZE, NEW k \in 1 .. CHUNK_SIZE
        PROVE  Holding'[i][k] = 0
    <3>1. Holding[i][k] = Based(base, i, k)
      BY <2>4, <2>5, <2>8, HoldingCases DEF IndInv
    <3>2. ~(i * CHUNK_SIZE < Len(base))
      <4>1. PICK m \in Nat, l \in Nat : m = i * CHUNK_SIZE /\ l = Len(base)
        <5>1. i \in Nat /\ CHUNK_SIZE \in Nat /\ Len(base) \in Nat
          BY <1>2, LenProperties DEF Index, StoreConstants
        <5> QED
          BY <5>1, SMTT(30)
      <4> QED
        BY <2>8, <4>1
    <3> QED
      BY <1>2, <2>6, <3>1, <3>2, BasedBeyond
  <2>9. /\ save'.at = "base" /\ save'.next = 0 /\ save'.hashes = Collected
        /\ save'.sealed = save.sealed /\ save' \in SaveRecord
    <3>1. PICK b \in BOOLEAN, x \in [Index -> Hash] \union {<<>>} :
            b = save.sealed /\ x = Collected
      BY <1>2, <2>4 DEF SaveRecord
    <3>2. save' = [at |-> "base", next |-> 0, hashes |-> x, sealed |-> b]
      BY <1>6, <3>1
    <3> QED
      BY <3>1, <3>2 DEF SaveRecord
  <2>10. Saving'
    <3>1. /\ rc["save"] = NoRead /\ rc["save"].at = "none"
          /\ save.sealed => cmd.kind # "write" /\ dirty = NoDirty
          /\ ~save.sealed => base = <<>>
      BY <1>6 DEF IndInv, Saving
    <3>2. 0 <= Chunks /\ \A i \in Index : ~(i < 0)
      BY DEF StoreConstants, Index
    <3> QED
      BY <1>1, <1>6, <2>4, <2>7, <2>8, <2>9, <3>1, <3>2 DEF Saving
  <2> QED
    BY <1>1, <1>2, <1>6, <2>1, <2>2, <2>9, <2>10, SaverMoves
<1> QED
  BY <1>3, <1>4, <1>5, <1>6, Zenon DEF save_index

\* drop flushes, and stops the thread.
LEMMA DropStep ==
  ASSUME StoreConstants, IndInv, drop
  PROVE  Implements
<1>1. UNCHANGED <<parents, base, file, reply, cmd, rc, save>>
  BY DEF drop
<1>2. /\ store \in [Contents -> {"absent", "seen", "durable"}]
      /\ index \in [Index -> Hash] /\ dirty \in [Index -> Hash] /\ save \in SaveRecord
  BY DEF IndInv, Types, SaveRecord
<1>3. UNCHANGED <<store, index, dirty, left>> \/ Flushes \/ FlushFails
  BY Zenon DEF drop
<1>5. /\ Settles /\ Stored' /\ Spends /\ store' \in [Contents -> {"absent", "seen", "durable"}]
      /\ index' \in [Index -> Hash] /\ dirty' \in [Index -> Hash]
  <2>1. CASE UNCHANGED <<store, index, dirty, left>>
    <3>1. Still /\ Spends
      BY <1>1, <2>1 DEF Still, Spends
    <3> QED
      BY <1>2, <2>1, <3>1, StillSettles
  <2>2. CASE Flushes \/ FlushFails
    BY <1>1, <2>2, FlushStep
  <2> QED
    BY <1>3, <2>1, <2>2
<1>6. Saving'
  <2>1. /\ Grows /\ base' = base /\ Holding' = Holding /\ (dirty = NoDirty => dirty' = NoDirty)
    BY <1>5 DEF Settles
  <2>2. save.sealed => cmd'.kind # "write"
    BY <1>1 DEF IndInv, Saving
  <2>3. save.sealed /\ save.at \in {"collect", "base"} => dirty' = NoDirty
    BY <2>1 DEF IndInv, Saving
  <2> QED
    BY <1>1, <2>1, <2>2, <2>3, SavingKept DEF IndInv
<1> QED
  BY <1>1, <1>2, <1>5, <1>6, SaverMoves

\* The lease ends: no image is under the disk then.
LEMMA LeaseEndsStep ==
  ASSUME StoreConstants, IndInv, LeaseEnds
  PROVE  Implements
<1>1. /\ Still /\ UNCHANGED <<cmd, reply, rc>> /\ save.sealed /\ left.lapses > 0 /\ Spends
      /\ save' = [save EXCEPT !.sealed = FALSE]
  BY DEF LeaseEnds, Still, Spends
<1>2. Settles /\ Stored'
  BY <1>1, StillSettles
<1>3. base = <<>> /\ base' = base
  BY <1>1 DEF IndInv, Stored, Still
<1>4. save \in SaveRecord
  BY DEF IndInv, Types, SaveRecord
<1>5. /\ save' \in SaveRecord /\ ~save'.sealed /\ save'.at = save.at
      /\ save'.next = save.next /\ save'.hashes = save.hashes
  BY <1>1, <1>4 DEF SaveRecord
<1>6. save.at # "none"
  BY <1>1 DEF IndInv, Saving, NoSave
<1>7. Saving'
  BY <1>1, <1>3, <1>5, <1>6 DEF IndInv, Saving, Still
<1>8. /\ store' \in [Contents -> {"absent", "seen", "durable"}]
      /\ index' \in [Index -> Hash] /\ dirty' \in [Index -> Hash]
  BY <1>1 DEF IndInv, Types, Still
<1> QED
  BY <1>1, <1>2, <1>5, <1>7, <1>8, SaverMoves

\* Another process puts a chunk, and syncs its directory.
LEMMA OtherPutsStep ==
  ASSUME StoreConstants, IndInv, OtherPuts
  PROVE  Implements
<1>1. UNCHANGED <<index, parents, base, dirty, file, cmd, reply, rc, save>>
  BY DEF OtherPuts
<1>2. /\ store \in [Contents -> {"absent", "seen", "durable"}]
      /\ index \in [Index -> Hash] /\ dirty \in [Index -> Hash] /\ save \in SaveRecord
  BY DEF IndInv, Types, SaveRecord
<1>3. PICK c \in Contents :
        \/ /\ left.others > 0 /\ left' = [left EXCEPT !.others = @ - 1]
           /\ store' = [store EXCEPT ![c] = "seen"]
        \/ store[c] = "seen" /\ store' = [store EXCEPT ![c] = "durable"] /\ UNCHANGED left
  BY DEF OtherPuts
<1>4. Spends
  BY <1>3 DEF Spends
<1>5. /\ Grows /\ store' \in [Contents -> {"absent", "seen", "durable"}]
  BY <1>2, <1>3 DEF Grows
<1>6. ASSUME left.power, NEW d \in Contents, store'[d] = "seen" PROVE store[d] = "seen"
  <2>1. ~(left.others > 0)
    BY <1>6 DEF IndInv, Stored
  <2> QED
    BY <1>2, <1>3, <1>6, <2>1
<1>7. Settles /\ Stored'
  BY <1>1, <1>4, <1>5, <1>6, StoreGrows
<1>8. Saving'
  <2>1. Holding' = Holding
    BY <1>7 DEF Settles
  <2> QED
    BY <1>1, <1>5, <2>1, SavingKept DEF IndInv, Saving
<1> QED
  BY <1>1, <1>2, <1>4, <1>5, <1>7, <1>8, SaverMoves

\* A step of the saving thread with its read of a chunk.
LEMMA SaverReads ==
  ASSUME StoreConstants, IndInv, Settles, Stored', Spends, UNCHANGED <<index, dirty, reply, cmd>>,
         NEW r \in RcRecord, rc' = [rc EXCEPT !["save"] = r], r.at \in {"none", "dirty"},
         save' \in SaveRecord, Saving',
         store' \in [Contents -> {"absent", "seen", "durable"}]
  PROVE  Implements
<1>1. UNCHANGED <<parents, base, file>> /\ Holding' = Holding
  BY DEF Settles
<1>2. rc' \in [Threads -> RcRecord] /\ rc'["save"] = r /\ rc'["nbd"] = rc["nbd"]
  <2>1. rc \in [Threads -> RcRecord] /\ Threads = {"nbd", "save"}
    BY DEF IndInv, Types, RcRecord, Threads
  <2> QED
    BY <2>1
<1>3. Types'
  <2>1. left' \in Budget
    BY SpendsKeeps DEF IndInv
  <2> QED
    BY <1>1, <1>2, <2>1 DEF IndInv, Types, Budget, SaveRecord, RcRecord
<1>4. Reading("nbd")' /\ Reading("save")'
  <2>1. Reading("nbd")'
    BY <1>2, SettlesReading DEF Threads
  <2>2. Reading("save")'
    BY <1>2 DEF Reading
  <2> QED
    BY <2>1, <2>2
<1>5. Serving'
  BY <1>1, <1>2, ServingKept DEF IndInv
<1>6. [D!Next]_(D!vars)
  <2>1. DiskNow' = DiskNow /\ Checkpoint' = Checkpoint
    BY SettlesDisk
  <2>2. Command' = Command
    BY DEF Command
  <2> QED
    BY <2>1, <2>2, DiskStutters
<1> QED
  BY <1>3, <1>4, <1>5, <1>6 DEF IndInv, Implements, Threads

\* The saving thread passes a chunk that an index has or the image does not.
LEMMA SavePassesStep ==
  ASSUME StoreConstants, IndInv, save.at = "base", save.next < Chunks,
         ~(save.hashes[save.next] = Zero /\ save.next * CHUNK_SIZE < Len(base)),
         save' = [save EXCEPT !.next = @ + 1], Still, UNCHANGED <<cmd, reply, rc, left>>
  PROVE  Implements
<1>1. Spends /\ UNCHANGED <<store, index, parents, base, dirty, file>>
  BY DEF Spends, Still
<1>2. Settles /\ Stored'
  BY <1>1, StillSettles
<1>3. PICK n \in Nat : n = save.next
  BY DEF IndInv, Types
<1>4. /\ save'.at = "base" /\ save'.next = n + 1 /\ save'.hashes = save.hashes
      /\ save'.sealed = save.sealed /\ save' \in SaveRecord
  <2>1. save \in SaveRecord
    BY DEF IndInv, Types, SaveRecord
  <2> QED
    BY <1>3, <2>1 DEF SaveRecord
<1>5. /\ Chunks \in Nat /\ CHUNK_SIZE \in Nat /\ Len(base) \in Nat /\ n < Chunks
      /\ n * CHUNK_SIZE \in Nat
  BY <1>3, LenProperties, SMTT(30) DEF IndInv, Types, StoreConstants
<1>6. Holding' = Holding
  BY <1>2 DEF Settles
<1>7. rc["save"].at = "none"
  BY DEF IndInv, Saving
<1>8. ASSUME save.sealed, NEW i \in Index, save.hashes[i] = Zero,
             i < n + 1 \/ Len(base) <= i * CHUNK_SIZE, NEW k \in 1 .. CHUNK_SIZE
      PROVE  Holding[i][k] = 0
  <2>1. i \in Nat
    BY DEF Index, StoreConstants
  <2>2. CASE i = n
    <3>1. ~(n * CHUNK_SIZE < Len(base))
      BY <1>3, <1>8, <2>2
    <3>2. Len(base) <= i * CHUNK_SIZE
      BY <1>5, <2>2, <3>1
    <3> QED
      BY <1>8, <3>2 DEF IndInv, Saving
  <2>3. CASE i # n
    <3>1. i < n \/ Len(base) <= i * CHUNK_SIZE
      BY <1>8, <2>1, <2>3
    <3> QED
      BY <1>3, <1>8, <3>1 DEF IndInv, Saving
  <2> QED
    BY <2>2, <2>3
<1>9. Saving'
  <2>1. n + 1 <= Chunks
    BY <1>5
  <2> QED
    BY <1>1, <1>4, <1>6, <1>7, <1>8, <2>1 DEF IndInv, Saving
<1>10. /\ store' \in [Contents -> {"absent", "seen", "durable"}]
       /\ index' \in [Index -> Hash] /\ dirty' \in [Index -> Hash]
  BY <1>1 DEF IndInv, Types
<1> QED
  BY <1>1, <1>2, <1>4, <1>9, <1>10, SaverMoves

\* It begins to read a chunk of the image.
LEMMA SaveBeginsStep ==
  ASSUME StoreConstants, IndInv, save.at = "base", save.next < Chunks,
         save.hashes[save.next] = Zero, save.next * CHUNK_SIZE < Len(base),
         rc' = [rc EXCEPT !["save"] = Begins(save.next)], Still,
         UNCHANGED <<cmd, reply, save, left>>
  PROVE  Implements
<1>1. Spends /\ UNCHANGED <<store, index, parents, base, dirty, file>>
  BY DEF Spends, Still
<1>2. Settles /\ Stored' /\ Holding' = Holding
  BY <1>1, StillSettles DEF Settles
<1>3. PICK n \in Index : n = save.next
  <2>1. save.next \in Nat /\ Chunks \in Nat
    BY DEF IndInv, Types, StoreConstants
  <2> QED
    BY <2>1 DEF Index
<1>4. PICK r : r = [at |-> "dirty", chunk |-> n, data |-> <<>>] /\ rc' = [rc EXCEPT !["save"] = r]
  BY <1>3 DEF Begins
<1>5. r \in RcRecord /\ r.at = "dirty" /\ r.chunk = n
  BY <1>4 DEF RcRecord, Hash, Zero
<1>6. rc'["save"] = r
  BY <1>4 DEF IndInv, Types, Threads
<1>7. Saving'
  BY <1>1, <1>2, <1>3, <1>5, <1>6 DEF IndInv, Saving
<1>8. store' \in [Contents -> {"absent", "seen", "durable"}] /\ save' \in SaveRecord
  BY <1>1 DEF IndInv, Types, SaveRecord
<1> QED
  BY <1>1, <1>2, <1>4, <1>5, <1>7, <1>8, SaverReads

\* A thread that reads nothing.
LEMMA NoReadType ==
  ASSUME StoreConstants
  PROVE  NoRead \in RcRecord /\ NoRead.at = "none"
<1>1. 0 \in Index
  BY DEF StoreConstants, Index
<1> QED
  BY <1>1 DEF NoRead, RcRecord, Hash, Zero

\* It puts the chunk it has read, and has its hash.
LEMMA SavePutsStep ==
  ASSUME StoreConstants, IndInv, save.at = "base", rc["save"].at = "done",
         NEW d, d = rc["save"].data,
         store' = IF AllZero(d) THEN store ELSE Put(store, d),
         save' = [at |-> "base", next |-> save.next + 1,
                  hashes |-> [save.hashes EXCEPT ![save.next] = IF AllZero(d) THEN Zero ELSE d],
                  sealed |-> save.sealed],
         rc' = [rc EXCEPT !["save"] = NoRead],
         UNCHANGED <<index, parents, base, dirty, file, cmd, reply, left>>
  PROVE  Implements
<1>1. Spends /\ save.sealed = TRUE
  <2>1. save.sealed /\ save.sealed \in BOOLEAN
    BY ReadsSealed DEF IndInv, Types
  <2> QED
    BY <2>1 DEF Spends
<1>2. PICK n \in Nat : n = save.next
  BY DEF IndInv, Types
<1>3. /\ rc["save"].chunk = n /\ n < Chunks /\ n \in Index
  <2>1. rc["save"].chunk = n /\ n < Chunks
    BY <1>2 DEF IndInv, Saving
  <2> QED
    BY <2>1 DEF Index, StoreConstants
<1>4. d \in Contents /\ \A k \in 1 .. CHUNK_SIZE : Byte(d, k) = Holding[n][k]
  BY <1>3 DEF IndInv, Reading, Threads
<1>5. /\ Grows /\ store' \in [Contents -> {"absent", "seen", "durable"}]
      /\ \A c \in Contents : store'[c] = "seen" => store[c] = "seen"
      /\ ~AllZero(d) => store'[d] # "absent"
  <2>1. CASE AllZero(d)
    BY <2>1 DEF IndInv, Types, Grows
  <2>2. CASE ~AllZero(d)
    BY <1>4, <2>2, PutAdds DEF IndInv, Grows
  <2> QED
    BY <2>1, <2>2
<1>6. Settles /\ Stored' /\ Holding' = Holding
  BY <1>1, <1>5, StoreGrows DEF Settles
<1>7. PICK h \in Hash : /\ h = IF AllZero(d) THEN Zero ELSE d
                        /\ save' = [at |-> "base", next |-> n + 1,
                                    hashes |-> [save.hashes EXCEPT ![n] = h],
                                    sealed |-> TRUE]
  <2>1. (IF AllZero(d) THEN Zero ELSE d) \in Hash
    BY <1>4 DEF Hash
  <2> QED
    BY <1>1, <1>2, <2>1
<1>8. /\ save.hashes \in [Index -> Hash]
      /\ \A i \in Index :
            /\ save.hashes[i] # Zero =>
                 /\ store[save.hashes[i]] # "absent"
                 /\ \A k \in 1 .. CHUNK_SIZE : Byte(save.hashes[i], k) = Holding[i][k]
            /\ save.hashes[i] = Zero
                 /\ (i < n \/ Len(base) <= i * CHUNK_SIZE) =>
                 \A k \in 1 .. CHUNK_SIZE : Holding[i][k] = 0
  BY <1>1, <1>2 DEF IndInv, Saving
<1>9. PICK hs \in [Index -> Hash] :
        /\ save'.hashes = hs /\ hs[n] = h /\ \A i \in Index : i # n => hs[i] = save.hashes[i]
  BY <1>3, <1>7, <1>8
<1>10. /\ save'.at = "base" /\ save'.next = n + 1 /\ save'.sealed = TRUE /\ save' \in SaveRecord
  <2>1. PICK f : f = [save.hashes EXCEPT ![n] = h]
    OBVIOUS
  <2>2. save' = [at |-> "base", next |-> n + 1, hashes |-> f, sealed |-> TRUE]
    BY <1>7, <2>1
  <2>3. f = hs
    BY <1>9, <2>2
  <2>4. save' = [at |-> "base", next |-> n + 1, hashes |-> hs, sealed |-> TRUE]
    BY <2>2, <2>3
  <2>5. n + 1 \in Nat /\ hs \in [Index -> Hash] \union {<<>>}
    OBVIOUS
  <2>6. PICK m \in Nat, x \in [Index -> Hash] \union {<<>>} : m = n + 1 /\ x = hs
    BY <2>5
  <2>7. [at |-> "base", next |-> m, hashes |-> x, sealed |-> TRUE] \in SaveRecord
    BY DEF SaveRecord
  <2>8. save' \in SaveRecord
    BY <2>4, <2>6, <2>7
  <2> QED
    BY <2>4, <2>8
<1>11. ASSUME NEW i \in Index, hs[i] # Zero
       PROVE  /\ store'[hs[i]] # "absent"
              /\ \A k \in 1 .. CHUNK_SIZE : Byte(hs[i], k) = Holding[i][k]
  <2>1. CASE i = n
    BY <1>4, <1>5, <1>7, <1>9, <1>11, <2>1
  <2>2. CASE i # n
    <3>1. hs[i] \in Contents /\ hs[i] = save.hashes[i]
      BY <1>9, <1>11, <2>2 DEF Hash
    <3> QED
      BY <1>5, <1>8, <1>11, <3>1 DEF Grows
  <2> QED
    BY <2>1, <2>2
<1>12. ASSUME NEW i \in Index, hs[i] = Zero, i < n + 1 \/ Len(base) <= i * CHUNK_SIZE,
              NEW k \in 1 .. CHUNK_SIZE
       PROVE  Holding[i][k] = 0
  <2>1. CASE i = n
    <3>1. AllZero(d)
      BY <1>4, <1>7, <1>9, <1>12, <2>1, ContentIsSeq
    <3>2. Byte(d, k) = 0
      BY <3>1, AllZeroReads
    <3> QED
      BY <1>4, <2>1, <3>2
  <2>2. CASE i # n
    <3>1. i \in Nat
      BY DEF Index, StoreConstants
    <3>2. i < n \/ Len(base) <= i * CHUNK_SIZE
      BY <1>12, <2>2, <3>1
    <3> QED
      BY <1>8, <1>9, <1>12, <2>2, <3>2
  <2> QED
    BY <2>1, <2>2
<1>13. Saving'
  <2>1. rc'["save"] = NoRead
    BY DEF IndInv, Types, Threads
  <2>2. n + 1 <= Chunks
    BY <1>3 DEF StoreConstants
  <2>3. cmd.kind # "write" /\ dirty = NoDirty
    BY <1>1 DEF IndInv, Saving
  <2>4. /\ Holding' = Holding /\ save'.hashes = hs /\ save'.at = "base" /\ save'.next = n + 1
        /\ save'.sealed = TRUE /\ UNCHANGED <<base, cmd, dirty>> /\ hs \in [Index -> Hash]
        /\ rc'["save"] = NoRead /\ NoRead.at = "none"
    BY <1>6, <1>9, <1>10, <2>1, NoReadType
  <2> QED
    BY <1>11, <1>12, <2>2, <2>3, <2>4, ZenonT(60) DEF Saving
<1> QED
  BY <1>1, <1>5, <1>6, <1>10, <1>13, NoReadType, SaverReads

\* A save that fails leaves nothing but a chunk.
LEMMA SaveFailsStep ==
  ASSUME StoreConstants, IndInv, save' = NoSave, rc' = [rc EXCEPT !["save"] = NoRead],
         UNCHANGED <<index, parents, base, dirty, file, cmd, reply>>,
         UNCHANGED <<store, left>> \/ \E d \in Contents : PutFails(d)
  PROVE  Implements
<1>1. /\ Spends /\ Settles /\ Stored'
      /\ store' \in [Contents -> {"absent", "seen", "durable"}]
  <2>1. CASE UNCHANGED <<store, left>>
    <3>1. Still /\ Spends
      BY <2>1 DEF Still, Spends
    <3> QED
      BY <2>1, <3>1, StillSettles DEF IndInv, Types
  <2>2. CASE \E d \in Contents : PutFails(d)
    BY <2>2, PutFailsGrows
  <2> QED
    BY <2>1, <2>2
<1>2. save' \in SaveRecord /\ save'.at = "none" /\ ~save'.sealed
  BY DEF SaveRecord, NoSave
<1>3. rc'["save"] = NoRead
  BY DEF IndInv, Types, Threads
<1>4. Saving'
  BY <1>2, <1>3, NoReadType DEF Saving
<1> QED
  BY <1>1, <1>2, <1>4, NoReadType, SaverReads

\* The loop over the base chunks.
LEMMA SaveBaseStep ==
  ASSUME StoreConstants, IndInv, SaveBase
  PROVE  Implements
<1>1. /\ save.at = "base" /\ save.next < Chunks
      /\ UNCHANGED <<index, parents, base, dirty, file, cmd, reply>>
  BY Zenon DEF SaveBase
<1>2. \/ /\ ~(save.hashes[save.next] = Zero /\ save.next * CHUNK_SIZE < Len(base))
         /\ save' = [save EXCEPT !.next = @ + 1] /\ UNCHANGED <<store, rc, left>>
      \/ /\ save.hashes[save.next] = Zero /\ save.next * CHUNK_SIZE < Len(base)
         /\ rc' = [rc EXCEPT !["save"] = Begins(save.next)] /\ UNCHANGED <<store, save, left>>
      \/ /\ rc["save"].at = "done" /\ UNCHANGED left
         /\ store' = IF AllZero(rc["save"].data) THEN store ELSE Put(store, rc["save"].data)
         /\ save' = [at |-> "base", next |-> save.next + 1,
                     hashes |-> [save.hashes EXCEPT ![save.next] =
                                   IF AllZero(rc["save"].data) THEN Zero ELSE rc["save"].data],
                     sealed |-> save.sealed]
         /\ rc' = [rc EXCEPT !["save"] = NoRead]
      \/ /\ save' = NoSave /\ rc' = [rc EXCEPT !["save"] = NoRead]
         /\ \/ UNCHANGED <<store, left>>
            \/ rc["save"].at = "done" /\ PutFails(rc["save"].data)
  BY Zenon DEF SaveBase, SaveFails
<1>3. rc["save"].at = "done" => rc["save"].data \in Contents
  BY DEF IndInv, Reading, Threads
<1> QED
  BY <1>1, <1>2, <1>3, SavePassesStep, SaveBeginsStep, SavePutsStep, SaveFailsStep DEF Still

\* The index file has, for every chunk, what the disk has: it is the disk.
LEMMA SaveWritesStep ==
  ASSUME StoreConstants, IndInv, SaveWrites
  PROVE  Implements
<1>1. /\ save.at = "base" /\ save.next = Chunks /\ save' = NoSave
      /\ UNCHANGED <<store, index, parents, base, dirty, cmd, reply, rc>>
      /\ \/ save.sealed /\ file' = save.hashes /\ UNCHANGED left
         \/ UNCHANGED <<file, left>>
         \/ left.faults > 0 /\ left' = [left EXCEPT !.faults = @ - 1] /\ UNCHANGED file
  BY DEF SaveWrites, Fault
<1>2. Spends
  BY <1>1 DEF Spends
<1>3. /\ rc["save"].at = "none" /\ rc["save"] = NoRead
  <2>1. ~(save.next < Chunks)
    BY <1>1 DEF StoreConstants
  <2> QED
    BY <1>1, <2>1 DEF IndInv, Saving
<1>4. Holding' = Holding
  BY <1>1 DEF Holding, Held, fetch_chunk, Resolves, Based
<1>5. Grows
  BY <1>1 DEF Grows
<1>6. /\ save.hashes \in [Index -> Hash]
      /\ \A i \in Index :
           /\ save.hashes[i] # Zero => store[save.hashes[i]] # "absent"
           /\ save.sealed /\ save.hashes[i] # Zero =>
                \A k \in 1 .. CHUNK_SIZE : Byte(save.hashes[i], k) = Holding[i][k]
           /\ save.sealed /\ save.hashes[i] = Zero =>
                \A k \in 1 .. CHUNK_SIZE : Holding[i][k] = 0
  <2>1. \A i \in Index : i < Chunks
    BY DEF Index, StoreConstants
  <2> QED
    BY <1>1, <2>1 DEF IndInv, Saving
<1>7. Types'
  <2>1. left' \in Budget
    BY <1>2, SpendsKeeps DEF IndInv
  <2>2. save' \in SaveRecord
    BY <1>1 DEF SaveRecord, NoSave
  <2> QED
    BY <1>1, <1>6, <2>1, <2>2 DEF IndInv, Types, Budget, SaveRecord
<1>8. Stored'
  <2>1. BoundsKept
    BY <1>2, PowerKept DEF IndInv
  <2>2. file' # <<>> => \A i \in Index : file'[i] # Zero => store'[file'[i]] # "absent"
    BY <1>1, <1>6 DEF IndInv, Stored
  <2> QED
    BY <1>1, <2>1, <2>2 DEF IndInv, Stored, BoundsKept
<1>9. \A t \in Threads : Reading(t)'
  BY <1>1, <1>4, <1>5, ReadingKept DEF IndInv, Reading
<1>10. Serving'
  BY <1>1, <1>4, ServingKept DEF IndInv
<1>11. Saving'
  BY <1>1, <1>3 DEF Saving, NoSave
<1>12. DiskNow' = DiskNow /\ Command' = Command /\ reply' = reply
  BY <1>1, <1>4, DiskKept DEF Command
<1>13. CASE file' = file
  <2>1. Checkpoint' = Checkpoint
    BY <1>8, <1>13, CheckpointKept DEF IndInv
  <2> QED
    BY <1>7, <1>8, <1>9, <1>10, <1>11, <1>12, <2>1, DiskStutters DEF IndInv, Implements
<1>14. CASE save.sealed /\ file' = save.hashes
  <2>1. file' # <<>>
    <3>1. 0 \in Index
      BY DEF Index, StoreConstants
    <3>2. DOMAIN file' = Index
      BY <1>6, <1>14
    <3> QED
      BY <3>1, <3>2
  <2>2. Checkpoint' = [a \in Addresses |-> Saved(file[ChunkOf(a)], OffsetOf(a))']
    BY <2>1 DEF Checkpoint
  <2>3. ASSUME NEW a \in Addresses
        PROVE  Saved(file[ChunkOf(a)], OffsetOf(a))' = DiskNow[a]
    <3>1. PICK i \in Index, k \in 1 .. CHUNK_SIZE : i = ChunkOf(a) /\ k = OffsetOf(a)
      BY AddressOf
    <3>2. DiskNow[a] = Holding[i][k]
      BY <3>1, DiskIsHolding
    <3>3. Saved(file[ChunkOf(a)], OffsetOf(a))'
            = IF file'[i] = Zero THEN 0
              ELSE Byte(IF store'[file'[i]] # "absent" THEN file'[i] ELSE ZeroChunk, k)
      BY <3>1, Zenon DEF Saved, fetch_chunk, ZeroChunk
    <3>4. CASE file'[i] = Zero
      BY <1>6, <1>14, <3>2, <3>3, <3>4
    <3>5. CASE file'[i] # Zero
      <4>1. store'[file'[i]] # "absent" /\ Byte(file'[i], k) = Holding[i][k]
        BY <1>1, <1>6, <1>14, <3>5
      <4> QED
        BY <3>2, <3>3, <3>5, <4>1
    <3> QED
      BY <3>4, <3>5
  <2>4. DiskNow = [a \in Addresses |-> DiskNow[a]]
    BY DEF DiskNow
  <2>5. Checkpoint' = DiskNow
    BY <2>2, <2>3, <2>4, Zenon
  <2>6. [D!Next]_(D!vars)
    BY <1>12, <2>5 DEF D!vars, D!Next, D!Save
  <2> QED
    BY <1>7, <1>8, <1>9, <1>10, <1>11, <2>6 DEF IndInv, Implements
<1> QED
  BY <1>1, <1>13, <1>14

----------------------------------------------------------------------------
(* The next run. *)

\* The disk of an image, or of a checkpoint, as values.
LEMMA StartedFrom ==
  ASSUME StoreConstants, Stored', index' \in [Index -> Hash],
         parents' \in Seq([Index -> Hash]), dirty' = NoDirty
  PROVE  DiskNow' = [a \in Addresses |->
                       IF Resolves(index', parents', ChunkOf(a)) # Zero
                         THEN Byte(Resolves(index', parents', ChunkOf(a)), OffsetOf(a))
                         ELSE Based(base', ChunkOf(a), OffsetOf(a))]
<1>1. ASSUME NEW a \in Addresses
      PROVE  Held(ChunkOf(a), OffsetOf(a))'
               = IF Resolves(index', parents', ChunkOf(a)) # Zero
                   THEN Byte(Resolves(index', parents', ChunkOf(a)), OffsetOf(a))
                   ELSE Based(base', ChunkOf(a), OffsetOf(a))
  <2>1. PICK i \in Index, k \in 1 .. CHUNK_SIZE : i = ChunkOf(a) /\ k = OffsetOf(a)
    BY AddressOf
  <2>2. Held(i, k)' = Value(index', parents', base', dirty', i, k)
    BY HeldIsValuePrime
  <2>3. dirty'[i] = Zero
    BY DEF NoDirty
  <2>4. Value(index', parents', base', dirty', i, k)
          = IF Resolves(index', parents', i) # Zero
              THEN Byte(Resolves(index', parents', i), k) ELSE Based(base', i, k)
    BY <2>3, Zenon DEF Value
  <2> QED
    BY <2>1, <2>2, <2>4
<1> QED
  BY <1>1, Zenon DEF DiskNow

\* The images Disk may start from are those of Starts.
LEMMA RestartStep ==
  ASSUME StoreConstants, IndInv, NextRun,
         store' \in [Contents -> {"absent", "seen", "durable"}], Grows,
         left.power => \A c \in Contents : store'[c] = "seen" => store[c] = "seen"
  PROVE  Implements
<1>1. /\ dirty' = NoDirty /\ cmd' = NoCmd /\ rc' = [t \in {"nbd", "save"} |-> NoRead]
      /\ save' = NoSave /\ UNCHANGED <<file, reply>>
      /\ left.runs > 0 /\ left' = [left EXCEPT !.runs = @ - 1]
      /\ \/ file # <<>> /\ index' = file /\ parents' = <<>> /\ base' = <<>>
         \/ /\ file = <<>>
            /\ \E s \in Starts : index' = s.index /\ parents' = s.parents /\ base' = s.base
  BY DEF NextRun
<1>2. Spends
  BY <1>1 DEF Spends
<1>3. \A s \in Starts : /\ s.index \in [Index -> Hash] /\ s.base \in Seq(Bytes)
                        /\ s.parents \in Seq([Index -> Hash])
  BY DEF StoreConstants, Hash
<1>4. file = <<>> \/ file \in [Index -> Hash]
  BY DEF IndInv, Types
<1>5. /\ index' \in [Index -> Hash] /\ parents' \in Seq([Index -> Hash]) /\ base' \in Seq(Bytes)
  <2>1. CASE file # <<>>
    <3>1. <<>> \in Seq([Index -> Hash]) /\ <<>> \in Seq(Bytes)
      BY EmptySeq
    <3> QED
      BY <1>1, <1>4, <2>1, <3>1
  <2>2. CASE file = <<>>
    BY <1>1, <1>3, <2>2
  <2> QED
    BY <2>1, <2>2
<1>6. \A h \in Hash : h # Zero /\ store[h] # "absent" => store'[h] # "absent"
  BY DEF Grows, Hash
<1>7. \A s \in Starts :
        /\ \A i \in Index : s.index[i] # Zero => store'[s.index[i]] # "absent"
        /\ \A p \in DOMAIN s.parents, i \in Index :
             s.parents[p][i] # Zero => store'[s.parents[p][i]] # "absent"
  <2> SUFFICES ASSUME NEW s \in Starts
               PROVE  /\ \A i \in Index : s.index[i] # Zero => store'[s.index[i]] # "absent"
                      /\ \A p \in DOMAIN s.parents, i \in Index :
                           s.parents[p][i] # Zero => store'[s.parents[p][i]] # "absent"
    OBVIOUS
  <2>1. \A p \in DOMAIN s.parents : s.parents[p] \in [Index -> Hash]
    BY <1>3, ElementOfSeq, LenProperties
  <2>2. /\ \A i \in Index : s.index[i] # Zero => store[s.index[i]] # "absent"
        /\ \A p \in DOMAIN s.parents, i \in Index :
             s.parents[p][i] # Zero => store[s.parents[p][i]] # "absent"
    BY DEF IndInv, Stored
  <2> QED
    BY <1>3, <1>6, <2>1, <2>2
<1>8. file # <<>> => \A i \in Index : file[i] # Zero => store'[file[i]] # "absent"
  BY <1>4, <1>6 DEF IndInv, Stored
<1>9. Stored'
  <2>1. BoundsKept
    BY <1>2, PowerKept DEF IndInv
  <2>2. left'.power => /\ left'.others = 0 /\ left'.cuts = 0
                       /\ \A c \in Contents : store'[c] # "seen"
    BY <2>1 DEF IndInv, Stored, BoundsKept
  <2>3. /\ \A i \in Index : index'[i] # Zero => store'[index'[i]] # "absent"
        /\ \A p \in DOMAIN parents', i \in Index :
             parents'[p][i] # Zero => store'[parents'[p][i]] # "absent"
    <3>1. CASE file # <<>>
      BY <1>1, <1>8, <3>1
    <3>2. CASE file = <<>>
      BY <1>1, <1>7, <3>2
    <3> QED
      BY <3>1, <3>2
  <2>4. file' # <<>> => \A i \in Index : file'[i] # Zero => store'[file'[i]] # "absent"
    BY <1>1, <1>8
  <2>5. left'.lapses > 0 => base' = <<>> /\ \A s \in Starts : s.base = <<>>
    BY <1>1, <2>1 DEF IndInv, Stored, BoundsKept
  <2> QED
    BY <1>7, <2>2, <2>3, <2>4, <2>5 DEF Stored
<1>10. /\ rc'["nbd"] = NoRead /\ rc'["save"] = NoRead /\ rc' \in [Threads -> RcRecord]
  BY <1>1, NoReadType DEF Threads
<1>11. Types'
  <2>1. left' \in Budget
    BY <1>2, SpendsKeeps DEF IndInv
  <2>2. NoCmd \in CmdRecord /\ NoSave \in SaveRecord /\ NoDirty \in [Index -> Hash]
    BY EmptySeq DEF NoCmd, CmdRecord, NoSave, SaveRecord, NoDirty, Hash
  <2> QED
    BY <1>1, <1>4, <1>5, <1>10, <2>1, <2>2 DEF Types, Budget, CmdRecord, SaveRecord, RcRecord
<1>12. /\ Reading("nbd")' /\ Reading("save")' /\ Saving'
  BY <1>1, <1>10, NoReadType DEF Reading, Saving, NoSave
<1>13. Serving'
  <2>1. Len(cmd'.got) = 0 /\ cmd'.kind = "none" /\ cmd'.got = <<>>
    BY <1>1 DEF NoCmd
  <2> QED
    BY <1>1, <1>10, <2>1, NoReadType DEF Serving
<1>14. Checkpoint' = Checkpoint /\ reply' = reply /\ Command' = D!Idle
  BY <1>1, <1>9, CheckpointKept DEF IndInv, Command, D!Idle, NoCmd
<1>15. DiskNow' = [a \in Addresses |->
                     IF Resolves(index', parents', ChunkOf(a)) # Zero
                       THEN Byte(Resolves(index', parents', ChunkOf(a)), OffsetOf(a))
                       ELSE Based(base', ChunkOf(a), OffsetOf(a))]
  BY <1>1, <1>5, <1>9, StartedFrom
<1>16. ASSUME file = <<>> PROVE D!Next
  <2>1. PICK s \in Starts : index' = s.index /\ parents' = s.parents /\ base' = s.base
    BY <1>1, <1>16
  <2>2. DiskNow' = ImageOf(s)
    BY <1>15, <2>1, Zenon DEF ImageOf
  <2>3. Checkpoint = <<>>
    BY <1>16 DEF Checkpoint
  <2> QED
    BY <1>14, <2>2, <2>3 DEF D!Next, D!Restart
<1>17. ASSUME file # <<>> PROVE D!Next
  <2>1. index' = file /\ parents' = <<>> /\ base' = <<>>
    BY <1>1, <1>17
  <2>2. ASSUME NEW a \in Addresses
        PROVE  (IF Resolves(index', parents', ChunkOf(a)) # Zero
                  THEN Byte(Resolves(index', parents', ChunkOf(a)), OffsetOf(a))
                  ELSE Based(base', ChunkOf(a), OffsetOf(a)))
                 = Saved(file[ChunkOf(a)], OffsetOf(a))
    <3>1. PICK i \in Index, k \in 1 .. CHUNK_SIZE : i = ChunkOf(a) /\ k = OffsetOf(a)
      BY AddressOf
    <3>2. Resolves(file, <<>>, i) = file[i]
      <4>1. PICK e \in Seq(Bytes) : e = <<>>
        BY EmptySeq
      <4>2. DOMAIN e = {}
        BY <4>1
      <4>3. \A p \in DOMAIN e : e[p][i] = Zero
        BY <4>2
      <4>4. Resolves(file, e, i) = file[i]
        BY <4>3, ResolvesTo
      <4> QED
        BY <4>1, <4>4
    <3>3. Based(<<>>, i, k) = 0
      <4>1. ~(i * CHUNK_SIZE < Len(<<>>))
        <5>1. i \in Nat /\ CHUNK_SIZE \in Nat
          BY DEF Index, StoreConstants
        <5>2. PICK m \in Nat : m = i * CHUNK_SIZE
          BY <5>1
        <5>3. ~(m < 0) /\ Len(<<>>) = 0
          OBVIOUS
        <5> QED
          BY <5>2, <5>3
      <4>2. <<>> \in Seq(Bytes)
        BY EmptySeq
      <4> QED
        BY <4>1, <4>2, BasedBeyond
    <3>4. Saved(file[i], k) = IF file[i] # Zero THEN Byte(file[i], k) ELSE 0
      <4>1. file[i] # Zero => store[file[i]] # "absent"
        BY <1>17 DEF IndInv, Stored
      <4> QED
        BY <4>1 DEF Saved, fetch_chunk
    <3> QED
      BY <2>1, <3>1, <3>2, <3>3, <3>4
  <2>3. Checkpoint = [a \in Addresses |-> Saved(file[ChunkOf(a)], OffsetOf(a))]
    BY <1>17 DEF Checkpoint
  <2>4. DiskNow' = Checkpoint
    BY <1>15, <2>2, <2>3, Zenon
  <2>5. Checkpoint # <<>>
    <3>1. 1 \in Addresses
      <4>1. PICK m \in Nat, c \in Nat \ {0}, n \in Nat \ {0} :
              m = n * c /\ c = CHUNK_SIZE /\ n = Chunks
        BY DEF StoreConstants
      <4>2. 1 <= n * c
        BY n - 1 \in Nat, c - 1 \in Nat, (n - 1) * (c - 1) \in Nat,
           n * c = (n - 1) * (c - 1) + n + c - 1
      <4> QED
        BY <4>1, <4>2 DEF Addresses
    <3>2. DOMAIN Checkpoint = Addresses
      BY <2>3
    <3> QED
      BY <3>1, <3>2
  <2> QED
    BY <1>14, <2>4, <2>5 DEF D!Next, D!Restart
<1>18. D!Next
  BY <1>16, <1>17
<1> QED
  BY <1>9, <1>11, <1>12, <1>13, <1>18 DEF IndInv, Implements, Threads

\* A restart, a crash or a power failure.
LEMMA NextRunStep ==
  ASSUME StoreConstants, IndInv, start_cas_nbd_server \/ crash \/ power_fails
  PROVE  Implements
<1>1. store \in [Contents -> {"absent", "seen", "durable"}]
  BY DEF IndInv, Types
<1>2. CASE start_cas_nbd_server \/ crash
  <2>1. NextRun /\ store' = store
    BY <1>2 DEF start_cas_nbd_server, crash
  <2> QED
    BY <1>1, <2>1, RestartStep DEF Grows
<1>3. CASE power_fails
  <2>1. left.power /\ NextRun
    BY <1>3 DEF power_fails
  <2>2. PICK lost \in SUBSET {c \in Contents : store[c] = "seen"} :
          store' = [c \in Contents |->
                      IF c \in lost THEN "absent"
                      ELSE IF store[c] = "seen" THEN "durable" ELSE store[c]]
    BY <1>3 DEF power_fails
  <2>3. \A c \in Contents : store[c] # "seen" /\ c \notin lost
    BY <2>1 DEF IndInv, Stored
  <2>4. \A c \in Contents : store'[c] = store[c]
    BY <2>2, <2>3
  <2>5. store' \in [Contents -> {"absent", "seen", "durable"}]
    BY <1>1, <2>2, <2>3
  <2> QED
    BY <2>1, <2>4, <2>5, RestartStep DEF Grows
<1> QED
  BY <1>2, <1>3

----------------------------------------------------------------------------
(* The theorems. *)

\* The first run has the disk of an image, whose chunks are in the store.
LEMMA InitStep ==
  ASSUME StoreConstants, SealHolds, Init
  PROVE  IndInv /\ D!Init
<1>1. PICK s \in Starts : index = s.index /\ parents = s.parents /\ base = s.base
  BY DEF Init, Opens
<1>2. /\ dirty = NoDirty /\ file = <<>> /\ cmd = NoCmd /\ reply = NoReply
      /\ rc = [t \in {"nbd", "save"} |-> NoRead] /\ save = NoSave /\ left \in Budgets
      /\ store = [c \in Contents |->
                    IF \E x \in Starts : c \in Named(x) THEN "durable" ELSE "absent"]
  BY DEF Init
<1>3. \A x \in Starts : /\ x.index \in [Index -> Hash] /\ x.base \in Seq(Bytes)
                        /\ x.parents \in Seq([Index -> Hash])
  BY DEF StoreConstants, Hash
<1>4. /\ rc["nbd"] = NoRead /\ rc["save"] = NoRead /\ rc \in [Threads -> RcRecord]
  BY <1>2, NoReadType DEF Threads
<1>5. /\ left \in Budget /\ (left.power => left.others = 0 /\ left.cuts = 0)
      /\ left.lapses > 0 => base = <<>> /\ \A x \in Starts : x.base = <<>>
  <2>1. left \in Budget /\ (left.power => left.others = 0 /\ left.cuts = 0)
    BY <1>2 DEF StoreConstants, Budget
  <2>2. left.lapses > 0 => \A x \in Starts : x.base = <<>>
    BY <1>2, <2>1 DEF SealHolds, Budget
  <2> QED
    BY <1>1, <2>1, <2>2
<1>6. store \in [Contents -> {"absent", "seen", "durable"}]
      /\ \A c \in Contents : store[c] # "seen"
  BY <1>2
<1>7. Types
  <2>1. NoCmd \in CmdRecord /\ NoSave \in SaveRecord /\ NoDirty \in [Index -> Hash]
    BY EmptySeq DEF NoCmd, CmdRecord, NoSave, SaveRecord, NoDirty, Hash
  <2> QED
    BY <1>1, <1>2, <1>3, <1>4, <1>5, <1>6, <2>1
    DEF Types, Budget, CmdRecord, SaveRecord, RcRecord
<1>8. ASSUME NEW x \in Starts
      PROVE  /\ \A i \in Index : x.index[i] # Zero => store[x.index[i]] # "absent"
             /\ \A p \in DOMAIN x.parents, i \in Index :
                  x.parents[p][i] # Zero => store[x.parents[p][i]] # "absent"
  <2>1. \A c \in Contents : c \in Named(x) => store[c] # "absent"
    BY <1>2
  <2>2. ASSUME NEW i \in Index, x.index[i] # Zero PROVE store[x.index[i]] # "absent"
    <3>1. x.index[i] \in Contents
      BY <1>3, <2>2 DEF Hash
    <3>2. x.index[i] \in Named(x)
      BY DEF Named
    <3> QED
      BY <2>1, <3>1, <3>2
  <2>3. ASSUME NEW p \in DOMAIN x.parents, NEW i \in Index, x.parents[p][i] # Zero
        PROVE  store[x.parents[p][i]] # "absent"
    <3>1. x.parents[p] \in [Index -> Hash]
      BY <1>3, ElementOfSeq, LenProperties
    <3>2. x.parents[p][i] \in Contents
      BY <2>3, <3>1 DEF Hash
    <3>3. x.parents[p] \in {x.parents[k] : k \in DOMAIN x.parents}
      OBVIOUS
    <3>4. x.parents[p][i] \in Named(x)
      BY <3>3 DEF Named
    <3> QED
      BY <2>1, <3>2, <3>4
  <2> QED
    BY <2>2, <2>3
<1>9. Stored
  BY <1>1, <1>2, <1>5, <1>6, <1>8 DEF Stored
<1>10. /\ Reading("nbd") /\ Reading("save") /\ Saving
  BY <1>2, <1>4, NoReadType DEF Reading, Saving, NoSave
<1>11. Serving
  <2>1. Len(cmd.got) = 0 /\ cmd.kind = "none" /\ cmd.got = <<>>
    BY <1>2 DEF NoCmd
  <2> QED
    BY <1>2, <1>4, <2>1, NoReadType DEF Serving
<1>12. DiskNow = ImageOf(s)
  <2>1. ASSUME NEW a \in Addresses
        PROVE  Held(ChunkOf(a), OffsetOf(a))
                 = IF Resolves(s.index, s.parents, ChunkOf(a)) # Zero
                     THEN Byte(Resolves(s.index, s.parents, ChunkOf(a)), OffsetOf(a))
                     ELSE Based(s.base, ChunkOf(a), OffsetOf(a))
    <3>1. PICK i \in Index, k \in 1 .. CHUNK_SIZE : i = ChunkOf(a) /\ k = OffsetOf(a)
      BY AddressOf
    <3>2. Held(i, k) = Value(index, parents, base, dirty, i, k)
      BY <1>7, <1>9, HeldIsValue
    <3>3. dirty[i] = Zero
      BY <1>2 DEF NoDirty
    <3>4. Value(index, parents, base, dirty, i, k)
            = IF Resolves(s.index, s.parents, i) # Zero
                THEN Byte(Resolves(s.index, s.parents, i), k) ELSE Based(s.base, i, k)
      BY <1>1, <3>3, Zenon DEF Value
    <3> QED
      BY <3>1, <3>2, <3>4
  <2> QED
    BY <2>1, Zenon DEF DiskNow, ImageOf
<1>13. D!Init
  BY <1>2, <1>12 DEF D!Init, D!Idle, D!Done, Command, NoCmd, NoReply, Checkpoint
<1> QED
  BY <1>7, <1>9, <1>10, <1>11, <1>13 DEF IndInv, Threads

\* Every step keeps the invariant and is one of Disk, or none.
LEMMA NextStep ==
  ASSUME StoreConstants, IndInv, [Next]_vars
  PROVE  Implements
<1>1. CASE accept \/ stores_fd \/ handshake \/ Client \/ UNCHANGED vars
  BY <1>1, QuietStep
<1>2. CASE transmission \/ BeginsChunk \/ read \/ write \/ send_reply \/ EndsClient
  BY <1>2, TransmissionStep, BeginsChunkStep, ReadStep, WriteStep, SendReplyStep,
     EndsClientStep
<1>3. CASE OtherPuts \/ save_index \/ SaveBase \/ SaveWrites \/ LeaseEnds \/ drop
  BY <1>3, OtherPutsStep, SaveIndexStep, SaveBaseStep, SaveWritesStep, LeaseEndsStep, DropStep
<1>4. CASE start_cas_nbd_server \/ crash \/ power_fails
  BY <1>4, NextRunStep
<1>5. CASE \E t \in {"nbd", "save"} : read_chunk(t) \/ looks(t)
  BY <1>5, ReadChunkStep, LooksStep DEF Threads
<1> QED
  BY <1>1, <1>2, <1>3, <1>4, <1>5 DEF Next

\* The backend implements Disk, also where the guest writes during a save
\* because its seal ended early, as long as no base image is under the disk.
THEOREM StoreImplementsDisk == StoreConstants /\ SealHolds => (Spec => ImplementsDisk)
<1> SUFFICES ASSUME StoreConstants, SealHolds PROVE Spec => ImplementsDisk
  OBVIOUS
<1>1. Init => IndInv /\ D!Init
  BY InitStep
<1>2. IndInv /\ [Next]_vars => IndInv' /\ [D!Next]_(D!vars)
  BY NextStep DEF Implements
<1> QED
  BY <1>1, <1>2, PTL DEF Spec, ImplementsDisk, D!Spec

\* Every hash an index or a checkpoint names is in the store.
THEOREM NothingMissing == StoreConstants /\ SealHolds => (Spec => []HashesAreStored)
<1> SUFFICES ASSUME StoreConstants, SealHolds PROVE Spec => []HashesAreStored
  OBVIOUS
<1>1. Init => IndInv
  BY InitStep
<1>2. IndInv /\ [Next]_vars => IndInv'
  BY NextStep DEF Implements
<1>3. IndInv => HashesAreStored
  BY DEF IndInv, Stored, HashesAreStored
<1> QED
  BY <1>1, <1>2, <1>3, PTL DEF Spec
=============================================================================
