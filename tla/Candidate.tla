------------------------------- MODULE Candidate ------------------------------
(***************************************************************************)
(* How updater_run decides whether what it was served is an image: parse   *)
(* the manifest, check the size, fetch the image over what the download    *)
(* buffer held before, hash it a chunk at a time, compare, and look at the *)
(* boot header (steps 2, 3, 4 and 4b).  Module UpdatePipeline takes this   *)
(* verdict as one step.                                                    *)
(***************************************************************************)
EXTENDS Manifest, Sha256

CONSTANTS
  Images,      \* files the host serves as the image
  Leftovers,   \* what the download buffer may hold before the image
  DdrLen,      \* the size of that buffer
  SlotSize,    \* SLOT_SIZE
  ChunkLens,   \* chunks the hash may be taken in: UPD_POLL_CHUNK, and others
  BootMagic    \* a boot header, as the bytes an image must start with

ASSUME BufferAssumption ==
  /\ DdrLen \in Nat /\ SlotSize \in Nat /\ ChunkLens \subseteq Nat \ {0}
  /\ \A d \in Leftovers : d \in Seq(Bytes) /\ Len(d) = DdrLen
  /\ Images \subseteq Seq(Bytes) /\ BootMagic \in Seq(Bytes)

VARIABLES
  ddr,      \* the download buffer
  image,    \* history: the file served as the image
  got,      \* bytes of it that arrived
  ctx,      \* the running hash
  done,     \* bytes hashed
  chunk,    \* the length of a chunk
  verdict   \* upd_result_t, or "IMAGE" when it goes on to step 5

download == <<ddr, image, got>>
hashing == <<ctx, done>>
vars == <<pc, parser, download, hashing, chunk, verdict>>

Conclude(r) == pc' = "concluded" /\ verdict' = r

Init ==
  /\ ParserInit
  /\ ddr \in Leftovers /\ image = <<>> /\ got = 0
  /\ ctx = InitCtx(Zeros(BlockLen)) /\ done = 0 /\ chunk \in ChunkLens
  /\ verdict = "none"

ParseManifest == Parser /\ UNCHANGED <<download, hashing, chunk, verdict>>

Fits == man["length"] # 0 /\ man["length"] <= SlotSize /\ man["length"] <= DdrLen

CheckSize ==
  /\ pc = "parsed"
  /\ \/ mr # "OK" /\ Conclude("MANIFEST_PARSE")
     \/ mr = "OK" /\ ~Fits /\ Conclude("TOOBIG")
     \/ mr = "OK" /\ Fits /\ pc' = "image" /\ UNCHANGED verdict
  /\ UNCHANGED <<parser, download, hashing, chunk>>

\* Mutated form of Short: what the buffer holds is enough.
ShortOfBuffer == man["length"] > DdrLen

Short == got' < man["length"]

\* tftp_get writes the image over the start of the buffer, and fails when it
\* would not fit.
GetImage ==
  /\ pc = "image"
  /\ \/ Conclude("IMAGE_GET") /\ UNCHANGED download
     \/ /\ image' \in {i \in Images : Len(i) <= DdrLen}
        /\ got' = Len(image') /\ ddr' = image' \o After(ddr, got')
        /\ \/ Short /\ Conclude("SHORT")
           \/ ~Short /\ pc' = "hash" /\ UNCHANGED verdict
  /\ UNCHANGED <<parser, hashing, chunk>>

HashChunk ==
  /\ pc = "hash" /\ done < man["length"]
  /\ LET n == Least(chunk, man["length"] - done) IN
       /\ ctx' = sha256_update(ctx, SubSeq(ddr, done + 1, done + n))
       /\ done' = done + n
  /\ UNCHANGED <<pc, parser, download, chunk, verdict>>

image_is_bootable(bytes) ==
  Len(bytes) >= Len(BootMagic) /\ First(bytes, Len(BootMagic)) = BootMagic

Compare ==
  /\ pc = "hash" /\ done >= man["length"]
  /\ \/ sha256_final(ctx) # man["sha256"] /\ Conclude("HASH_DOWNLOAD")
     \/ /\ sha256_final(ctx) = man["sha256"]
        /\ Conclude(IF image_is_bootable(First(ddr, man["length"])) THEN "IMAGE"
                    ELSE "NOT_BOOTIMAGE")
  /\ UNCHANGED <<parser, download, hashing, chunk>>

Next == ParseManifest \/ CheckSize \/ GetImage \/ HashChunk \/ Compare

Spec == Init /\ [][Next]_vars

-----------------------------------------------------------------------------
\* Whatever the chunks, what sha256_final would answer between two of them is
\* the digest of the bytes hashed so far as one message: nothing is lost,
\* doubled, reordered or left over from an earlier block.
HashIsOnePiece == sha256_final(ctx) = Padded(First(ddr, done))

\* What was served is an image: its manifest is one of format 1 that fits,
\* and the file itself, not what the buffer held before, is at least as long
\* and starts with the bytes the digest is of, which carry a boot header.
Served ==
  /\ IsFormat1(file)
  /\ LET means == [key \in Required |->
                     Meaning(file[CHOOSE i \in Pairs(file) : file[i].key = key])]
         length == means["length"]
     IN /\ 0 < length /\ length <= SlotSize /\ length <= Len(image)
        /\ Padded(First(image, length)) = means["sha256"]
        /\ image_is_bootable(First(image, length))

\* updater_run goes on to step 5 exactly when what was served is an image.
VerdictIsAcceptable == pc = "concluded" => (verdict = "IMAGE" <=> Served)
=============================================================================
