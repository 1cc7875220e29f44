----------------------------- MODULE ZstdStream -----------------------------
(***************************************************************************)
(* Decompressing one cluster of an archive: the loops of decompress_cluster *)
(* and send_zstd_stream in zim_reader.c, and under them one call after     *)
(* another of ZSTD_decompressStream (zstddeclib.c).                        *)
(*                                                                         *)
(* The hub refills its input buffer only when it is used up, grows its     *)
(* output buffer only when it is full, and stops without an error when     *)
(* there is no input left.  The decoder works in its own buffer, a ring    *)
(* that keeps the window of the frame, and flushes it to the hub as far as *)
(* there is room: input may be used up long before its output is out.      *)
(*                                                                         *)
(* Bytes are counted, not looked at: the content is its positions 1, 2, .. *)
(***************************************************************************)
EXTENDS Integers, SequencesExt, FiniteSetsExt

CONSTANTS
    Frames,       \* the frames: [blocks, checksum, sized, more], where the cluster
                  \* has more bytes than the frame (trailing ones), or fewer (it
                  \* is cut).  A block is [raw, c, r, from, at]: c bytes give r, and
                  \* before it there are from bytes of the frame and at bytes of
                  \* the content.
    Blobs,        \* the blobs: [known, upto]: the offsets are known after so many
                  \* bytes of the content, and the blob ends there
    InCap,        \* incap, 65536
    OutCap,       \* outcap, 262144
    ClusterCap,   \* ZIM_CCACHE_MAX_CLUSTER
    BlobCap,      \* ZIM_BLOB_CAP
    HeaderSize,   \* bytes of a frame's header
    BlockHeader,  \* ZSTD_blockHeaderSize, three bytes
    Checksum,     \* bytes of the checksum, four
    Window,       \* its windowSize
    BlockMax,     \* its blockSizeMax
    WildCopy,     \* WILDCOPY_OVERLENGTH
    MaxStalls     \* ZSTD_NO_FORWARD_PROGRESS_MAX, 16

Blocks == [raw : BOOLEAN, c : 0..BlockMax, r : 0..BlockMax, from : Nat, at : Nat]

\* The blocks follow one another; a raw block gives what it has.
IsFrame(f) ==
    /\ f.blocks \in Seq(Blocks) /\ f.blocks # <<>>
    /\ f.checksum \in BOOLEAN /\ f.sized \in BOOLEAN /\ f.more \in Int
    /\ f.blocks[1].from = HeaderSize /\ f.blocks[1].at = 0
    /\ \A i \in DOMAIN f.blocks :
          LET b == f.blocks[i] IN
          /\ b.raw => b.c = b.r
          /\ b.c = 0 => b.r = 0
          /\ i > 1 => LET a == f.blocks[i - 1] IN
                     b.from = a.from + BlockHeader + a.c /\ b.at = a.at + a.r

ASSUME StreamAssumption ==
    /\ {InCap, OutCap, ClusterCap, BlobCap, HeaderSize, BlockHeader, Checksum, Window,
        BlockMax, MaxStalls} \subseteq Nat \ {0}
    /\ WildCopy \in Nat
    /\ \A f \in Frames : IsFrame(f)
    /\ \A b \in Blobs : b.known \in Nat /\ b.upto \in Nat

VARIABLES
    frame,   \* the frame in this cluster
    mode,    \* "cluster": decompress_cluster; "blob": send_zstd_stream
    blob,    \* the blob that is asked for
    hub,     \* the loop's locals: [step, remain, len, pos, cap, result]
    out,     \* outbuf, up to outlen
    zds,     \* ZSTD_DStream
    ring,    \* its outBuff: place -> position of the content
    call     \* inside a call: [ip, istart, ostart]

stream == <<frame, mode, blob, hub, out, zds, ring, call>>

Content(f) == Last(f.blocks).at + Last(f.blocks).r
\* where the last block of the frame ends
BlocksEnd(f) == Last(f.blocks).from + BlockHeader + Last(f.blocks).c
FrameSize(f) == BlocksEnd(f) + (IF f.checksum THEN Checksum ELSE 0)

Cap == IF mode = "cluster" THEN ClusterCap ELSE BlobCap

\* Mutant of RingSize: room for one block more than the window, not two.
RingSizeOneBlock(f) ==
    LET needed == Window + BlockMax IN IF f.sized THEN Min({Content(f), needed}) ELSE needed
\* ZSTD_decodingBufferSize_internal
RingNeeded == Window + 2 * BlockMax + 2 * WildCopy
RingSize(f) == IF f.sized THEN Min({Content(f), RingNeeded}) ELSE RingNeeded

Avail == hub.len - call.ip          \* iend - ip
Room == hub.cap - Len(out)          \* oend - op

Finish(result) == hub' = [hub EXCEPT !.step = "done", !.result = result]
-----------------------------------------------------------------------------
(* The hub's loops *)

\* The input buffer is used up: read on, or stop where the cluster ends.
Refill ==
    /\ hub.step = "loop" /\ hub.pos = hub.len
    /\ IF hub.remain = 0 THEN hub' = [hub EXCEPT !.step = "end"]
       ELSE LET take == Min({hub.remain, InCap}) IN
            \/ hub' = [hub EXCEPT !.step = "grow", !.remain = @ - take, !.len = take, !.pos = 0]
            \/ Finish("fail")
    /\ UNCHANGED <<frame, mode, blob, out, zds, ring, call>>

KeepInput ==
    /\ hub.step = "loop" /\ hub.pos # hub.len
    /\ hub' = [hub EXCEPT !.step = "grow"]
    /\ UNCHANGED <<frame, mode, blob, out, zds, ring, call>>

TooBig == IF mode = "cluster" THEN "too big" ELSE "fail"

\* Mutant of Full: the output buffer grows one byte too late.
FullLate == Len(out) > hub.cap
Full == Len(out) = hub.cap

\* The output buffer is full: a larger one, up to the limit.
Grow ==
    /\ hub.step = "grow"
    /\ IF ~Full THEN hub' = [hub EXCEPT !.step = "call"]
       ELSE IF hub.cap >= Cap THEN Finish(TooBig)
       ELSE \/ hub' = [hub EXCEPT !.step = "call", !.cap = Min({2 * @, Cap})]
            \/ Finish("fail")
    /\ UNCHANGED <<frame, mode, blob, out, zds, ring, call>>

\* The call of ZSTD_decompressStream.
Enter ==
    /\ hub.step = "call"
    /\ hub' = [hub EXCEPT !.step = "inside"]
    /\ call' = [ip |-> hub.pos, istart |-> hub.pos, ostart |-> Len(out)]
    /\ UNCHANGED <<frame, mode, blob, out, zds, ring>>

\* After a call: r = 0 ends the frame; send_zstd_stream also stops as soon as it
\* has the blob, and gives up one that is too large or not in the cluster.
HaveRange == Len(out) >= blob.known
Returned(r) ==
    IF mode = "blob" /\ HaveRange /\ blob.upto > BlobCap THEN "refused"
    ELSE IF mode = "blob" /\ HaveRange /\ Len(out) >= blob.upto THEN "end"
    ELSE IF r = 0 THEN "end" ELSE "loop"

\* The end of the loop: the cluster as it is, or the blob if it is there.
End ==
    /\ hub.step \in {"end", "refused"}
    /\ IF mode = "cluster" \/ (hub.step = "end" /\ HaveRange /\ Len(out) >= blob.upto)
       THEN Finish("ok") ELSE Finish("fail")
    /\ UNCHANGED <<frame, mode, blob, out, zds, ring, call>>
-----------------------------------------------------------------------------
(* ZSTD_decompressStream: one action per turn of its loop *)

Inside(stages) == hub.step = "inside" /\ zds.streamStage \in stages
Error == Finish("fail") /\ UNCHANGED <<out, zds, ring>>
Same == UNCHANGED <<frame, mode, blob>>

\* Corrupted input, a window too large, no memory for the ring.
Broken ==
    /\ Inside({"init", "loadHeader", "read", "load"})
    /\ Error /\ UNCHANGED call /\ Same

NewDecoder == [
    streamStage |-> "init", stage |-> "blockHeader", lhSize |-> 0, expected |-> 0, inPos |-> 0,
    outStart |-> 0, outEnd |-> 0, block |-> 1, decoded |-> 0, hostage |-> FALSE, noProgress |-> 0]

\* Mutant of LeavesHostage: the last byte is taken with its block.
LeavesHostageNever(z) == FALSE

\* What the call returns, and what it leaves in its arguments: the last byte of
\* the frame is kept back, and taken only when all its output is out.
LeavesHostage(z) == z.expected = 0 /\ z.outEnd # z.outStart /\ ~z.hostage
ReturnFrom(z, ip, o) ==
    LET flushed == z.outEnd = z.outStart
        held == z.expected = 0 /\ flushed /\ z.hostage
        stuck == held /\ ip >= hub.len
        z1 == [z EXCEPT !.noProgress = IF ip = call.istart /\ Len(o) = call.ostart THEN @ + 1 ELSE 0,
                        !.hostage = @ \/ LeavesHostage(z),
                        !.streamStage = IF stuck THEN "read" ELSE @]
        back == IF LeavesHostage(z) THEN ip - 1 ELSE IF held /\ ~stuck THEN ip + 1 ELSE ip
        r == IF z.expected = 0 /\ flushed /\ ~stuck THEN 0 ELSE 1
    IN  IF z1.noProgress >= MaxStalls THEN Finish("fail") /\ UNCHANGED <<zds, out>>
        ELSE
        /\ zds' = z1 /\ out' = o
        /\ hub' = [hub EXCEPT !.pos = back, !.step = "returned", !.result = IF r = 0 THEN "last" ELSE "more"]

\* zdss_init and zdss_loadHeader.
LoadHeader ==
    /\ Inside({"init", "loadHeader"})
    /\ LET z == IF zds.streamStage = "init"
                THEN [NewDecoder EXCEPT !.streamStage = "loadHeader", !.noProgress = zds.noProgress] ELSE zds
           toLoad == HeaderSize - z.lhSize
       IN  /\ z.lhSize < HeaderSize
           /\ IF toLoad > Avail
              THEN /\ zds' = [z EXCEPT !.lhSize = @ + Avail]
                   /\ hub' = [hub EXCEPT !.pos = hub.len, !.step = "returned", !.result = "more"]
                   /\ UNCHANGED call
              ELSE /\ zds' = [z EXCEPT !.lhSize = HeaderSize]
                   /\ call' = [call EXCEPT !.ip = @ + toLoad]
                   /\ UNCHANGED hub
    /\ UNCHANGED <<out, ring>> /\ Same

\* The whole frame is at hand and there is room for all of its content.
SinglePass ==
    /\ frame.sized /\ Room >= Content(frame)
    /\ call.ip - HeaderSize = call.istart
    /\ hub.len - call.istart >= FrameSize(frame)

DecodeAll ==
    /\ Inside({"loadHeader"}) /\ zds.lhSize = HeaderSize /\ SinglePass
    /\ ReturnFrom([zds EXCEPT !.expected = 0, !.streamStage = "init"], call.istart + FrameSize(frame),
              out \o [i \in 1..Content(frame) |-> i])
    /\ UNCHANGED <<ring, call>> /\ Same

\* The header is decoded and the ring allocated.
BeginFrame ==
    /\ Inside({"loadHeader"}) /\ zds.lhSize = HeaderSize /\ ~SinglePass
    /\ zds' = [zds EXCEPT !.streamStage = "read", !.stage = "blockHeader", !.expected = BlockHeader]
    /\ ring' = [i \in 1..RingSize(frame) |-> 0]
    /\ UNCHANGED <<hub, out, call>> /\ Same

Block == frame.blocks[zds.block]
InBlock == zds.stage = "block"

\* What follows a block: the next one's header, the checksum, or nothing.
AfterBlock(z) ==
    IF z.block < Len(frame.blocks)
    THEN [z EXCEPT !.stage = "blockHeader", !.expected = BlockHeader, !.block = @ + 1]
    ELSE IF frame.checksum THEN [z EXCEPT !.stage = "checksum", !.expected = Checksum]
    ELSE [z EXCEPT !.stage = "end", !.expected = 0]

\* ZSTD_decompressContinue with n bytes, in ZSTD_decompressContinueStream.  A raw
\* block is taken as it comes, any other one whole.
Produced(n) == IF ~InBlock THEN 0 ELSE IF Block.raw THEN n ELSE Block.r
Decoded(z, n) ==
    LET size == Produced(n)
        left == IF InBlock /\ Block.raw THEN z.expected - n ELSE 0
        z1 == [z EXCEPT !.inPos = 0, !.decoded = @ + size, !.outEnd = z.outStart + size,
                        !.streamStage = IF size = 0 THEN "read" ELSE "flush"]
    IN  CASE z.stage = "blockHeader" ->
                IF Block.c > 0 THEN [z1 EXCEPT !.stage = "block", !.expected = Block.c]
                ELSE AfterBlock(z1)
          [] z.stage = "block" ->
                IF left > 0 THEN [z1 EXCEPT !.expected = left] ELSE AfterBlock(z1)
          [] OTHER -> [z1 EXCEPT !.stage = "end", !.expected = 0]

Continue(z, n) ==
    IF z.outStart + Produced(n) > Len(ring) THEN Error
    ELSE /\ zds' = Decoded(z, n)
         /\ ring' = [i \in DOMAIN ring |->
                IF i \in z.outStart + 1..z.outStart + Produced(n)
                THEN z.decoded + i - z.outStart ELSE ring[i]]
         /\ UNCHANGED <<hub, out>>

\* ZSTD_nextSrcSizeToDecompressWithInputSize
Needed ==
    IF InBlock /\ Block.raw THEN Max({1, Min({Avail, zds.expected})}) ELSE zds.expected

\* zdss_read: the end of the frame, a decoding straight from the hub's buffer,
\* or nothing to read.
ReadEnd ==
    /\ Inside({"read"})
    /\ (zds.expected = 0 \/ Avail = 0)
    /\ ReturnFrom(IF zds.expected = 0 THEN [zds EXCEPT !.streamStage = "init"] ELSE zds, call.ip, out)
    /\ UNCHANGED <<ring, call>> /\ Same

ReadDirect ==
    /\ Inside({"read"}) /\ zds.expected # 0 /\ Avail >= Needed
    /\ Continue(zds, Needed)
    /\ call' = [call EXCEPT !.ip = @ + Needed] /\ Same

ReadTooLittle ==
    /\ Inside({"read"}) /\ zds.expected # 0 /\ Avail \in 1..Needed - 1
    /\ zds' = [zds EXCEPT !.streamStage = "load"]
    /\ UNCHANGED <<hub, out, ring, call>> /\ Same

\* zdss_load: input is collected until there is enough of it.
Load ==
    /\ Inside({"load"})
    /\ LET toLoad == zds.expected - zds.inPos
           loaded == Min({toLoad, Avail})
           z == [zds EXCEPT !.inPos = @ + loaded]
       IN IF loaded < toLoad
          THEN ReturnFrom(z, call.ip + loaded, out) /\ UNCHANGED <<ring, call>>
          ELSE Continue(z, zds.expected) /\ call' = [call EXCEPT !.ip = @ + loaded]
    /\ Same

\* zdss_flush: as much as the hub's buffer takes; when all is out, and the next
\* block might not fit, the ring starts again from its beginning.
Flush ==
    /\ Inside({"flush"})
    /\ LET n == Min({zds.outEnd - zds.outStart, Room})
           o == out \o SubSeq(ring, zds.outStart + 1, zds.outStart + n)
           z == [zds EXCEPT !.outStart = @ + n]
           wrap == (~frame.sized \/ Len(ring) < Content(frame)) /\ z.outStart + BlockMax > Len(ring)
       IN IF z.outStart < z.outEnd THEN ReturnFrom(z, call.ip, o)
          ELSE /\ zds' = [z EXCEPT !.streamStage = "read",
                                   !.outStart = IF wrap THEN 0 ELSE @, !.outEnd = IF wrap THEN 0 ELSE @]
               /\ out' = o /\ UNCHANGED hub
    /\ UNCHANGED <<ring, call>> /\ Same

\* Back in the loop.
Leave ==
    /\ hub.step = "returned"
    /\ hub' = [hub EXCEPT !.step = Returned(IF hub.result = "last" THEN 0 ELSE 1), !.result = "none"]
    /\ UNCHANGED <<out, zds, ring, call>> /\ Same
-----------------------------------------------------------------------------
StreamInit ==
    /\ frame \in Frames /\ mode \in {"cluster", "blob"} /\ blob \in Blobs
    /\ mode = "cluster" => blob = CHOOSE b \in Blobs : TRUE
    /\ FrameSize(frame) + frame.more > 0
    /\ hub = [step |-> "loop", remain |-> FrameSize(frame) + frame.more, len |-> 0, pos |-> 0,
              cap |-> OutCap, result |-> "none"]
    /\ out = <<>> /\ zds = NewDecoder /\ ring = <<>>
    /\ call = [ip |-> 0, istart |-> 0, ostart |-> 0]

HubStep == Refill \/ KeepInput \/ Grow \/ Enter \/ Leave \/ End
DecoderStep ==
    \/ LoadHeader \/ DecodeAll \/ BeginFrame \/ ReadEnd \/ ReadDirect \/ ReadTooLittle
    \/ Load \/ Flush

StreamNext == HubStep \/ DecoderStep \/ Broken

StreamSpec == StreamInit /\ [][StreamNext]_stream
-----------------------------------------------------------------------------
\* Whatever the sizes of the buffers and of the blocks, the hub gets the bytes of
\* the content, each once and in order, and when its loop ends without an error
\* (no input left, or r = 0) on a cluster that is not cut, it has all of them,
\* or all of the blob: no byte stays behind in the decoder's ring.
Unpacked ==
    /\ \A i \in DOMAIN out : out[i] = i
    /\ hub.step = "end" /\ frame.more >= 0 =>
          Len(out) >= IF mode = "cluster" THEN Content(frame) ELSE Min({blob.upto, Content(frame)})

\* When a compressed block is next, the ring has room for it, and the places a
\* block may write on (BlockMax bytes) hold none of the last Window bytes: a
\* match in the block still finds them, also after the ring started again.
WindowKept ==
    InBlock /\ ~Block.raw /\ Inside({"read", "load"}) =>
        /\ zds.outStart + Block.r <= Len(ring)
        /\ \A p \in Max({1, zds.decoded - Window + 1})..zds.decoded :
              \E i \in DOMAIN ring :
                  ring[i] = p /\ i \notin zds.outStart + 1..zds.outStart + BlockMax

\* The hub never makes a call that can do nothing: the decoder, which gives up
\* after ZSTD_NO_FORWARD_PROGRESS_MAX of them, sees not even one.
NeverStalls == zds.noProgress = 0
=============================================================================
