# FFmpegStudy in TLA+

The repository is a set of study programs (`src/`) written against a vendored
copy of FFmpeg (`libavcodec`, `libavformat`, `libavutil`, ...). Its own logic is
the way fifteen small programs drive the library; the library's logic is huge,
and most of it is arithmetic on pixels and bit streams. This project models
where the two meet: the state machines behind the calls the programs make, the
loops, branches and cleanup blocks of the programs themselves, and the
concurrent machinery under the calls: worker threads, queues between threads,
shared buffers.

## Inventory

| part | state it keeps | operations | what is hard | what makes it correct |
|---|---|---|---|---|
| decoder send/receive API (`libavcodec/decode.c`, `bsf.c`) | four one-place buffers in a row, the frames the codec holds back, three end-of-stream flags, an error counter | send, receive, send NULL, flush | ordering of data and end of stream across three layers; errors in the middle of a packet; a codec that fails while drained | FIFO order, nothing lost without an error, end of stream only when empty, every call returns |
| decoding programs (`decodeVideo`, `decodeVideoChange`, `decodeImage`, `decodeAudio`, `captureAudio`, `captureVideo`) | the packet, the frame, the output file | read, send, receive until empty, write, release, drain | protocol with the decoder; a failing send; release of foreign packets | complete ordered output, no refused packet, termination |
| interleaving muxer (`libavformat/mux.c`) | an ordered list of packets, per stream a pointer into it and the last dts | write a packet, flush, trailer | ordering across time bases, pointers into a list, silent streams, failing writes | ordered file, sound pointers, nothing lost or doubled, bounded delay |
| remuxing program (`mp4toflv`) | stream map, packet, output context | map streams, copy packets, trailer | two lookups with the wrong index; rescaling | every packet in its own stream's time base, complete file |
| extracting programs (`demuxing_audio`, `demuxing_video`, `mp4toh264`, `dumpMetaData`) | packet, filter, output file | read, filter, write | releases on failing branches, a packet freed too early | defined behaviour on every path |
| encoding programs (`encodeVideoDemo`, `encodeAudioDemo`) | frame, packet, files | read samples, send, receive, write, drain | an unassigned return value, a frame the encoder still holds | complete output, termination |
| encoder send/receive API (`libavcodec/encode.c`) | one frame, one packet, the frames the codec holds, draining flags, `last_audio_frame` | send frame, receive packet, send NULL, flush | one flag for the end of two buffers and a codec; an error ends the draining; state that survives a flush | as for the decoder |
| slice threads (`libavutil/slicethread.c`) | job counters, a done flag and its condition variable, per worker another pair | create, execute, work, report, free | fields written without a lock, two condition variables, creation that fails half-way | every job once, the call returns when all are done and not before, nobody waits for ever |
| message queues (`libavutil/threadmessage.c` over `fifo.c`) | a ring buffer, an error for each end, two condition variables | send, receive, set errors, flush, free | one signal for each message, errors that overtake messages, a full ring that looks empty | a bounded FIFO channel; no wake-up lost |
| reference-counted buffers (`libavutil/buffer.c`) | reference counts, the pool's list and count | alloc, ref, unref, make writable; get, release, uninit | the last reference dropped by any thread; the pool's count raised outside of its lock | freed once, after the last reference; a writer is alone; the pool outlives its buffers |
| frame threads (`libavcodec/pthread_frame.c`) | per worker a packet, a frame, a state, locks it holds; the turn; the stash of the accelerator | submit, collect, flush, free; decode, finish the setup, wait for progress | contexts copied between running threads, an accelerator that only one thread may use, two global locks, three condition variables for each worker | results in packet order, each packet from its predecessor's context, one user of the accelerator, every call returns |
| demuxer, codecs, filters, scalers, formats, devices | - | - | arithmetic and parsing | outside of this project; seen through contracts |
| `test.c`, `demuxing_dir.c`, `avlog.c`, `main.c`, `1.c` | none that outlives a call | - | - | not modelled |

How they interact: a program calls the library and the library runs a call to its
end on the program's thread; with several threads set, the decoder hands packets
to frame threads instead, and filters and the scaler hand jobs to slice threads.
Frames and packets point to reference-counted buffers, which any of these threads
may release; message queues are for programs with threads of their own. Program and decoder share the `AVPacket` and the
`AVFrame`, whose ownership moves with each call; program and muxer share packets,
which the muxer keeps after the call returned. The codec is a callback with a
contract (`codec_internal.h` 180-194).

`PROJECT.json` lists the components, the hazards with their lines, and for each
definition the source lines it models.

## Modules

| module | models | composed of |
|---|---|---|
| `Pipe` | what the send/receive API promises, decoding or encoding: one FIFO queue of units | |
| `Decoder` | `avcodec_send_packet` / `avcodec_receive_frame` and everything under them, null bitstream filter included | implements `Pipe` |
| `Selection` | leaving elements out of a sequence (hidden frames, frames without a packet, other streams) | |
| `SelectionProofs` | lemmas about that | extends `Selection` |
| `DecodeLoop` | the loops of the six decoding programs | extends `Decoder`, `Selection` |
| `DecoderProofs` | theorems about `Decoder` and `DecodeLoop`; the proof that `Decoder` implements `Pipe` | extends `DecodeLoop`, `SelectionProofs` |
| `Lifecycle` | acquisitions, branches and cleanup blocks of thirteen programs | |
| `Muxer` | `av_interleaved_write_frame`, flush, `av_write_trailer` | |
| `Remux` | `mp4toflv.c` | extends `Muxer`, `Selection` |
| `MuxerProofs` | theorems about `Muxer`, `Remux` and `Lifecycle` | extends `Remux`, `Lifecycle`, `SelectionProofs` |
| `Encoder` | `avcodec_send_frame` / `avcodec_receive_packet` and everything under them | implements `Pipe` |
| `EncodeLoop` | `encodeAudioDemo.c`, `encodeVideoDemo.c` | extends `Encoder`, `Selection` |
| `EncoderProofs` | theorems about `Encoder` and `EncodeLoop`; the proof that `Encoder` implements `Pipe` | extends `EncodeLoop`, `SelectionProofs` |
| `ParallelFor` | what a slice thread pool promises: every job of a call once | |
| `SliceThread` | `slicethread.c` | implements `ParallelFor` |
| `SliceThreadProofs` | theorems about `SliceThread`; the proof that it implements `ParallelFor` | extends `SliceThread` |
| `Channel` | what a message queue promises: a bounded FIFO channel with errors; one exception, `FlushKeeps` | |
| `MessageQueue` | `threadmessage.c`, and the ring buffer of `fifo.c` | implements `Channel` |
| `MessageQueueProofs` | theorems about `MessageQueue`; the proof that it implements `Channel` | extends `MessageQueue` |
| `BufferPool` | `buffer.c` | |
| `BufferPoolProofs` | theorems about `BufferPool` | extends `BufferPool` |
| `FrameQueue` | what frame threads promise: many packets inside, results in order | |
| `FrameThread` | `pthread_frame.c` | implements `FrameQueue` |
| `FrameThreadProofs` | theorems about the contexts, the accelerators and the waits of `FrameThread`; the proof that it implements `FrameQueue` | extends `FrameThread` |
| `MC*` | the small instances | |

Definitions named as variants "with a bug" are what a plausible mistake in the
code would look like. They are in no next-state relation; each is used in place of
the definition below it to show that the properties notice the mistake.

### Decoder

A packet is a non-empty sequence of coded *units*; a unit decodes to one frame.
For video a packet is one unit (`consumed = pkt->size`, decode.c 440-441), for audio a codec may
consume part of it. The variables are the fields of `AVCodecInternal`,
`DecodeContext` and `FFBSFContext` that carry control: `buffer_pkt` (what send
queued), `bsf_pkt`/`bsf_eof` (the null filter), `in_pkt` (what the codec has not
read), `codec` (the frames it holds back), `buffer_frame` (a frame decoded by
send and not fetched yet), the client's `frame`, and `draining_started`,
`draining`, `draining_done`, the flags by which the end travels through the layers.

Every call of the client is one action (`SendPacket`, `SendRefused`, `SendNull`,
`ReceiveFrame`, `FlushBuffers`). A call that needs the codec sets `pc`, and the
loops of `decode_simple_receive_frame`, `decode_simple_internal` and
`ff_decode_get_packet` run as steps until `Return`. The steps
`Fetch*` are one round each of the loop of `ff_decode_get_packet`; `Decode*` and `Drain*` are one
call of the codec. The codec may reject a unit (`Corrupt`), flag a frame as not
for output (`Hidden`), hold frames back (`CodecDelay`, which stands for
`AV_CODEC_CAP_DELAY`), and fail when drained, with or without dropping a frame (`DrainFails`).

Left out: codecs that implement `receive_frame` themselves, frame threads,
`max_samples`, packets with side data only, frame properties and cropping,
allocation failures inside the library.

### DecodeLoop

The six programs run one loop that differs in three decisions, kept in a record
per program: whether a failing send ends the program, whether packets of other
streams are released too, whether reading ever ends the loop. `at` is the place
in the program, `packet` what its `AVPacket` holds,
`expected` is a history variable: the visible frames of the packets sent so far
(`Visible`, the units of a packet with the corrupt and hidden ones left out).

### Lifecycle

A `main` is a sequence of acquisitions, checks, uses and one loop; a failing step
returns, or goes to the cleanup block, jumping over the declarations in between.
Each program is a table of its steps (`body`) and of its cleanup block, and one
interpreter runs them, every call failing or not. A pointer holds `garbage`,
`null`, a `live` or `open` object, or is `stale` (released and kept). Testing
garbage, using what is not live and releasing twice halt the run with a `fault`.
`ReleasesAll` speaks of what the cleanup block answers for: `decodeVideo.c`
never releases its packet and its frame at all, and no table claims it does.
`phase` says whether the body or the cleanup block runs, and `step` where.

### Muxer

`packet_buffer` is the list of `FFFormatContext`, `last` the pointer of each
stream into it (by packet id, 0 for NULL), `cur_dts` the last dts of each stream.
`Accept` is the whole way of a packet into the list (`check_packet`,
`compute_muxer_pkt_fields`, `ff_interleave_add_packet`); `PutOut`, `PutOutFails`
and `CallReturns` are one round each of the loop in `interleaved_write_packet`.
`lost`, `forced` and `nb_accepted` are history variables.

Left out: `av_write_frame`, chunks, `audio_preload`, `AVFMT_FLAG_SHORTEST` (all
off by default), attachments, stream bitstream filters, missing timestamps and
the pts check, `avoid_negative_ts`, the rounding of timestamps to microseconds,
allocation failures. A muxer with one stream passes packets through; the list
then holds its packet for an instant, and nothing else differs.

### Remux

`Copy` is one round of the copy loop of `mp4toflv.c` up to the call of the
muxer: read, test, rescale, send. `OutBase` looks the output's time base up with
the input's index, as line 115 does; an index past the end of the output's streams
is undefined behaviour and stops the model. `Placeable` says which packets get
through both lookups. Streams found while reading, which the first half of the test of line 107
(`stream_index >= streamCount`) is for, are left out.

### Encoder

`buffer_frame` (the frame sent and not encoded), `codec` (the frames the codec
holds), `buffer_pkt` (a packet made by send and not fetched) and the client's
`packet`; `draining` and `draining_done` are the fields of `AVCodecInternal`,
`last_audio_frame` that of `EncodeContext`. A packet is named by the frame it
encodes. Calls and steps are laid out as in `Decoder`: a call of the client enters
the library, one step is one round of `encode_simple_receive_packet`, and `Return`
leaves it. By its contract (`codec_internal.h` 211-223) the codec takes a frame and makes a packet of the
oldest one it has, or none (`CodecDelay`, `Skipped`), or fails (`EncodeFails`);
drained with NULL it answers without a packet only when it has nothing left, which is
what `encode_simple_internal` takes for the end.

Left out: codecs that implement `receive_packet` themselves, frame threads,
reconstructed frames, timestamps and side data, ICC profiles, the padding of
short frames (it changes samples only), allocation failures.

### EncodeLoop

The two programs have the same shape and differ in two decisions: whether the
answer of `avcodec_receive_packet` is looked at, and whether the frame has a format,
without which `av_frame_ref` refuses it (`libavutil/frame.c` 258-261, 375-378).
`expected` is a history variable: the packets of the frames the encoder took. A last
partial read leaves the tail of the samples before it in the buffer
(`encodeAudioDemo.c` 116); samples are not modelled.

### SliceThread

Every thread has a `pc`; a critical section that cannot block is one action, and
`pthread_cond_wait` splits it. A worker holds `w->mutex` from one wait to the
next, so that `MutexFree(w)` is a matter of its `pc`. The two `fetch_add`s of
`run_jobs` are `TakeFirst` and `TakeNext`; `IsLast` is the test by which one
thread of a round, and only one, ends it. Creation may fail at any worker and then
runs the destruction with what there is. `runs` counts, for the refinement, how
often a round started each job. The functions called back are clients: they
return at last.

### MessageQueue and Channel

`Send` and `Recv` are one pass through the loop under `mq->lock`: they return,
signal, or go to sleep. `FifoWrite`, `Peek` and `Drain` are the offset arithmetic of `fifo.c`
with the flag that tells a full ring from an empty one. The refinement maps
the ring to a sequence, and the two condition variables to promises of progress.
A flush empties the channel, as threadmessage.h 106-112 promises. Without a `free_func`
`av_thread_message_flush` removes nothing (threadmessage.c 233-234): `Channel` has an
action for this exception, `FlushKeeps`, and without it TLC finds `ChannelSpec`
violated by a flush of a queue that holds a message.

### BufferPool

Atomic operations and sections under `pool->mutex` are one action each. A block
stands for data, `AVBuffer` and pool entry together; `apart` says that its `AVBuffer`
was allocated apart, `no_free` is its flag, and `free_avbuffer` the local that
`buffer_replace` reads before the callback. Clients are any number of threads, which hand
references to each other (`Give`). `av_buffer_pool_uninit` is called while
nobody is inside `av_buffer_pool_get`, as its users do.

### FrameThread and FrameQueue

A worker is a record (`threads[i]`) with the fields of `PerThreadContext` that carry control
and a `pc`; `user` is the place of the user's thread and the locals of its call. `ctx` stands
for the whole codec context: the number of the packet that last updated it.
`hw` says whether the context has an accelerator, which may be thread-safe
(copied with the context) or not (passed on through `stash` under `hwaccel_mutex`),
and may be one that works only while the user is inside a call (`async_lock`).
`Setup`, `Await` and `Decoded` are what a codec's decode function may do. Packets above `MaxPackets`
are the empty ones of a drain and give no frames, so that draining ends.
`RefFailsWith` names the accelerators with which `av_packet_ref` is made to fail.

Left out: failures while the threads are created, `ff_thread_get_buffer` with its
mutex, `ff_thread_can_start_frame`, the copies of the user's options.

## Runs

| run | instance | shows |
|---|---|---|
| `decoder` | 4 units (one corrupt, one hidden), packets of up to 2, delay 2, failing drains, 1 tolerated error | the end never overtakes a packet, end of stream only when empty, a hungry decoder takes the next packet, calls return, polling reaches the end; it implements `Pipe` |
| `loop` | six programs; every input of up to 5 video packets, or of up to 2 audio packets of up to 2 units, with packets of other streams; delay 2 | nothing refused, pending or missing; the programs end, or keep reading |
| `lifecycle` | thirteen programs, every call failing or not | releases complete; undefined behaviour confined to acquisitions jumped over and to two programs named in the property |
| `muxer` | 3 streams with different time bases, one of subtitles, one of sparse data (SMPTE 2038), 4 packets, dts 0..2, failing writes | list and pointers sound, file interleaved, nothing lost, doubled or withheld, calls return |
| `remux` | every input of up to 4 packets of 2 kept streams and of an unhandled one behind them, failing writes | `mp4toflv` is faithful, stops early for write errors and at the first packet it cannot place, there only, and its file is complete |
| `encoder` | 5 frames (one skipped, one short, one unfit), delay 2, a codec that may fail, flushes | the one end flag never overtakes a frame, a hungry encoder takes the next frame; it implements `Pipe` |
| `encoder_flush` (violation) | a flushable encoder with a fixed frame size | avcodec.h 3041-3046 promises that a flushed encoder takes another stream; `last_audio_frame` survives the flush |
| `encode_loop` | both encoding programs, every input of up to 5 frames of 4 kinds, a codec that skips and fails | the file is complete and in order, samples are overwritten only when free, a program that looks at the answers ends |
| `slice_thread` | up to 3 threads, with and without `main_func`, calls of up to 5 jobs without end, failing creations, spurious wake-ups | nothing of a round is left when its call returns, calls and destruction end; it implements `ParallelFor` |
| `message_queue` | 3 threads, 2 messages, 2 places, errors set and cleared, flushes, the end, spurious wake-ups | no wake-up is lost; it implements `Channel`, with its promises of progress and its named exception |
| `buffer_pool` | 3 threads, 2 blocks, up to 2 references each, the pool's uninit at any time | counts match references, a writer is alone, the pool lives as long as it is needed, nothing is freed twice, early or never |
| `frame_thread` | 2 workers, 6 kinds of codec and accelerator, 3 packets and a drain, refusals, failing copies, flushes at any time | the file's assertions hold, contexts and results in packet order, one user of an accelerator; it implements `FrameQueue`, and every call returns |

The deepest properties: `DrainOrder` and `EofMeansEmpty` relate the three
end-of-stream flags to what is still upstream of each; `PipeSpec` is refinement
(FIFO order, no loss without a reported error, end only when empty), of one abstract
queue by two pipelines that were written apart;
`NothingPending` relates file, codec and everything sent at each read;
`ListSound`, `Interleaved` and `Conserved` are the invariants the muxer's list
code relies on without stating them; `RemuxFaithful` compares the muxer's content with the
input in each stream's own time base. `Quiet` is what lets
`avpriv_slicethread_execute` write its fields without a lock; `NoLostWakeup`
says why one signal for a message is enough; `PoolOutlives` counts the
owner, the buffers out and the threads inside against one counter;
`ContextInOrder` and `HwExclusive` are what the states, locks and waits of
`pthread_frame.c` are for.

**Bounds.** The state of decoder and encoder is bounded by itself (each buffer holds a packet
or a frame, the codec its delay): the runs explore every client behaviour, of any
length. Two frames of delay let a corrupt, a hidden and a good frame meet in every order.
Five video packets fill the codec and push frames out of it, with an error between any two.
`NbErrorsMax` is 21 in the code; 1 reaches the counter's comparison
from both sides. Four packets fill the muxer's list with
two of one stream and one of each other, enough for an insertion in the middle, a pointer that moves, and
a list longer than the limit of `MaxDelta`. `MaxPackets`, `VideoLen`, `AudioLen`, `InputLen`, `Rounds`
bound histories, not states of the code; `Rounds` only caps a counter. A decoder
without delay is covered by the theorems. Three slice threads are two workers and main, or
three workers: enough for one to lag behind, one to be the last and one to sleep;
five jobs are more than threads, and one job is fewer. Three threads on a ring of two places
allow two senders asleep while one receives, and the reverse. A pool of two blocks and
three threads lets one thread get a block again while another still is between the
callback and the end of its `unref`. Two workers are the smallest number of
`thread_count` and wrap around with every second packet; three were tried with the safety
properties and `QueueSpec` (3.5 million states), and the theorems hold for any
number. `MaxRefs` and `MaxPackets` bound clients. What a packet was is told
by its number, so that longer streams repeat the same states with larger numbers.

**Fairness.** Library code runs on the caller's thread and has no reason to stop
inside a call: weak fairness of `Library`, `MuxStep`, and of whole programs
(`LoopNext` of both loop modules, `RemuxNext`). `DrainTerminates` also assumes a client that keeps
polling (weak fairness of `ReceiveFrame`), which is what avcodec.h 143-144 asks
of it. Nothing is assumed of clients of the muxer. The modules with threads
assume what a scheduler gives: a thread that can run does at last (weak
fairness of each worker and of the main or user's thread, of each thread inside a call of a
queue), and so a thread that wants a lock which is free again and again gets it. No
caller owes a call, and nobody owes an error, a failure or a spurious wake-up. A codec's
decode function and a job return at last.

`CHECK_DEADLOCK` stays on everywhere: final states stutter by an action of their own.

## Disagreements that are noted, not run

- avcodec.h 158-161 guarantees that EAGAIN on one end excludes EAGAIN on the other;
  a send that reports the error of an earlier packet leaves its own packet
  queued (decode.c 699), and both ends then answer EAGAIN once.
- When the codec fails while it is drained, the loop of decodeVideo.c 23 ends and
  frames stay in the codec, against the comment of line 155.
- `demuxing_video.c` (73, 81) and `mp4toh264.c` (91, 103) close their output twice,
  and their loop frees the packet its next round uses (70, 88).
- `mp4toflv.c` 62 says that some streams are not handled, and 105-108 are to skip their
  packets. The test looks at element 0 of the array and not at the packet's, and 115 indexes the
  output's streams with the input's index: a packet of an unhandled stream aborts the remux, and
  one behind the output's streams indexes past their array. `StopsAtUnplaceable` says when.
- `encodeVideoDemo.c` 24 does not assign the answer of `avcodec_receive_packet`:
  the loop calls it again after the end of the stream, for ever.
- When `av_packet_ref` fails in `submit_packet` (pthread_frame.c 471-475) the
  accelerator has left the stash already (464-468) and stays in a thread without a packet:
  an assertion (463, 644 or 348) ends the program later. It takes a thread-unsafe
  accelerator and an allocation failure; adding `"serial"` to `RefFailsWith`
  shows it.
- `ff_thread_flush` does not look at the result of its copy (pthread_frame.c 906):
  the next packet may start from an old context (`Forgot`).
- `av_thread_message_flush` without a `free_func` keeps the messages
  (threadmessage.c 233-234), against threadmessage.h 106-112 and the comment of line 235;
  `FlushKeeps` is the exception to `ChannelSpec`.
- `captureAudio.c` 175 and `captureVideo.c` 175 free an opened input without closing it.
- An empty VP8, VP9 or SMPTE 2038 stream switches `max_interleave_delta` off (mux.c 977-981),
  against avformat.h 1573-1576.
- A second packet with dts 0 is accepted in a strict format, because `cur_dts` 0
  counts as unset (mux.c 576, avformat.h 2574-2576).
- `mp4toflv` to a format with strict timestamps aborts when rescaling makes two
  timestamps equal; flv itself allows it (flvenc.c 1273).
- The video file programs release packets of their own stream only
  (decodeVideo.c 141-153), against avformat.h 2330-2331 and 2345-2346. `Unref` does the
  same; no property speaks of it, as one that excepts the leak would only repeat the test.
- An early `goto fail` jumps over the declarations of pointers that the cleanup
  block tests "if not null" (decodeVideo.c 75 to 164 and 169, comments 163 and 168): they are
  indeterminate there. `WellDefined` confines it to programs that fail before their loop.
- `demuxing_audio.c` 97 tests a stale `ret` after the write; `encodeAudioDemo.c`
  105 tests the wrong file, and `main` of both encoding programs ignores failures of encoding.

## Proofs

`DecoderProofs` proves of `Decoder`, for every set of units and packets, every
delay and every error bound: `TypeCorrect`, `DrainOrderCorrect`, `EofCorrect`,
`HungryCorrect`, `NoEagainCorrect`. They assume
`PacketAssumption` (packets are non-empty sequences of units), `CodecAssumption`
and `NbErrorsAssumption`, which every decoder run evaluates.

`DrainOrder` and `HungryMeansAccepting` are not inductive: whether a step keeps
them depends on where the running call is. `CallShape` says so: the filter holds
a packet only while the fetch loop runs, the loop runs only with an empty
`in_pkt`, no call runs while a frame waits in `buffer_frame`, a send never runs
once draining started, a codec without delay holds nothing. `IInv == TypeOK /\ DrainOrder
/\ CallShape /\ HungryMeansAccepting` is inductive (`IInvStep`, one step per
action); `EofMeansEmpty` and the action property `NoEagainWhenDraining` follow from it.

`EncoderProofs` proves of `Encoder`, for every set of frames, every delay and
every combination of capabilities: `EncoderTypeCorrect`,
`EncoderDrainOrderCorrect`, `EncoderHungryCorrect`, from `CodecAssumption`,
which every encoder run evaluates. Here `TypeOK` carries bounds (a buffer holds
one element, the codec its delay) and `CallShape` says that a call runs only
while `buffer_pkt` is empty; without it a receive that answers EAGAIN could
leave a packet behind. `OutputShape` and `ReturnShape` are what the actions share.

Both modules prove, for the same constants, the refinements:
`DecoderIsPipe` and `EncoderIsPipe`, `Spec => PipeSpec`. The queue is the
concatenation of the buffers from the newest unit inside to the oldest one waiting
for the client, so a step that moves a unit between neighbours is a stutter (`PipeFetch`),
which associativity shows; a step of the codec takes the head of the queue or leaves a run
out of its middle (`CutOut`, `LoseMaps`); a call of the client appends or takes
(`PipeClient`). Beyond `IInv` this needs that what waits for the client is one unit it
may see and that a receive runs over a blank result: `FrameInv` and `PacketInv`.

`FrameThreadProofs` proves of `FrameThread`, for any number of threads from two up, any
number of packets and any codecs that `CodecsAssumption` allows:
`FrameThreadTypeCorrect` and `ContextInOrderCorrect`. That a packet starts from
the context of its predecessor is not inductive: it needs that the workers take turns
and that at most one of them, the last one given a packet, is setting up
(`TurnInv`), where the last packet left the context (`LastInv`), what the user has
waited for at each place (`UserInv`), how a worker's `pc` and its state go together
(`StateInv`), and that nobody is told to die while packets still come (`DieInv`).
Their conjunction `OrderInv` is inductive (`OrderStep`). The broadcasts change many
workers at once; `WakeShape` says that they change nothing the invariant speaks
of, `OrderByWorker`, `OrderByUser` and `OrderByOne` reduce a step to the one
thread that moved.

It proves for the same constants `HwExclusiveCorrect` and
`NoAbortCorrect`, with the hypothesis that the run makes too, `"serial" \notin RefFailsWith`
(see the disagreements above). `HwInv` adds to `OrderInv` where a worker with an accelerator must hold
`hwaccel_mutex` (`HwThread`) and the async lock (`AsyncThread`), that the async lock has
one holder, a worker or the user's thread between its calls (`OwnerInv`), and that the stash
is full only between the setups of two packets (`StashInv`). A worker that is ready has an
accelerator only if it is thread-safe (`Idle`), which is what the user's thread
asserts and keeps when it copies a context, also when the copy fails (`IdleUpdated`).

`FrameThreadIsQueue` states `QueueSpec`, the refinement of `FrameQueue`, without that hypothesis. The queue
has no variable of its own in `FrameThread`: `Inside` finds the packets by their numbers
in the records of the workers. `RingInv` says where they are: n packets with n workers in a
row (`HeldIn`), from the oldest one the user would collect (`First`), and the next packet goes to the worker
behind them, except at the end of a stream, when the draining call has passed over the
workers without one (`Drained`). `CallInv` ties the locals of the user's call to
the stream's state, and `ResultInv` says that a worker without a packet is ready and has no
result. `RingShape` and `NextShape` are the arithmetic of the ring, `NearCount` counts a stretch
of it by a bijection, and `InsideView` derives from it that `Inside` lists the stretch, so that
a hand-over appends to the queue (`AppendOne`) and a collected worker is its
head (`TailOne`). A step of a worker is a stutter or the end of a decoding (`OneAnswer`). That the end of
the stream is announced with an empty queue rests on the bound that `RingInv` keeps on what
a draining call has collected and what is left.

`FrameSomeoneGoesOnCorrect` is the freedom from deadlock, with the hypothesis of `HwExclusiveCorrect`:
while the user is inside a call, the user's thread or a worker can take a step that is more
than a test of a condition that sends it back to sleep (`UserGoesOn`, `WorkerGoesOn`). `WakeInv` says
that nobody sleeps on a condition that has come about (`UserAsleepInv`, `AsleepInv`, `JoinInv`),
that a lock that is taken has an owner (`HeldInv`), and that a worker waits for the frame
of an older packet only (`FrameInv`), which `QueueInv` places before it in the ring. So the oldest
worker past its setup goes on (`OldestGoesOn`, a least element by position in the ring); if there is none, the one that is
setting up finds its locks free or held by one that goes on (`SetupGoesOn`); if there is none of
these either all workers are ready, and the user's thread goes on (`UserGoesOnOrJoins`).

`MessageQueueProofs` proves of `MessageQueue`, for any finite set of threads, any
messages and any size of the ring (`ThreadAssumption`, `CapacityAssumption`):
`NoLostWakeupCorrect`, and `QueueIsChannel`, the refinement of `Channel`, exception included, apart from its
fairness. `NoLostWakeup` is inductive once the size of the ring is known to be what
its offsets and its flag say (`RingOK`): a write adds one message and a drain of n removes n
(`WriteSize`, `DrainSize`), and a signal makes one more thread runnable, if one
sleeps (`SignalledAt`). For the refinement the content matters: what `Peek` reads
through the wrapped offsets is a sequence to which a write appends and from which a
drain takes the head (`WriteAppends`, `DrainsHead`, `DrainsAll`). `ChanInv` adds
that the slots of the content hold messages and that the arguments of a
thread fit its `pc`.

`SliceThreadProofs` proves of `SliceThread`, for any numbers of threads and jobs:
`QuietCorrect`, and `PoolIsParallelFor`, the refinement of `ParallelFor` apart from its
fairness. That nothing of a round is left at its end is a matter of counting:
`current_job` starts at the number of threads, and from `nb_jobs` on it counts the threads that
have ended. `CountInv` says that it and the size of `Rest`, the threads the round still
waits for, add up; so the thread that draws the last number leaves `Rest`
empty (`EndStep`). `TokenInv` says that the end is announced once, by a report or by
`ctx_done`, and only with `Rest` empty; `PoolInv` and `CreateInv` that a round meets
all its workers started, none of them woken twice. For the refinement `JobInv` tells from the
two counters which jobs were taken: those below `first_job`, and those from the number of
threads up to `current_job`; what is left below the number of threads is as much as
threads have still to begin (`Starters`), so that the first jobs are all taken when
the round waits for nobody (`RoundOver`). `FreeInv` says that no job runs while the pool is freed.
`SomeoneGoesOnCorrect` is the freedom from deadlock: from the creation of the workers to the end of
`avpriv_slicethread_free`, whenever main is inside a call, main or a worker can take a step that is
more than a futile test. `WakeInv` says who may sleep: a worker with nothing to do, main only
until its new worker has started (`ReadyInv`) or the thread that ends the round has reported it
(`EndInv`), and who is dismissed leaves (`DismissInv`).

`SelectionProofs` is about `Omit`, which leaves elements out of a sequence. Its
recursive function exists (`KeepsExists`) and distributes over `Append` and `\o`
(`OmitAppend`, `OmitConcat`); what stays stands in the order it stood in (`OmitPicks`), and
numbers can be listed in order in one way only (`ListsAgree`). Where one would use
induction the proofs take a least counterexample (`LeastNat`).

`DecoderProofs` goes on with `DecodeLoop`: for any input, any codec and any record of
decisions in `Programs`, `NothingPendingCorrect` and `CompleteOutputCorrect`. `InputsAssumption` says what a demuxer returns.
`LoopInv` adds to the invariant of the decoder (`PipeInv`) a balance: the file, the frame about
to be written, the visible part of what the codec holds and what the packets inside
would still give are `expected` (`Balance`). One packet at most is inside (`OneWaiting`),
which buffers are empty at each place of the program, and how its calls end there, is
`Places`. The balance breaks for good once the codec fails while it is drained, which is what
`CompleteOutput` excepts. Reading always finds the queue of the decoder empty, so that no
send is ever refused. The units of a packet after a corrupt one go with it (`Shown`), which
is why the balance has the units still inside and not the packet that was sent.

`EncoderProofs` goes on with `EncodeLoop` likewise: `EncodeLoopCompleteCorrect` and
`SamplesFreeCorrect`, for any length of input and both decisions of a program.
`Ending` says how far draining has come at each place; a program that does not
look at the answers never reaches `done`, and its file is right wherever it is.

`BufferPoolProofs` proves of `BufferPool`, for any finite sets of threads and blocks
(`FiniteAssumption`): `BufferTypeCorrect`, `CountsSoundCorrect`,
`WriterAloneCorrect`, `PoolOutlivesCorrect`, `NothingLostCorrect`. Between the atomic
decrement that finds zero and the end of `buffer_replace` a block is in the hands of one
thread: nobody has a reference, the list does not have it, and a second thread that gets it
anew meets an `AVBuffer` flagged `NO_FREE`, not the one to be freed. `BlockInv` says so for each block
(`Sound`, `InHand`, `Placed`, `Apart`), `ThreadInv` for each thread, and
`PoolCounted` adds up the pool's count: the owner, the blocks out, the threads on
their way to the decrement. Their conjunction `IInv` is inductive. The weight of a reference count is a
cardinality (`Refs`), so most of the work is what one `Give`, `Ref` or `Unref` does to sets
of references.

`MuxerProofs` proves of `Muxer`, for any number and kinds of streams, any time
bases, limit and failing writes: `ConservedCorrect` and `StreamOrderCorrect` whatever
the client sends. `Books` is inductive: ids are given once and are in order within
a stream, over file and list, every one is in the file, in the list or lost, and each
pointer names its stream's last entry. `ListSoundCorrect`, `InterleavedCorrect` and
`NothingWithheldCorrect` have a hypothesis, `[][NeverBack]_muxVars`: the client's
dts do not go back within a stream. This is the client's duty (avformat.h 2574-2576) and not
a consequence of the check in the library, which lets a dts go back behind a dts of 0
(mux.c 576); `GrowingCorrect` says that the check is enough when no dts
is negative, or none is 0. `Timely` then is inductive: list and unforced file are sorted, and nothing in the
file has to come after a packet that is still to be accepted (`Settled`); the insertion looks behind the
stream's last packet only, which is enough since the tail behind it is sorted
(`PositionFits`, `InsertSorted`).

It goes on with `Remux`. Every step of the program is one of the muxer or none
(`RemuxMoves`), so `Books` holds of it, and `Copying` adds that each entry is the
packet of the input that has its number, rescaled (`RightCopy`).
The lemma `CopiesFaithfulCorrect` says packet by packet that nothing is lost, doubled or reordered, for any
streams, with the time base the code looks up. `RemuxFaithfulCorrect` is about the
time base of the packet's own output stream, and has to assume that the two agree (`BasesAgree`): they do
when the handled streams are the first ones of the input, or when the format has one time base for all streams, as FLV
has (flvenc.c 844; `BasesAgreeWhen`). For other streams and formats it is false.
`FileCompleteCorrect` assumes an input whose dts do not go back (`InputsGrow`): rescaling keeps
the order (`RescaleGrows`), so the program is a client that keeps its contract (`RemuxNeverBack`).
`StopsAtUnplaceableCorrect` assumes that and a format that takes equal timestamps, as FLV does
(flvenc.c 1273), since rescaling may make two equal. It holds for any streams, handled or not, in any order, and any
packets of them: what gets through the two lookups has an output stream (`OutStreamExists`) and is written; what does
not ends the program, by the muxer's answer to the stream index -1 or past the end of the array.

Its last section is about `Lifecycle`: `ReleasesAllCorrect` and `WellDefinedCorrect`, for any of the thirteen
programs (`ProgramsAssumption`) and any number of rounds. The argument is not a visit of the
states. `Disciplined` is a condition on a table, and `MainsDisciplined` finds that all thirteen keep to it: a step
that may leave the program releases what was acquired before it (`SafeExit`); but for two programs nothing is
released before the cleanup, which releases each thing once, and a main loop
comes when everything the cleanup tests is initialised, and is followed by checks only (`Tame`); two programs
survive no failure and use what they acquired (`Strict`). The steps preserve `LifeInv` whatever
the table, as long as it is disciplined: what is owned was acquired on the way (`LifeOwnedInv`), nothing passed is
uninitialised and nothing kept is stale (`LifeKeptInv`), and a round done tells that the loop's
resources were live (`LifeRoundInv`). A program added to the tables has to be shown disciplined, and no more.

Only model-checked: liveness (`CallsReturn`, `DrainTerminates`, `Terminates`,
`MuxCallsReturn`, `Returns`, and the liveness in `LoopSpec` and `ChannelSpec`), which the prover
does not reach. Of `Returns` the freedom from deadlock is proved for both kinds of threads (the theorems
on who goes on, above); that what can go on does, and gets to an end, stays with TLC.
Every safety property that a passing run checks is the statement of a theorem, some under a
hypothesis named above; of `LoopSpec` and `ChannelSpec` it is the part without fairness.

## Plan

Done: all modules of the table, the theorems of the eight proof
modules. What would come next, in this order:

1. The data path of the extracting programs: the stale `ret`
   (`demuxing_audio.c` 97), the bitstream filter fed packet by packet.
2. `Decoder` over `FrameThread`: the EAGAIN and error rules of `decode.c` for a
   codec that answers N - 1 packets later.

## Not modelled

Of the 1.8 million lines of the repository nearly all are vendored: codecs, parsers,
filters, scalers, demuxers, muxers and devices, tables and headers. They compute on
pixels, samples and bit streams behind the callbacks that the modelled components call;
their state is data, not control, and no small instance of a table-driven transform says anything
about it. They are seen through their contracts. This is why the map covers
a small share of all lines, though most lines of the files it names.

Left out of what could be modelled: `refstruct.c` (the sibling of `buffer.c`, same
scheme), growth of a fifo, `av_buffer_realloc`, `av_write_frame` and chunked interleaving,
the resampler's and filter graph's queues, failing allocations inside the
library except where a property is about them. `test.c`, `demuxing_dir.c`,
`avlog.c`, `main.c` and `1.c` keep no state beyond a call.
