# TLA+ models of video-stitcher

video-stitcher joins the recordings of two cameras at the halfway line into one
virtual-camera video: it decodes two files, renders a viewport of the panorama
for every pair of frames, lets a detector, trackers and a panner move that
viewport, and encodes the result. The Rust workspace under `src/crates/` is the
reference; `src/cpp/` is a port that follows it.

These modules model the parts of it where order matters: the two run loops of
`StitchSession`, the threads and rings of GPU buffers around them, the sources
and sinks at both ends, and the three programs that drive them (command line,
desktop, OBS). Pixels, geometry and inference are left out, and so is everything
that is a pure function of a frame.

- `PROJECT.json` lists components, runs, mutants, hazards, findings and theorems, and maps
  each definition to the lines it models.
- Model-check: `tlc -config X.cfg M`. Prove: `tlapm M.tla`.

## 1. The system and its components

| Component (code) | State it keeps | Operations | Hard behaviour | What makes it correct |
|---|---|---|---|---|
| Buffered run loop: `session/run_loop.rs`, `frame_buffer.rs`, `vram_pool.rs` | look-ahead buffer, pose queue, past poses, slot pool, counters, end flag | produce, pan, render, drain; a limit, an interrupt or an error at any point | four phases share one end flag; panner runs half a window ahead of the renderer; the pool is sized by a formula | every frame rendered once, in order, from its own pixels, with whole windows; pool never dry; the loop ends |
| Immediate run loop: `run_loop.rs`, `frame_processing.rs`, `detection.rs`, `detection_dispatch.rs` | frame count, retained detections, D3D11 staging slots | one frame: detect, track, pose, render | detections outlive the frame they were made on; staging slots are read before they are written | bounded age of what a pose is decided on |
| Tracking: `reco-autocam/trackers/` | last position, coaster, age | `update` per frame | two state machines (tracker, coaster) that must agree | no phantom ball, one loss per track, no leap |
| Output: `session/mod.rs`, `frame_processing.rs`, `wiring.rs` | encoders, frame count | render, read back, hand over, finish | one of several encoders may die; the last frames come out only on finish | outputs agree; Ok means whole files |
| Async encoder: `async_encode.rs` | job channel, buffer pool, thread | submit, finish, drop | blocking on a channel whose other end may die; join against a waiting thread | frames in order; no call hangs; bounded memory |
| Readback rings: `gpu/nv12_converter.rs`, `gpu/rgba_readback.rs` | three staging buffers, write slot, pending count | convert_and_readback, flush_pending | CPU reads what the GPU wrote some time ago | each frame once, in order, finished |
| GPU replay: `gpu/yuv_stack_packer.rs`, `core/replay_management.rs`, `stacked_video/replay.rs` | staging ring, warm-up counter, recorder | enable, attach, pack, poll, detach, disable | enabled and attached in any order | recording contiguous and in order |
| Decoder: `ffmpeg/decoder.rs` | send_eof flag, codec | next_frame (four paths), seek | frames held back by the codec at the end; seek after the end | None only when everything was delivered |
| Zero-copy source (Linux): `zero_copy.rs`, `smart_source.rs` | per camera two slots, channels, threads, shutdown flag | decode, pair, hand over, release, drop | four threads and the GPU share slots; ends, errors and drops in any order | a slot is in one place; pairs in sync and complete; no thread stuck |
| CPU file source: `adapters.rs` | two decode threads with their channels, pair offset, position | open, next_pair, seek forward (drain) and backward (respawn), drop | decode threads run ahead of a seek; a wrapped error looks like an end; timestamps are rounded | what is shown is the frame of that number; a blocked call returns |
| Video encoder and stitch job: `ffmpeg/encoder.rs`, `stitch_job.rs` | candidate list, codec, pts, audio reader with its offsets, finished flag | open, send, receive, copy audio, finish, drop; an error at each | audio is copied alongside from a chain of files; a failure between two writes; finish called again or not at all | packets in order; sound never ahead; Ok only for whole files |
| Live cameras: `gstreamer/`, `v4l2.rs`, `libcamera.rs`, `reco-cli/camera.rs` | per camera a queue, a thread, the last frame lent | capture, drop, pair, render, release, stop | two cameras that pair by arrival; queues that overflow; buffers lent to the GPU | pairs in step until a drop; a lent buffer is kept; the threads end |
| Desktop application: `reco-gui/` | file chains, calibration, preview, recorder, jobs, answers | pick, remove, reorder, clear, calibrate, play, seek, record, export | answers of threads come back after the selection changed | preview and recording belong to the selection; a finished job is noticed |
| OBS source: `reco-obs/` | settings, core, sizes, recorder, attachment | create, update, tick, frontend events | settings change while OBS records and the cameras change size; GPU and disk come and go | recording follows OBS; the core has the size of the frames |
| Command line preview: `reco-cli/preview.rs`, `main.rs` | control flow, position, pending seek, redraw flags, recording with its readback ring, interrupt flag | keys, drag, redraw, about_to_wait, Ctrl-C | one event loop that sleeps unless something asks it not to; recordings end in five ways | what was stepped or sought to is drawn; recordings do not mix; Ctrl-C ends it |
| Event sink: `detect/pipeline_event.rs`, `jsonl_sink.rs` | bounded channel, drop counter, thread | emit, drop | emit must not block; drop must drain and join a thread whose sink may panic | each event is written or counted; drop returns |
| StitchCore: `core/`, `gpu/rgba_readback.rs` | readback ring, replay buffer, pose | four submits, flush, enable, clear and take the replay | a readback that fails in the middle of the ring; flushes at any time | frames come back in order, none lost but those that failed; the replay buffer is its whole window |
| Control: `reco-control/` (pose, intents, keys, GoPro) | held keys, pose | intents, tick, requests | none across calls: each is a lookup or an integration step | numerical |
| Calibration: `reco-calibrate/` | accumulated frames, attempt | add, calibrate, telemetry queue | compares floating-point scores | numerical |
| Numerical parts: projection, lens, rendering, detectors, optimiser | none that outlives a call | | | not modelled |

How they interact: the session pulls frames from a source (a blocking call whose
answer `None` ends the run), detects and tracks on the frame, renders, and hands
finished pixels to one `AsyncEncodeThread` per output. Sources have threads of
their own and get their slots back from the session. Everything else is a call
on the session's thread; the GPU is a queue that finishes submissions in order,
later. The desktop application runs sessions and calibrations on worker threads
that answer over a channel or a shared slot polled by a timer of the user
interface. The OBS source is called by OBS: ticks on the graphics thread, updates
and frontend events on the thread of the user interface.

## 2. Modules

| Module | Models | Checked by | Proved in |
|---|---|---|---|
| `FramePipe` | the abstract promise: frames leave in the order they entered, each once, none skipped, at most `Capacity` inside | through the three refinements | |
| `Lookahead` | `run_buffered` | `session_input`, `lookahead_previous` | `LookaheadProofs` |
| `ZeroCopySource` | threads, slots, session, drop | `session_input`, `zero_copy_reuse` | `MCSessionInputProofs` |
| `VideoDecoder` | packet loop, end of stream, seek | `session_input`, `video_decoder_hardware` | `MCSessionInputProofs` |
| `AsyncEncode` | `AsyncEncodeThread` | `session_output` | `AsyncEncodeProofs` |
| `Nv12Readback` | the readback ring and its GPU | through `SessionOutput` | `Nv12ReadbackProofs` |
| `SessionOutput` | submit, finish, drop over several encoders; an instance of `Nv12Readback` | `session_output` | `MCSessionOutputProofs` |
| `GpuReplay` | GPU packer and recorder | `session_output`, `gpu_replay_lag` | `MCSessionOutputProofs` |
| `FileExport` | `VideoEncoder` in a stitch job, with its sound | `session_output`, `export_audio` | `MCOutputJobsProofs` |
| `ObsSource` | the OBS source and its replay recorder | `session_output`, `obs_replay_update` | `MCOutputJobsProofs` |
| `DetectTrack` | `run_immediate`, detection interval, staging slots, ball tracker and coaster | `live_match`, `detect_track_d3d11` | `DetectTrackProofs` |
| `LiveCameras` | six camera backends and the capture loops over them | `live_match` | `MCLiveProofs` |
| `StitchCore` | submits, flushes and the replay buffer of `StitchCore` | `session_output` | `MCSessionOutputProofs` |
| `EventTrace` | `BackpressuredSink` over the buffered JSON Lines sink | `session_output` | `MCOutputJobsProofs` |
| `FilePlayback` | `FfmpegFileSource` under a player | `session_input` | `MCSessionInputProofs` |
| `CliPreview` | the event loop of the command line's preview | `session_input`, `preview_seek` | `MCSessionInputProofs` |
| `Desktop` | selection, jobs and recording of the desktop application | `session_output`, `desktop_recording` | `MCOutputJobsProofs` |
| `MCSessionInput`, `MCSessionOutput`, `MCLive` | the systems TLC checks | | |

An `MC` module puts components side by side. They share no state in the program
as it is modelled (a session has one kind of source, and each output its own
pixels), so their product would only multiply states: the variable `turn`, fixed
by the initial state, says which component a behaviour is about, and the others
stay where they started. The state space is the sum of the components', and
every property is about each. A run's first invariant of an instance also has that module's
type invariant as a conjunct.

Operators named as mutants (`... Mutant of X`) are plausible faults of the
definition that follows them; substituting one for X makes the property it is
paired with in `PROJECT.json` fail. No specification uses them.

### Correspondence

**Lookahead.** `phase` and `step` are the place in `run_buffered`: pre-fill,
panner warm-up, steady loop (produce, pan, render in turn), drain. `buffer`,
`poseQueue`, `pastPoses` and the counters are the locals of the same name.
A frame is its number; a pose is the number of the frame it was decided on;
`texture` says which frame's pixels a slot holds. `backend` chooses between the
reference counted `VramPool` and the Windows staging pool, which hands out slots
modulo its size. `ProduceOne`, `RunPannerOnce` and `RenderFront` are the closures and the
function of these names with all they call; `Interrupt` is the Ctrl-C handler of
the command line. `decision` and `shown` record what the panner and the
renderer were given.

**DetectTrack.** One action, `ProcessFrame`, is one turn of `run_immediate`:
detect (on every `interval`-th count), track, then stage and render. With
`residency = "D3d11Staging"`, the frame is copied to its slot only after
detection read that slot, and the frame that creates the pool is not counted.
A position is one yaw in whole units; the pitch adds a second coordinate to the
same distance. The detector's output is chosen freely. `seenOn` and `decided`
remember on which frame's detections the tracker and the pose depend. The
player tracker is stateless (`ClassProvider`), so its output is `players`.

**AsyncEncode.** The caller's `submit` is two actions (`TakeBuffer`, then
`TrySend` or a blocked `Send`) because the worker runs in between; `Close` and
`Join` are the two halves of `finish` and `drop`. The encoder may take a frame, fail
or panic at any job.

**Nv12Readback, SessionOutput.** A convert is `Submit` and `Readback`, with
`GpuFinishes` free to come between them. `SessionOutput` drives that ring the
way `submit_render_output` and `finish` do and hands each frame to the encoders one by one
(`Hand`), so an encoder can die between two of them.

**GpuReplay.** The operations of `StitchCore` on packer and recorder and `Pack`, which
is the copy, the poll and the write to the recorder.

**VideoDecoder.** A codec that holds back `delay` frames. `Path` picks the CPU
path or one of the hardware paths, which differ after the end of the stream. A decode error
ends the caller's use of a decoder, so it is not a step.

**ZeroCopySource.** A decode thread is a program of five places with the
channels it waits on. The pairing thread's two receives are two steps. The
session renders from the slots (`Immediate`) or copies them and waits (`Buffered`);
`GpuDraws` reads the slots when the GPU gets there. Channels have the capacities
of the code (2, 1, 1). `recv_timeout` may give up at any time a slot is missing.

**FileExport.** A stitch job from opening to its answer. `CandidateFails` and
`Opens` are the search through a codec's encoders; `SendFrame`,
`ReceivePacket` and `ReceiveNone` the packet loop, whose packets go to the
stream first (`WriteToStream`) and then to the file; `CopyAudio` is
`forward_audio_packets_until`, one packet or segment at a time; `Finish`, `Drop`
and `WriteTrailers` close the files. Each call of FFmpeg may fail; `quiet`
names the errors on which the code ends a loop without reporting them. Time is
counted in frames, an audio packet lasts one, and `at` is its place in the recording.
A segment may be silent, end early, or carry stamps that do not start at zero.

**ObsSource.** `src` is the `RecoSource`; `Init` is the source as `create`
leaves it. OBS's calls are actions: `Update` with all properties of the dialog,
`Tick`, which polls every thirtieth time and finds pictures or not, and
`FrontendEvent`, which arrives later than `ObsPress`, the user's Record or
Stream. `CameraChanges` is a camera that appears or changes its resolution, and
`MachineChanges` a GPU or a disk that stops working or works again. A recorder's
`frames` starts over when its path is opened again.

**StitchCore.** `staging`, `currentSlot` and `pendingCount` are those of
`RgbaReadback`; `Submit` stands for the four submit methods. `ReadbackFails` is the
early return between the copy to the ring and its advance: the next frame takes
the failed one's slot. `Push` stores the pixels a submit returned with the time and
the pose (`pose`) of that submit, and evicts by age. `pushed` remembers what
the window was cut from.

**EventTrace.** `Emit` is the caller's `emit` with its gate and `try_send`;
`Receive` and `InnerEmit` are the thread, whose inner sink writes, fails or
panics, and `FinalFlush` that sink's own drop; `Close` and `Join` are the two halves of
`drop`. Capacity 0 is a rendezvous. The JSON Lines sink writes through a `BufWriter`: `lines`
are the lines it took, the first `inFile` of which are in the file. A failed write may
leave the beginning of a line behind (`ragged`), which `torn` counts once it is joined to another.

**LiveCameras.** `backend` selects queue, pairing and release of one of the six
sources. Each camera has a `device` queue, a capture `thread` and a channel; a
full device drops its oldest or newest sample (`lost`), as the backend's appsink,
driver or pipe does. The pairing thread, or with NVMM the caller, takes one of each into
`pair`; `got` is the last pair the caller holds, `released` the releases a thread has yet to
hear. Ticks of the cameras are counted up to `MaxTicks`.

**FilePlayback.** Each decode thread decodes, blocks on its channel and ends at
the end of its file or at an error. A seek drains forward or respawns the
threads, by the distance the code compares. A frame is its number in the
file; its timestamp is ticks of the time base, cut to microseconds as the code cuts
it. The player steps, plays, seeks and reopens with another offset.

**CliPreview.** A turn of the event loop is any number of key events, the
requested `Redraw`, then `AboutToWait`; with `flow = "Wait"` it sleeps until the next
event. `needsRedraw`, `requested` and `pendingSeek` are the fields that carry one
handler's wish to the next. `ring` counts the frames in the recording's
readback ring. The source is what `FilePlayback` promises of it. `Interrupt` sets a flag on
another thread and wakes nobody.

**Desktop.** `input`, `calPath` and `calibration` are the selection; `calibrating`,
`calJob`, `exportJob` and `recording` the fields of `AppState` with the threads behind
them. User operations are free; each answer is taken by the timer action that polls
it. `bridge` is the preview: the files it plays and what is left in its readback
ring; `handed` says in whose file the last encoded frame is, and from whose time.

## 3. Runs

| Run | Expected | Bounds | What it shows |
|---|---|---|---|
| `session_input` | pass | look-ahead N = 4, 13 source lengths from 0 to 15, 5 limits, both pools; zero-copy both modes, cameras of 0, 1 or 4 frames, offsets -1, 0, 2; streams of 0 to 8 frames, delays 0 to 4, 2 seeks; player over files of 3 and 4 frames, offsets -1, 0, 1, 2 seeks; preview of 2 pairs out of 3 | frames reach and pass through a session, see below |
| `session_output` | pass | encode channel of 2, 7 frames; 3 outputs; 7 packs; two video candidates, four chains of up to 3 audio segments, two limits; two sizes, two formats, 3 changes around OBS; 7 submits to the core, replay windows of 0 and 2, time to 4; 6 events, channels of 0, 1 and 2, gates of 1 and 2; three files in the window, one unreadable, chains of 2 and 1, one recording | where frames go, see below |
| `live_match` | pass | intervals 0, 2, 3; 9 frames; coast budget 2; 3 positions, 2 weights, 2 balls, 1 player; six camera backends, queues of 1, 3 ticks | see below |
| `lookahead_previous` | violation | N = 2, 6 frames | the panner is not given the pose of the previous frame |
| `gpu_replay_lag` | violation | 7 packs | the atlas recorded is one submit old, not two; the first is never recorded |
| `video_decoder_hardware` | violation | as above, hardware path | frames are lost at the end |
| `zero_copy_reuse` | violation | Immediate mode | a slot is overwritten before the GPU drew it |
| `detect_track_d3d11` | violation | interval 1, 5 frames | on Windows detection is never on the current frame |
| `export_audio` | violation | chain of two segments | sound of the wrong place after a late start |
| `obs_replay_update` | violation | two sizes | an unrelated setting restarts the recording |
| `desktop_recording` | violation | two recordings | the second begins with the end of the first |
| `preview_seek` | violation | 3 pairs out of 4 | a seek in a paused preview need not be drawn |

**Why the bounds are enough.** Every ring and queue wraps at least twice: the
look-ahead pools (N = 4: 10 slots, at most 15 frames; sources shorter than the
buffer, than half a window, and longer than buffer and pose queue together), the
readback ring of three (seven frames, with a flush), the replay ring of three
(seven packs), the encode channel (seven frames over a channel of two and a pool
of three), the decode slots (two per camera), the decode channels of the player
(four frames over one place, twice by seeks; one file with stamps in whole ticks, a time base of
600, and the other in milliseconds, which rounds them) and the camera queues (three ticks over one place).
In `DetectTrack` nine frames cover
three detection intervals of three, a loss after the coast budget and a second
track; the yaws 0, 2, 3 lie inside and outside both the gate and the anchor.
An audio chain of three segments has a silent or damaged one between two good
ones; the windows start in the first and in the second. Two sizes are enough for
a camera to differ from the dialog and to change back. In `Desktop` a change
of the selection during each job, an answer for the old selection and a second
request all fit. The ring of `StitchCore` wraps twice and its replay window holds fewer entries than
time allows; the trace fills every channel. The preview's 2 pairs out of 3 leave a seek past the
last pair, and its ring of two fills. Each configuration has the shortest inputs as well (empty source, empty file,
limit 0). Counters are bounded by guards (`MaxFrames`, `SourceLength`,
`SourceLengths`, `MaxTicks`, `MaxSeeks`, `MaxChanges`,
`MaxTime`, `MaxEvents`, `MaxRecordings`) only. `CHECK_DEADLOCK FALSE` is set where a run ends by itself.

**Deep properties.** Some conjoin parts of several modules, named in the MC module.

- `RendersOwnPixels`, `PoolNeverExhausted`: the two pools are sized by
  formulas that have to cover buffer and pose queue at their joint peak.
- `WholeWindows`: no frame is shortchanged by the phase that handles it; the
  panner gets N future frames, the smoother half a window on both sides.
- `CompleteRun`: nothing is left in the queues of a run that ended by itself.
- `InputEnds`: the buffered loop ends (`Termination`), no thread of the zero-copy source waits
  for one that waits for it (`NeverStuck`), the decoder's end is reached
  (`EndIsReached`).
- `SlotHeldOnce`, `PairsInSync`, `AllPairsDelivered`: what
  two decode threads that pair by arrival order and share slots must keep.
- `NoneMeansFinished`: None comes after the last frame the codec held back.
- `ShownIsIndexed`, `PlaybackEnds`: the picture is the one whose number the player shows,
  after any seeks, or the one after it where the file's stamps are rounded; never does the
  rounding add up. A blocked call returns and playing ends.
- `RecordingsApart`, `InterruptHeard`: whichever way a preview's recording stops,
  its frames are in its file and no other; Ctrl-C ends a preview that polls.
- `DetectionsRecent`, `NoPhantomBall`: the age of the detections behind a pose and of
  a ball that is followed. `LostOnce`, `NoLeap`, `CoasterAgrees`: the life cycle of a track.
- `InStepUntilDrop`, `LentIsKept`, `CamerasEnd`: cameras stay paired by capture time as long as
  no queue overflows; a buffer is not given back while the session holds it;
  stop and drop end the threads.
- `FinishOkMeansAllEncoded`, `OkMeansWhole`, `OutputsAgree`: what Ok promises when one
  of several encoders may die. `BuffersBounded`: the memory of the encode queue.
- `IsFramePipe` (the buffered loop in `session_input`, the encode thread in
  `session_output`) and the first part of `FramesReturn` (the session's readback): refinement of
  `FramePipe` with `entered`, `out` and `state` mapped to the counters of
  the component; the capacity is N + N/2 + 1, `buffer_count` + 1 and 3. The second part:
  through failed readbacks `StitchCore` loses only the frames that failed.
- `ReturnsFinishedFrames`, `FileContiguous`: the CPU reads what the GPU finished; the GPU
  recording skips nothing once it began.
- `ReplayWindow`: the replay buffer is exactly its window of what was returned.
- `EventsAccounted`, `DamageCounted`: what passes the gate is in the file, in order, or behind
  it in the buffer, or counted, until a panic of the inner sink or a last flush that fails
  loses some uncounted; and no more lines are spoiled than writes failed.
- `AudioInStep`, `FinishedIsWhole`: sound never runs ahead of the video it
  belongs to; a file that was finished has everything.
- `AttachmentTracked`, `ObsGoesOn`: the flag the OBS source keeps
  agrees with what is attached through rebuilds and failures; a recorder is there
  when OBS records, and a source with a core and cameras that agree goes on stitching.
- `PreviewShowsSelection`, `JobsEnd`: what is previewed is what is selected, and each job,
  calibration or export, ends noticed whatever happens to the selection meanwhile.
- `OutputsEnd`: submit, finish and drop of the encode thread return, and so does the drop of the
  event sink.

**Fairness.** Only weak fairness, and only for the component whose turn it is. `Lookahead`: the loop, which runs on one thread
whose calls return. `AsyncEncode`: both threads are scheduled and the encoder's
calls return; nothing obliges the caller to make another call, so there is no fairness
for `TakeBuffer`, `Finish` and `Drop`. `VideoDecoder`: the caller goes on
asking; seeks are not fair and limited in number. `ZeroCopySource`: each
thread and the GPU are scheduled; the drop is not fair. `FileExport`, `SessionOutput`, `GpuReplay`
and `StitchCore` state none: they do what their caller calls. `ObsSource`: OBS renders on and delivers its frontend
events; the user's updates are not fair. `LiveCameras`: threads, pairing and an
end of the cameras that was asked for. `FilePlayback`: the decode threads, the call under way and
the playback timer. `CliPreview`: the event loop runs, and a key that went down comes up.
`EventTrace`: the thread is scheduled, the inner sink's calls return, its last flush too, and so does the join. `Desktop`: workers and the timers that take their answers; the user is not fair. No strong fairness is used.

## 4. Disagreements with the code

1. *Zero-copy reuse* (code bug): the immediate loop gives decode slots back
   when the render was submitted, not when it was drawn
   (`frame_processing.rs:492`).
2. *Hardware decoders lose frames* (code bug): `next_frame_gpu`, `_d3d11` and
   `_vt` return None at the end flag with frames in the codec (`decoder.rs:739`).
3. *D3D11 detection* (code bug): the staging slot is detected on before the
   frame is copied to it (`frame_processing.rs:187`).
4. *OBS replay restarts* (code bug): with a detected size, every update of the
   settings rebuilds the core and reopens the recording (`source.rs:1121`).
5. *Sound of a late start* (code bug): the start time trims the first segment
   only (`encoder.rs:1072`).
6. *Preview recordings* (code bug): stop does not flush the readback ring; the
   next recording starts with what is left in it (`main.rs:748`).
7. *Replay lag*: one submit, not two (`yuv_stack_packer.rs:775`).
8. *previous_position* is not the previous frame's in the buffered loop
   (`run_loop.rs:221`).
9. *Preview seek* (code bug): `about_to_wait` returns before it asks for the redraw a
   seek needs (`reco-cli/preview.rs:921`); a paused preview shows the old picture until the next
   event.

Observed while modelling, without a run of their own:

- `async_encode.rs:67` promises zero-allocation submits; with the channel full and one
  frame in the encoder the pool is empty and `submit` allocates (119-124).
- `encoder.rs:60`: `pts_us` is "in microseconds"; it is a frame number.
- `encoder.rs:1520`: finish is "Safe to call multiple times"; after an error a
  second call does not write what the first left out. An audio error makes it
  return before the trailer.
- A chained segment without sound is skipped, so the sound of the next one comes early.
- `session/mod.rs:329`: `frame_count()` counts the frames flushed by `finish` twice (418).
- `source.rs:347`: None "if the source is exhausted"; a decode thread that
  fails ends the stream the same way (`smart_source.rs:629`).
- `frame_processing.rs:80`: "every variant gets the same five stages"; the
  buffered VRAM path packs no replay (451-464).
- `ErrorPolicy::Skip` (`types.rs:90`) is never consulted.
- The ball tracker's coast budget is documented in sample frames
  (`ball.rs:57`); the session steps it on every source frame. With an interval above
  the budget nothing changes as long as detections are retained, but a single
  run of the detector that misses the ball costs the track.
- `adapters.rs:448`: seek decodes to the "exact target PTS". At 30 fps in a time base of 1000 the
  second frame's stamp is rounded to 33 ms, which is before the 33333 us the seek looks for, and
  the picture is one frame late. `ShownIsIndexed` allows that one frame where stamps are
  rounded (`Lateness`) and none elsewhere; the run of `session_input` has both kinds of file.
- Cameras: the appsinks drop per camera (`camera.rs:227`) while frames are paired by
  count (417), so one drop skews the pair for good; `live.rs:71` speaks of a
  synchronized pair. `next_pair` ignores its timeout. The NVMM source gives
  buffers back when the render was submitted (`reco-cli/camera.rs:621`), as the
  zero-copy source does. `libcamera.rs` never reads the error pipe it opens.
- Panner, as read (it has no model): a ball that is not a number reaches `lead_yaw`
  (`field.rs:901`) when no cluster hides it, and the lead never recovers; "the camera
  holds" in the dead zone (186) leaves out the velocity it still has (945-948).
- Desktop: a calibration finished for files that were replaced meanwhile is applied to
  the new ones; "Playback finished" is never shown; `recording` stays set when the
  pipeline is unloaded; a worker that panics leaves its job running for ever;
  recording drops frames when the channel is full while their timestamps go on.
- OBS: a new replay path is ignored while recording; a recorder that failed leaves
  the source attached and is not retried; BGRA sources attach a recorder that gets
  no frames.
- CLI preview: playing does not notice the end of the files; a resized window
  feeds frames of the new size to an encoder of the old; Ctrl-C in a paused preview is noticed
  at the next window event (`main.rs:741`); N while playing leaves the loop polling; a surface error forgets that a
  redraw was needed; "Recorded N frames" counts two frames
  more than the file holds.
- StitchCore: `ReplayFrame.pose` is documented as the pose of the frame (`types.rs:70`); it is the
  pose of the current submit with the pixels of two submits before (`core/render.rs:77`), as
  `Push` in the model stores it. `ReplayWindow` is about the frames and says nothing of poses.
  `RenderOutcome::Warmup` is "Only returned on the first two submit calls"; after a flush
  in mid-run it comes again. `enable_replay_buffer` "(or resizes) the ring"; it drops the frames.
- Event trace: "every line is a complete JSON object" (`jsonl_sink.rs:4`); a write that fails
  in mid-line leaves a part of one before the next. "The buffer flushes on drop so no events are
  lost" (29); if that flush fails, the events in the buffer, which no counter holds, are lost with
  one line in the log (71-77). `DamageCounted` and `EventsAccounted` say what does hold.

## 5. Proofs

Every safety property that a passing run checks is also proved, for every value of the
constants: TLC first checked it, and its inductive invariant where one was doubtful, on
the small instance. The proofs of components that meet in an `MC` module are about the
composition as well: each theorem has two parts, `X!Spec => []P` for the component alone
and `MCSpec => []P` for the system of the run, both from the same invariant. That invariant is
called `...Inv`, and for each there are lemmas `...Starts`, `...Step` (one for each operation where
they are many) and `...Always`.

What is assumed is the named assumption of each module: naturals where the code has
unsigned integers, capacities, intervals and chain lengths above 0 where the code makes them
so, the values of an enumeration among those the code has. `DesktopAssumption` also asks that
`Nothing` is none of the values it is told apart from. TLC evaluates all of them.

**`LookaheadProofs`**: `PoolSuffices`, `OwnPixels`, `Refinement`, `TypeCorrect`.
The invariant `Inv` has three parts. *Shape*: the phase, the counters and the
ranges. *Occupancy*: how full buffer and pose queue can be in each phase; this
is what the sizing formula needs and no property says. *Contents*: the queues
hold consecutive frames, each in a slot whose texture is its own, and slots in use are
apart from each other and from the free list (for the Windows pool: frames closer together
than the pool size have different slots, `StagedApart`). `ProduceStep`, `PanStep`
and `RenderStep` say what each operation does to it. A run that has ended
dropped its queues, so occupancy and contents speak of runs that have not.
`WindowsAreWhole` and `RunsComplete` need more (`WholeInv`): which poses the smoother keeps
(`Past`), that the limit is looked at before a frame is produced and not before it is rendered
(`Counts`), and how full each phase leaves the queues for the next as long as nobody interrupts
(`Windows`). The warm-up is what makes the first windows whole, the drain the last.

**`DetectTrackProofs`**: `RecentDetections`, `NoPhantom`, `CoasterAgreement`,
`LossIsReportedOnce`, `NoLeaps`, `TypeCorrect`. None of the properties is
inductive: the bound on a detection's age needs the remainder of the frame count (`AgeInv`,
`RemainderStep`) and the age of each staging slot (`StagingInv`); the bound on a followed
ball needs its age net of the frames coasted (`TrackAgeInv`); the life cycle
needs tracker, coaster and reported ball tied together (`TrackInv`).

**`Nv12ReadbackProofs`**: `FinishedFrames`, `Refinement`, `TypeCorrect`.
`RingInv`: staging buffer f mod 3 holds frame f for each frame still owed, the
pending count counts them, and the write slot is where the next frame goes. A failed
readback leaves a call under way, so the ring is only described until then.

**`AsyncEncodeProofs`**: `Refinement`, `OkIsWhole`, `BoundedMemory`,
`TypeCorrect`. `WorkerInv` says that the channel holds consecutive frames ending
with the last one accepted and that the worker is at the one before them, in
each of its places; `CallerInv` ties the caller's place to the channel ends and
its buffer. The bound on the buffers is inductive only with both: an allocation
happens when the pool is empty, and then only the channel and the worker hold
buffers.

**`MCSessionInputProofs`**.
- *ZeroCopySource*: `SlotsHeldOnce`, `PairsAreInSync`, `EveryPairDelivered`, from `SourceInv`.
  `Apart` says that the stages of a slot's way round are disjoint; it alone is inductive with the types.
  The pictures need arithmetic: `OnTheWay` and `DecodedSoFar` say which frame lies in the slot at
  each stage, counted from the pairs handed over (`PairsMade`, `Taken`, `Fed`), and `EndIsEarned`
  that a thread which ended without an error had passed on everything. The pairing thread's
  one-sided end (left taken, right gone) is the case in which the three differ.
- *VideoDecoder*: `NoneMeansTheEnd`. *CliPreview*: `RecordingsStayApart`.
- *FilePlayback*: `PictureIsTheIndexed`, from `PlaybackInv`: `InPlace` gives, for each camera,
  the frame its thread decodes next from the position, the frames waiting in both channels and
  those still to be discarded. `Drift` is how far a pipeline that a seek starts is from the frame
  asked for: `StartNear` shows, by the arithmetic of the stamps alone, that it is 0 if the time base
  counts whole ticks per frame and 0 or 1 if not, and `DriftKept` that it stays as it began until the
  next seek, which begins anew. The theorem has no hypothesis beyond `FilePlaybackAssumption`: a
  frame lasts at least a tick of its file and two microseconds.

**`MCSessionOutputProofs`**.
- *SessionOutput*: `OutputIsFramePipe`, `OutputsAgreeAlways`, `OkMeansEveryFrame`,
  `OutputFramesFinished`. The ring's invariant and refinement are those of `Nv12ReadbackProofs`,
  instantiated; `SessionAndRing` ties the session's state to the ring's call, and `Handed`
  says which encoders have the frame being handed over.
- *GpuReplay*: `ReplayFileIsWhole`. The slot last written holds the last atlas packed, and
  while a recording that nothing disturbed goes on it is one atlas behind that.
- *StitchCore*: `ReplayBufferIsWindow` and, with the first, `FramesAreReturned`. The times of what
  was pushed do not decrease (`PushedInOrder`), so cutting at the first entry within the window cuts
  exactly what is outside (`EvictKeepsWindow`), and what was cut never comes back.

**`MCOutputJobsProofs`**.
- *FileExport*: `SoundInStep`, `FinishedFileIsWhole`. `AudioPlace` is the invariant the code keeps without
  saying so: while the chain is unbroken, the offset of the segment being copied, plus its first stamp, is
  the length of the segments before it less the start of the window. `Before` sums those
  lengths; `BeforeAdds` shows the sum is what the recursion says, by the least counterexample.
  `VideoSoFar` and `SoundSoFar` count what codec, file and stream hold of the frames sent.
- *EventTrace*: `EventsCounted`, `DamageIsCounted`, from `TraceInv`: the order of what was written, is
  being written and waits, the sum of what became of the events, and a failure for each spoiled line.
- *ObsSource*: `FlagTracksRecorder`.
- *Desktop*: `ControlsMatchThePreview`. It is inductive only with
  `LoadedOpens`: controls that are on have inputs on both sides that can be opened.

**`MCLiveProofs`**: `PairsOfOneTick`, `LentSamplesAreKept`. `Consecutive` says that the samples of a
camera run from the next one received through channel, thread and device up to the clock without a
gap; `InStep` that both cameras are at the same tick. `LentOnce` names the four places a lent
sample can be in.

The proofs led to changes of the models. `Kept` in `LiveCameras` and `TryInit` in
`ObsSource` had `CASE`s whose guards overlap, of which TLC takes the first and logic any; they are
`IF`s now, as in the code. `ThroughF32` in `FilePlayback` looked for its exponent up to 10, which is
too small for the first 1024th of a long file. `SlotHeldOnce` and `ReplayWindow` are
stated by quantifiers where they selected subsequences, and `Before` sums by a function, not a fold.

**Only model-checked**: liveness (`InputEnds`, `PlaybackEnds`, `InterruptHeard`,
`CamerasEnd`, `OutputsEnd`, `ObsGoesOn`, `JobsEnd`). It rests on fairness, and so on ENABLED,
which the prover does not expand. What the violation runs refute cannot be proved.

## 6. Plan

Modelled in this order, the most important behaviour first: buffered loop, encode
thread, readback, output, replay, decoder, zero-copy source, immediate loop with
tracking; then sources and sinks (player, export, cameras, replay buffer, event trace)
and the programs (desktop, OBS, preview). What is left:

1. Proofs: the safety half of the liveness properties, that no two threads wait for each other
   (`ZeroCopySource`, `AsyncEncode`, `LiveCameras`), stated without ENABLED as invariants on the
   places of the threads; `FramePipe` as the abstract specification of the decoder and the sources.
2. The CUDA and macOS variants of the zero-copy source as `mode`s; VRAM
   sizing (`vram_pool.rs:251`).
3. The supervisor of the C++ port, once that port is the reference.

## 7. Not modelled, and why

Numerical code (projection, lens models, optimiser, feature matching, panner
arithmetic, detectors) has no state that outlives a call or is continuous. Panning
modes, pose control and live calibration decide by comparing floating-point numbers; a
model of the discrete part alone would choose freely and show nothing. Keys, intents and GoPro
requests are answered by a lookup or one request. GPU
and driver bindings are pure I/O; their effect on a frame is part of the models
that use them. Arguments, settings files, the user interface's layout, logs, scripts
and build files have no behaviour worth checking here.

The share of lines the map covers is small (about a tenth) for the same reason: most of
the workspace is numerical code, shaders and their set-up, driver bindings, widgets and
unit tests. What is modelled is the code that decides in which order
things happen. `PROJECT.json` says for each component what is left out.
