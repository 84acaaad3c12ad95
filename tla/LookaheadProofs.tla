--------------------------- MODULE LookaheadProofs ---------------------------
(***************************************************************************)
(* The buffered run loop, for every lookahead N, source length, limit,     *)
(* error and interrupt: the slot pool never runs out, no slot is written   *)
(* over before its frame is rendered, and the loop is a frame pipe.        *)
(***************************************************************************)
EXTENDS Lookahead, TLAPS

h == PostSmoothHalf

\* The loop's own counters and containers; the flags and the observations
\* made for the properties are not needed.
Shape ==
    /\ backend \in {"VramPool", "D3d11Staging"}
    /\ phase \in {"prefill", "warmup", "steady", "drain", "done", "failed"}
    /\ step \in {"produce", "pan", "render"}
    /\ warmups \in Nat
    /\ produceCount \in Nat
    /\ pannerFrameIdx \in Nat
    /\ frameCount \in Nat
    /\ buffer \in Seq(BufferedFrame)
    /\ poseQueue \in Seq(BufferedFrame)
    /\ free \in Seq(Slots)
    /\ texture \in [Slots -> Int]

\* How many frames each stage may hold in each phase.
Occupancy ==
    /\ Len(buffer) = produceCount - pannerFrameIdx
    /\ Len(poseQueue) = pannerFrameIdx - frameCount
    /\ Len(buffer) <= IF step = "pan" THEN N + 1 ELSE N
    /\ Len(poseQueue) <= IF step = "render" THEN h + 1 ELSE h
    /\ phase = "prefill" => step = "produce" /\ pannerFrameIdx = 0 /\ warmups = 0
    /\ phase = "warmup" => /\ step \in {"produce", "pan"}
                           /\ Len(poseQueue) <= warmups
                           /\ warmups <= IF step = "pan" THEN h - 1 ELSE h
    /\ phase = "drain" => step = "produce"

\* The sequence s holds consecutive frames from first on, and the pixels of
\* each are in its slot.
Holds(s, first) ==
    \A i \in 1 .. Len(s) :
        s[i].frame = first + i - 1 /\ texture[s[i].slot] = s[i].frame

\* No frame of s has a slot the pool could hand out.
NotFree(s) ==
    \A i \in 1 .. Len(s), j \in 1 .. Len(free) : s[i].slot # free[j]

\* The slot of a staged frame is its number modulo the pool size.
Staged(s) ==
    \A i \in 1 .. Len(s) : s[i].slot = s[i].frame % PoolSize

Contents ==
    /\ Holds(buffer, pannerFrameIdx)
    /\ Holds(poseQueue, frameCount)
    /\ backend = "VramPool" =>
           /\ Len(free) = PoolSize - Len(buffer) - Len(poseQueue)
           /\ \A i, j \in 1 .. Len(free) : free[i] = free[j] => i = j
           /\ NotFree(buffer)
           /\ NotFree(poseQueue)
    /\ backend = "D3d11Staging" => Staged(buffer) /\ Staged(poseQueue)

\* The inductive invariant. A run that has ended dropped its queues, so what
\* they held says nothing any more.
Inv ==
    /\ Shape
    /\ shown.pixels = shown.frame
    /\ shown.frame = frameCount - 1
    /\ ~Ended => Occupancy /\ Contents

------------------------------------------------------------------------------
LEMMA HalfPositive == h \in Nat \ {0}
  BY LookaheadAssumption DEF h, PostSmoothHalf

LEMMA PoolSizeExceeds == PoolSize \in Nat /\ PoolSize = N + h + 4
  BY LookaheadAssumption, HalfPositive DEF PoolSize, h

\* A non-zero multiple of m is at least m away from zero.
LEMMA MultipleApart ==
  ASSUME NEW m \in Nat \ {0}, NEW k \in Int, k # 0
  PROVE  m * k >= m \/ m * k <= -m
<1>1. CASE k >= 1
  BY <1>1
<1>2. CASE k <= -1
  BY <1>2
<1> QED
  BY <1>1, <1>2

LEMMA DivisionIdentity ==
  ASSUME NEW m \in Nat, m > 0, NEW a \in Int
  PROVE  a = m * (a \div m) + (a % m)
  OBVIOUS

\* Two frames less than a pool apart are staged to different slots.
LEMMA StagedApart ==
  ASSUME NEW m \in Nat \ {0}, NEW a \in Nat, NEW b \in Nat, b < a, a - b < m
  PROVE  a % m # b % m
<1> SUFFICES ASSUME a % m = b % m PROVE FALSE
  OBVIOUS
<1> DEFINE p == a \div m
           q == b \div m
           r == a % m
<1>1. p \in Int /\ q \in Int /\ r \in Int
  OBVIOUS
<1>2. a = m * p + r /\ b = m * q + r
  BY DivisionIdentity
<1> HIDE DEF p, q, r
<1>3. p - q \in Int /\ a - b = m * (p - q)
  BY <1>1, <1>2
<1>4. p - q # 0
  BY <1>3
<1>5. m * (p - q) >= m \/ m * (p - q) <= -m
  BY <1>3, <1>4, MultipleApart
<1> QED
  BY <1>3, <1>5
------------------------------------------------------------------------------
(* What produce, pan and render do to the containers. The buffer holds at   *)
(* most N frames when one is produced, the pose queue h.                     *)

LEMMA ElementType ==
  ASSUME NEW s \in Seq(BufferedFrame), NEW i \in 1 .. Len(s)
  PROVE  s[i] \in BufferedFrame /\ s[i].slot \in Slots /\ s[i].frame \in Nat
<1>1. s[i] \in BufferedFrame
  OBVIOUS
<1> QED
  BY <1>1 DEF BufferedFrame

\* The slot a frame is copied to holds no frame that is still to be rendered.
LEMMA AcquiredSlotUnused ==
  ASSUME Shape, Occupancy, Contents, ~PoolExhausted, Len(poseQueue) <= h,
         Len(buffer) <= N
  PROVE  /\ AcquiredSlot \in Slots
         /\ \A i \in 1 .. Len(buffer) : buffer[i].slot # AcquiredSlot
         /\ \A i \in 1 .. Len(poseQueue) : poseQueue[i].slot # AcquiredSlot
<1>1. CASE backend = "VramPool"
  <2>1. free # <<>> /\ AcquiredSlot = free[1] /\ 1 \in 1 .. Len(free)
    BY <1>1 DEF PoolExhausted, AcquiredSlot, Shape
  <2>2. AcquiredSlot \in Slots
    BY <2>1 DEF Shape
  <2> QED
    BY <1>1, <2>1, <2>2 DEF Contents, NotFree
<1>2. CASE backend = "D3d11Staging"
  <2>1. AcquiredSlot = produceCount % PoolSize
    BY <1>2 DEF AcquiredSlot
  <2>2. PoolSize \in Nat \ {0} /\ N \in Nat /\ h \in Nat /\ PoolSize = N + h + 4
    BY PoolSizeExceeds, HalfPositive, LookaheadAssumption
  <2>3. AcquiredSlot \in Slots
    BY <2>1, <2>2 DEF Shape, Slots
  <2>4. ASSUME NEW i \in 1 .. Len(buffer)
        PROVE  buffer[i].slot # AcquiredSlot
    <3> DEFINE f == buffer[i].frame
    <3>1. f = pannerFrameIdx + i - 1 /\ buffer[i].slot = f % PoolSize
      BY <2>4, <1>2 DEF Contents, Holds, Staged
    <3>2. f \in Nat /\ f < produceCount /\ produceCount - f < PoolSize
      BY <3>1, <2>4, <2>2 DEF Shape, Occupancy
    <3> HIDE DEF f
    <3> QED
      BY <3>1, <3>2, <2>1, <2>2, StagedApart DEF Shape
  <2>5. ASSUME NEW i \in 1 .. Len(poseQueue)
        PROVE  poseQueue[i].slot # AcquiredSlot
    <3> DEFINE f == poseQueue[i].frame
    <3>1. f = frameCount + i - 1 /\ poseQueue[i].slot = f % PoolSize
      BY <2>5, <1>2 DEF Contents, Holds, Staged
    <3>2. f \in Nat /\ f < produceCount /\ produceCount - f < PoolSize
      BY <3>1, <2>5, <2>2 DEF Shape, Occupancy
    <3> HIDE DEF f
    <3> QED
      BY <3>1, <3>2, <2>1, <2>2, StagedApart DEF Shape
  <2> QED
    BY <2>3, <2>4, <2>5
<1> QED
  BY <1>1, <1>2 DEF Shape

\* Produced shapes and contents carry over, with one more frame at the end.
LEMMA ProduceStep ==
  ASSUME Shape, Occupancy, Contents, ProduceOne, Len(poseQueue) <= h,
         Len(buffer) <= N,
         UNCHANGED <<backend, poseQueue, pannerFrameIdx, frameCount>>
  PROVE  /\ produceCount' = produceCount + 1
         /\ buffer' \in Seq(BufferedFrame)
         /\ Len(buffer') = Len(buffer) + 1
         /\ free' \in Seq(Slots)
         /\ texture' \in [Slots -> Int]
         /\ Contents'
<1> DEFINE slot == AcquiredSlot
           rec == [frame |-> produceCount, slot |-> slot]
<1>1. /\ slot \in Slots
      /\ \A i \in 1 .. Len(buffer) : buffer[i].slot # slot
      /\ \A i \in 1 .. Len(poseQueue) : poseQueue[i].slot # slot
  BY AcquiredSlotUnused DEF ProduceOne
<1>2. /\ buffer' = Append(buffer, rec)
      /\ texture' = [texture EXCEPT ![slot] = produceCount]
      /\ free' = IF backend = "VramPool" THEN Tail(free) ELSE free
      /\ produceCount' = produceCount + 1
      /\ backend = "VramPool" => free # <<>>
  BY DEF ProduceOne, PoolExhausted
<1>3. backend = "VramPool" => slot = free[1]
  BY <1>2 DEF AcquiredSlot, Shape
<1>4. backend = "D3d11Staging" => slot = produceCount % PoolSize
  BY DEF AcquiredSlot
<1> HIDE DEF slot
<1>5. rec \in BufferedFrame /\ rec.frame = produceCount /\ rec.slot = slot
  BY <1>1 DEF BufferedFrame, Shape
<1> HIDE DEF rec
<1>6. /\ buffer' \in Seq(BufferedFrame)
      /\ Len(buffer') = Len(buffer) + 1
      /\ \A i \in 1 .. Len(buffer) : buffer'[i] = buffer[i]
      /\ buffer'[Len(buffer) + 1] = rec
  BY <1>2, <1>5 DEF Shape
<1>7. free' \in Seq(Slots) /\ texture' \in [Slots -> Int]
  BY <1>1, <1>2 DEF Shape
<1>8. Holds(buffer, pannerFrameIdx)'
  <2> SUFFICES ASSUME NEW i \in 1 .. Len(buffer')
               PROVE  /\ buffer'[i].frame = pannerFrameIdx' + i - 1
                      /\ texture'[buffer'[i].slot] = buffer'[i].frame
    BY DEF Holds
  <2>1. CASE i = Len(buffer) + 1
    BY <2>1, <1>1, <1>2, <1>5, <1>6 DEF Shape, Occupancy
  <2>2. CASE i # Len(buffer) + 1
    <3>1. i \in 1 .. Len(buffer)
      BY <2>2, <1>6 DEF Shape
    <3>2. buffer[i].slot \in Slots
      BY <3>1, ElementType DEF Shape
    <3> QED
      BY <3>1, <3>2, <1>1, <1>2, <1>6 DEF Shape, Contents, Holds
  <2> QED
    BY <2>1, <2>2
<1>9. Holds(poseQueue, frameCount)'
  <2> SUFFICES ASSUME NEW i \in 1 .. Len(poseQueue)
               PROVE  /\ poseQueue[i].frame = frameCount + i - 1
                      /\ texture'[poseQueue[i].slot] = poseQueue[i].frame
    BY DEF Holds
  <2>1. poseQueue[i].slot \in Slots
    BY ElementType DEF Shape
  <2> QED
    BY <2>1, <1>1, <1>2 DEF Shape, Contents, Holds
<1>10. ASSUME backend = "VramPool"
       PROVE  /\ Len(free') = PoolSize - Len(buffer') - Len(poseQueue')
              /\ \A i, j \in 1 .. Len(free') : free'[i] = free'[j] => i = j
              /\ NotFree(buffer)'
              /\ NotFree(poseQueue)'
  <2>1. /\ free' = Tail(free) /\ Len(free') = Len(free) - 1
        /\ \A j \in 1 .. Len(free') : free'[j] = free[j + 1]
    BY <1>10, <1>2 DEF Shape
  <2>2. Len(free') = PoolSize - Len(buffer') - Len(poseQueue')
    <3>1. /\ Len(free) = PoolSize - Len(buffer) - Len(poseQueue)
          /\ poseQueue' = poseQueue
      BY <1>10 DEF Contents
    <3>2. Len(buffer) \in Nat /\ Len(poseQueue) \in Nat /\ PoolSize \in Nat
      BY PoolSizeExceeds DEF Shape
    <3> QED
      BY <3>1, <3>2, <2>1, <1>6
  <2>3. ASSUME NEW i \in 1 .. Len(free'), NEW j \in 1 .. Len(free'),
               free'[i] = free'[j]
        PROVE  i = j
    <3>1. i + 1 \in 1 .. Len(free) /\ j + 1 \in 1 .. Len(free)
          /\ free[i + 1] = free[j + 1]
      BY <2>1, <2>3 DEF Shape
    <3>2. i + 1 = j + 1
      BY <3>1, <1>10 DEF Contents
    <3> QED
      BY <3>2
  <2>4. ASSUME NEW j \in 1 .. Len(free')
        PROVE  free'[j] # slot /\ j + 1 \in 1 .. Len(free)
    <3>1. j + 1 \in 1 .. Len(free) /\ 1 \in 1 .. Len(free) /\ j + 1 # 1
      BY <2>1 DEF Shape
    <3>2. free[j + 1] # free[1]
      BY <3>1, <1>10 DEF Contents
    <3> QED
      BY <3>1, <3>2, <2>1, <1>3, <1>10
  <2>5. NotFree(buffer)'
    <3> SUFFICES ASSUME NEW i \in 1 .. Len(buffer'), NEW j \in 1 .. Len(free')
                 PROVE  buffer'[i].slot # free'[j]
      BY DEF NotFree
    <3>1. CASE i = Len(buffer) + 1
      BY <3>1, <2>4, <1>5, <1>6
    <3>2. CASE i # Len(buffer) + 1
      <4>1. i \in 1 .. Len(buffer)
        BY <3>2, <1>6 DEF Shape
      <4> QED
        BY <4>1, <2>1, <2>4, <1>6, <1>10 DEF Contents, NotFree
    <3> QED
      BY <3>1, <3>2
  <2>6. NotFree(poseQueue)'
    BY <2>1, <2>4, <1>10 DEF Contents, NotFree
  <2> QED
    BY <2>2, <2>3, <2>5, <2>6
<1>11. ASSUME backend = "D3d11Staging"
       PROVE  Staged(buffer)' /\ Staged(poseQueue)'
  <2>1. Staged(buffer)'
    <3> SUFFICES ASSUME NEW i \in 1 .. Len(buffer')
                 PROVE  buffer'[i].slot = buffer'[i].frame % PoolSize
      BY DEF Staged
    <3>1. CASE i = Len(buffer) + 1
      BY <3>1, <1>4, <1>5, <1>6, <1>11
    <3>2. CASE i # Len(buffer) + 1
      <4>1. i \in 1 .. Len(buffer)
        BY <3>2, <1>6 DEF Shape
      <4> QED
        BY <4>1, <1>6, <1>11 DEF Contents, Staged
    <3> QED
      BY <3>1, <3>2
  <2>2. Staged(poseQueue)'
    BY <1>11 DEF Contents, Staged
  <2> QED
    BY <2>1, <2>2
<1>12. Contents'
  BY <1>8, <1>9, <1>10, <1>11 DEF Contents
<1> QED
  BY <1>2, <1>6, <1>7, <1>12

\* The panner moves the oldest buffered frame to the end of the pose queue.
LEMMA PanStep ==
  ASSUME Shape, Occupancy, Contents, RunPannerOnce,
         UNCHANGED <<backend, produceCount, frameCount, free, texture>>
  PROVE  /\ buffer' \in Seq(BufferedFrame)
         /\ poseQueue' \in Seq(BufferedFrame)
         /\ pannerFrameIdx' \in Nat
         /\ Contents'
         /\ Len(buffer') = produceCount' - pannerFrameIdx'
         /\ Len(poseQueue') = pannerFrameIdx' - frameCount'
         /\ IF buffer = <<>>
            THEN UNCHANGED <<buffer, poseQueue, pannerFrameIdx>>
            ELSE /\ Len(buffer') = Len(buffer) - 1
                 /\ Len(poseQueue') = Len(poseQueue) + 1
<1>1. CASE buffer = <<>>
  <2>1. UNCHANGED <<buffer, poseQueue, pannerFrameIdx>>
    BY <1>1 DEF RunPannerOnce, panVars
  <2>2. Contents'
    BY <2>1 DEF Contents, Holds, NotFree, Staged
  <2> QED
    BY <1>1, <2>1, <2>2 DEF Shape, Occupancy
<1>2. CASE buffer # <<>>
  <2>1. /\ buffer' = Tail(buffer)
        /\ poseQueue' = Append(poseQueue, buffer[1])
        /\ pannerFrameIdx' = pannerFrameIdx + 1
    BY <1>2 DEF RunPannerOnce, Shape
  <2>2. /\ Len(buffer) > 0 /\ Len(buffer') = Len(buffer) - 1
        /\ buffer' \in Seq(BufferedFrame)
        /\ \A i \in 1 .. Len(buffer') : buffer'[i] = buffer[i + 1]
                                        /\ i + 1 \in 1 .. Len(buffer)
    BY <1>2, <2>1 DEF Shape
  <2>3. buffer[1] \in BufferedFrame /\ 1 \in 1 .. Len(buffer)
    BY <2>2 DEF Shape
  <2>4. /\ Len(poseQueue') = Len(poseQueue) + 1
        /\ poseQueue' \in Seq(BufferedFrame)
        /\ \A i \in 1 .. Len(poseQueue) : poseQueue'[i] = poseQueue[i]
        /\ poseQueue'[Len(poseQueue) + 1] = buffer[1]
    BY <2>1, <2>3 DEF Shape
  <2>5. /\ Len(buffer') = produceCount' - pannerFrameIdx'
        /\ Len(poseQueue') = pannerFrameIdx' - frameCount'
        /\ pannerFrameIdx' \in Nat
    BY <2>1, <2>2, <2>4 DEF Shape, Occupancy
  <2>6. Holds(buffer, pannerFrameIdx)'
    BY <2>1, <2>2 DEF Shape, Contents, Holds
  <2>7. \A i \in 1 .. Len(poseQueue') :
            \/ i \in 1 .. Len(poseQueue) /\ poseQueue'[i] = poseQueue[i]
            \/ i = Len(poseQueue) + 1 /\ poseQueue'[i] = buffer[1]
    BY <2>4 DEF Shape
  <2>8. Holds(poseQueue, frameCount)'
    <3> SUFFICES ASSUME NEW i \in 1 .. Len(poseQueue')
                 PROVE  /\ poseQueue'[i].frame = frameCount + i - 1
                        /\ texture[poseQueue'[i].slot] = poseQueue'[i].frame
      BY DEF Holds
    <3>1. CASE i \in 1 .. Len(poseQueue) /\ poseQueue'[i] = poseQueue[i]
      BY <3>1 DEF Contents, Holds
    <3>2. CASE i = Len(poseQueue) + 1 /\ poseQueue'[i] = buffer[1]
      BY <3>2, <2>3, SMTT(20) DEF Shape, Occupancy, Contents, Holds
    <3> QED
      BY <3>1, <3>2, <2>7
  <2>9. ASSUME backend = "VramPool"
        PROVE  /\ Len(free') = PoolSize - Len(buffer') - Len(poseQueue')
               /\ \A i, j \in 1 .. Len(free') : free'[i] = free'[j] => i = j
               /\ NotFree(buffer)'
               /\ NotFree(poseQueue)'
    <3>1. Len(free') = PoolSize - Len(buffer') - Len(poseQueue')
      BY <2>2, <2>4, <2>9, PoolSizeExceeds, SMTT(20) DEF Shape, Contents
    <3>2. NotFree(buffer)'
      BY <2>2, <2>9 DEF Contents, NotFree
    <3>3. NotFree(poseQueue)'
      BY <2>3, <2>7, <2>9 DEF Contents, NotFree
    <3> QED
      BY <3>1, <3>2, <3>3, <2>9 DEF Contents
  <2>10. ASSUME backend = "D3d11Staging"
         PROVE  Staged(buffer)' /\ Staged(poseQueue)'
    <3>1. Staged(buffer)'
      BY <2>2, <2>10 DEF Contents, Staged
    <3>2. Staged(poseQueue)'
      BY <2>3, <2>7, <2>10 DEF Contents, Staged
    <3> QED
      BY <3>1, <3>2
  <2>11. Contents'
    BY <2>6, <2>8, <2>9, <2>10 DEF Contents
  <2> QED
    BY <1>2, <2>2, <2>4, <2>5, <2>11
<1> QED
  BY <1>1, <1>2

\* Rendering takes the oldest frame off and gives its slot back.
LEMMA RenderStep ==
  ASSUME Shape, Occupancy, Contents, RenderFront, poseQueue # <<>>,
         UNCHANGED <<backend, produceCount, buffer>>
  PROVE  /\ poseQueue' \in Seq(BufferedFrame)
         /\ frameCount' = frameCount + 1
         /\ free' \in Seq(Slots)
         /\ Contents'
         /\ pannerFrameIdx' = pannerFrameIdx
         /\ texture' = texture
         /\ Len(poseQueue') = Len(poseQueue) - 1
         /\ Len(poseQueue') = pannerFrameIdx' - frameCount'
         /\ shown'.pixels = shown'.frame
         /\ shown'.frame = frameCount
<1> DEFINE front == poseQueue[1]
<1>1. /\ poseQueue' = Tail(poseQueue)
      /\ frameCount' = frameCount + 1
      /\ free' = IF backend = "VramPool" THEN Append(free, front.slot) ELSE free
      /\ pannerFrameIdx' = pannerFrameIdx
      /\ texture' = texture
      /\ shown'.frame = front.frame
      /\ shown'.pixels = texture[front.slot]
  BY DEF RenderFront, Release, Shape
<1>2. /\ Len(poseQueue) > 0 /\ Len(poseQueue') = Len(poseQueue) - 1
      /\ poseQueue' \in Seq(BufferedFrame)
      /\ \A i \in 1 .. Len(poseQueue') : poseQueue'[i] = poseQueue[i + 1]
                                         /\ i + 1 \in 1 .. Len(poseQueue)
      /\ 1 \in 1 .. Len(poseQueue)
  BY <1>1 DEF Shape
<1>3. /\ front \in BufferedFrame
      /\ front.slot \in Slots
      /\ front.frame = frameCount
      /\ texture[front.slot] = frameCount
  <2>1. front \in BufferedFrame /\ front.slot \in Slots
    BY <1>2, ElementType DEF Shape
  <2>2. front.frame = frameCount + 1 - 1 /\ texture[front.slot] = front.frame
    BY <1>2 DEF Contents, Holds
  <2> QED
    BY <2>1, <2>2 DEF Shape
<1>4. \* every other frame still to be rendered has another slot
      /\ \A i \in 1 .. Len(poseQueue') : poseQueue'[i].slot # front.slot
      /\ \A i \in 1 .. Len(buffer) : buffer[i].slot # front.slot
  <2>1. ASSUME NEW i \in 1 .. Len(poseQueue')
        PROVE  poseQueue'[i].slot # front.slot
    <3>1. i + 1 \in 1 .. Len(poseQueue) /\ poseQueue'[i] = poseQueue[i + 1]
      BY <1>2
    <3>2. /\ poseQueue[i + 1].frame = frameCount + i
          /\ texture[poseQueue[i + 1].slot] = poseQueue[i + 1].frame
      BY <3>1 DEF Shape, Contents, Holds
    <3>3. frameCount + i # frameCount
      BY DEF Shape
    <3> QED
      BY <3>1, <3>2, <3>3, <1>3
  <2>2. ASSUME NEW i \in 1 .. Len(buffer)
        PROVE  buffer[i].slot # front.slot
    <3>1. /\ buffer[i].frame = pannerFrameIdx + i - 1
          /\ texture[buffer[i].slot] = buffer[i].frame
      BY DEF Contents, Holds
    <3>2. pannerFrameIdx + i - 1 # frameCount
      BY <1>2 DEF Shape, Occupancy
    <3> QED
      BY <3>1, <3>2, <1>3
  <2> QED
    BY <2>1, <2>2
<1> HIDE DEF front
<1>5. free' \in Seq(Slots)
  BY <1>1, <1>3 DEF Shape
<1>6. Len(poseQueue') = pannerFrameIdx' - frameCount'
  BY <1>1, <1>2 DEF Shape, Occupancy
<1>7. Holds(buffer, pannerFrameIdx)'
  BY <1>1 DEF Contents, Holds
<1>8. Holds(poseQueue, frameCount)'
  BY <1>1, <1>2 DEF Shape, Contents, Holds
<1>9. ASSUME backend = "VramPool"
      PROVE  /\ Len(free') = PoolSize - Len(buffer') - Len(poseQueue')
             /\ \A i, j \in 1 .. Len(free') : free'[i] = free'[j] => i = j
             /\ NotFree(buffer)'
             /\ NotFree(poseQueue)'
  <2>1. /\ Len(free') = Len(free) + 1
        /\ \A j \in 1 .. Len(free') :
               \/ j \in 1 .. Len(free) /\ free'[j] = free[j]
               \/ j = Len(free) + 1 /\ free'[j] = front.slot
    BY <1>1, <1>3, <1>9 DEF Shape
  <2>2. Len(free') = PoolSize - Len(buffer') - Len(poseQueue')
    <3>1. /\ Len(free) = PoolSize - Len(buffer) - Len(poseQueue)
          /\ buffer' = buffer
      BY <1>9 DEF Contents
    <3>2. Len(buffer) \in Nat /\ Len(poseQueue) \in Nat /\ PoolSize \in Nat
      BY PoolSizeExceeds DEF Shape
    <3> QED
      BY <3>1, <3>2, <2>1, <1>2
  <2>3. \A j \in 1 .. Len(free) : free[j] # front.slot
    BY <1>2, <1>9 DEF Contents, NotFree, front
  <2>4. \A i, j \in 1 .. Len(free') : free'[i] = free'[j] => i = j
    BY <2>1, <2>3, <1>9 DEF Contents
  <2>5. NotFree(buffer)'
    BY <2>1, <1>4, <1>9 DEF Contents, NotFree
  <2>6. NotFree(poseQueue)'
    BY <2>1, <1>2, <1>4, <1>9 DEF Contents, NotFree
  <2> QED
    BY <2>2, <2>4, <2>5, <2>6
<1>10. ASSUME backend = "D3d11Staging"
       PROVE  Staged(buffer)' /\ Staged(poseQueue)'
  BY <1>2, <1>10 DEF Contents, Staged
<1>11. Contents'
  BY <1>7, <1>8, <1>9, <1>10 DEF Contents
<1> QED
  BY <1>1, <1>2, <1>3, <1>5, <1>6, <1>11

containers == <<backend, produceCount, buffer, poseQueue, pannerFrameIdx, frameCount,
                free, texture, shown>>

LEMMA ContentsKept ==
  ASSUME Contents, UNCHANGED containers
  PROVE  Contents'
<1>1. /\ buffer' = buffer /\ poseQueue' = poseQueue /\ free' = free
      /\ texture' = texture /\ pannerFrameIdx' = pannerFrameIdx
      /\ frameCount' = frameCount /\ backend' = backend
  BY DEF containers
<1> QED
  BY <1>1 DEF Contents, Holds, NotFree, Staged

\* A step that ends the run, or only moves the loop along.
LEMMA LoopMoves ==
  ASSUME Inv, UNCHANGED containers,
         phase' \in {"prefill", "warmup", "steady", "drain", "done", "failed"},
         step' \in {"produce", "pan", "render"},
         warmups' \in Nat,
         ~Ended' => ~Ended /\ Occupancy'
  PROVE  Inv'
<1>1. Shape'
  BY DEF Inv, Shape, containers
<1>2. shown'.pixels = shown'.frame /\ shown'.frame = frameCount' - 1
  BY DEF Inv, containers
<1>3. ~Ended' => Contents'
  BY ContentsKept DEF Inv
<1> QED
  BY <1>1, <1>2, <1>3 DEF Inv

LEMMA InitInv == Init => Inv
<1> SUFFICES ASSUME Init PROVE Inv
  OBVIOUS
<1>1. PoolSize \in Nat /\ h \in Nat \ {0} /\ N \in Nat \ {0}
  BY PoolSizeExceeds, HalfPositive, LookaheadAssumption
<1>2. free \in Seq(Slots) /\ Len(free) = PoolSize
      /\ \A i \in 1 .. Len(free) : free[i] = i - 1
  BY <1>1 DEF Init, Slots
<1>3. buffer = <<>> /\ poseQueue = <<>> /\ Len(buffer) = 0 /\ Len(poseQueue) = 0
  BY DEF Init
<1>4. Shape
  BY <1>1, <1>2, <1>3, LookaheadAssumption DEF Init, Shape, None
<1>5. Occupancy
  BY <1>1, <1>3 DEF Init, Occupancy
<1>6. Contents
  <2>1. Holds(buffer, pannerFrameIdx) /\ Holds(poseQueue, frameCount)
    BY <1>3 DEF Holds
  <2>2. NotFree(buffer) /\ NotFree(poseQueue)
    BY <1>3 DEF NotFree
  <2>3. Staged(buffer) /\ Staged(poseQueue)
    BY <1>3 DEF Staged
  <2>4. \A i, j \in 1 .. Len(free) : free[i] = free[j] => i = j
    BY <1>2, <1>1
  <2>5. Len(free) = PoolSize - Len(buffer) - Len(poseQueue)
    BY <1>1, <1>2, <1>3
  <2> QED
    BY <2>1, <2>2, <2>3, <2>4, <2>5 DEF Contents
<1>7. shown.pixels = shown.frame /\ shown.frame = frameCount - 1
  BY DEF Init, None
<1> QED
  BY <1>4, <1>5, <1>6, <1>7 DEF Inv

\* The produce half of an iteration, in either loop.
LEMMA TopUpStep ==
  ASSUME Inv, TopUp, phase \in {"warmup", "steady"}, step = "produce",
         phase = "warmup" => warmups # h,
         UNCHANGED <<backend, poseQueue, pannerFrameIdx, frameCount, shown>>
  PROVE  Inv'
<1>1. ~Ended /\ Shape /\ Occupancy /\ Contents
  BY DEF Ended, Inv
<1>2. h \in Nat \ {0} /\ N \in Nat \ {0}
  BY HalfPositive, LookaheadAssumption
<1>3. Len(buffer) <= N /\ Len(poseQueue) <= h
  BY <1>1 DEF Occupancy
<1>4. CASE step' = "pan" /\ UNCHANGED <<phase, warmups, produceCount, buffer, slotVars>>
  <2>1. Occupancy'
    BY <1>1, <1>2, <1>4 DEF Occupancy, Shape
  <2>2. UNCHANGED containers
    BY <1>4 DEF containers, slotVars
  <2> QED
    BY <1>1, <1>4, <2>1, <2>2, LoopMoves DEF Shape
<1>5. CASE ProduceOne /\ step' = "pan" /\ UNCHANGED <<phase, warmups>>
  <2>1. /\ produceCount' = produceCount + 1
        /\ buffer' \in Seq(BufferedFrame)
        /\ Len(buffer') = Len(buffer) + 1
        /\ free' \in Seq(Slots)
        /\ texture' \in [Slots -> Int]
        /\ Contents'
    BY <1>1, <1>3, <1>5, ProduceStep
  <2>2. Shape'
    BY <1>1, <1>5, <2>1 DEF Shape
  <2>3. Occupancy'
    BY <1>1, <1>2, <1>3, <1>5, <2>1 DEF Occupancy, Shape
  <2> QED
    BY <2>1, <2>2, <2>3 DEF Inv
<1>6. CASE ProduceFails
  <2>1. UNCHANGED containers /\ phase' = "failed" /\ UNCHANGED <<step, warmups>>
    BY <1>6 DEF ProduceFails, containers, slotVars
  <2> QED
    BY <1>1, <2>1, LoopMoves DEF Shape, Ended
<1> QED
  BY <1>4, <1>5, <1>6 DEF TopUp

LEMMA BackendFixed == [Next]_vars => backend' = backend
  BY DEF Next, Loop, Prefill, WarmupProduce, SteadyProduce, Pan, SteadyRender,
         Drain, Interrupt, vars, sourceVars

LEMMA StepInv == Inv /\ [Next]_vars => Inv'
<1> SUFFICES ASSUME Inv, [Next]_vars PROVE Inv'
  OBVIOUS
<1>0. h \in Nat \ {0} /\ N \in Nat \ {0}
  BY HalfPositive, LookaheadAssumption
<1>b. backend' = backend
  BY BackendFixed
<1>1. CASE Prefill
  <2>1. /\ ~Ended /\ Shape /\ Occupancy /\ Contents
        /\ phase = "prefill" /\ step = "produce" /\ pannerFrameIdx = 0
        /\ Len(poseQueue) <= h
        /\ UNCHANGED <<poseQueue, pannerFrameIdx, frameCount, shown>>
    BY <1>1 DEF Prefill, Ended, Inv, Occupancy, panVars, renderVars
  <2>2. CASE /\ phase' = "warmup"
             /\ UNCHANGED <<step, warmups, produceCount, buffer, slotVars>>
    <3>1. UNCHANGED containers
      BY <1>b, <2>1, <2>2 DEF containers, slotVars
    <3>2. Occupancy'
      BY <1>0, <2>1, <2>2 DEF Occupancy, Shape
    <3> QED
      BY <1>b, <2>1, <2>2, <3>1, <3>2, LoopMoves DEF Shape
  <2>3. CASE produceCount # N /\ ProduceOne /\ UNCHANGED <<phase, step, warmups>>
    <3>1. Len(buffer) < N /\ frameCount = 0
      BY <1>0, <2>1, <2>3 DEF Occupancy, Shape
    <3>2. /\ produceCount' = produceCount + 1
          /\ buffer' \in Seq(BufferedFrame)
          /\ Len(buffer') = Len(buffer) + 1
          /\ free' \in Seq(Slots)
          /\ texture' \in [Slots -> Int]
          /\ Contents'
      BY <1>b, <1>0, <2>1, <2>3, <3>1, ProduceStep DEF Shape
    <3>3. Shape'
      BY <1>b, <2>1, <2>3, <3>2 DEF Shape
    <3>4. Occupancy'
      BY <1>0, <2>1, <2>3, <3>1, <3>2 DEF Occupancy, Shape
    <3>5. shown'.pixels = shown'.frame /\ shown'.frame = frameCount' - 1
      BY <2>1 DEF Inv
    <3> QED
      BY <1>b, <3>2, <3>3, <3>4, <3>5 DEF Inv
  <2>4. CASE ProduceFails
    <3>1. UNCHANGED containers /\ phase' = "failed" /\ UNCHANGED <<step, warmups>>
      BY <1>b, <2>1, <2>4 DEF ProduceFails, containers, slotVars
    <3> QED
      BY <1>b, <2>1, <3>1, LoopMoves DEF Shape, Ended
  <2> QED
    BY <1>1, <2>2, <2>3, <2>4 DEF Prefill
<1>2. CASE WarmupProduce
  <2>1. /\ phase = "warmup" /\ step = "produce" /\ Shape /\ Occupancy
        /\ UNCHANGED <<poseQueue, pannerFrameIdx, frameCount, shown>>
    BY <1>2 DEF WarmupProduce, Inv, Ended, panVars, renderVars
  <2>2. CASE warmups = PostSmoothHalf \/ buffer = <<>>
    <3>1. phase' = "steady" /\ UNCHANGED containers /\ UNCHANGED <<step, warmups>>
      BY <1>b, <1>2, <2>1, <2>2 DEF WarmupProduce, containers, slotVars
    <3>2. Occupancy'
      BY <1>0, <2>1, <3>1 DEF Occupancy, containers
    <3>3. ~Ended
      BY <2>1 DEF Ended
    <3> QED
      BY <1>b, <2>1, <3>1, <3>2, <3>3, LoopMoves DEF Shape
  <2>3. CASE ~(warmups = PostSmoothHalf \/ buffer = <<>>)
    <3>1. TopUp /\ warmups # h
      BY <1>b, <1>2, <2>3 DEF WarmupProduce, h
    <3> QED
      BY <1>b, <2>1, <3>1, TopUpStep
  <2> QED
    BY <2>2, <2>3
<1>3. CASE SteadyProduce
  <2>1. /\ phase = "steady" /\ step = "produce" /\ Shape /\ Occupancy
        /\ UNCHANGED <<poseQueue, pannerFrameIdx, frameCount, shown>>
    BY <1>3 DEF SteadyProduce, Inv, Ended, panVars, renderVars
  <2>2. CASE Stopped
    <3>1. phase' = "drain" /\ UNCHANGED containers /\ UNCHANGED <<step, warmups>>
      BY <1>b, <1>3, <2>1, <2>2 DEF SteadyProduce, containers, slotVars
    <3>2. Occupancy'
      BY <1>0, <2>1, <3>1 DEF Occupancy, containers
    <3>3. ~Ended
      BY <2>1 DEF Ended
    <3> QED
      BY <1>b, <2>1, <3>1, <3>2, <3>3, LoopMoves DEF Shape
  <2>3. CASE ~Stopped
    <3>1. TopUp
      BY <1>b, <1>3, <2>3 DEF SteadyProduce
    <3> QED
      BY <1>b, <2>1, <3>1, TopUpStep
  <2> QED
    BY <2>2, <2>3
<1>4. CASE Pan
  <2>1. /\ phase \in {"warmup", "steady"} /\ step = "pan"
        /\ ~Ended /\ Shape /\ Occupancy /\ Contents /\ RunPannerOnce
        /\ UNCHANGED <<phase, produceCount, frameCount, free, texture, shown>>
    BY <1>4 DEF Pan, Inv, Ended, renderVars, slotVars
  <2>2. /\ buffer' \in Seq(BufferedFrame)
        /\ poseQueue' \in Seq(BufferedFrame)
        /\ pannerFrameIdx' \in Nat
        /\ Contents'
        /\ Len(buffer') = produceCount' - pannerFrameIdx'
        /\ Len(poseQueue') = pannerFrameIdx' - frameCount'
        /\ IF buffer = <<>>
           THEN UNCHANGED <<buffer, poseQueue, pannerFrameIdx>>
           ELSE /\ Len(buffer') = Len(buffer) - 1
                /\ Len(poseQueue') = Len(poseQueue) + 1
    BY <1>b, <2>1, PanStep
  <2>3. IF phase = "warmup"
        THEN step' = "produce" /\ warmups' = warmups + 1
        ELSE step' = "render" /\ warmups' = warmups
    BY <1>4 DEF Pan
  <2>4. Shape'
    BY <1>b, <2>1, <2>2, <2>3, SMTT(20) DEF Shape
  <2>5. /\ Len(buffer) \in Nat /\ Len(poseQueue) \in Nat
        /\ Len(buffer) <= N + 1 /\ Len(poseQueue) <= h
        /\ phase = "warmup" => warmups \in Nat /\ Len(poseQueue) <= warmups
                               /\ warmups <= h - 1
    BY <2>1 DEF Shape, Occupancy
  <2>6. Len(buffer') <= N /\ Len(poseQueue') <= Len(poseQueue) + 1
    <3>1. CASE buffer = <<>>
      <4>1. Len(buffer) = 0 /\ buffer' = buffer /\ poseQueue' = poseQueue
        BY <2>2, <3>1
      <4> QED
        BY <1>0, <2>5, <4>1
    <3>2. CASE buffer # <<>>
      <4>1. Len(buffer') = Len(buffer) - 1 /\ Len(poseQueue') = Len(poseQueue) + 1
        BY <2>2, <3>2
      <4> QED
        BY <1>0, <2>5, <4>1
    <3> QED
      BY <1>b, <3>1, <3>2
  <2>7. /\ Len(poseQueue') \in Nat
        /\ phase' = phase
        /\ step' = IF phase = "warmup" THEN "produce" ELSE "render"
    BY <2>1, <2>2, <2>3
  <2>8. Occupancy'
    <3>1. CASE phase = "warmup"
      <4>1. Len(poseQueue') <= warmups' /\ warmups' <= h /\ Len(poseQueue') <= h
        BY <1>0, <2>3, <2>5, <2>6, <2>7, <3>1
      <4> QED
        BY <1>0, <2>2, <2>6, <2>7, <3>1, <4>1 DEF Occupancy
    <3>2. CASE phase = "steady"
      <4>1. Len(poseQueue') <= h + 1
        BY <1>0, <2>5, <2>6, <2>7
      <4> QED
        BY <1>0, <2>2, <2>6, <2>7, <3>2, <4>1 DEF Occupancy
    <3> QED
      BY <1>b, <2>1, <3>1, <3>2
  <2>9. shown'.pixels = shown'.frame /\ shown'.frame = frameCount' - 1
    BY <2>1 DEF Inv
  <2> QED
    BY <2>2, <2>4, <2>8, <2>9 DEF Inv
<1>5. CASE SteadyRender
  <2>1. /\ phase = "steady" /\ step = "render" /\ step' = "produce"
        /\ ~Ended /\ Shape /\ Occupancy /\ Contents
        /\ UNCHANGED <<warmups, produceCount, buffer>>
    BY <1>5 DEF SteadyRender, Inv, Ended
  <2>2. CASE CanRender /\ RenderFront /\ UNCHANGED phase
    <3>1. poseQueue # <<>>
      BY <1>0, <2>2 DEF CanRender, h
    <3>2. /\ poseQueue' \in Seq(BufferedFrame)
          /\ frameCount' = frameCount + 1
          /\ free' \in Seq(Slots)
          /\ Contents'
          /\ pannerFrameIdx' = pannerFrameIdx
          /\ texture' = texture
          /\ Len(poseQueue') = Len(poseQueue) - 1
          /\ Len(poseQueue') = pannerFrameIdx' - frameCount'
          /\ shown'.pixels = shown'.frame
          /\ shown'.frame = frameCount
      BY <1>b, <2>1, <2>2, <3>1, RenderStep
    <3>3. Shape'
      BY <1>b, <2>1, <2>2, <3>2 DEF Shape
    <3>4. Occupancy'
      BY <1>0, <2>1, <2>2, <3>2 DEF Occupancy, Shape
    <3> QED
      BY <1>b, <2>1, <3>2, <3>3, <3>4 DEF Inv, Shape
  <2>3. CASE CanRender /\ RenderFails
    <3>1. UNCHANGED containers /\ phase' = "failed"
      BY <1>b, <2>1, <2>3 DEF RenderFails, containers, panVars, renderVars, slotVars
    <3> QED
      BY <1>b, <2>1, <3>1, LoopMoves DEF Shape, Ended
  <2>4. CASE ~CanRender
    <3>1. UNCHANGED containers /\ phase' \in {"drain", "steady"}
      BY <1>b, <1>5, <2>1, <2>4 DEF SteadyRender, containers, panVars, renderVars,
                              slotVars
    <3>2. Len(poseQueue) <= h
      BY <1>0, <2>1, <2>4 DEF CanRender, Shape, h
    <3>3. Occupancy'
      BY <1>0, <2>1, <3>1, <3>2 DEF Occupancy, containers
    <3> QED
      BY <1>b, <2>1, <3>1, <3>3, LoopMoves DEF Shape
  <2> QED
    BY <1>5, <2>2, <2>3, <2>4 DEF SteadyRender
<1>6. CASE Drain
  <2>1. /\ phase = "drain" /\ ~Ended /\ Shape /\ Occupancy /\ Contents
        /\ UNCHANGED <<step, warmups, produceCount, buffer>>
    BY <1>6 DEF Drain, Inv, Ended
  <2>2. CASE poseQueue # <<>> /\ RenderFront /\ UNCHANGED phase
    <3>1. /\ poseQueue' \in Seq(BufferedFrame)
          /\ frameCount' = frameCount + 1
          /\ free' \in Seq(Slots)
          /\ Contents'
          /\ pannerFrameIdx' = pannerFrameIdx
          /\ texture' = texture
          /\ Len(poseQueue') = Len(poseQueue) - 1
          /\ Len(poseQueue') = pannerFrameIdx' - frameCount'
          /\ shown'.pixels = shown'.frame
          /\ shown'.frame = frameCount
      BY <1>b, <2>1, <2>2, RenderStep
    <3>2. Shape'
      BY <1>b, <2>1, <2>2, <3>1 DEF Shape
    <3>3. Occupancy'
      BY <1>0, <2>1, <2>2, <3>1 DEF Occupancy, Shape
    <3> QED
      BY <1>b, <2>1, <3>1, <3>2, <3>3 DEF Inv, Shape
  <2>3. CASE /\ phase' = "done"
             /\ poseQueue' = IF poseQueue = <<>> THEN <<>> ELSE Tail(poseQueue)
             /\ UNCHANGED <<pannerFrameIdx, decision, renderVars, previousPose,
                            slotVars>>
    <3>1. Shape'
      BY <1>b, <2>1, <2>3 DEF Shape, renderVars, slotVars
    <3> QED
      BY <1>b, <2>1, <2>3, <3>1 DEF Inv, Ended, renderVars
  <2> QED
    BY <1>6, <2>2, <2>3 DEF Drain
<1>7. CASE Interrupt
  <2>1. UNCHANGED containers /\ UNCHANGED <<phase, step, warmups>> /\ ~Ended
    BY <1>b, <1>7 DEF Interrupt, containers, panVars, renderVars, slotVars
  <2>2. Occupancy'
    BY <2>1 DEF Inv, Occupancy, containers
  <2> QED
    BY <2>1, <2>2, LoopMoves DEF Inv, Shape
<1>8. CASE UNCHANGED vars
  <2>1. UNCHANGED containers /\ UNCHANGED <<phase, step, warmups>>
    BY <1>b, <1>8 DEF vars, containers, panVars, renderVars, slotVars
  <2>2. Ended' => Ended
    BY <2>1 DEF Ended
  <2>3. ~Ended' => ~Ended /\ Occupancy'
    BY <2>1 DEF Inv, Occupancy, containers, Ended
  <2> QED
    BY <2>1, <2>3, LoopMoves DEF Inv, Shape
<1> QED
  BY <1>1, <1>2, <1>3, <1>4, <1>5, <1>6, <1>7, <1>8 DEF Next, Loop

THEOREM LoopInvariant == Spec => []Inv
  BY InitInv, StepInv, PTL DEF Spec

\* "VRAM pool exhausted" is never reported, for any lookahead: the pool has
\* two slots to spare when it is asked for one.
THEOREM PoolSuffices == Spec => []PoolNeverExhausted
<1>1. Inv => PoolNeverExhausted
  <2> SUFFICES ASSUME Inv, ~Ended, backend = "VramPool" PROVE free # <<>>
    BY DEF PoolNeverExhausted, PoolExhausted
  <2>1. Len(free) = PoolSize - Len(buffer) - Len(poseQueue)
    BY DEF Inv, Contents
  <2>2. Len(buffer) <= N + 1 /\ Len(poseQueue) <= h + 1
        /\ Len(buffer) \in Nat /\ Len(poseQueue) \in Nat
    BY HalfPositive, LookaheadAssumption DEF Inv, Shape, Occupancy
  <2> QED
    BY <2>1, <2>2, PoolSizeExceeds, HalfPositive, LookaheadAssumption
<1> QED
  BY <1>1, LoopInvariant, PTL

\* A frame is rendered from its own pixels whichever way slots are handed
\* out: by occupancy (VramPool) or round robin (Windows), where only the
\* four spare slots keep the producer off the frames not rendered yet.
THEOREM OwnPixels == Spec => []RendersOwnPixels
<1>1. Inv => RendersOwnPixels
  BY DEF Inv, RendersOwnPixels
<1> QED
  BY <1>1, LoopInvariant, PTL

\* Each step of the loop is a step of the frame pipe, or leaves it alone.
LEMMA StepRefines == Inv /\ Inv' /\ [Next]_vars => [Pipe!Next]_Pipe!vars
<1> SUFFICES ASSUME Inv, Inv', [Next]_vars PROVE [Pipe!Next]_Pipe!vars
  OBVIOUS
<1>1. /\ shown.frame = frameCount - 1 /\ shown'.frame = frameCount' - 1
      /\ frameCount \in Nat /\ frameCount' \in Nat
      /\ produceCount \in Nat /\ produceCount' \in Nat
  BY DEF Inv, Shape
<1>2. ASSUME ~Ended
      PROVE  /\ Occupancy
             /\ Len(buffer) \in Nat /\ Len(poseQueue) \in Nat
             /\ Len(buffer) + Len(poseQueue) = Live
  <2>1. Shape /\ Occupancy
    BY <1>2 DEF Inv
  <2>2. Len(buffer) \in Nat /\ Len(poseQueue) \in Nat /\ pannerFrameIdx \in Nat
    BY <2>1 DEF Shape
  <2>3. /\ Len(buffer) = produceCount - pannerFrameIdx
        /\ Len(poseQueue) = pannerFrameIdx - frameCount
    BY <2>1 DEF Occupancy
  <2> QED
    BY <1>1, <2>1, <2>2, <2>3 DEF Live
<1>3. ASSUME ~Ended, ~Ended', produceCount' = produceCount + 1,
             frameCount' = frameCount, Live < N + h + 1
      PROVE  Pipe!Enter
  BY <1>1, <1>3, HalfPositive, LookaheadAssumption
     DEF Pipe!Enter, Pipe!Inside, Live, h
<1>4. ASSUME ~Ended, ~Ended', produceCount' = produceCount,
             frameCount' = frameCount + 1, Live > 0
      PROVE  Pipe!Leave
  BY <1>1, <1>4 DEF Pipe!Leave, Pipe!Inside, Live
<1>5. ASSUME ~Ended, Ended', produceCount' = produceCount,
             frameCount' = frameCount
      PROVE  Pipe!Drain \/ Pipe!Abandon
  BY <1>1, <1>5 DEF Pipe!Drain, Pipe!Abandon, Pipe!Inside, Live
<1>6. ASSUME \/ ~Ended /\ ~Ended'
             \/ Ended /\ Ended' /\ phase' = phase,
             produceCount' = produceCount, frameCount' = frameCount
      PROVE  UNCHANGED Pipe!vars
  <2>1. shown'.frame = shown.frame /\ Live' = Live
    BY <1>1, <1>6 DEF Live
  <2>2. CASE ~Ended /\ ~Ended'
    BY <1>6, <2>1, <2>2 DEF Pipe!vars
  <2>3. CASE Ended /\ Ended' /\ phase' = phase
    BY <1>6, <2>1, <2>3 DEF Pipe!vars
  <2> QED
    BY <1>6, <2>2, <2>3
<1>7. ASSUME ~Ended, ~Ended', step = "produce", ProduceOne, frameCount' = frameCount
      PROVE  Pipe!Enter
  <2>1. Len(buffer) <= N /\ Len(poseQueue) <= h
        /\ Len(buffer) \in Nat /\ Len(poseQueue) \in Nat
    BY <1>2, <1>7 DEF Occupancy
  <2>2. Live < N + h + 1
    BY <1>2, <1>7, <2>1, HalfPositive, LookaheadAssumption
  <2>3. produceCount' = produceCount + 1
    BY <1>7 DEF ProduceOne
  <2> QED
    BY <1>3, <1>7, <2>2, <2>3
<1>8. ASSUME ~Ended, ~Ended', poseQueue # <<>>, RenderFront,
             produceCount' = produceCount
      PROVE  Pipe!Leave
  <2>1. Len(poseQueue) > 0 /\ Len(buffer) \in Nat /\ Len(poseQueue) \in Nat
    BY <1>8 DEF Inv, Shape
  <2>2. Live > 0
    BY <1>2, <1>8, <2>1
  <2>3. frameCount' = frameCount + 1
    BY <1>8 DEF RenderFront
  <2> QED
    BY <1>4, <1>8, <2>2, <2>3
<1>9. ASSUME TopUp, phase \in {"warmup", "steady"}, step = "produce",
             frameCount' = frameCount
      PROVE  [Pipe!Next]_Pipe!vars
  <2>1. ~Ended
    BY <1>9 DEF Ended
  <2>2. CASE UNCHANGED <<phase, warmups, produceCount, buffer, slotVars>>
    <3>1. ~Ended'
      BY <2>2, <2>1 DEF Ended
    <3> QED
      BY <1>6, <1>9, <2>1, <2>2, <3>1
  <2>3. CASE ProduceOne /\ UNCHANGED phase
    <3>1. ~Ended'
      BY <2>3, <2>1 DEF Ended
    <3> QED
      BY <1>7, <1>9, <2>1, <2>3, <3>1 DEF Pipe!Next
  <2>4. CASE ProduceFails
    <3>1. Ended' /\ produceCount' = produceCount
      BY <2>4 DEF ProduceFails, Ended
    <3> QED
      BY <1>5, <1>9, <2>1, <3>1 DEF Pipe!Next
  <2> QED
    BY <1>9, <2>2, <2>3, <2>4 DEF TopUp
<1>10. CASE Prefill
  <2>1. ~Ended /\ step = "produce" /\ frameCount' = frameCount
    BY <1>10 DEF Prefill, Ended, Inv, Occupancy, renderVars
  <2>2. CASE phase' = "warmup" /\ UNCHANGED produceCount
    <3>1. ~Ended'
      BY <2>2 DEF Ended
    <3> QED
      BY <1>6, <2>1, <2>2, <3>1
  <2>3. CASE ProduceOne /\ UNCHANGED phase
    <3>1. ~Ended'
      BY <2>3, <2>1 DEF Ended
    <3> QED
      BY <1>7, <2>1, <2>3, <3>1 DEF Pipe!Next
  <2>4. CASE ProduceFails
    <3>1. Ended' /\ produceCount' = produceCount
      BY <2>4 DEF ProduceFails, Ended
    <3> QED
      BY <1>5, <2>1, <3>1 DEF Pipe!Next
  <2> QED
    BY <1>10, <2>2, <2>3, <2>4 DEF Prefill
<1>11. CASE WarmupProduce
  <2>1. phase = "warmup" /\ step = "produce" /\ frameCount' = frameCount
    BY <1>11 DEF WarmupProduce, renderVars
  <2>2. CASE TopUp
    BY <1>9, <2>1, <2>2
  <2>3. CASE phase' = "steady" /\ UNCHANGED produceCount
    <3>1. ~Ended /\ ~Ended'
      BY <2>1, <2>3 DEF Ended
    <3> QED
      BY <1>6, <2>1, <2>3, <3>1
  <2> QED
    BY <1>11, <2>2, <2>3 DEF WarmupProduce
<1>12. CASE SteadyProduce
  <2>1. phase = "steady" /\ step = "produce" /\ frameCount' = frameCount
    BY <1>12 DEF SteadyProduce, renderVars
  <2>2. CASE TopUp
    BY <1>9, <2>1, <2>2
  <2>3. CASE phase' = "drain" /\ UNCHANGED produceCount
    <3>1. ~Ended /\ ~Ended'
      BY <2>1, <2>3 DEF Ended
    <3> QED
      BY <1>6, <2>1, <2>3, <3>1
  <2> QED
    BY <1>12, <2>2, <2>3 DEF SteadyProduce
<1>13. CASE Pan
  <2>1. ~Ended /\ ~Ended' /\ produceCount' = produceCount
        /\ frameCount' = frameCount
    BY <1>13 DEF Pan, Ended, renderVars
  <2> QED
    BY <1>6, <2>1
<1>14. CASE SteadyRender
  <2>1. ~Ended /\ produceCount' = produceCount
    BY <1>14 DEF SteadyRender, Ended
  <2>2. CASE CanRender /\ RenderFront /\ UNCHANGED phase
    <3>1. poseQueue # <<>>
      BY <2>2, HalfPositive DEF CanRender, h
    <3>2. ~Ended'
      BY <2>1, <2>2 DEF Ended
    <3> QED
      BY <1>8, <2>1, <2>2, <3>1, <3>2 DEF Pipe!Next
  <2>3. CASE RenderFails
    <3>1. Ended' /\ frameCount' = frameCount
      BY <2>3 DEF RenderFails, Ended, renderVars
    <3> QED
      BY <1>5, <2>1, <3>1 DEF Pipe!Next
  <2>4. CASE phase' \in {"drain", phase} /\ UNCHANGED renderVars
    <3>1. ~Ended' /\ frameCount' = frameCount
      BY <2>1, <2>4 DEF Ended, renderVars
    <3> QED
      BY <1>6, <2>1, <3>1
  <2> QED
    BY <1>14, <2>2, <2>3, <2>4 DEF SteadyRender
<1>15. CASE Drain
  <2>1. ~Ended /\ produceCount' = produceCount
    BY <1>15 DEF Drain, Ended
  <2>2. CASE poseQueue # <<>> /\ RenderFront /\ UNCHANGED phase
    <3>1. ~Ended'
      BY <2>1, <2>2 DEF Ended
    <3> QED
      BY <1>8, <2>1, <2>2, <3>1 DEF Pipe!Next
  <2>3. CASE phase' = "done" /\ UNCHANGED renderVars
    <3>1. Ended' /\ frameCount' = frameCount
      BY <2>3 DEF Ended, renderVars
    <3> QED
      BY <1>5, <2>1, <3>1 DEF Pipe!Next
  <2> QED
    BY <1>15, <2>2, <2>3 DEF Drain
<1>16. CASE Interrupt
  <2>1. ~Ended /\ ~Ended' /\ produceCount' = produceCount
        /\ frameCount' = frameCount
    BY <1>16 DEF Interrupt, Ended, renderVars
  <2> QED
    BY <1>6, <2>1
<1>17. CASE UNCHANGED vars
  <2>1. produceCount' = produceCount /\ frameCount' = frameCount
        /\ phase' = phase
    BY <1>17 DEF vars, renderVars
  <2>2. (Ended /\ Ended') \/ (~Ended /\ ~Ended')
    BY <2>1 DEF Ended
  <2> QED
    BY <1>6, <2>1, <2>2
<1> QED
  BY <1>10, <1>11, <1>12, <1>13, <1>14, <1>15, <1>16, <1>17 DEF Next, Loop

\* Frames are rendered in source order, once each, none skipped, never more
\* than N + h + 1 of them inside, for every lookahead N.
THEOREM Refinement == Spec => IsFramePipe
<1>1. Init => Pipe!Init
  BY DEF Init, None, Ended, Pipe!Init
<1>2. Inv /\ Inv' /\ [Next]_vars => [Pipe!Next]_Pipe!vars
  BY StepRefines
<1> QED
  BY <1>1, <1>2, LoopInvariant, PTL DEF Spec, IsFramePipe, Pipe!Spec

------------------------------------------------------------------------------
(* Type correctness: the flags, and what the panner and renderer left behind. *)

Flags == eof \in BOOLEAN /\ interrupted \in BOOLEAN

Observed ==
    /\ backend \in Backends
    /\ sourceLength \in SourceLengths
    /\ frameLimit \in FrameLimits
    /\ pastPoses \in Seq(Nat)
    /\ previousPose \in Int
    /\ decision \in Observation

LEMMA FlagsInit == Init => Flags
  BY DEF Init, Flags

LEMMA FlagsStep == Flags /\ [Next]_vars => Flags'
<1> SUFFICES ASSUME Flags, [Next]_vars PROVE Flags'
  OBVIOUS
<1>1. ASSUME TopUp, interrupted' = interrupted PROVE Flags'
  <2>1. eof' = (eof \/ ~Full) \/ eof' = eof
    BY <1>1 DEF TopUp, ProduceFails
  <2> QED
    BY <1>1, <2>1, Zenon DEF Flags
<1>2. CASE Prefill
  <2>1. interrupted' = interrupted
    BY <1>2 DEF Prefill
  <2>2. eof' = (Len(buffer) < N) \/ eof' = eof
    BY <1>2 DEF Prefill, ProduceFails
  <2>3. (Len(buffer) < N) = TRUE \/ (Len(buffer) < N) = FALSE
    OBVIOUS
  <2>4. eof' = TRUE \/ eof' = FALSE \/ eof' = eof
    BY <2>2, <2>3
  <2> QED
    BY <2>1, <2>4, Zenon DEF Flags
<1>3. CASE WarmupProduce
  <2>1. interrupted' = interrupted /\ (TopUp \/ eof' = eof)
    BY <1>3 DEF WarmupProduce
  <2> QED
    BY <1>1, <2>1, Zenon DEF Flags
<1>4. CASE SteadyProduce
  <2>1. interrupted' = interrupted /\ (TopUp \/ eof' = eof)
    BY <1>4 DEF SteadyProduce
  <2> QED
    BY <1>1, <2>1, Zenon DEF Flags
<1>5. CASE Pan
  BY <1>5, Zenon DEF Pan, Flags
<1>6. CASE SteadyRender
  BY <1>6, Zenon DEF SteadyRender, Flags
<1>7. CASE Drain
  BY <1>7, Zenon DEF Drain, Flags
<1>8. CASE Interrupt
  BY <1>8, Zenon DEF Interrupt, Flags
<1>9. CASE UNCHANGED vars
  BY <1>9, Zenon DEF vars, Flags
<1> QED
  BY <1>2, <1>3, <1>4, <1>5, <1>6, <1>7, <1>8, <1>9 DEF Next, Loop

LEMMA ObservedInit == Init => Observed
  BY DEF Init, Observed, Observation, None

LEMMA ObservedStep == Inv /\ Observed /\ [Next]_vars => Observed'
<1> SUFFICES ASSUME Inv, Observed, [Next]_vars PROVE Observed'
  OBVIOUS
<1>1. ASSUME UNCHANGED <<sourceVars, pastPoses, previousPose, decision>>
      PROVE  Observed'
  BY <1>1 DEF Observed, sourceVars
<1>2. ASSUME RenderFront, poseQueue # <<>>, UNCHANGED sourceVars
      PROVE  Observed'
  <2> DEFINE past == Append(pastPoses, poseQueue[1].frame)
  <2>1. 1 \in 1 .. Len(poseQueue) /\ poseQueue \in Seq(BufferedFrame)
    BY <1>2 DEF Inv, Shape
  <2>2. poseQueue[1].frame \in Nat
    BY <2>1, ElementType
  <2>3. past \in Seq(Nat) /\ Tail(past) \in Seq(Nat)
    <3>1. past \in Seq(Nat) /\ Len(past) = Len(pastPoses) + 1
          /\ Len(pastPoses) \in Nat
      BY <2>2 DEF Observed
    <3> HIDE DEF past
    <3>2. past # <<>>
      BY <3>1
    <3> QED
      BY <3>1, <3>2
  <2>4. /\ pastPoses' = past \/ pastPoses' = Tail(past)
        /\ previousPose' = poseQueue[1].frame
        /\ decision' = decision
    BY <1>2, <2>1 DEF RenderFront
  <2> HIDE DEF past
  <2>5. pastPoses' \in Seq(Nat)
    BY <2>3, <2>4
  <2>6. previousPose' \in Int /\ decision' \in Observation
    BY <2>2, <2>4 DEF Observed
  <2> QED
    BY <1>2, <2>5, <2>6 DEF Observed, sourceVars
<1>3. CASE Prefill
  BY <1>1, <1>3 DEF Prefill, panVars, renderVars
<1>4. CASE WarmupProduce
  BY <1>1, <1>4 DEF WarmupProduce, panVars, renderVars
<1>5. CASE SteadyProduce
  BY <1>1, <1>5 DEF SteadyProduce, panVars, renderVars
<1>6. CASE Pan
  <2>1. UNCHANGED <<sourceVars, pastPoses>> /\ RunPannerOnce
    BY <1>6 DEF Pan, renderVars
  <2>2. CASE buffer = <<>>
    BY <1>1, <2>1, <2>2 DEF RunPannerOnce, panVars
  <2>3. CASE buffer # <<>>
    <3>1. Tail(buffer) \in Seq(BufferedFrame) /\ pannerFrameIdx \in Nat
      BY <2>3 DEF Inv, Shape
    <3>2. Frames(Tail(buffer)) \in SUBSET Nat
      <4> DEFINE t == Tail(buffer)
      <4>1. \A i \in 1 .. Len(t) : t[i].frame \in Nat
        BY <3>1, ElementType
      <4>2. DOMAIN t = 1 .. Len(t)
        BY <3>1
      <4> HIDE DEF t
      <4> QED
        BY <4>1, <4>2 DEF Frames, t
    <3>3. /\ decision' = [frame |-> pannerFrameIdx,
                          future |-> Frames(Tail(buffer)),
                          previous |-> previousPose]
          /\ previousPose' = pannerFrameIdx
      BY <2>1, <2>3 DEF RunPannerOnce
    <3>4. decision' \in Observation
      BY <3>1, <3>2, <3>3 DEF Observation, Observed
    <3> QED
      BY <2>1, <3>1, <3>3, <3>4 DEF Observed, sourceVars
  <2> QED
    BY <2>2, <2>3
<1>7. CASE SteadyRender
  <2>1. UNCHANGED sourceVars
    BY <1>7 DEF SteadyRender
  <2>2. CASE CanRender /\ RenderFront
    <3>1. poseQueue # <<>>
      BY <2>2, HalfPositive DEF CanRender, h
    <3> QED
      BY <1>2, <2>1, <2>2, <3>1
  <2>3. CASE RenderFails
    BY <1>1, <2>1, <2>3 DEF RenderFails, panVars, renderVars
  <2>4. CASE UNCHANGED <<panVars, renderVars, previousPose, slotVars>>
    BY <1>1, <2>1, <2>4 DEF panVars, renderVars
  <2> QED
    BY <1>7, <2>2, <2>3, <2>4 DEF SteadyRender
<1>8. CASE Drain
  <2>1. UNCHANGED sourceVars
    BY <1>8 DEF Drain
  <2>2. CASE poseQueue # <<>> /\ RenderFront
    BY <1>2, <2>1, <2>2
  <2>3. CASE UNCHANGED <<pannerFrameIdx, decision, renderVars, previousPose,
                         slotVars>>
    BY <1>1, <2>1, <2>3 DEF renderVars
  <2> QED
    BY <1>8, <2>2, <2>3 DEF Drain
<1>9. CASE Interrupt
  BY <1>1, <1>9 DEF Interrupt, panVars, renderVars
<1>10. CASE UNCHANGED vars
  BY <1>1, <1>10 DEF vars, panVars, renderVars
<1> QED
  BY <1>3, <1>4, <1>5, <1>6, <1>7, <1>8, <1>9, <1>10 DEF Next, Loop

\* run_buffered's locals keep their types.
THEOREM TypeCorrect == Spec => []TypeOK
<1>1. Inv /\ Flags /\ Observed => TypeOK
  <2> SUFFICES ASSUME Inv, Flags, Observed PROVE TypeOK
    OBVIOUS
  <2>1. eof \in BOOLEAN /\ interrupted \in BOOLEAN
    BY DEF Flags
  <2>2. Shape
    BY DEF Inv
  <2> QED
    BY <2>1, <2>2, Zenon DEF TypeOK, Shape, Observed
<1>2. Spec => []Flags
  BY FlagsInit, FlagsStep, PTL DEF Spec
<1>3. Spec => []Observed
  BY ObservedInit, ObservedStep, LoopInvariant, PTL DEF Spec
<1> QED
  BY <1>1, <1>2, <1>3, LoopInvariant, PTL

------------------------------------------------------------------------------
(***************************************************************************)
(* The windows of a run are whole, and a run that nobody interrupts is     *)
(* complete.                                                               *)
(***************************************************************************)

\* The raw poses kept are those of the frames rendered last.
Past ==
    /\ Len(pastPoses) = Min2(frameCount, h)
    /\ \A i \in 1 .. Len(pastPoses) : pastPoses[i] = frameCount - Len(pastPoses) + i - 1

\* No more is read than there is, no more rendered than asked for; the steady
\* loop looks at the limit before it produces, not before it renders.
Counts ==
    /\ produceCount <= sourceLength /\ frameCount <= frameLimit
    /\ phase = "steady" /\ step \in {"pan", "render"} => frameCount < frameLimit

\* The source has been read to its end.
AllRead == produceCount = sourceLength

\* While nobody interrupts, each phase leaves the queues as full as the next
\* one needs them, unless the source is at its end.
Windows ==
    /\ eof => AllRead
    /\ phase \in {"prefill", "warmup"} => frameCount = 0
    /\ phase \in {"warmup", "steady"} =>
           Len(buffer) >= (IF step = "pan" THEN N + 1 ELSE N) \/ AllRead
    /\ phase = "warmup" => Len(poseQueue) = warmups /\ (step = "pan" => Len(buffer) # 0)
    /\ phase = "steady" =>
           Len(poseQueue) = (IF step = "render" THEN h + 1 ELSE h) \/ Len(buffer) = 0
    /\ phase = "drain" =>
           frameCount >= frameLimit \/ (AllRead /\ Len(buffer) = 0 /\ Len(poseQueue) = 0)

\* The inductive invariant: the windows whole, and what was read all accounted for.
WholeInv ==
    /\ Inv /\ Flags /\ Observed /\ Past
    /\ ~Ended => Counts
    /\ ~interrupted => WholeWindows /\ CompleteRun /\ (~Ended => Windows)

\* The loop's counters are numbers.
LEMMA WholeNumbers ==
  ASSUME Inv, Observed
  PROVE  /\ N \in Nat \ {0} /\ h \in Nat \ {0} /\ h = PostSmoothHalf
         /\ sourceLength \in Nat /\ frameLimit \in Nat
         /\ produceCount \in Nat /\ pannerFrameIdx \in Nat /\ frameCount \in Nat /\ warmups \in Nat
         /\ Len(buffer) \in Nat /\ Len(poseQueue) \in Nat /\ Len(pastPoses) \in Nat
BY LookaheadAssumption, HalfPositive DEF Inv, Observed, Shape, h

\* The frames of a stretch of consecutive ones.
LEMMA FramesOfStretch ==
  ASSUME NEW s \in Seq(BufferedFrame), NEW first \in Int,
         \A i \in 1 .. Len(s) : s[i].frame = first + i - 1
  PROVE  Frames(s) = first .. first + Len(s) - 1
<1>1. Len(s) \in Nat /\ DOMAIN s = 1 .. Len(s)
  OBVIOUS
<1>2. ASSUME NEW f \in first .. first + Len(s) - 1 PROVE f \in Frames(s)
  <2>1. f - first + 1 \in 1 .. Len(s)
    BY <1>1
  <2>2. s[f - first + 1].frame = f
    BY <2>1
  <2> QED
    BY <1>1, <2>1, <2>2 DEF Frames
<1>3. ASSUME NEW f \in Frames(s) PROVE f \in first .. first + Len(s) - 1
  BY <1>1 DEF Frames
<1> QED
  BY <1>2, <1>3

\* The panner sees the N frames that follow, or all that are left.
LEMMA PanIsWhole ==
  ASSUME Inv, Observed, ~Ended, RunPannerOnce, Len(buffer) # 0, step = "pan",
         Len(buffer) >= N + 1 \/ AllRead, produceCount <= sourceLength,
         sourceLength' = sourceLength
  PROVE  FullPanWindow'
<1>1. /\ N \in Nat \ {0} /\ sourceLength \in Nat /\ produceCount \in Nat
      /\ pannerFrameIdx \in Nat /\ Len(buffer) \in Nat
  BY WholeNumbers
<1>2. Shape /\ Occupancy /\ Holds(buffer, pannerFrameIdx)
  BY DEF Inv, Contents
<1>3. Len(buffer) = produceCount - pannerFrameIdx /\ Len(buffer) <= N + 1
  BY <1>2 DEF Occupancy
<1>4. buffer # <<>> /\ buffer \in Seq(BufferedFrame)
  BY <1>2 DEF Shape
<1>5. /\ Tail(buffer) \in Seq(BufferedFrame) /\ Len(Tail(buffer)) = Len(buffer) - 1
      /\ \A i \in 1 .. Len(Tail(buffer)) : Tail(buffer)[i] = buffer[i + 1]
  BY <1>4
<1>6. \A i \in 1 .. Len(Tail(buffer)) : Tail(buffer)[i].frame = (pannerFrameIdx + 1) + i - 1
  <2> SUFFICES ASSUME NEW i \in 1 .. Len(Tail(buffer))
               PROVE  Tail(buffer)[i].frame = (pannerFrameIdx + 1) + i - 1
    OBVIOUS
  <2>1. i \in Int /\ i + 1 \in 1 .. Len(buffer)
    BY <1>1, <1>5
  <2>2. buffer[i + 1].frame = pannerFrameIdx + (i + 1) - 1
    BY <1>2, <2>1 DEF Holds
  <2> QED
    BY <1>1, <1>5, <2>1, <2>2
<1>7. Frames(Tail(buffer)) =
          pannerFrameIdx + 1 .. (pannerFrameIdx + 1) + (Len(buffer) - 1) - 1
  <2> DEFINE t == Tail(buffer)
  <2>1. t \in Seq(BufferedFrame) /\ pannerFrameIdx + 1 \in Int /\ Len(t) = Len(buffer) - 1
    BY <1>1, <1>5
  <2>2. \A i \in 1 .. Len(t) : t[i].frame = (pannerFrameIdx + 1) + i - 1
    BY <1>6
  <2> HIDE DEF t
  <2>3. Frames(t) = pannerFrameIdx + 1 .. (pannerFrameIdx + 1) + Len(t) - 1
    BY <2>1, <2>2, FramesOfStretch
  <2> QED
    BY <2>1, <2>3 DEF t
<1>8. /\ decision'.frame = pannerFrameIdx
      /\ decision'.future = Frames(Tail(buffer))
  BY <1>4 DEF RunPannerOnce
<1>9. (pannerFrameIdx + 1) + (Len(buffer) - 1) - 1
          = Min2(pannerFrameIdx + N, sourceLength - 1)
  BY <1>1, <1>3 DEF Min2, AllRead
<1>10. decision'.future = decision'.frame + 1 .. Min2(decision'.frame + N, sourceLength' - 1)
  BY <1>7, <1>8, <1>9
<1> QED
  BY <1>10 DEF FullPanWindow, Min2

\* The renderer smooths over all the frames within PostSmoothHalf.
LEMMA SmoothingIsWhole ==
  ASSUME Inv, Observed, Past, ~Ended, RenderFront, Len(poseQueue) # 0,
         produceCount <= sourceLength, sourceLength' = sourceLength,
         Len(poseQueue) = h + 1 \/ (AllRead /\ Len(buffer) = 0)
  PROVE  SymmetricSmoothing'
<1> DEFINE rest == Tail(poseQueue)
           m == IF Len(rest) < h THEN Len(rest) ELSE h
           ahead == SubSeq(rest, 1, m)
<1>1. /\ h \in Nat \ {0} /\ h = PostSmoothHalf /\ sourceLength \in Nat /\ produceCount \in Nat
      /\ pannerFrameIdx \in Nat /\ frameCount \in Nat
      /\ Len(buffer) \in Nat /\ Len(poseQueue) \in Nat /\ Len(pastPoses) \in Nat
  BY WholeNumbers
<1>2. Shape /\ Occupancy /\ Holds(poseQueue, frameCount)
  BY DEF Inv, Contents
<1>3. /\ Len(buffer) = produceCount - pannerFrameIdx
      /\ Len(poseQueue) = pannerFrameIdx - frameCount /\ Len(poseQueue) <= h + 1
  BY <1>1, <1>2 DEF Occupancy
<1>4. poseQueue # <<>> /\ poseQueue \in Seq(BufferedFrame)
  BY <1>2 DEF Shape
<1>5. /\ rest \in Seq(BufferedFrame) /\ Len(rest) = Len(poseQueue) - 1
      /\ \A i \in 1 .. Len(rest) : rest[i] = poseQueue[i + 1]
  BY <1>4
<1> HIDE DEF rest
<1>6. Head(poseQueue).frame = frameCount
  <2>1. Head(poseQueue) = poseQueue[1] /\ 1 \in 1 .. Len(poseQueue)
    BY <1>1, <1>4
  <2>2. poseQueue[1].frame = frameCount + 1 - 1
    BY <1>2, <2>1 DEF Holds
  <2> QED
    BY <1>1, <2>1, <2>2
<1>7. \A i \in 1 .. Len(rest) : rest[i].frame = (frameCount + 1) + i - 1
  <2> SUFFICES ASSUME NEW i \in 1 .. Len(rest)
               PROVE  rest[i].frame = (frameCount + 1) + i - 1
    OBVIOUS
  <2>1. i \in Int /\ i + 1 \in 1 .. Len(poseQueue)
    BY <1>1, <1>5
  <2>2. poseQueue[i + 1].frame = frameCount + (i + 1) - 1
    BY <1>2, <2>1 DEF Holds
  <2> QED
    BY <1>1, <1>5, <2>1, <2>2
<1>8. shown'.frame = frameCount /\ shown'.ahead = Frames(ahead)
      /\ shown'.past = {pastPoses[i] : i \in DOMAIN pastPoses}
  BY <1>1, <1>6 DEF RenderFront, rest
<1>9. m \in Nat /\ m <= Len(rest)
  BY <1>1, <1>5
<1>10. /\ ahead \in Seq(BufferedFrame) /\ Len(ahead) = m
       /\ \A i \in 1 .. m : ahead[i] = rest[i]
  BY <1>5, <1>9
<1>11. m = Min2(frameCount + h, sourceLength - 1) - frameCount
  BY <1>1, <1>3, <1>5 DEF Min2, AllRead
<1> HIDE DEF m, ahead
<1>12. Frames(ahead) = frameCount + 1 .. (frameCount + 1) + m - 1
  <2>1. \A i \in 1 .. Len(ahead) : ahead[i].frame = (frameCount + 1) + i - 1
    <3> SUFFICES ASSUME NEW i \in 1 .. Len(ahead)
                 PROVE  ahead[i].frame = (frameCount + 1) + i - 1
      OBVIOUS
    <3>1. i \in 1 .. m
      BY <1>10
    <3>2. i \in 1 .. Len(rest) /\ ahead[i] = rest[i]
      BY <1>1, <1>5, <1>9, <1>10, <3>1
    <3> QED
      BY <1>7, <3>2
  <2>2. frameCount + 1 \in Int
    BY <1>1
  <2>3. Frames(ahead) = frameCount + 1 .. (frameCount + 1) + Len(ahead) - 1
    BY <1>10, <2>1, <2>2, FramesOfStretch
  <2> QED
    BY <1>10, <2>3
<1>13. Min2(frameCount + h, sourceLength - 1) \in Int
  BY <1>1 DEF Min2
<1>14. shown'.ahead = shown'.frame + 1 .. Min2(shown'.frame + h, sourceLength' - 1)
  <2>1. (frameCount + 1) + m - 1 = Min2(frameCount + h, sourceLength - 1)
    BY <1>1, <1>9, <1>11, <1>13, SMTT(20)
  <2> QED
    BY <1>8, <1>12, <2>1
<1>15. {pastPoses[i] : i \in DOMAIN pastPoses} = {i \in 0 .. frameCount - 1 : i >= frameCount - h}
  <2> DEFINE n == Len(pastPoses)
  <2>1. /\ n \in Nat /\ DOMAIN pastPoses = 1 .. n /\ n = IF frameCount < h THEN frameCount ELSE h
        /\ \A i \in 1 .. n : pastPoses[i] = frameCount - n + i - 1
    BY DEF Observed, Past, Min2
  <2> HIDE DEF n
  <2>2. ASSUME NEW f \in {i \in 0 .. frameCount - 1 : i >= frameCount - h}
        PROVE  f \in {pastPoses[i] : i \in DOMAIN pastPoses}
    <3>1. f \in Int /\ f - frameCount + n + 1 \in 1 .. n
      BY <1>1, <2>1
    <3>2. PICK i \in 1 .. n : i = f - frameCount + n + 1
      BY <3>1
    <3>3. pastPoses[i] = frameCount - n + i - 1
      BY <2>1
    <3>4. pastPoses[i] = f
      BY <1>1, <2>1, <3>1, <3>2, <3>3
    <3> QED
      BY <2>1, <3>4
  <2>3. ASSUME NEW i \in DOMAIN pastPoses
        PROVE  pastPoses[i] \in {j \in 0 .. frameCount - 1 : j >= frameCount - h}
    BY <1>1, <2>1
  <2> QED
    BY <2>2, <2>3
<1> QED
  BY <1>1, <1>8, <1>14, <1>15 DEF SymmetricSmoothing, h, PostSmoothHalf, Min2

\* A rendered frame pushes the oldest pose out.
LEMMA RenderKeepsPast ==
  ASSUME Inv, Observed, Past, ~Ended, RenderFront, Len(poseQueue) # 0
  PROVE  Past' /\ frameCount' = frameCount + 1
<1> DEFINE n == Len(pastPoses)
           past == Append(pastPoses, Head(poseQueue).frame)
<1>1. h \in Nat \ {0} /\ h = PostSmoothHalf /\ frameCount \in Nat /\ n \in Nat
  BY WholeNumbers
<1>2. /\ pastPoses \in Seq(Nat) /\ n = IF frameCount < h THEN frameCount ELSE h
      /\ \A i \in 1 .. n : pastPoses[i] = frameCount - n + i - 1
  BY DEF Observed, Past, Min2
<1>3. Head(poseQueue).frame = frameCount
  <2>1. poseQueue # <<>> /\ Head(poseQueue) = poseQueue[1] /\ 1 \in 1 .. Len(poseQueue)
    BY DEF Inv, Shape
  <2>2. poseQueue[1].frame = frameCount + 1 - 1
    BY <2>1 DEF Inv, Contents, Holds
  <2> QED
    BY <1>1, <2>1, <2>2
<1>4. /\ pastPoses' = IF Len(past) > h THEN Tail(past) ELSE past
      /\ frameCount' = frameCount + 1
  BY <1>1 DEF RenderFront
<1>5. /\ past \in Seq(Nat) /\ Len(past) = n + 1
      /\ \A i \in 1 .. n + 1 : past[i] = frameCount - n + i - 1
  <2>1. /\ past \in Seq(Nat) /\ Len(past) = n + 1 /\ past[n + 1] = frameCount
        /\ \A i \in 1 .. n : past[i] = pastPoses[i]
    BY <1>1, <1>2, <1>3
  <2> HIDE DEF past, n
  <2>2. ASSUME NEW i \in 1 .. n + 1 PROVE past[i] = frameCount - n + i - 1
    <3>1. CASE i = n + 1
      BY <1>1, <2>1, <3>1
    <3>2. CASE i \in 1 .. n
      BY <1>2, <2>1, <3>2
    <3> QED
      BY <1>1, <3>1, <3>2
  <2> QED
    BY <2>1, <2>2
<1> HIDE DEF past, n
<1>6. CASE n + 1 > h
  <2>1. n = h /\ frameCount >= h
    BY <1>1, <1>2, <1>6
  <2>2. pastPoses' = Tail(past)
    BY <1>4, <1>5, <1>6
  <2>3. Len(pastPoses') = n /\ \A i \in 1 .. n : pastPoses'[i] = past[i + 1]
    BY <1>1, <1>5, <2>2
  <2>4. \A i \in 1 .. n : pastPoses'[i] = (frameCount + 1) - n + i - 1
    <3> SUFFICES ASSUME NEW i \in 1 .. n
                 PROVE  pastPoses'[i] = (frameCount + 1) - n + i - 1
      OBVIOUS
    <3>1. i \in Int /\ i + 1 \in 1 .. n + 1
      BY <1>1
    <3>2. past[i + 1] = frameCount - n + (i + 1) - 1
      BY <1>5, <3>1
    <3> QED
      BY <1>1, <2>3, <3>1, <3>2
  <2>5. n = Min2(frameCount + 1, h)
    BY <1>1, <2>1 DEF Min2
  <2> QED
    BY <1>4, <2>3, <2>4, <2>5 DEF Past, h, PostSmoothHalf, Min2
<1>7. CASE ~(n + 1 > h)
  <2>1. n = frameCount /\ frameCount < h
    BY <1>1, <1>2, <1>7
  <2>2. pastPoses' = past
    BY <1>4, <1>5, <1>7
  <2>3. \A i \in 1 .. n + 1 : pastPoses'[i] = (frameCount + 1) - (n + 1) + i - 1
    BY <1>1, <1>5, <2>2
  <2>4. n + 1 = Min2(frameCount + 1, h)
    BY <1>1, <2>1 DEF Min2
  <2> QED
    BY <1>4, <1>5, <2>2, <2>3, <2>4 DEF Past, h, PostSmoothHalf, Min2
<1> QED
  BY <1>6, <1>7

\* What one step does to the numbers that the invariant is about.
LEMMA TopUpMoves ==
  ASSUME Inv, Observed, TopUp
  PROVE  \/ phase' = "failed"
         \/ /\ step' = "pan" /\ phase' = phase /\ warmups' = warmups
            /\ \/ /\ produceCount' = produceCount /\ Len(buffer') = Len(buffer)
                  /\ eof \/ Len(buffer) >= N + 1 \/ produceCount >= sourceLength
                  /\ eof' => eof \/ produceCount >= sourceLength
               \/ /\ produceCount < sourceLength /\ produceCount' = produceCount + 1
                  /\ Len(buffer') = Len(buffer) + 1 /\ ~eof'
<1>1. CASE ProduceFails
  BY <1>1 DEF ProduceFails
<1>2. CASE /\ eof \/ Full \/ Exhausted
           /\ eof' = (eof \/ ~Full)
           /\ step' = "pan"
           /\ UNCHANGED <<phase, warmups, produceCount, buffer, slotVars>>
  BY <1>2 DEF Full, BufferCapacity, Exhausted
<1>3. CASE /\ ~eof /\ ~Full
           /\ ProduceOne
           /\ step' = "pan"
           /\ UNCHANGED <<phase, warmups, eof>>
  <2>1. produceCount \in Nat /\ sourceLength \in Nat
    BY WholeNumbers
  <2>2. buffer' = Append(buffer, [frame |-> produceCount, slot |-> AcquiredSlot])
    BY <1>3 DEF ProduceOne
  <2>3. Len(buffer') = Len(buffer) + 1
    BY <2>2 DEF Inv, Shape
  <2> QED
    BY <1>3, <2>1, <2>3 DEF ProduceOne, Exhausted
<1> QED
  BY <1>1, <1>2, <1>3 DEF TopUp

\* Steps that neither pan nor render nor end an uninterrupted run.
LEMMA QuietStep ==
  ASSUME WholeInv, Inv', Flags', Observed',
         UNCHANGED <<sourceLength, frameLimit, decision, renderVars>>,
         ~interrupted' => ~interrupted,
         ~Ended' => Counts',
         ~Ended' /\ ~interrupted' => Windows',
         phase' = "done" => phase = "done"
  PROVE  WholeInv'
<1>1. Past'
  BY DEF WholeInv, Past, renderVars, Min2, h, PostSmoothHalf
<1>2. ~interrupted' => WholeWindows' /\ CompleteRun'
  BY DEF WholeInv, WholeWindows, FullPanWindow, SymmetricSmoothing, CompleteRun, renderVars, Min2,
     PostSmoothHalf
<1> QED
  BY <1>1, <1>2 DEF WholeInv

\* Producing a frame keeps the windows whole.
LEMMA ProducingKeepsWhole ==
  ASSUME WholeInv, Inv', Flags', Observed',
         Prefill \/ WarmupProduce \/ SteadyProduce
  PROVE  WholeInv'
<1>0. /\ N \in Nat \ {0} /\ h \in Nat \ {0} /\ h = PostSmoothHalf
      /\ sourceLength \in Nat /\ frameLimit \in Nat
      /\ produceCount \in Nat /\ pannerFrameIdx \in Nat /\ frameCount \in Nat /\ warmups \in Nat
      /\ Len(buffer) \in Nat /\ Len(poseQueue) \in Nat /\ Len(pastPoses) \in Nat
  BY WholeNumbers DEF WholeInv
<1>1. /\ ~Ended /\ Occupancy /\ Counts /\ (~interrupted => Windows)
      /\ UNCHANGED <<sourceLength, frameLimit, decision, renderVars>>
      /\ UNCHANGED <<interrupted, frameCount, poseQueue, pannerFrameIdx>>
  BY DEF WholeInv, Inv, Ended, Prefill, WarmupProduce, SteadyProduce, sourceVars, panVars,
     renderVars
<1>2. CASE Prefill
  <2>1. phase = "prefill" /\ Len(buffer) = produceCount /\ Len(poseQueue) = 0 /\ warmups = 0
        /\ step = "produce" /\ frameCount = 0
    BY <1>0, <1>1, <1>2 DEF Prefill, Occupancy
  <2>2. CASE /\ produceCount = N \/ interrupted \/ Exhausted
             /\ phase' = "warmup" /\ eof' = (Len(buffer) < N)
             /\ UNCHANGED <<step, warmups, produceCount, buffer, slotVars>>
    <3>1. Counts'
      BY <1>1, <2>1, <2>2 DEF Counts
    <3>2. ~interrupted => produceCount = N \/ produceCount = sourceLength
      BY <1>0, <1>1, <2>2 DEF Counts, Exhausted
    <3>3. /\ phase' = "warmup" /\ (eof' => Len(buffer) < N)
          /\ UNCHANGED <<step, warmups, produceCount, buffer>>
      BY <2>2
    <3>4. ~interrupted' => Windows'
      BY <1>0, <1>1, <2>1, <3>2, <3>3 DEF Windows, AllRead
    <3> QED
      BY <1>1, <2>2, <3>1, <3>4, QuietStep
  <2>3. CASE ProduceOne /\ UNCHANGED <<phase, step, warmups, eof>>
    <3>1. produceCount < sourceLength /\ produceCount' = produceCount + 1
      BY <1>0, <2>3 DEF ProduceOne, Exhausted
    <3>2. Counts'
      BY <1>0, <1>1, <2>1, <2>3, <3>1 DEF Counts
    <3>3. ~interrupted' => Windows'
      BY <1>0, <1>1, <2>1, <2>3, <3>1 DEF Windows, AllRead
    <3> QED
      BY <1>1, <2>1, <2>3, <3>2, <3>3, QuietStep
  <2>4. CASE ProduceFails
    <3>1. phase' = "failed"
      BY <2>4 DEF ProduceFails
    <3> QED
      BY <1>1, <3>1, QuietStep DEF Ended
  <2> QED
    BY <1>2, <2>2, <2>3, <2>4 DEF Prefill
<1>3. CASE WarmupProduce /\ (warmups = PostSmoothHalf \/ buffer = <<>>)
  <2>1. /\ phase = "warmup" /\ step = "produce" /\ phase' = "steady"
        /\ UNCHANGED <<step, warmups, eof, produceCount, buffer>>
    BY <1>3 DEF WarmupProduce
  <2>2. warmups = h \/ Len(buffer) = 0
    BY <1>0, <1>3
  <2>3. Counts'
    BY <1>0, <1>1, <2>1 DEF Counts
  <2>4. ~interrupted' => Windows'
    BY <1>0, <1>1, <2>1, <2>2 DEF Windows, AllRead
  <2> QED
    BY <1>1, <2>1, <2>3, <2>4, QuietStep
<1>4. CASE SteadyProduce /\ Stopped
  <2>1. /\ phase = "steady" /\ step = "produce" /\ phase' = "drain"
        /\ frameCount >= frameLimit \/ interrupted
        /\ UNCHANGED <<step, warmups, eof, produceCount, buffer>>
    BY <1>4 DEF SteadyProduce, Stopped
  <2>3. Counts'
    BY <1>0, <1>1, <2>1 DEF Counts
  <2>4. ~interrupted' => Windows'
    BY <1>0, <1>1, <2>1 DEF Windows, AllRead
  <2> QED
    BY <1>1, <2>1, <2>3, <2>4, QuietStep
<1>5. CASE /\ TopUp /\ phase \in {"warmup", "steady"} /\ step = "produce"
           /\ phase = "warmup" => Len(buffer) # 0
           /\ phase = "steady" => frameCount < frameLimit
  <2>1. CASE phase' = "failed"
    BY <1>1, <2>1, QuietStep DEF Ended
  <2>2. CASE /\ step' = "pan" /\ phase' = phase /\ warmups' = warmups
             /\ produceCount' = produceCount /\ Len(buffer') = Len(buffer)
             /\ eof \/ Len(buffer) >= N + 1 \/ produceCount >= sourceLength
             /\ eof' => eof \/ produceCount >= sourceLength
    <3>1. Counts'
      BY <1>0, <1>1, <1>5, <2>2 DEF Counts
    <3>2. ~interrupted => ((eof \/ produceCount >= sourceLength) => produceCount = sourceLength)
      BY <1>0, <1>1 DEF Counts, Windows, AllRead
    <3>3. ~interrupted' => Windows'
      BY <1>0, <1>1, <1>5, <2>2, <3>2 DEF Windows, AllRead
    <3> QED
      BY <1>1, <1>5, <2>2, <3>1, <3>3, QuietStep
  <2>3. CASE /\ step' = "pan" /\ phase' = phase /\ warmups' = warmups
             /\ produceCount < sourceLength /\ produceCount' = produceCount + 1
             /\ Len(buffer') = Len(buffer) + 1 /\ ~eof'
    <3>1. Counts'
      BY <1>0, <1>1, <1>5, <2>3 DEF Counts
    <3>2. ~interrupted => Len(buffer) >= N
      BY <1>0, <1>1, <1>5, <2>3 DEF Windows, AllRead
    <3>3. ~interrupted' => Windows'
      BY <1>0, <1>1, <1>5, <2>3, <3>2 DEF Windows, AllRead
    <3> QED
      BY <1>1, <1>5, <2>3, <3>1, <3>3, QuietStep
  <2> QED
    BY <1>5, <2>1, <2>2, <2>3, TopUpMoves DEF WholeInv
<1>6. CASE WarmupProduce /\ ~(warmups = PostSmoothHalf \/ buffer = <<>>)
  <2>1. TopUp /\ phase = "warmup" /\ step = "produce"
    BY <1>6 DEF WarmupProduce
  <2>2. Len(buffer) # 0
    BY <1>6 DEF WholeInv, Inv, Shape
  <2> QED
    BY <1>5, <2>1, <2>2
<1>7. CASE SteadyProduce /\ ~Stopped
  <2>1. TopUp /\ phase = "steady" /\ step = "produce" /\ frameCount < frameLimit
    BY <1>0, <1>7 DEF SteadyProduce, Stopped
  <2> QED
    BY <1>5, <2>1
<1> QED
  BY <1>2, <1>3, <1>4, <1>6, <1>7

\* What follows a render, and what follows a pan.
LEMMA PanKeepsWhole ==
  ASSUME WholeInv, Inv', Flags', Observed', Pan
  PROVE  WholeInv'
<1>0. /\ N \in Nat \ {0} /\ h \in Nat \ {0} /\ h = PostSmoothHalf
      /\ sourceLength \in Nat /\ frameLimit \in Nat
      /\ produceCount \in Nat /\ pannerFrameIdx \in Nat /\ frameCount \in Nat /\ warmups \in Nat
      /\ Len(buffer) \in Nat /\ Len(poseQueue) \in Nat /\ Len(pastPoses) \in Nat
  BY WholeNumbers DEF WholeInv
<1>1. /\ phase \in {"warmup", "steady"} /\ step = "pan" /\ phase' = phase
      /\ step' = IF phase = "warmup" THEN "produce" ELSE "render"
      /\ warmups' = IF phase = "warmup" THEN warmups + 1 ELSE warmups
      /\ RunPannerOnce
      /\ eof' = eof /\ interrupted' = interrupted /\ produceCount' = produceCount
      /\ sourceLength' = sourceLength /\ frameLimit' = frameLimit
      /\ UNCHANGED renderVars
  BY DEF Pan, sourceVars
<1>2. ~Ended /\ Occupancy /\ Counts /\ (~interrupted => Windows)
  BY <1>1 DEF Ended, WholeInv, Inv
<1>3. frameCount' = frameCount /\ pastPoses' = pastPoses /\ shown' = shown
  BY <1>1 DEF renderVars
<1>4. IF Len(buffer) = 0
      THEN Len(buffer') = 0 /\ Len(poseQueue') = Len(poseQueue) /\ decision' = decision
      ELSE Len(buffer') = Len(buffer) - 1 /\ Len(poseQueue') = Len(poseQueue) + 1
  <2>1. buffer \in Seq(BufferedFrame) /\ poseQueue \in Seq(BufferedFrame)
    BY DEF WholeInv, Inv, Shape
  <2>2. CASE buffer = <<>>
    BY <1>1, <2>1, <2>2 DEF RunPannerOnce, panVars
  <2>3. CASE buffer # <<>>
    <3>1. buffer' = Tail(buffer) /\ poseQueue' = Append(poseQueue, Head(buffer))
      BY <1>1, <2>3 DEF RunPannerOnce
    <3>2. Len(buffer) # 0 /\ Len(buffer') = Len(buffer) - 1
      BY <2>1, <2>3, <3>1
    <3>3. Head(buffer) \in BufferedFrame
      BY <2>1, <2>3
    <3>4. Len(poseQueue') = Len(poseQueue) + 1
      BY <2>1, <3>1, <3>3
    <3> QED
      BY <3>2, <3>4
  <2> QED
    BY <2>2, <2>3
<1>5. Past' /\ Counts'
  BY <1>0, <1>1, <1>2, <1>3 DEF WholeInv, Past, Counts, Min2, h, PostSmoothHalf
<1>6. ~interrupted' => WholeWindows' /\ CompleteRun'
  <2> SUFFICES ASSUME ~interrupted' PROVE WholeWindows' /\ CompleteRun'
    OBVIOUS
  <2>1. WholeWindows /\ Windows
    BY <1>1, <1>2 DEF WholeInv
  <2>2. FullPanWindow'
    <3>1. CASE Len(buffer) = 0
      BY <1>1, <1>4, <2>1, <3>1 DEF WholeWindows, FullPanWindow, Min2
    <3>2. CASE Len(buffer) # 0
      <4>1. Len(buffer) >= N + 1 \/ AllRead
        BY <1>1, <2>1 DEF Windows
      <4>2. produceCount <= sourceLength
        BY <1>2 DEF Counts
      <4> QED
        BY <1>1, <1>2, <3>2, <4>1, <4>2, PanIsWhole DEF WholeInv
    <3> QED
      BY <3>1, <3>2
  <2>3. SymmetricSmoothing'
    BY <1>1, <1>3, <2>1 DEF WholeWindows, SymmetricSmoothing, Min2, PostSmoothHalf
  <2>4. CompleteRun'
    BY <1>1 DEF CompleteRun
  <2> QED
    BY <2>2, <2>3, <2>4 DEF WholeWindows
<1>7. ~interrupted' => Windows'
  <2> SUFFICES ASSUME ~interrupted' PROVE Windows'
    OBVIOUS
  <2>1. Windows
    BY <1>1, <1>2
  <2> QED
    BY <1>0, <1>1, <1>2, <1>3, <1>4, <2>1 DEF Windows, AllRead, Occupancy
<1> QED
  BY <1>5, <1>6, <1>7 DEF WholeInv

\* Rendering a frame, in the steady state or in the drain, consumes whole windows.
LEMMA RenderKeepsWhole ==
  ASSUME WholeInv, Inv', Flags', Observed', SteadyRender \/ Drain
  PROVE  WholeInv'
<1>0. /\ N \in Nat \ {0} /\ h \in Nat \ {0} /\ h = PostSmoothHalf
      /\ sourceLength \in Nat /\ frameLimit \in Nat
      /\ produceCount \in Nat /\ pannerFrameIdx \in Nat /\ frameCount \in Nat /\ warmups \in Nat
      /\ Len(buffer) \in Nat /\ Len(poseQueue) \in Nat /\ Len(pastPoses) \in Nat
  BY WholeNumbers DEF WholeInv
<1>1. /\ ~Ended /\ Occupancy /\ Counts /\ (~interrupted => Windows)
      /\ (phase = "steady" /\ step = "render" /\ step' = "produce") \/ (phase = "drain" /\ step' = step)
      /\ sourceLength' = sourceLength /\ frameLimit' = frameLimit
      /\ UNCHANGED <<warmups, eof, interrupted, produceCount, buffer>>
  BY DEF WholeInv, Inv, Ended, SteadyRender, Drain, sourceVars
<1>2. Len(poseQueue) = pannerFrameIdx - frameCount /\ Len(poseQueue) <= h + 1
      /\ Len(buffer) = produceCount - pannerFrameIdx
  BY <1>0, <1>1 DEF Occupancy
<1>3. CASE RenderFront /\ Len(poseQueue) # 0 /\ phase' = phase /\ frameCount < frameLimit
           /\ (phase = "drain" => ~Stopped)
  <2>1. Past' /\ frameCount' = frameCount + 1
    BY <1>1, <1>3, RenderKeepsPast DEF WholeInv
  <2>2. Counts'
    BY <1>0, <1>1, <1>3, <2>1 DEF Counts
  <2>3. Len(poseQueue') = Len(poseQueue) - 1 /\ decision' = decision
    <3>1. poseQueue \in Seq(BufferedFrame) /\ poseQueue # <<>> /\ poseQueue' = Tail(poseQueue)
          /\ decision' = decision
      BY <1>3 DEF RenderFront, WholeInv, Inv, Shape
    <3> QED
      BY <3>1
  <2>4. ASSUME ~interrupted' PROVE WholeWindows' /\ CompleteRun' /\ Windows'
    <3>1. Windows /\ WholeWindows
      BY <1>1, <2>4 DEF WholeInv
    <3>2. phase = "steady"
      BY <1>0, <1>1, <1>3, <3>1 DEF Windows
    <3>3. Len(poseQueue) = h + 1 \/ (AllRead /\ Len(buffer) = 0)
      BY <1>0, <1>1, <3>1, <3>2 DEF Windows
    <3>4. SymmetricSmoothing'
      BY <1>0, <1>1, <1>3, <3>3, SmoothingIsWhole DEF WholeInv, Counts
    <3>5. FullPanWindow'
      BY <1>1, <2>3, <3>1 DEF WholeWindows, FullPanWindow, Min2
    <3>6. CompleteRun'
      BY <1>3, <3>2 DEF CompleteRun
    <3>7. Windows'
      BY <1>0, <1>1, <1>2, <1>3, <2>3, <3>1, <3>2, <3>3 DEF Windows, AllRead
    <3> QED
      BY <3>4, <3>5, <3>6, <3>7 DEF WholeWindows
  <2> QED
    BY <2>1, <2>2, <2>4 DEF WholeInv
<1>4. CASE phase' = "failed" /\ UNCHANGED <<decision, renderVars>>
  BY <1>1, <1>4, QuietStep DEF Ended
<1>5. CASE SteadyRender /\ ~CanRender
  <2>1. /\ phase = "steady" /\ step = "render"
        /\ phase' = (IF eof /\ buffer = <<>> /\ poseQueue = <<>> THEN "drain" ELSE phase)
        /\ UNCHANGED <<decision, renderVars, poseQueue>>
    BY <1>5 DEF SteadyRender, panVars
  <2>2. frameCount' = frameCount
    BY <2>1 DEF renderVars
  <2>3. Len(poseQueue) <= h
    BY <1>0, <1>5 DEF CanRender
  <2>4. phase' = "drain" => Len(buffer) = 0 /\ Len(poseQueue) = 0 /\ eof
    BY <2>1
  <2>5. phase' \in {"steady", "drain"}
    BY <2>1
  <2>6. Counts'
    BY <1>0, <1>1, <2>1, <2>2, <2>5 DEF Counts
  <2>7. ~interrupted' => Windows'
    BY <1>0, <1>1, <2>1, <2>2, <2>3, <2>4, <2>5 DEF Windows, AllRead
  <2> QED
    BY <1>1, <2>1, <2>5, <2>6, <2>7, QuietStep
<1>6. CASE Drain /\ (poseQueue = <<>> \/ Stopped)
  <2>1. /\ phase = "drain" /\ phase' = "done" /\ UNCHANGED <<decision, renderVars>>
    BY <1>6 DEF Drain
  <2>2. frameCount' = frameCount /\ pastPoses' = pastPoses /\ shown' = shown
    BY <2>1 DEF renderVars
  <2>3. Past'
    BY <2>2 DEF WholeInv, Past, Min2, h, PostSmoothHalf
  <2>4. ASSUME ~interrupted' PROVE WholeWindows' /\ CompleteRun'
    <3>1. WholeWindows /\ Windows
      BY <1>1, <2>4 DEF WholeInv
    <3>2. WholeWindows'
      BY <1>1, <2>1, <2>2, <3>1
      DEF WholeWindows, FullPanWindow, SymmetricSmoothing, Min2, PostSmoothHalf
    <3>3. frameCount >= frameLimit \/ frameCount = sourceLength
      BY <1>0, <1>2, <2>1, <3>1 DEF Windows, AllRead
    <3>4. frameCount <= frameLimit /\ frameCount <= sourceLength
      BY <1>0, <1>1, <1>2 DEF Counts
    <3>5. frameCount' = Min2(sourceLength', frameLimit')
      BY <1>0, <1>1, <2>2, <3>3, <3>4 DEF Min2
    <3>6. CompleteRun'
      BY <3>5 DEF CompleteRun, Min2
    <3> QED
      BY <3>2, <3>6
  <2>5. Ended'
    BY <2>1 DEF Ended
  <2> QED
    BY <2>3, <2>4, <2>5 DEF WholeInv
<1>7. CASE SteadyRender /\ CanRender
  <2>1. Len(poseQueue) # 0
    BY <1>0, <1>7 DEF CanRender, WholeInv, Inv, Shape
  <2>2. phase = "steady" /\ step = "render"
    BY <1>7 DEF SteadyRender
  <2>3. frameCount < frameLimit
    BY <1>1, <2>2 DEF Counts
  <2>4. CASE RenderFront /\ phase' = phase
    BY <1>3, <2>1, <2>2, <2>3, <2>4
  <2>5. CASE RenderFails
    BY <1>4, <2>5 DEF RenderFails, panVars
  <2> QED
    BY <1>7, <2>4, <2>5 DEF SteadyRender
<1>8. CASE Drain /\ ~(poseQueue = <<>> \/ Stopped)
  <2>1. RenderFront /\ phase' = phase /\ phase = "drain"
    BY <1>8 DEF Drain
  <2>2. Len(poseQueue) # 0 /\ frameCount < frameLimit
    BY <1>0, <1>8 DEF Stopped, WholeInv, Inv, Shape
  <2> QED
    BY <1>3, <1>8, <2>1, <2>2
<1> QED
  BY <1>5, <1>6, <1>7, <1>8

\* The run starts in a state of the invariant.
LEMMA WholeStarts == ASSUME Init PROVE WholeInv
<1>1. Inv /\ Flags /\ Observed
  BY InitInv, FlagsInit, ObservedInit
<1>2. /\ phase = "prefill" /\ step = "produce" /\ produceCount = 0 /\ frameCount = 0
      /\ pastPoses = <<>> /\ ~eof /\ decision.frame = None /\ shown.frame = None
  BY DEF Init
<1>3. sourceLength \in Nat /\ frameLimit \in Nat /\ h \in Nat \ {0} /\ Len(pastPoses) = 0
  BY <1>1, <1>2, WholeNumbers
<1>4. Past
  BY <1>2, <1>3 DEF Past, Min2
<1>5. Counts
  BY <1>2, <1>3 DEF Counts
<1>6. Windows
  BY <1>2 DEF Windows
<1>7. WholeWindows /\ CompleteRun
  BY <1>2 DEF WholeWindows, FullPanWindow, SymmetricSmoothing, CompleteRun
<1> QED
  BY <1>1, <1>4, <1>5, <1>6, <1>7 DEF WholeInv

\* Every step of the run keeps the invariant.
LEMMA WholeStep == ASSUME WholeInv, [Next]_vars PROVE WholeInv'
<1>1. Inv' /\ Flags' /\ Observed'
  BY StepInv, FlagsStep, ObservedStep DEF WholeInv
<1>2. CASE Interrupt \/ UNCHANGED vars
  <2>1. /\ UNCHANGED <<sourceLength, frameLimit, decision, renderVars>>
        /\ UNCHANGED <<phase, step, warmups, eof, produceCount, buffer, poseQueue, frameCount>>
        /\ ~interrupted' => ~interrupted
    BY <1>2 DEF Interrupt, vars, sourceVars, panVars, renderVars
  <2>2. ~Ended' => ~Ended
    BY <2>1 DEF Ended
  <2>3. Counts => Counts'
    BY <2>1 DEF Counts
  <2>4. Windows => Windows'
    BY <2>1 DEF Windows, AllRead, h, PostSmoothHalf
  <2> QED
    BY <1>1, <2>1, <2>2, <2>3, <2>4, QuietStep DEF WholeInv
<1> QED
  BY <1>1, <1>2, ProducingKeepsWhole, PanKeepsWhole, RenderKeepsWhole DEF Next, Loop

\* The invariant of the pan and smoothing windows holds in every state of a run.
THEOREM RunIsWhole == Spec => []WholeInv
  BY WholeStarts, WholeStep, PTL DEF Spec

\* The pan window and the smoothing window of every frame are whole, whichever
\* phase of the loop handles it, for every lookahead and source length.
THEOREM WindowsAreWhole == Spec => []WholeWindows
<1>1. WholeInv => WholeWindows
  BY DEF WholeInv, WholeWindows, FullPanWindow, SymmetricSmoothing
<1> QED
  BY <1>1, RunIsWhole, PTL

\* A run that nobody interrupts ends with the whole source rendered, or with
\* as much of it as the limit asks for.
THEOREM RunsComplete == Spec => []CompleteRun
<1>1. WholeInv => CompleteRun
  BY DEF WholeInv, CompleteRun
<1> QED
  BY <1>1, RunIsWhole, PTL
==============================================================================
