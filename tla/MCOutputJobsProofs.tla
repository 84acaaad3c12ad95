------------------------- MODULE MCOutputJobsProofs -------------------------
(***************************************************************************)
(* What is proved of the jobs around a session: the desktop window, the    *)
(* event trace, the OBS source and the file export. Each theorem holds of  *)
(* the part by itself and of the composition of MCSessionOutput.           *)
(***************************************************************************)
EXTENDS MCSessionOutput, SequenceTheorems, WellFoundedInduction, TLAPS

------------------------------------------------------------------------------
(***************************************************************************)
(* Desktop: files, calibration, export and recording of the window.        *)
(***************************************************************************)

\* The two inputs.
Eyes == Window!Sides

\* The files the inputs choose from.
Files == Window!AllSegments

\* The types of the window's state, and of what its jobs were started with.
WindowTypes ==
    /\ Window!TypeOK
    /\ input \in [Eyes -> Seq(Files)]
    /\ calPath \in Window!Calibrations \cup {Nothing}
    /\ calibration \in Window!Calibrations \cup {Nothing}
    /\ bridge \in Window!Bridges \cup {Nothing}
    /\ calJob \in Window!Jobs \cup {Nothing}
    /\ handed \in [file : Nat, from : Nat]

\* The controls are on only while both inputs are there, and with a calibration's
\* path only for files that can be opened.
LoadedOpens ==
    filesLoaded => /\ Window!HasBoth(input)
                   /\ calPath # Nothing => Window!Opens(input)

\* The inductive invariant.
WindowInv ==
    /\ WindowTypes
    /\ LoadedOpens
    /\ Window!PreviewShowsSelection

\* The window opens in a state of the invariant.
LEMMA WindowStarts == Window!Init => WindowInv
<1> SUFFICES ASSUME Window!Init PROVE WindowInv
  OBVIOUS
<1> USE WindowAssumption DEF Window!Init, Window!NoInput, Eyes, Files
<1>1. \A S : <<>> \in Seq(S) /\ Len(<<>>) = 0
  OBVIOUS
<1>2. Window!TypeOK
  <2>1. \A e \in Window!Sides : MaxChain[e] \in Nat
    BY DEF Window!DesktopAssumption
  <2>2. MaxRecordings \in Nat
    BY DEF Window!DesktopAssumption
  <2>3. \A e \in Window!Sides : input[e] \in Seq(Segments[e]) /\ Len(input[e]) <= MaxChain[e]
    BY <1>1, <2>1
  <2>4. /\ recordings \in 0 .. MaxRecordings /\ recording \in 0 .. recordings
        /\ handed.file \in 0 .. recordings /\ handed.from \in 0 .. recordings
    BY <2>2
  <2> QED
    BY <2>3, <2>4 DEF Window!TypeOK
<1>3. WindowTypes
  BY <1>1, <1>2 DEF WindowTypes
<1> QED
  BY <1>3 DEF WindowInv, LoadedOpens, Window!PreviewShowsSelection

\* Both inputs' segments, however they are typed.
LEMMA InputTypes ==
  ASSUME WindowTypes
  PROVE  /\ Eyes = {"left", "right"}
         /\ \A e \in Eyes : /\ Segments[e] \subseteq Files
                            /\ input[e] \in Seq(Files) /\ input[e] \in Seq(Segments[e])
                            /\ Len(input[e]) \in Nat
                            /\ input[e] # <<>> => Head(input[e]) \in Files
BY WindowAssumption DEF WindowTypes, Window!TypeOK, Eyes, Files, Window!Sides, Window!AllSegments

\* No job, preview or calibration is Nothing.
LEMMA Something ==
  /\ Nothing \notin Window!Jobs /\ Nothing \notin Window!Bridges
  /\ Nothing \notin Window!Calibrations /\ Nothing \notin {"ok", "failed", "running", "returned"}
BY WindowAssumption DEF Window!DesktopAssumption

\* A preview that is built for files and a calibration is one.
LEMMA NewBridgeType ==
  ASSUME NEW i \in [Eyes -> Seq(Files)], NEW c \in Window!Calibrations
  PROVE  /\ Window!NewBridge(i, c) \in Window!Bridges
         /\ Window!NewBridge(i, c) # Nothing
         /\ Window!NewBridge(i, c).source = i /\ Window!NewBridge(i, c).ring = <<>>
<1>1. <<>> \in Seq(Nat)
  OBVIOUS
<1>2. Window!NewBridge(i, c) \in Window!Bridges
  BY <1>1 DEF Window!NewBridge, Window!Bridges, Eyes, Files
<1> QED
  BY <1>2, Something DEF Window!NewBridge

\* What the properties read of a preview.
LEMMA PreviewTypes ==
  ASSUME NEW b \in Window!Bridges, NEW r \in Nat, b.ring \in Seq(1 .. r), recordings = r
  PROVE  [source |-> b.source, ring |-> b.ring] \in Window!Previews
BY DEF Window!Bridges, Window!Previews, Window!AllSegments

\* The types after a step: the parts that change one by one.
LEMMA WindowTypesNext ==
  ASSUME WindowTypes,
         input' \in [Eyes -> Seq(Files)],
         \A e \in Eyes : input'[e] \in Seq(Segments[e]) /\ Len(input'[e]) <= MaxChain[e],
         calPath' \in Window!Calibrations \cup {Nothing},
         calibration' \in Window!Calibrations \cup {Nothing},
         calJob' \in Window!Jobs \cup {Nothing},
         exportJob' \in {Nothing, "running", "returned"},
         {filesLoaded', reopening', calibrating'} \subseteq BOOLEAN,
         recordings' \in recordings .. MaxRecordings, recording' \in 0 .. recordings',
         handed' = handed \/ handed' \in [file : 0 .. recordings', from : 0 .. recordings'],
         \/ bridge' = Nothing
         \/ bridge' \in Window!Bridges /\ bridge'.ring \in Seq(1 .. recordings')
         \/ bridge' = bridge
  PROVE  WindowTypes'
<1> USE DEF Eyes
<1>1. recordings \in Nat /\ recordings' \in Nat /\ recordings <= recordings'
      /\ MaxRecordings \in Nat /\ recordings' <= MaxRecordings
  BY WindowAssumption DEF WindowTypes, Window!TypeOK, Window!DesktopAssumption
<1>2. 1 .. recordings \subseteq 1 .. recordings' /\ 1 .. recordings' \subseteq Nat
  BY <1>1
<1>3. handed' \in [file : Nat, from : Nat]
      /\ handed'.file \in 0 .. recordings' /\ handed'.from \in 0 .. recordings'
  BY <1>1 DEF WindowTypes, Window!TypeOK
<1>4. bridge' \in Window!Bridges \cup {Nothing}
  BY DEF WindowTypes
<1>5. bridge' # Nothing => bridge'.ring \in Seq(1 .. recordings')
  <2>1. CASE bridge' = bridge
    <3>1. bridge # Nothing => bridge.ring \in Seq(1 .. recordings)
      BY DEF WindowTypes, Window!TypeOK, Window!Previews
    <3>2. \A q \in Seq(1 .. recordings) : q \in Seq(1 .. recordings')
      BY <1>2, SeqMonotonic
    <3> QED
      BY <2>1, <3>1, <3>2
  <2> QED
    BY <2>1
<1>6. bridge' # Nothing => [source |-> bridge'.source, ring |-> bridge'.ring] \in Window!Previews'
  BY <1>4, <1>5 DEF Window!Bridges, Window!Previews, Window!AllSegments
<1>7. calJob' # Nothing => calJob'.answer \in {Nothing, "ok", "failed"}
  BY DEF Window!Jobs, Window!Answers
<1>8. Window!TypeOK'
  BY <1>1, <1>3, <1>6, <1>7 DEF Window!TypeOK
<1> QED
  BY <1>3, <1>4, <1>8 DEF WindowTypes

\* What Files, a calibration and an export leave the preview with: none, the one
\* there was, or one of the files selected.
LEMMA TryInitCases ==
  ASSUME NEW i \in [Eyes -> Seq(Files)], NEW c \in Window!Calibrations \cup {Nothing},
         NEW old, Window!TryInit(i, c, old)
  PROVE  \/ /\ Window!HasBoth(i) /\ c # Nothing /\ Window!Opens(i)
            /\ bridge' \in Window!Bridges /\ bridge' # Nothing
            /\ bridge'.source = i /\ bridge'.ring = <<>>
            /\ calibration' = c
         \/ /\ ~(Window!HasBoth(i) /\ c # Nothing /\ Window!Opens(i))
            /\ bridge' = old /\ calibration' = calibration
<1>1. c # Nothing => c \in Window!Calibrations
  OBVIOUS
<1> QED
  BY <1>1, NewBridgeType DEF Window!TryInit

\* Files that are tried at once, after the preview of others was unloaded.
LEMMA TriedInvariant ==
  ASSUME WindowInv,
         input' \in [Eyes -> Seq(Files)],
         \A e \in Eyes : input'[e] \in Seq(Segments[e]) /\ Len(input'[e]) <= MaxChain[e],
         calPath' \in Window!Calibrations \cup {Nothing},
         Window!HasBoth(input) => Window!HasBoth(input'),
         calPath # Nothing => calPath' # Nothing,
         NEW unload \in BOOLEAN,
         Window!TryInit(input', calPath', IF unload THEN Nothing ELSE bridge),
         Window!LoadedAfter(input', calPath', unload),
         IF unload THEN Window!StopRecording ELSE UNCHANGED recording,
         UNCHANGED <<reopening, calibrating, calJob, exportJob, recordings, handed>>
  PROVE  WindowInv'
<1>1. \/ /\ Window!HasBoth(input') /\ calPath' # Nothing /\ Window!Opens(input')
         /\ bridge' \in Window!Bridges /\ bridge' # Nothing
         /\ bridge'.source = input' /\ bridge'.ring = <<>>
         /\ calibration' = calPath'
      \/ /\ ~(Window!HasBoth(input') /\ calPath' # Nothing /\ Window!Opens(input'))
         /\ bridge' = IF unload THEN Nothing ELSE bridge
         /\ calibration' = calibration
  BY TryInitCases
<1>2. filesLoaded' \in BOOLEAN
  BY DEF Window!LoadedAfter, WindowInv, WindowTypes, Window!TypeOK, Window!Opens
<1>3. WindowTypes'
  <2>1. recordings' \in recordings .. MaxRecordings /\ recording' \in 0 .. recordings'
    BY WindowAssumption DEF WindowInv, WindowTypes, Window!TypeOK, Window!StopRecording,
       Window!DesktopAssumption
  <2>2. <<>> \in Seq(1 .. recordings')
    OBVIOUS
  <2>3. {filesLoaded', reopening', calibrating'} \subseteq BOOLEAN
    BY <1>2 DEF WindowInv, WindowTypes, Window!TypeOK
  <2> QED
    BY <1>1, <2>1, <2>2, <2>3, WindowTypesNext DEF WindowInv, WindowTypes, Window!TypeOK
<1>4. LoadedOpens'
  BY DEF WindowInv, LoadedOpens, Window!LoadedAfter
<1>5. Window!PreviewShowsSelection'
  BY <1>1 DEF WindowInv, LoadedOpens, Window!PreviewShowsSelection, Window!LoadedAfter
<1> QED
  BY <1>3, <1>4, <1>5 DEF WindowInv

\* A segment that is removed or moved leaves a sequence of the same segments.
LEMMA Removed ==
  ASSUME NEW S, NEW q \in Seq(S), NEW k \in 1 .. Len(q)
  PROVE  /\ Window!RemoveAt(q, k) \in Seq(S)
         /\ Len(Window!RemoveAt(q, k)) = Len(q) - 1
<1> DEFINE a == SubSeq(q, 1, k - 1)
           b == SubSeq(q, k + 1, Len(q))
<1>1. a \in Seq(S) /\ Len(a) = k - 1
  OBVIOUS
<1>2. b \in Seq(S) /\ Len(b) = Len(q) - k
  OBVIOUS
<1> HIDE DEF a, b
<1>3. a \o b \in Seq(S) /\ Len(a \o b) = Len(a) + Len(b)
  BY <1>1, <1>2
<1>4. Window!RemoveAt(q, k) = a \o b
  BY DEF Window!RemoveAt, a, b
<1>5. Len(a \o b) = Len(q) - 1
  BY <1>1, <1>2, <1>3
<1> QED
  BY <1>3, <1>4, <1>5

\* Inserting puts one more element into a sequence.
LEMMA Inserted ==
  ASSUME NEW S, NEW q \in Seq(S), NEW k \in Int, k \in 1 .. Len(q) + 1, NEW e \in S
  PROVE  /\ Window!InsertAt(q, k, e) \in Seq(S)
         /\ Len(Window!InsertAt(q, k, e)) = Len(q) + 1
<1> DEFINE a == SubSeq(q, 1, k - 1)
           b == SubSeq(q, k, Len(q))
<1>1. a \in Seq(S) /\ Len(a) = k - 1
  OBVIOUS
<1>2. b \in Seq(S) /\ Len(b) = Len(q) - k + 1
  OBVIOUS
<1> HIDE DEF a, b
<1>3. a \o <<e>> \in Seq(S) /\ Len(a \o <<e>>) = Len(a) + 1
  BY <1>1
<1>4. (a \o <<e>>) \o b \in Seq(S) /\ Len((a \o <<e>>) \o b) = Len(a) + 1 + Len(b)
  BY <1>2, <1>3
<1>5. Window!InsertAt(q, k, e) = (a \o <<e>>) \o b
  BY DEF Window!InsertAt, a, b
<1>6. Len((a \o <<e>>) \o b) = Len(q) + 1
  BY <1>1, <1>2, <1>4
<1> QED
  BY <1>4, <1>5, <1>6

\* Moving an element keeps a sequence's type and length.
LEMMA Moved ==
  ASSUME NEW S, NEW q \in Seq(S), NEW i \in 1 .. Len(q), NEW j \in 1 .. Len(q)
  PROVE  /\ Window!InsertAt(Window!RemoveAt(q, i), j, q[i]) \in Seq(S)
         /\ Len(Window!InsertAt(Window!RemoveAt(q, i), j, q[i])) = Len(q)
<1>1. /\ Window!RemoveAt(q, i) \in Seq(S)
      /\ Len(Window!RemoveAt(q, i)) = Len(q) - 1
  BY Removed
<1>2. Len(q) \in Nat /\ q[i] \in S /\ j \in Int /\ j \in 1 .. Len(Window!RemoveAt(q, i)) + 1
  BY <1>1
<1> QED
  BY <1>1, <1>2, Inserted

\* Moving an element brings in no new one.
LEMMA MovedSet ==
  ASSUME NEW S, NEW q \in Seq(S), NEW i \in 1 .. Len(q), NEW j \in 1 .. Len(q)
  PROVE  Window!ToSet(Window!InsertAt(Window!RemoveAt(q, i), j, q[i])) \subseteq Window!ToSet(q)
<1> DEFINE new == Window!InsertAt(Window!RemoveAt(q, i), j, q[i])
<1>1. q \in Seq(Window!ToSet(q))
  BY DEF Window!ToSet
<1>2. new \in Seq(Window!ToSet(q))
  BY <1>1, Moved
<1> HIDE DEF new
<1>3. \A k \in DOMAIN new : new[k] \in Window!ToSet(q)
  BY <1>2
<1> QED
  BY <1>3 DEF Window!ToSet, new

------------------------------------------------------------------------------
\* A change of the files that unloads the preview keeps the invariant.
LEMMA UntriedInvariant ==
  ASSUME WindowInv,
         input' \in [Eyes -> Seq(Files)],
         \A e \in Eyes : input'[e] \in Seq(Segments[e]) /\ Len(input'[e]) <= MaxChain[e],
         calPath' \in {calPath, Nothing}, calibration' \in {calibration, Nothing},
         Window!Unload, filesLoaded' = FALSE,
         UNCHANGED <<reopening, calibrating, calJob, exportJob, recordings, handed>>
  PROVE  WindowInv'
<1>1. recordings' \in recordings .. MaxRecordings /\ recording' \in 0 .. recordings'
  BY WindowAssumption DEF WindowInv, WindowTypes, Window!TypeOK, Window!StopRecording,
     Window!Unload, Window!DesktopAssumption
<1>2. {filesLoaded', reopening', calibrating'} \subseteq BOOLEAN
  BY DEF WindowInv, WindowTypes, Window!TypeOK
<1>3. WindowTypes'
  BY <1>1, <1>2, WindowTypesNext DEF WindowInv, WindowTypes, Window!TypeOK, Window!Unload
<1> QED
  BY <1>3 DEF WindowInv, LoadedOpens, Window!PreviewShowsSelection

\* A changed input is reopened or unloaded, as it has a calibration or not.
LEMMA ChangeInputInvariant ==
  ASSUME WindowInv, NEW e \in Eyes, NEW new \in Seq(Segments[e]), new # <<>>,
         Len(new) <= MaxChain[e], NEW changed \in BOOLEAN,
         Window!ChangeInput(e, new, changed)
  PROVE  WindowInv'
<1> DEFINE unload == changed /\ bridge # Nothing
<1>1. /\ input' = [input EXCEPT ![e] = new]
      /\ Window!TryInit(input', calPath', IF unload THEN Nothing ELSE bridge)
      /\ Window!LoadedAfter(input', calPath', unload)
      /\ IF unload THEN Window!StopRecording ELSE UNCHANGED recording
      /\ UNCHANGED <<calPath, reopening, calibrating, calJob, exportJob, recordings, handed>>
  BY DEF Window!ChangeInput, Window!jobState
<1>2. new \in Seq(Files)
  BY InputTypes, SeqMonotonic DEF WindowInv
<1>3. /\ input' \in [Eyes -> Seq(Files)]
      /\ \A d \in Eyes : input'[d] \in Seq(Segments[d]) /\ Len(input'[d]) <= MaxChain[d]
  BY <1>1, <1>2 DEF WindowInv, WindowTypes, Window!TypeOK, Eyes
<1>4. Window!HasBoth(input) => Window!HasBoth(input')
  BY <1>1 DEF Window!HasBoth, Window!NoInput, WindowInv, WindowTypes, Eyes
<1>5. unload \in BOOLEAN /\ calPath' = calPath /\ calPath' \in Window!Calibrations \cup {Nothing}
  BY <1>1 DEF WindowInv, WindowTypes
<1> HIDE DEF unload
<1> QED
  BY <1>1, <1>3, <1>4, <1>5, TriedInvariant

\* Every file dialog, removal and reordering keeps the invariant.
LEMMA FilesInvariant ==
  ASSUME WindowInv, Window!Files
  PROVE  WindowInv'
<1>0. WindowTypes
  BY DEF WindowInv
<1>1. ASSUME NEW e \in Eyes, Window!PickVideo(e) PROVE WindowInv'
  <2>1. PICK s \in Segments[e] :
            Window!ChangeInput(e, Append(input[e], s), input[e] = Window!NoInput)
    BY <1>1 DEF Window!PickVideo
  <2>2. /\ Append(input[e], s) \in Seq(Segments[e]) /\ Append(input[e], s) # <<>>
        /\ Len(Append(input[e], s)) = Len(input[e]) + 1
    <3>1. input[e] \in Seq(Segments[e]) /\ s \in Segments[e]
      BY <1>0, <2>1, InputTypes
    <3>2. \A S : \A q \in Seq(S), x \in S :
              /\ Append(q, x) \in Seq(S) /\ Append(q, x) # <<>>
              /\ Len(Append(q, x)) = Len(q) + 1
      BY AppendProperties
    <3> QED
      BY <3>1, <3>2
  <2>3. Len(input[e]) < MaxChain[e] /\ Len(input[e]) \in Nat /\ MaxChain[e] \in Nat
    BY <1>0, <1>1, InputTypes, WindowAssumption DEF Window!PickVideo, Window!DesktopAssumption, Eyes
  <2>4. Len(Append(input[e], s)) <= MaxChain[e]
    BY <2>2, <2>3
  <2>5. (input[e] = Window!NoInput) \in BOOLEAN
    OBVIOUS
  <2> QED
    BY <2>1, <2>2, <2>4, <2>5, ChangeInputInvariant
<1>2. ASSUME NEW e \in Eyes, Window!LoadRecent(e) PROVE WindowInv'
  <2>1. PICK s \in Segments[e] :
            Window!ChangeInput(e, <<s>>, input[e] = Window!NoInput \/ Head(input[e]) # s)
    BY <1>2 DEF Window!LoadRecent
  <2>2. <<s>> \in Seq(Segments[e]) /\ <<s>> # <<>> /\ Len(<<s>>) = 1
    <3>1. \A S, x : x \in S => <<x>> \in Seq(S) /\ <<x>> # <<>> /\ Len(<<x>>) = 1
      OBVIOUS
    <3> QED
      BY <3>1
  <2>3. MaxChain[e] \in Nat \ {0}
    BY WindowAssumption DEF Window!DesktopAssumption, Eyes
  <2>4. PICK new, changed : new = <<s>> /\ changed = (input[e] = Window!NoInput \/ Head(input[e]) # s)
    OBVIOUS
  <2>5. /\ new \in Seq(Segments[e]) /\ new # <<>> /\ Len(new) <= MaxChain[e]
        /\ changed \in BOOLEAN /\ Window!ChangeInput(e, new, changed)
    BY <2>1, <2>2, <2>3, <2>4
  <2> QED
    BY <2>5, ChangeInputInvariant
<1>3. CASE Window!PickCalibration
  <2> DEFINE unload == calPath # Picked /\ bridge # Nothing
  <2>1. /\ calPath' = Picked
        /\ Window!TryInit(input, Picked, IF unload THEN Nothing ELSE bridge)
        /\ Window!LoadedAfter(input, Picked, unload)
        /\ IF unload THEN Window!StopRecording ELSE UNCHANGED recording
        /\ UNCHANGED <<input, reopening, calibrating, calJob, exportJob, recordings, handed>>
    BY <1>3 DEF Window!PickCalibration, Window!jobState
  <2>2. unload \in BOOLEAN /\ Picked \in Window!Calibrations /\ Picked # Nothing
    BY Something DEF Window!Calibrations
  <2>3. /\ input' \in [Eyes -> Seq(Files)]
        /\ \A d \in Eyes : input'[d] \in Seq(Segments[d]) /\ Len(input'[d]) <= MaxChain[d]
    BY <2>1 DEF WindowInv, WindowTypes, Window!TypeOK, Eyes
  <2> HIDE DEF unload
  <2> QED
    BY <2>1, <2>2, <2>3, TriedInvariant
<1>4. CASE Window!ClearCalibration
  <2>1. /\ input' = input
        /\ \A d \in Eyes : input'[d] \in Seq(Segments[d]) /\ Len(input'[d]) <= MaxChain[d]
    BY <1>4 DEF Window!ClearCalibration, WindowInv, WindowTypes, Window!TypeOK, Eyes
  <2> QED
    BY <1>0, <1>4, <2>1, UntriedInvariant DEF Window!ClearCalibration, Window!jobState, WindowTypes
<1>5. ASSUME NEW e \in Eyes, NEW new \in Seq(Segments[e]), Len(new) <= MaxChain[e],
             Window!RemoveSegments(e, new)
      PROVE  WindowInv'
  <2>1. new \in Seq(Files)
    BY <1>0, InputTypes, SeqMonotonic
  <2>2. /\ input' \in [Eyes -> Seq(Files)]
        /\ \A d \in Eyes : input'[d] \in Seq(Segments[d]) /\ Len(input'[d]) <= MaxChain[d]
    BY <1>5, <2>1 DEF WindowInv, WindowTypes, Window!TypeOK, Eyes, Window!RemoveSegments
  <2>3. /\ Window!Unload /\ filesLoaded' = FALSE
        /\ UNCHANGED <<calPath, calibration, reopening, calibrating, calJob, exportJob,
                       recordings, handed>>
    BY <1>5 DEF Window!RemoveSegments, Window!jobState
  <2> QED
    BY <2>2, <2>3, UntriedInvariant
<1>6. ASSUME NEW e \in Eyes, Window!ClearVideo(e) PROVE WindowInv'
  <2>1. PICK new : new = <<>>
    OBVIOUS
  <2>2. new \in Seq(Segments[e]) /\ Len(new) = 0 /\ MaxChain[e] \in Nat
    BY <2>1, WindowAssumption DEF Window!DesktopAssumption, Eyes
  <2>3. Len(new) <= MaxChain[e] /\ Window!RemoveSegments(e, new)
    BY <1>6, <2>1, <2>2 DEF Window!ClearVideo, Window!NoInput
  <2> QED
    BY <1>5, <2>2, <2>3
<1>7. ASSUME NEW e \in Eyes, Window!RemoveSegment(e) PROVE WindowInv'
  <2>1. PICK k \in DOMAIN input[e] : Window!RemoveSegments(e, Window!RemoveAt(input[e], k))
    BY <1>7 DEF Window!RemoveSegment
  <2>2. input[e] \in Seq(Segments[e]) /\ k \in 1 .. Len(input[e]) /\ Len(input[e]) \in Nat
    BY <1>0, InputTypes
  <2>3. /\ Window!RemoveAt(input[e], k) \in Seq(Segments[e])
        /\ Len(Window!RemoveAt(input[e], k)) = Len(input[e]) - 1
    BY <2>2, Removed
  <2>4. Len(input[e]) <= MaxChain[e] /\ MaxChain[e] \in Nat
    BY <1>0, WindowAssumption DEF WindowTypes, Window!TypeOK, Eyes, Window!DesktopAssumption
  <2>5. Len(Window!RemoveAt(input[e], k)) <= MaxChain[e]
    BY <2>2, <2>3, <2>4
  <2> QED
    BY <1>5, <2>1, <2>3, <2>5
<1>8. ASSUME NEW e \in Eyes, Window!Reorder(e) PROVE WindowInv'
  <2>1. PICK i \in DOMAIN input[e], j \in DOMAIN input[e] :
            input' = [input EXCEPT
                         ![e] = Window!InsertAt(Window!RemoveAt(@, i), j, @[i])]
    BY <1>8 DEF Window!Reorder
  <2> DEFINE q == input[e]
             new == Window!InsertAt(Window!RemoveAt(q, i), j, q[i])
  <2>2. /\ q \in Seq(Segments[e]) /\ q \in Seq(Files) /\ Len(q) \in Nat
        /\ i \in 1 .. Len(q) /\ j \in 1 .. Len(q)
    BY <1>0, InputTypes
  <2>3. /\ new \in Seq(Segments[e]) /\ new \in Seq(Files) /\ Len(new) = Len(q)
        /\ Window!ToSet(new) \subseteq Window!ToSet(q)
    BY <2>2, Moved, MovedSet
  <2>4. input \in [Eyes -> Seq(Files)] /\ input' = [input EXCEPT ![e] = new]
    BY <1>0, <2>1 DEF WindowTypes
  <2>5. new # <<>> /\ q # <<>>
    BY <2>2, <2>3
  <2> HIDE DEF new
  <2>6. /\ input' \in [Eyes -> Seq(Files)]
        /\ \A d \in Eyes : input'[d] \in Seq(Segments[d]) /\ Len(input'[d]) <= MaxChain[d]
    BY <1>0, <2>3, <2>4 DEF WindowTypes, Window!TypeOK, Eyes
  <2>7. Window!HasBoth(input) => Window!HasBoth(input')
    BY <2>4, <2>5 DEF Window!HasBoth, Window!NoInput, Eyes
  <2>8. Window!Opens(input) => Window!Opens(input')
    BY <2>3, <2>4 DEF Window!Opens, Eyes
  <2>9. WindowTypes'
    <3>1. recordings' \in recordings .. MaxRecordings /\ recording' \in 0 .. recordings'
      BY <1>0, <1>8, WindowAssumption DEF WindowTypes, Window!TypeOK, Window!Reorder,
         Window!recordState, Window!DesktopAssumption
    <3>2. {filesLoaded', reopening', calibrating'} \subseteq BOOLEAN
      BY <1>0, <1>8 DEF WindowTypes, Window!TypeOK, Window!Reorder, Window!jobState
    <3> QED
      BY <1>0, <1>8, <2>6, <3>1, <3>2, WindowTypesNext
      DEF WindowTypes, Window!TypeOK, Window!Reorder, Window!jobState, Window!recordState
  <2> QED
    BY <1>8, <2>7, <2>8, <2>9
    DEF WindowInv, LoadedOpens, Window!PreviewShowsSelection,
        Window!Reorder, Window!jobState
<1> QED
  BY <1>1, <1>2, <1>3, <1>4, <1>6, <1>7, <1>8 DEF Window!Files, Eyes

------------------------------------------------------------------------------
\* The steps that leave the inputs alone.
LEMMA SameInputTypes ==
  ASSUME WindowTypes,
         input' = input,
         calPath' \in Window!Calibrations \cup {Nothing},
         calibration' \in Window!Calibrations \cup {Nothing},
         calJob' \in Window!Jobs \cup {Nothing},
         exportJob' \in {Nothing, "running", "returned"},
         {filesLoaded', reopening', calibrating'} \subseteq BOOLEAN,
         recordings' \in recordings .. MaxRecordings, recording' \in 0 .. recordings',
         handed' = handed \/ handed' \in [file : 0 .. recordings', from : 0 .. recordings'],
         \/ bridge' = Nothing
         \/ bridge' \in Window!Bridges /\ bridge'.ring \in Seq(1 .. recordings')
         \/ bridge' = bridge
  PROVE  WindowTypes'
<1>1. /\ input' \in [Eyes -> Seq(Files)]
      /\ \A e \in Eyes : input'[e] \in Seq(Segments[e]) /\ Len(input'[e]) <= MaxChain[e]
  BY DEF WindowTypes, Window!TypeOK, Eyes
<1> QED
  BY <1>1, WindowTypesNext

\* The counters of the recordings stay where they are.
LEMMA SameRecordings ==
  ASSUME WindowTypes, recordings' = recordings
  PROVE  /\ recordings' \in recordings .. MaxRecordings
         /\ 0 \in 0 .. recordings'
         /\ recording \in 0 .. recordings'
BY WindowAssumption DEF WindowTypes, Window!TypeOK, Window!DesktopAssumption

\* A preview is opened for the selected files, or there is none and nothing changes.
LEMMA InitWithCases ==
  ASSUME WindowTypes, NEW c \in Window!Calibrations, Window!InitWith(c)
  PROVE  \/ /\ Window!HasBoth(input) /\ Window!Opens(input)
            /\ bridge' \in Window!Bridges /\ bridge' # Nothing
            /\ bridge'.source = input /\ bridge'.ring = <<>> /\ calibration' = c
         \/ /\ ~(Window!HasBoth(input) /\ Window!Opens(input))
            /\ bridge' = bridge /\ calibration' = calibration
BY NewBridgeType DEF Window!InitWith, WindowTypes

\* Reopening shows the files of the moment it happens.
LEMMA ReopenInvariant == ASSUME WindowInv, Window!ReopenSource PROVE WindowInv'
<1>0. WindowTypes
  BY DEF WindowInv
<1>1. /\ reopening' = FALSE
      /\ bridge' = IF bridge # Nothing /\ Window!HasBoth(input) /\ Window!Opens(input)
                   THEN [bridge EXCEPT !.source = input] ELSE bridge
      /\ UNCHANGED <<input, calPath, calibration, filesLoaded, calibrating, calJob, exportJob,
                     recording, recordings, handed>>
  BY DEF Window!ReopenSource, Window!jobState, Window!recordState
<1>2. \/ /\ bridge' \in Window!Bridges /\ bridge'.ring \in Seq(1 .. recordings')
         /\ bridge'.source = input
      \/ bridge' = bridge /\ ~(bridge # Nothing /\ Window!HasBoth(input) /\ Window!Opens(input))
  <2>1. CASE bridge # Nothing /\ Window!HasBoth(input) /\ Window!Opens(input)
    <3>1. bridge \in Window!Bridges /\ bridge.ring \in Seq(1 .. recordings)
      BY <1>0, <2>1 DEF WindowTypes, Window!TypeOK, Window!Previews
    <3>2. bridge' = [bridge EXCEPT !.source = input] /\ input \in [Eyes -> Seq(Files)]
      BY <1>0, <1>1, <2>1 DEF WindowTypes
    <3> QED
      BY <1>1, <3>1, <3>2 DEF Window!Bridges, Eyes, Files
  <2> QED
    BY <1>1, <2>1
<1>3. {filesLoaded', reopening', calibrating'} \subseteq BOOLEAN
  BY <1>0, <1>1 DEF WindowTypes, Window!TypeOK
<1>4. WindowTypes'
  BY <1>0, <1>1, <1>2, <1>3, SameRecordings, SameInputTypes DEF WindowTypes, Window!TypeOK
<1>5. LoadedOpens'
  BY <1>1 DEF WindowInv, LoadedOpens, Window!HasBoth, Window!Opens
<1>6. Window!PreviewShowsSelection'
  BY <1>1, <1>2 DEF WindowInv, LoadedOpens, Window!PreviewShowsSelection
<1> QED
  BY <1>1, <1>4, <1>5, <1>6 DEF WindowInv

\* Starting a calibration turns the button off.
LEMMA CalibrateInvariant == ASSUME WindowInv, Window!AutoCalibrate PROVE WindowInv'
<1>0. WindowTypes
  BY DEF WindowInv
<1>1. /\ ~calibrating /\ Window!HasBoth(input) /\ calibrating' = TRUE
      /\ calJob' = [first |-> [e \in Eyes |-> Head(input[e])], answer |-> Nothing]
      /\ UNCHANGED <<input, calPath, calibration, filesLoaded, reopening, bridge, exportJob,
                     recording, recordings, handed>>
  BY DEF Window!AutoCalibrate, Window!fileState, Window!recordState, Eyes
<1>2. [e \in Eyes |-> Head(input[e])] \in [Eyes -> Files]
  BY <1>0, <1>1, InputTypes DEF Window!HasBoth, Window!NoInput, Eyes
<1>3. calJob' \in Window!Jobs
  BY <1>1, <1>2 DEF Window!Jobs, Window!Answers, Eyes, Files
<1>4. {filesLoaded', reopening', calibrating'} \subseteq BOOLEAN
  BY <1>0, <1>1 DEF WindowTypes, Window!TypeOK
<1>5. WindowTypes'
  BY <1>0, <1>1, <1>3, <1>4, SameRecordings, SameInputTypes DEF WindowTypes, Window!TypeOK
<1> QED
  BY <1>1, <1>5 DEF WindowInv, LoadedOpens,
     Window!PreviewShowsSelection, Window!HasBoth, Window!Opens

\* A worker's answer changes no more than its job.
LEMMA AnswerInvariant == ASSUME WindowInv, Window!CalibrationReturns PROVE WindowInv'
<1>0. WindowTypes
  BY DEF WindowInv
<1>1. /\ calJob # Nothing
      /\ \E a \in {"ok", "failed"} : calJob' = [calJob EXCEPT !.answer = a]
      /\ UNCHANGED <<input, calPath, calibration, filesLoaded, reopening, bridge, calibrating,
                     exportJob, recording, recordings, handed>>
  BY DEF Window!CalibrationReturns, Window!fileState, Window!recordState
<1>2. calJob' \in Window!Jobs
  BY <1>0, <1>1 DEF WindowTypes, Window!Jobs, Window!Answers
<1>3. {filesLoaded', reopening', calibrating'} \subseteq BOOLEAN
  BY <1>0, <1>1 DEF WindowTypes, Window!TypeOK
<1>4. WindowTypes'
  BY <1>0, <1>1, <1>2, <1>3, SameRecordings, SameInputTypes DEF WindowTypes, Window!TypeOK
<1> QED
  BY <1>1, <1>4 DEF WindowInv, LoadedOpens,
     Window!PreviewShowsSelection, Window!HasBoth, Window!Opens

\* Handling the answer turns the button on again, and opens what was calibrated only
\* while it is still selected.
LEMMA ResultInvariant == ASSUME WindowInv, Window!CalibrationResult PROVE WindowInv'
<1>0. WindowTypes
  BY DEF WindowInv
<1>1. /\ calJob # Nothing /\ calJob' = Nothing /\ calibrating' = FALSE
      /\ UNCHANGED <<input, reopening, exportJob, recordings, handed>>
  BY DEF Window!CalibrationResult
<1>2. calJob.first \in Window!Calibrations
  BY <1>0, <1>1 DEF WindowTypes, Window!Jobs, Window!Calibrations
<1>3. recordings' \in recordings .. MaxRecordings /\ recording \in 0 .. recordings' /\ 0 \in 0 .. recordings'
  BY <1>0, <1>1, SameRecordings
<1>4. CASE /\ Window!InitWith(calJob.first)
           /\ IF Window!HasBoth(input) /\ Window!Opens(input)
              THEN filesLoaded' = TRUE /\ calPath' \in {calPath, calJob.first}
              ELSE UNCHANGED <<filesLoaded, calPath>>
           /\ UNCHANGED recording
  <2>1. \/ /\ Window!HasBoth(input) /\ Window!Opens(input)
           /\ bridge' \in Window!Bridges /\ bridge' # Nothing
           /\ bridge'.source = input /\ bridge'.ring = <<>> /\ calibration' = calJob.first
           /\ filesLoaded' = TRUE /\ calPath' \in {calPath, calJob.first}
        \/ /\ ~(Window!HasBoth(input) /\ Window!Opens(input))
           /\ bridge' = bridge /\ calibration' = calibration
           /\ UNCHANGED <<filesLoaded, calPath>>
    BY <1>0, <1>2, <1>4, InitWithCases
  <2>2. {filesLoaded', reopening', calibrating'} \subseteq BOOLEAN
    BY <1>0, <1>1, <2>1 DEF WindowTypes, Window!TypeOK
  <2>3. <<>> \in Seq(1 .. recordings')
    OBVIOUS
  <2>4. WindowTypes'
    BY <1>0, <1>1, <1>2, <1>3, <1>4, <2>1, <2>2, <2>3, SameInputTypes
    DEF WindowTypes, Window!TypeOK
  <2> QED
    BY <1>1, <2>1, <2>4 DEF WindowInv, LoadedOpens,
       Window!PreviewShowsSelection, Window!HasBoth, Window!Opens
<1>5. CASE /\ bridge' = Nothing /\ Window!StopRecording
           /\ filesLoaded' = FALSE
           /\ UNCHANGED <<calPath, calibration>>
  <2>1. {filesLoaded', reopening', calibrating'} \subseteq BOOLEAN
    BY <1>0, <1>1, <1>5 DEF WindowTypes, Window!TypeOK
  <2>2. WindowTypes'
    BY <1>0, <1>1, <1>3, <1>5, <2>1, SameInputTypes
    DEF WindowTypes, Window!TypeOK, Window!StopRecording
  <2> QED
    BY <1>1, <1>5, <2>2 DEF WindowInv, LoadedOpens,
       Window!PreviewShowsSelection
<1> QED
  BY <1>4, <1>5 DEF Window!CalibrationResult

\* An export runs beside the window and changes none of it.
LEMMA ExportInvariant ==
  ASSUME WindowInv, Window!StartExport \/ Window!ExportReturns \/ Window!ExportOutcome
  PROVE  WindowInv'
<1>0. WindowTypes
  BY DEF WindowInv
<1>1. /\ UNCHANGED <<input, calPath, filesLoaded, reopening, calibrating, calJob, recording,
                     recordings, handed>>
      /\ exportJob' \in {Nothing, "running", "returned"}
  BY DEF Window!StartExport, Window!ExportReturns, Window!ExportOutcome, Window!fileState,
     Window!recordState
<1>2. \/ bridge' = Nothing /\ calibration' = calibration
      \/ bridge' = bridge /\ calibration' = calibration
      \/ /\ bridge' \in Window!Bridges /\ bridge'.source = input /\ bridge'.ring = <<>>
         /\ calibration' = calibration
  <2>1. CASE Window!ExportOutcome
    <3>1. calibration # Nothing => calibration \in Window!Calibrations
      BY <1>0 DEF WindowTypes
    <3> QED
      BY <1>0, <2>1, <3>1, InitWithCases DEF Window!ExportOutcome
  <2> QED
    BY <2>1 DEF Window!StartExport, Window!ExportReturns, Window!fileState
<1>3. {filesLoaded', reopening', calibrating'} \subseteq BOOLEAN
  BY <1>0, <1>1 DEF WindowTypes, Window!TypeOK
<1>4. <<>> \in Seq(1 .. recordings')
  OBVIOUS
<1>5. WindowTypes'
  BY <1>0, <1>1, <1>2, <1>3, <1>4, SameRecordings, SameInputTypes DEF WindowTypes, Window!TypeOK
<1> QED
  BY <1>1, <1>2, <1>5 DEF WindowInv, LoadedOpens,
     Window!PreviewShowsSelection, Window!HasBoth, Window!Opens

\* A recording changes the preview's ring, never the files it shows.
LEMMA RecordingInvariant ==
  ASSUME WindowInv, Window!StartRecording \/ Window!RenderRecording \/ Window!ToggleOff
  PROVE  WindowInv'
<1>0. WindowTypes
  BY DEF WindowInv
<1>1. UNCHANGED <<input, calPath, calibration, filesLoaded, reopening, calibrating, calJob,
                  exportJob>>
  BY DEF Window!StartRecording, Window!RenderRecording, Window!ToggleOff, Window!fileState,
     Window!jobState
<1>2. recordings' \in recordings .. MaxRecordings /\ recording' \in 0 .. recordings'
  BY <1>0, WindowAssumption
  DEF Window!StartRecording, Window!RenderRecording, Window!ToggleOff, Window!StopRecording,
      WindowTypes, Window!TypeOK, Window!DesktopAssumption
<1>3. /\ bridge' = Nothing <=> bridge = Nothing
      /\ bridge' # Nothing => bridge'.source = bridge.source
      /\ \/ bridge' \in Window!Bridges /\ bridge'.ring \in Seq(1 .. recordings')
         \/ bridge' = bridge
      /\ \/ handed' = handed
         \/ handed' \in [file : 0 .. recordings', from : 0 .. recordings']
  <2>1. CASE Window!RenderRecording
    <3>1. /\ bridge \in Window!Bridges /\ bridge # Nothing /\ bridge.ring \in Seq(1 .. recordings)
          /\ recording \in 1 .. recordings /\ recordings' = recordings /\ recordings \in Nat
      BY <1>0, <2>1, WindowAssumption
      DEF WindowTypes, Window!TypeOK, Window!Previews, Window!RenderRecording,
          Window!DesktopAssumption
    <3>2. PICK q \in Seq(1 .. recordings) :
              /\ bridge' = [bridge EXCEPT !.ring = q]
              /\ \/ handed' = handed
                 \/ handed' \in [file : 0 .. recordings, from : 0 .. recordings]
      <4>1. CASE Len(bridge.ring) < 2
        <5>1. Append(bridge.ring, recording) \in Seq(1 .. recordings)
          BY <3>1, AppendProperties
        <5> QED
          BY <2>1, <3>1, <4>1, <5>1 DEF Window!RenderRecording
      <4>2. CASE ~(Len(bridge.ring) < 2)
        <5>1. bridge.ring # <<>> /\ Head(bridge.ring) \in 1 .. recordings
          BY <3>1, <4>2
        <5>2. Append(Tail(bridge.ring), recording) \in Seq(1 .. recordings)
          BY <3>1, <5>1, HeadTailProperties, AppendProperties
        <5>3. [file |-> recording, from |-> Head(bridge.ring)]
                  \in [file : 0 .. recordings, from : 0 .. recordings]
          BY <3>1, <5>1
        <5> QED
          BY <2>1, <3>1, <4>2, <5>2, <5>3 DEF Window!RenderRecording
      <4> QED
        BY <4>1, <4>2
    <3>3. q \in Seq(Nat)
      BY <3>1, SeqMonotonic
    <3>4. bridge' \in Window!Bridges /\ bridge'.ring = q /\ bridge'.source = bridge.source
      BY <3>1, <3>2, <3>3 DEF Window!Bridges
    <3> QED
      BY <3>1, <3>2, <3>4, Something
  <2>2. CASE Window!StartRecording \/ Window!ToggleOff
    BY <2>2 DEF Window!StartRecording, Window!ToggleOff
  <2> QED
    BY <2>1, <2>2
<1>4. {filesLoaded', reopening', calibrating'} \subseteq BOOLEAN
  BY <1>0, <1>1 DEF WindowTypes, Window!TypeOK
<1>5. WindowTypes'
  BY <1>0, <1>1, <1>2, <1>3, <1>4, SameInputTypes DEF WindowTypes, Window!TypeOK
<1> QED
  BY <1>1, <1>3, <1>5 DEF WindowInv, LoadedOpens,
     Window!PreviewShowsSelection, Window!HasBoth, Window!Opens

\* Every action of the window and its workers keeps the invariant.
LEMMA WindowStep == ASSUME WindowInv, [Window!Next]_windowVars PROVE WindowInv'
<1>1. CASE UNCHANGED windowVars
  BY <1>1 DEF windowVars, WindowInv, WindowTypes, Window!TypeOK, Window!Previews, LoadedOpens,
     Window!PreviewShowsSelection, Window!HasBoth, Window!Opens
<1> QED
  BY <1>1, FilesInvariant, ReopenInvariant, CalibrateInvariant, AnswerInvariant, ResultInvariant,
     ExportInvariant, RecordingInvariant
  DEF Window!Next, Window!Timer, Window!Workers

\* The window's invariant holds in every state: the preview's files and the calibration belong
\* together.
THEOREM WindowAlways ==
  /\ Window!Spec => []WindowInv
  /\ MCSpec => []WindowInv
<1>1. WindowInv /\ [Window!Next]_Window!desktopVars => WindowInv'
  BY WindowStep DEF Window!desktopVars, windowVars, Window!fileState, Window!jobState,
     Window!recordState
<1>2. WindowInv /\ [MCNext]_mcVars => WindowInv'
  BY WindowStep DEF MCNext, mcVars
<1>3. MCInit => WindowInv
  BY WindowStarts DEF MCInit
<1> QED
  BY <1>1, <1>2, <1>3, WindowStarts, PTL DEF MCSpec, Window!Spec

\* While the controls are on, the preview shows the selected files, but for the short time
\* before a reordered input is reopened: for every set of files and chain length.
THEOREM ControlsMatchThePreview ==
  /\ Window!Spec => []Window!PreviewShowsSelection
  /\ MCSpec => []PreviewShowsSelection
<1>1. WindowInv => PreviewShowsSelection /\ Window!PreviewShowsSelection
  BY DEF WindowInv, WindowTypes, PreviewShowsSelection
<1> QED
  BY <1>1, WindowAlways, PTL

------------------------------------------------------------------------------
(***************************************************************************)
(* EventTrace: the sink with its bounded queue and its writer thread.      *)
(***************************************************************************)

\* The events that pass the sample-rate gate.
Passing == {e \in Nat : ~Trace!Gated(e)}

\* In the order written, being written, queued: events the gate let pass, each
\* emitted before the next.
TraceOrder ==
    /\ \A k \in 1 .. Len(lines) :
           /\ lines[k] \in Passing /\ lines[k] < emitted
           /\ k > 1 => lines[k - 1] < lines[k]
           /\ event # Trace!None => lines[k] < event
           /\ \A j \in 1 .. Len(chan) : lines[k] < chan[j]
    /\ event # Trace!None =>
           /\ event \in Passing /\ event < emitted
           /\ \A j \in 1 .. Len(chan) : event < chan[j]
    /\ \A j \in 1 .. Len(chan) :
           /\ chan[j] \in Passing /\ chan[j] < emitted
           /\ \A i \in 1 .. Len(chan) : i < j => chan[i] < chan[j]

\* The thread ends of itself only after the last event, and without a panic no
\* event goes uncounted.
TraceCount ==
    /\ Trace!ReceiverGone /\ ~panicked => sink # "open" /\ chan = <<>>
    /\ ~panicked => Len(lines) + writeFailures + dropped + Trace!InFlight = recorded

\* Each damaged line, and a rest that has not damaged one yet, has its failure.
TraceDamage == Trace!DamageCounted

\* The inductive invariant: order, count and damage.
TraceInv == Trace!TypeOK /\ emitted \in Nat /\ TraceOrder /\ TraceCount /\ TraceDamage

\* The sink starts in a state of the invariant.
LEMMA TraceStarts == Trace!Init => TraceInv
<1> SUFFICES ASSUME Trace!Init PROVE TraceInv
  OBVIOUS
<1>1. \A S : <<>> \in Seq(S) /\ Len(<<>>) = 0
  OBVIOUS
<1>2. Capacities \subseteq Nat
  BY TraceAssumption DEF Trace!EventTraceAssumption
<1>3. capacity \in Nat /\ recorded \in 0 .. emitted /\ dropped \in 0 .. recorded
  BY <1>2 DEF Trace!Init
<1>4. Len(chan) <= capacity + 1 /\ inFile \in 0 .. Len(lines) /\ torn \in 0 .. Len(lines)
  BY <1>1, <1>3 DEF Trace!Init
<1>5. Trace!TypeOK
  BY <1>1, <1>3, <1>4 DEF Trace!Init, Trace!TypeOK, Trace!None
<1>6. TraceDamage
  BY DEF Trace!Init, TraceDamage, Trace!DamageCounted
<1> QED
  BY <1>1, <1>5, <1>6
     DEF Trace!Init, TraceInv, TraceOrder, TraceCount, Trace!InFlight, Trace!ReceiverGone, Trace!None

\* The types, field by field.
TraceTyped ==
    /\ capacity \in Nat /\ emitted \in Nat /\ recorded \in Nat /\ dropped \in Nat
    /\ recorded <= emitted /\ dropped <= recorded /\ writeFailures \in Nat
    /\ chan \in Seq(Nat) /\ Len(chan) \in Nat /\ lines \in Seq(Nat) /\ Len(lines) \in Nat
    /\ event \in Nat \cup {Trace!None}
    /\ inFile \in Nat /\ inFile <= Len(lines) /\ torn \in Nat /\ torn <= Len(lines)
    /\ ragged \in BOOLEAN /\ panicked \in BOOLEAN

\* The state's types.
LEMMA TraceTypes == TraceInv => TraceTyped
BY TraceAssumption DEF TraceTyped, TraceInv, Trace!TypeOK, Trace!EventTraceAssumption

\* An event that is not passed on changes no queue.
LEMMA SameQueues ==
  ASSUME TraceInv, emitted' \in {emitted, emitted + 1}, UNCHANGED <<lines, event, chan>>,
         Passing' = Passing
  PROVE  TraceOrder'
<1>0. TraceTyped
  BY TraceTypes
<1>1. \A x \in Nat : x < emitted => x < emitted'
  BY <1>0 DEF TraceTyped
<1>2. /\ \A k \in 1 .. Len(lines) : lines[k] \in Nat
      /\ \A j \in 1 .. Len(chan) : chan[j] \in Nat
      /\ event # Trace!None => event \in Nat
  BY <1>0 DEF TraceTyped
<1>3. \A k \in 1 .. Len(lines) : lines[k] < emitted'
  BY <1>1, <1>2 DEF TraceInv, TraceOrder
<1>4. \A j \in 1 .. Len(chan) : chan[j] < emitted'
  BY <1>1, <1>2 DEF TraceInv, TraceOrder
<1>5. event # Trace!None => event < emitted'
  BY <1>1, <1>2 DEF TraceInv, TraceOrder
<1> QED
  BY <1>3, <1>4, <1>5 DEF TraceInv, TraceOrder, Trace!None

\* Emitting queues an event, writes it, or drops and counts it.
LEMMA EmitInvariant == ASSUME TraceInv, Trace!Emit PROVE TraceInv'
<1>0. TraceTyped
  BY TraceTypes
<1>1. /\ sink = "open" /\ emitted' = emitted + 1
      /\ UNCHANGED <<capacity, everyN, sink, thread, panicked, event, lines, inFile, ragged, torn,
                     writeFailures>>
  BY DEF Trace!Emit, Trace!writerVars
<1>2. Trace!ReceiverGone => panicked
  BY <1>1 DEF TraceInv, TraceCount
<1>10. TraceDamage'
  BY <1>1 DEF TraceInv, TraceDamage, Trace!DamageCounted
<1>3. Passing' = Passing
  BY <1>1 DEF Passing, Trace!Gated, Trace!Frame
<1>7. Trace!InFlight \in Nat /\ (chan' = chan => Trace!InFlight' = Trace!InFlight)
  BY <1>0, <1>1 DEF TraceTyped, Trace!InFlight
<1>8. ~panicked => Len(lines) + writeFailures + dropped + Trace!InFlight = recorded
  BY DEF TraceInv, TraceCount
<1>4. CASE /\ dropped' = dropped /\ chan' = chan
           /\ \/ recorded' = recorded
              \/ panicked /\ recorded' = recorded + 1
  <2>1. Trace!TypeOK'
    BY <1>1, <1>4, <1>0 DEF TraceTyped, TraceInv, Trace!TypeOK, Trace!None
  <2>2. TraceOrder'
    BY <1>1, <1>3, <1>4, SameQueues
  <2>3. TraceCount'
    BY <1>1, <1>2, <1>4, <1>7, <1>8 DEF TraceCount, Trace!ReceiverGone
  <2> QED
    BY <1>1, <2>1, <2>2, <2>3, <1>10, <1>0 DEF TraceTyped, TraceInv
<1>5. CASE /\ ~Trace!Gated(emitted) /\ recorded' = recorded + 1 /\ Trace!Room
           /\ ~Trace!ReceiverGone /\ chan' = Append(chan, emitted) /\ UNCHANGED dropped
  <2>1. /\ chan' \in Seq(Nat) /\ Len(chan') = Len(chan) + 1
        /\ \A j \in 1 .. Len(chan) : chan'[j] = chan[j]
        /\ chan'[Len(chan) + 1] = emitted
    BY <1>5, <1>0, AppendProperties DEF TraceTyped
  <2>2. Len(chan') <= capacity + 1
    <3>1. Len(chan) < capacity \/ chan = <<>>
      BY <1>5 DEF Trace!Room
    <3> QED
      BY <2>1, <3>1, <1>0 DEF TraceTyped
  <2>3. Trace!TypeOK'
    BY <1>1, <1>5, <2>1, <2>2, <1>0 DEF TraceTyped, TraceInv, Trace!TypeOK, Trace!None
  <2>4. emitted \in Passing
    BY <1>5, <1>0 DEF TraceTyped, Passing
  <2>5. TraceOrder'
    <3>1. \A k \in 1 .. Len(lines) : lines[k] \in Nat /\ lines[k] < emitted /\ lines[k] < emitted'
      BY <1>1, <1>0 DEF TraceTyped, TraceInv, TraceOrder
    <3>2. \A j \in 1 .. Len(chan) : chan[j] \in Nat /\ chan[j] < emitted /\ chan[j] < emitted'
      BY <1>1, <1>0 DEF TraceTyped, TraceInv, TraceOrder
    <3>3. event # Trace!None => event < emitted /\ event < emitted' /\ event \in Passing
      BY <1>1, <1>0 DEF TraceTyped, TraceInv, TraceOrder
    <3>4. \A j \in 1 .. Len(chan') : j \in 1 .. Len(chan) \/ j = Len(chan) + 1
      BY <2>1, <1>0 DEF TraceTyped
    <3>7. emitted \in Nat /\ emitted < emitted' /\ emitted \in Passing
      BY <1>0, <1>1, <2>4 DEF TraceTyped
    <3>5. ASSUME NEW j \in 1 .. Len(chan')
          PROVE  /\ chan'[j] \in Passing /\ chan'[j] < emitted'
                 /\ event # Trace!None => event < chan'[j]
                 /\ \A k \in 1 .. Len(lines) : lines[k] < chan'[j]
                 /\ \A i \in 1 .. Len(chan') : i < j => chan'[i] < chan'[j]
      <4>1. CASE j \in 1 .. Len(chan)
        <5>1. \A i \in 1 .. Len(chan') : i < j => i \in 1 .. Len(chan)
          BY <2>1, <3>4, <4>1, <1>0 DEF TraceTyped
        <5> QED
          BY <2>1, <3>2, <4>1, <5>1 DEF TraceInv, TraceOrder
      <4>2. CASE j = Len(chan) + 1
        <5>1. \A i \in 1 .. Len(chan') : i < j => i \in 1 .. Len(chan)
          BY <2>1, <3>4, <4>2, <1>0 DEF TraceTyped
        <5> QED
          BY <2>1, <3>1, <3>2, <3>3, <3>7, <4>2, <5>1
      <4> QED
        BY <3>4, <4>1, <4>2
    <3> QED
      BY <1>1, <1>3, <3>1, <3>3, <3>5 DEF TraceInv, TraceOrder, Trace!None
  <2>6. TraceCount'
    <3>1. Trace!InFlight' = Trace!InFlight + 1
      BY <1>1, <2>1, <1>0 DEF TraceTyped, Trace!InFlight
    <3>2. ~panicked'
            => Len(lines') + writeFailures' + dropped' + Trace!InFlight' = recorded'
      <4> DEFINE flying == Trace!InFlight
      <4>1. /\ Len(lines') = Len(lines) /\ writeFailures' = writeFailures /\ dropped' = dropped
            /\ recorded' = recorded + 1 /\ panicked' = panicked
        BY <1>1, <1>5
      <4>2. flying \in Nat /\ Len(lines) \in Nat /\ writeFailures \in Nat /\ dropped \in Nat
            /\ recorded \in Nat
        BY <1>0, <1>7 DEF TraceTyped
      <4>3. ~panicked => Len(lines) + writeFailures + dropped + flying = recorded
        BY <1>8
      <4> HIDE DEF flying
      <4>4. ~panicked
              => Len(lines) + writeFailures + dropped + (flying + 1) = recorded + 1
        BY <4>2, <4>3
      <4> QED
        BY <3>1, <4>1, <4>4 DEF flying
    <3> QED
      BY <1>1, <1>2, <3>2 DEF TraceCount, Trace!ReceiverGone
  <2> QED
    BY <1>1, <2>3, <2>5, <2>6, <1>10, <1>0 DEF TraceTyped, TraceInv
<1>6. CASE /\ recorded' = recorded + 1 /\ dropped' = dropped + 1 /\ UNCHANGED chan
  <2>1. Trace!TypeOK'
    BY <1>1, <1>6, <1>0 DEF TraceTyped, TraceInv, Trace!TypeOK, Trace!None
  <2>2. TraceOrder'
    BY <1>1, <1>3, <1>6, SameQueues
  <2>3. TraceCount'
    <3> DEFINE flying == Trace!InFlight
    <3>1. /\ Len(lines') = Len(lines) /\ writeFailures' = writeFailures /\ panicked' = panicked
          /\ Trace!InFlight' = flying /\ recorded' = recorded + 1 /\ dropped' = dropped + 1
      BY <1>1, <1>6, <1>7
    <3>2. flying \in Nat /\ Len(lines) \in Nat /\ writeFailures \in Nat /\ dropped \in Nat
          /\ recorded \in Nat
      BY <1>0, <1>7 DEF TraceTyped
    <3>3. ~panicked => Len(lines) + writeFailures + dropped + flying = recorded
      BY <1>8
    <3> HIDE DEF flying
    <3>4. ~panicked
            => Len(lines) + writeFailures + (dropped + 1) + flying = recorded + 1
      BY <3>2, <3>3
    <3> QED
      BY <1>1, <1>2, <3>1, <3>4 DEF TraceCount, Trace!ReceiverGone
  <2> QED
    BY <1>1, <2>1, <2>2, <2>3, <1>10, <1>0 DEF TraceTyped, TraceInv
<1>9. \/ recorded' = recorded /\ dropped' = dropped /\ chan' = chan
      \/ /\ ~Trace!Gated(emitted) /\ recorded' = recorded + 1
         /\ \/ panicked /\ dropped' = dropped /\ chan' = chan
            \/ ~Trace!ReceiverGone /\ Trace!Room /\ chan' = Append(chan, emitted)
               /\ UNCHANGED dropped
            \/ dropped' = dropped + 1 /\ UNCHANGED chan
  BY <1>2 DEF Trace!Emit, Trace!Overflow
<1> QED
  <2>1. CASE recorded' = recorded /\ dropped' = dropped /\ chan' = chan
    BY <1>4, <2>1
  <2>2. CASE panicked /\ recorded' = recorded + 1 /\ dropped' = dropped /\ chan' = chan
    BY <1>4, <2>2
  <2> QED
    BY <1>5, <1>6, <1>9, <2>1, <2>2

\* The writer thread takes the oldest event.
LEMMA ReceiveInvariant == ASSUME TraceInv, Trace!Receive PROVE TraceInv'
<1>0. TraceTyped
  BY TraceTypes
<1>1. /\ thread = "receiving" /\ event = Trace!None
      /\ UNCHANGED <<capacity, everyN, emitted, recorded, dropped, sink, panicked, lines, inFile,
                     ragged, torn, writeFailures>>
  BY DEF Trace!Receive, Trace!writerVars, TraceInv, Trace!TypeOK
<1>5. TraceDamage'
  BY <1>1 DEF TraceInv, TraceDamage, Trace!DamageCounted
<1>2. Passing' = Passing
  BY <1>1 DEF Passing, Trace!Gated, Trace!Frame
<1>3. CASE /\ chan # <<>> /\ event' = Head(chan) /\ chan' = Tail(chan) /\ thread' = "emitting"
  <2>1. /\ chan' \in Seq(Nat) /\ Len(chan') = Len(chan) - 1 /\ Len(chan) > 0
        /\ \A j \in 1 .. Len(chan') : chan'[j] = chan[j + 1]
        /\ event' \in Nat /\ event' = chan[1]
    BY <1>3, <1>0, HeadTailProperties DEF TraceTyped
  <2>2. Trace!TypeOK'
    BY <1>1, <1>3, <2>1, <1>0 DEF TraceTyped, TraceInv, Trace!TypeOK, Trace!None
  <2>3. TraceOrder'
    <3>1. \A j \in 1 .. Len(chan') : j + 1 \in 1 .. Len(chan) /\ chan'[j] = chan[j + 1]
      BY <2>1, <1>0 DEF TraceTyped
    <3>2. 1 \in 1 .. Len(chan)
      BY <2>1, <1>0 DEF TraceTyped
    <3> QED
      <4>1. \A k \in 1 .. Len(lines) : /\ lines[k] < event'
                                        /\ \A j \in 1 .. Len(chan') : lines[k] < chan'[j]
        BY <2>1, <3>1, <3>2 DEF TraceInv, TraceOrder
      <4>2. ASSUME NEW j \in 1 .. Len(chan')
            PROVE  /\ chan'[j] \in Passing /\ chan'[j] < emitted /\ event' < chan'[j]
                   /\ \A i \in 1 .. Len(chan') : i < j => chan'[i] < chan'[j]
        <5>1. chan'[j] = chan[j + 1] /\ j + 1 \in 1 .. Len(chan) /\ 1 < j + 1
          BY <1>0, <3>1 DEF TraceTyped
        <5>2. \A i \in 1 .. Len(chan') : i < j => i + 1 < j + 1
          BY <1>0, <2>1 DEF TraceTyped
        <5> QED
          BY <2>1, <3>1, <3>2, <5>1, <5>2 DEF TraceInv, TraceOrder
      <4>3. event' \in Passing /\ event' < emitted
        BY <2>1, <3>2 DEF TraceInv, TraceOrder
      <4> QED
        BY <1>1, <1>2, <4>1, <4>2, <4>3 DEF TraceInv, TraceOrder
  <2>4. TraceCount'
    BY <1>1, <1>3, <2>1, <1>0
       DEF TraceTyped, TraceInv, TraceCount, Trace!InFlight, Trace!ReceiverGone
  <2> QED
    BY <1>1, <1>5, <2>2, <2>3, <2>4, <1>0 DEF TraceTyped, TraceInv
<1>4. CASE /\ chan = <<>> /\ sink = "closing" /\ thread' = "dropping" /\ UNCHANGED <<event, chan>>
  <2>1. Trace!TypeOK'
    BY <1>1, <1>4, <1>0 DEF TraceTyped, TraceInv, Trace!TypeOK, Trace!None
  <2>2. TraceOrder'
    BY <1>1, <1>2, <1>4, <1>0 DEF TraceTyped, TraceInv, TraceOrder
  <2> QED
    BY <1>1, <1>4, <1>5, <2>1, <2>2, <1>0 DEF TraceTyped, TraceInv, TraceCount, Trace!InFlight
<1> QED
  BY <1>3, <1>4 DEF Trace!Receive

\* The event is written, or counted as a failed write, or the thread panics.
LEMMA InnerEmitInvariant == ASSUME TraceInv, Trace!InnerEmit PROVE TraceInv'
<1>0. TraceTyped
  BY TraceTypes
<1>1. /\ thread = "emitting" /\ event # Trace!None /\ event \in Nat /\ event' = Trace!None
      /\ UNCHANGED <<capacity, everyN, emitted, recorded, dropped, sink>>
  BY <1>0 DEF TraceTyped, Trace!InnerEmit, TraceInv, Trace!TypeOK
<1>2. Passing' = Passing
  BY <1>1 DEF Passing, Trace!Gated, Trace!Frame
<1>6. ~panicked => Len(lines) + writeFailures + dropped + Len(chan) + 1 = recorded
  BY <1>1, <1>0 DEF TraceTyped, TraceInv, TraceCount, Trace!InFlight
<1>3. CASE Trace!WriteLine /\ thread' = "receiving" /\ UNCHANGED <<chan, panicked>>
  <2>5. /\ lines' = Append(lines, event) /\ inFile' \in {inFile, Len(lines)}
        /\ torn' = (IF ragged THEN torn + 1 ELSE torn) /\ ragged' = FALSE
        /\ writeFailures' = writeFailures
    BY <1>3 DEF Trace!WriteLine
  <2>1. /\ lines' \in Seq(Nat) /\ Len(lines') = Len(lines) + 1
        /\ \A k \in 1 .. Len(lines) : lines'[k] = lines[k]
        /\ lines'[Len(lines) + 1] = event
    BY <1>1, <2>5, <1>0, AppendProperties DEF TraceTyped
  <2>2. Trace!TypeOK'
    <3>1. inFile' \in 0 .. Len(lines')
      BY <2>1, <2>5, <1>0 DEF TraceTyped
    <3>2. torn' \in 0 .. Len(lines')
      BY <2>1, <2>5, <1>0 DEF TraceTyped
    <3>3. ragged' \in BOOLEAN
      BY <2>5
    <3> QED
      BY <1>1, <1>3, <2>1, <2>5, <3>1, <3>2, <3>3, <1>0 DEF TraceTyped, TraceInv, Trace!TypeOK, Trace!None
  <2>3. TraceOrder'
    <3> SUFFICES ASSUME NEW k \in 1 .. Len(lines')
                 PROVE  /\ lines'[k] \in Passing /\ lines'[k] < emitted
                        /\ k > 1 => lines'[k - 1] < lines'[k]
                        /\ \A j \in 1 .. Len(chan) : lines'[k] < chan[j]
      BY <1>1, <1>2, <1>3 DEF TraceInv, TraceOrder
    <3>1. CASE k \in 1 .. Len(lines)
      <4>1. k > 1 => k - 1 \in 1 .. Len(lines)
        BY <3>1, <1>0 DEF TraceTyped
      <4> QED
        BY <2>1, <3>1, <4>1 DEF TraceInv, TraceOrder
    <3>2. CASE k = Len(lines) + 1
      <4>1. k > 1 => k - 1 \in 1 .. Len(lines)
        BY <3>2, <1>0 DEF TraceTyped
      <4> QED
        BY <1>1, <2>1, <3>2, <4>1 DEF TraceInv, TraceOrder
    <3> QED
      BY <2>1, <3>1, <3>2, <1>0 DEF TraceTyped
  <2>4. TraceCount'
    BY <1>1, <1>3, <1>6, <2>1, <2>5, <1>0
       DEF TraceTyped, TraceCount, Trace!InFlight, Trace!ReceiverGone
  <2>6. TraceDamage'
    BY <1>0, <2>5 DEF TraceTyped, TraceInv, TraceDamage, Trace!DamageCounted
  <2> QED
    BY <1>1, <2>2, <2>3, <2>4, <2>6, <1>0 DEF TraceTyped, TraceInv
<1>4. CASE Trace!FailToWrite /\ thread' = "receiving" /\ UNCHANGED <<chan, panicked>>
  <2>3. /\ writeFailures' = writeFailures + 1 /\ UNCHANGED <<lines, torn>>
        /\ inFile' \in inFile .. Len(lines) /\ ragged' \in BOOLEAN
    BY <1>4, <1>0 DEF Trace!FailToWrite, Trace!CountFailure, TraceTyped
  <2>1. Trace!TypeOK'
    <3>1. inFile' \in 0 .. Len(lines)
      BY <2>3, <1>0 DEF TraceTyped
    <3> QED
      BY <1>1, <1>4, <2>3, <3>1, <1>0 DEF TraceTyped, TraceInv, Trace!TypeOK, Trace!None
  <2>2. TraceOrder'
    BY <1>1, <1>2, <1>4, <2>3, <1>0 DEF TraceTyped, TraceInv, TraceOrder
  <2>4. TraceCount'
    BY <1>1, <1>4, <1>6, <2>3, <1>0
       DEF TraceTyped, TraceCount, Trace!InFlight, Trace!ReceiverGone
  <2>5. TraceDamage'
    BY <1>0, <2>3 DEF TraceTyped, TraceInv, TraceDamage, Trace!DamageCounted
  <2> QED
    BY <1>1, <2>1, <2>2, <2>4, <2>5, <1>0 DEF TraceTyped, TraceInv
<1>5. CASE /\ panicked' = TRUE /\ thread' = "dropping" /\ chan' = <<>>
           /\ UNCHANGED Trace!writerVars
  <2>1. /\ chan' \in Seq(Nat) /\ Len(chan') = 0
        /\ UNCHANGED <<lines, inFile, ragged, torn, writeFailures>>
    BY <1>5 DEF Trace!writerVars
  <2>2. Trace!TypeOK'
    BY <1>1, <1>5, <2>1, <1>0 DEF TraceTyped, TraceInv, Trace!TypeOK, Trace!None
  <2>3. TraceOrder'
    BY <1>1, <1>2, <1>5, <2>1, <1>0 DEF TraceTyped, TraceInv, TraceOrder
  <2> QED
    BY <1>1, <1>5, <2>1, <2>2, <2>3, <1>0
       DEF TraceTyped, TraceInv, TraceCount, TraceDamage, Trace!DamageCounted
<1> QED
  BY <1>3, <1>4, <1>5 DEF Trace!InnerEmit

\* The last flush moves lines to the file; what it leaves stays where it is.
LEMMA FinalFlushInvariant == ASSUME TraceInv, Trace!FinalFlush PROVE TraceInv'
<1>0. TraceTyped
  BY TraceTypes
<1>1. /\ thread = "dropping" /\ thread' = "ended" /\ inFile' \in 0 .. Len(lines)
      /\ UNCHANGED <<capacity, everyN, emitted, recorded, dropped, chan, sink, panicked, event,
                     lines, ragged, torn, writeFailures>>
  BY <1>0 DEF Trace!FinalFlush, TraceTyped
<1>2. Passing' = Passing
  BY <1>1 DEF Passing, Trace!Gated, Trace!Frame
<1>3. Trace!TypeOK'
  BY <1>1, <1>0 DEF TraceTyped, TraceInv, Trace!TypeOK, Trace!None
<1>4. TraceOrder'
  BY <1>1, <1>2 DEF TraceInv, TraceOrder
<1>5. TraceCount' /\ TraceDamage'
  BY <1>1 DEF TraceInv, TraceCount, TraceDamage, Trace!DamageCounted, Trace!InFlight,
              Trace!ReceiverGone
<1> QED
  BY <1>0, <1>1, <1>3, <1>4, <1>5 DEF TraceTyped, TraceInv

\* Every step of the sink and its writer keeps the invariant.
LEMMA TraceStep == ASSUME TraceInv, [Trace!Next]_traceVars PROVE TraceInv'
<1>1. CASE Trace!Close \/ Trace!Join
  <2>1. /\ UNCHANGED <<capacity, everyN, emitted, recorded, dropped, chan, thread, panicked,
                       event, lines, inFile, ragged, torn, writeFailures>>
        /\ sink' \in {"closing", "closed"}
    BY <1>1 DEF Trace!Close, Trace!Join, Trace!writerVars
  <2>2. Passing' = Passing
    BY <2>1 DEF Passing, Trace!Gated, Trace!Frame
  <2> QED
    BY <2>1, <2>2 DEF TraceInv, Trace!TypeOK, TraceOrder, TraceCount, TraceDamage,
                     Trace!DamageCounted, Trace!InFlight, Trace!ReceiverGone
<1>2. CASE UNCHANGED traceVars
  <2>1. Passing' = Passing
    BY <1>2 DEF Passing, Trace!Gated, Trace!Frame, traceVars
  <2> QED
    BY <1>2, <2>1 DEF traceVars, TraceInv, Trace!TypeOK, TraceOrder, TraceCount, TraceDamage,
                     Trace!DamageCounted, Trace!InFlight, Trace!ReceiverGone
<1> QED
  BY <1>1, <1>2, EmitInvariant, ReceiveInvariant, InnerEmitInvariant, FinalFlushInvariant
  DEF Trace!Next, Trace!Writer

\* Every event past the gate is in the file, in order, or behind it in the buffer, or is counted
\* as dropped or as a write that failed, or is on its way to one of these; a sink that is gone has
\* none on the way. For every capacity (0 included) and every gate: only a panic of the inner sink
\* and a last flush that fails lose events uncounted.
THEOREM EventsCounted ==
  /\ Trace!Spec => []Trace!Accounted
  /\ MCSpec => []EventsAccounted
<1>1. TraceInv => Trace!TypeOK /\ Trace!Accounted
  <2> SUFFICES ASSUME TraceInv PROVE Trace!Accounted
    BY DEF TraceInv
  <2>1. \A k \in 1 .. Len(lines) : ~Trace!Gated(lines[k])
    BY DEF TraceInv, TraceOrder, Passing
  <2>2. ~panicked /\ thread = "ended" => Trace!InFlight = 0
    BY DEF TraceInv, TraceCount, Trace!InFlight, Trace!ReceiverGone
  <2>3. inFile + Trace!Buffered = Len(lines)
    BY TraceTypes DEF TraceTyped, Trace!Buffered
  <2> QED
    BY <2>1, <2>2, <2>3 DEF TraceInv, TraceOrder, TraceCount, Trace!Accounted
<1>2. TraceInv /\ [Trace!Next]_Trace!traceVars => TraceInv'
  BY TraceStep DEF Trace!traceVars, Trace!writerVars, traceVars
<1>3. TraceInv /\ [MCNext]_mcVars => TraceInv'
  BY TraceStep DEF MCNext, mcVars
<1>4. MCInit => TraceInv
  BY TraceStarts DEF MCInit
<1>5. TraceInv => EventsAccounted
  BY <1>1 DEF EventsAccounted
<1> QED
  BY <1>1, <1>2, <1>3, <1>4, <1>5, TraceStarts, PTL DEF MCSpec, Trace!Spec

\* A failed write damages at most one line besides its own, for every order of failures, and of
\* lines that the buffer keeps or passes on: lines that are no complete object are never more
\* than the failures counted.
THEOREM DamageIsCounted ==
  /\ Trace!Spec => []Trace!DamageCounted
  /\ MCSpec => []DamageCounted
<1>1. TraceInv => Trace!DamageCounted /\ DamageCounted
  BY DEF TraceInv, TraceDamage, DamageCounted
<1>2. TraceInv /\ [Trace!Next]_Trace!traceVars => TraceInv'
  BY TraceStep DEF Trace!traceVars, Trace!writerVars, traceVars
<1>3. TraceInv /\ [MCNext]_mcVars => TraceInv'
  BY TraceStep DEF MCNext, mcVars
<1>4. MCInit => TraceInv
  BY TraceStarts DEF MCInit
<1> QED
  BY <1>1, <1>2, <1>3, <1>4, TraceStarts, PTL DEF MCSpec, Trace!Spec

------------------------------------------------------------------------------
(***************************************************************************)
(* ObsSource: the plugin's source and its replay recorder.                 *)
(***************************************************************************)

\* Replay recorders, or none (size 0).
Recorders == [size : {0} \cup Sizes, frames : {0, 1}, works : BOOLEAN]

\* Stitching cores, or none (inp 0).
Cores == [inp : {0} \cup Sizes, recorder : Recorders]

\* The sources of the plugin.
Sources ==
    [core : Cores, calibrated : BOOLEAN, config : {"none", "good", "broken"}, inp : Sizes,
     format : Formats, slot : [Obs!Cameras -> BOOLEAN], replay : BOOLEAN, follow : BOOLEAN,
     attached : BOOLEAN]

\* The flag tells of the recorder, and a recorder that works has a size.
Tracked(s) ==
    /\ s.core # Obs!NoCore => (s.attached <=> s.core.recorder # Obs!NoRecorder)
    /\ s.core.recorder.works => s.core.recorder.size # 0

\* A source that was found stays in the scene.
Found(s) == \A c \in Obs!Cameras : s.slot[c] => upstream[c] # 0

\* The inductive invariant: the flag is true to the recorder.
ObsInv ==
    /\ src \in Sources /\ Tracked(src) /\ Found(src)
    /\ settings \in Obs!Settings
    /\ upstream \in [Obs!Cameras -> {0} \cup Sizes]
    /\ obs \in [Obs!ObsOutputs -> BOOLEAN]
    /\ events \in Seq({"started", "stopped"})
    /\ active \in BOOLEAN /\ disk \in BOOLEAN
    /\ out \in {"nothing", "rebuilt", "stitched", "error"}

\* Creating or dropping the recorder for the settings keeps the flag true to it.
LEMMA UpdateKeeps ==
  ASSUME NEW s \in Sources, Tracked(s), active \in BOOLEAN, disk \in BOOLEAN
  PROVE  /\ Obs!UpdateRecorder(s) \in Sources /\ Tracked(Obs!UpdateRecorder(s))
         /\ Obs!UpdateRecorder(s).slot = s.slot
<1>0. /\ s.core \in Cores /\ s.inp \in Sizes /\ s.core.recorder \in Recorders
      /\ s.attached \in BOOLEAN
  BY DEF Sources, Cores
<1>1. CASE Obs!WantRecording(s) /\ ~s.attached /\ disk
  <2> DEFINE r == [size |-> s.inp, frames |-> 0, works |-> TRUE]
             t == [s EXCEPT !.core = [@ EXCEPT !.recorder = r], !.attached = TRUE]
  <2>1. Obs!UpdateRecorder(s) = t
    BY <1>1 DEF Obs!UpdateRecorder
  <2>2. r \in Recorders /\ r # Obs!NoRecorder /\ s.inp # 0
    BY <1>0, ObsAssumption DEF Recorders, Obs!NoRecorder, Obs!ObsSourceAssumption
  <2> HIDE DEF r
  <2>3. t \in Sources /\ t.slot = s.slot /\ t.attached /\ t.core.recorder = r
    BY <1>0, <2>2 DEF Sources, Cores
  <2> QED
    BY <2>1, <2>2, <2>3 DEF Tracked, r
<1>2. CASE ~Obs!WantRecording(s) /\ s.attached
  <2> DEFINE t == [s EXCEPT !.core = [@ EXCEPT !.recorder = Obs!NoRecorder], !.attached = FALSE]
  <2>1. Obs!UpdateRecorder(s) = t
    BY <1>2 DEF Obs!UpdateRecorder
  <2>2. Obs!NoRecorder \in Recorders /\ Obs!NoRecorder.works = FALSE
    BY DEF Recorders, Obs!NoRecorder
  <2>3. t \in Sources /\ t.slot = s.slot /\ t.attached = FALSE
        /\ t.core.recorder = Obs!NoRecorder
    BY <1>0, <2>2 DEF Sources, Cores
  <2> QED
    BY <2>1, <2>2, <2>3 DEF Tracked
<1>3. CASE ~(Obs!WantRecording(s) /\ ~s.attached /\ disk) /\ ~(~Obs!WantRecording(s) /\ s.attached)
  BY <1>3 DEF Obs!UpdateRecorder
<1> QED
  BY <1>1, <1>2, <1>3

\* So does opening the core.
LEMMA TryInitKeeps ==
  ASSUME NEW s \in Sources, Tracked(s), active \in BOOLEAN, disk \in BOOLEAN
  PROVE  /\ Obs!TryInit(s) \in Sources /\ Tracked(Obs!TryInit(s))
         /\ Obs!TryInit(s).slot = s.slot
<1> DEFINE none == [s EXCEPT !.core = Obs!NoCore, !.attached = FALSE]
           fresh == [s EXCEPT !.core = [inp |-> s.inp, recorder |-> Obs!NoRecorder],
                              !.attached = FALSE]
<1>0. Obs!NoRecorder \in Recorders /\ Obs!NoCore \in Cores /\ Obs!NoRecorder.works = FALSE
      /\ Obs!NoCore.recorder = Obs!NoRecorder
  BY DEF Recorders, Cores, Obs!NoRecorder, Obs!NoCore
<1>1. none \in Sources /\ Tracked(none) /\ none.slot = s.slot
  BY <1>0 DEF Sources, Tracked
<1>2. fresh \in Sources /\ Tracked(fresh) /\ fresh.slot = s.slot
  BY <1>0 DEF Sources, Tracked, Cores
<1>3. /\ Obs!UpdateRecorder(fresh) \in Sources /\ Tracked(Obs!UpdateRecorder(fresh))
      /\ Obs!UpdateRecorder(fresh).slot = s.slot
  BY <1>2, UpdateKeeps
<1> QED
  BY <1>1, <1>3 DEF Obs!TryInit

\* Loading a calibration closes the core and its recorder together.
LEMMA LoadKeeps ==
  ASSUME NEW s \in Sources, Tracked(s)
  PROVE  /\ Obs!LoadCalibration(s) \in Sources /\ Tracked(Obs!LoadCalibration(s))
         /\ Obs!LoadCalibration(s).slot = s.slot
<1>0. /\ Obs!NoCore \in Cores /\ Obs!NoRecorder.works = FALSE
      /\ Obs!NoCore.recorder = Obs!NoRecorder
  BY DEF Recorders, Cores, Obs!NoRecorder, Obs!NoCore
<1> QED
  BY <1>0 DEF Obs!LoadCalibration, Sources, Tracked

\* Resolving the upstream sources fills the slots of those that exist.
LEMMA ResolvedKeeps ==
  ASSUME NEW s \in Sources, Tracked(s), Found(s)
  PROVE  Obs!Resolved(s) \in Sources /\ Tracked(Obs!Resolved(s)) /\ Found(Obs!Resolved(s))
<1> DEFINE slots == [c \in Obs!Cameras |-> s.slot[c] \/ upstream[c] # 0]
<1>1. slots \in [Obs!Cameras -> BOOLEAN]
  BY DEF Sources
<1>2. Obs!Resolved(s) = [s EXCEPT !.slot = slots]
  BY DEF Obs!Resolved
<1> HIDE DEF slots
<1>3. /\ Obs!Resolved(s) \in Sources /\ Obs!Resolved(s).slot = slots
      /\ Obs!Resolved(s).core = s.core /\ Obs!Resolved(s).attached = s.attached
  BY <1>1, <1>2 DEF Sources
<1>4. Tracked(Obs!Resolved(s))
  BY <1>3 DEF Tracked
<1>5. Found(Obs!Resolved(s))
  BY <1>3 DEF Found, slots
<1> QED
  BY <1>3, <1>4, <1>5

\* New settings leave a source whose flag is true to its recorder.
LEMMA ApplyKeeps ==
  ASSUME NEW s \in Sources, Tracked(s), Found(s), NEW new \in Obs!Settings
  PROVE  /\ Obs!ApplySettings(s, new) \in Sources /\ Tracked(Obs!ApplySettings(s, new))
         /\ Found(Obs!ApplySettings(s, new))
<1> DEFINE t == [s EXCEPT !.config = new.config, !.inp = new.inp,
                          !.core = IF new.format = s.format THEN @ ELSE Obs!NoCore,
                          !.format = new.format, !.replay = new.replay,
                          !.follow = new.follow]
<1>0. /\ Obs!NoCore \in Cores /\ Obs!NoRecorder.works = FALSE
      /\ Obs!NoCore.recorder = Obs!NoRecorder
  BY DEF Recorders, Cores, Obs!NoRecorder, Obs!NoCore
<1>1. t \in Sources /\ Tracked(t) /\ Found(t)
  BY <1>0 DEF Sources, Tracked, Found, Obs!Settings
<1> HIDE DEF t
<1>2. Obs!ApplySettings(s, new) = Obs!Resolved(t)
  BY DEF Obs!ApplySettings, t
<1> QED
  BY <1>1, <1>2, ResolvedKeeps

\* The pair, or the failure, that the recorder sees.
LEMMA RecordedKeeps ==
  ASSUME NEW s \in Sources, Tracked(s), Found(s), disk \in BOOLEAN
  PROVE  LET t == [s EXCEPT !.core = Obs!Recorded(s.core)] IN
         t \in Sources /\ Tracked(t) /\ Found(t)
<1> DEFINE core == s.core
           r == core.recorder
           t == [s EXCEPT !.core = Obs!Recorded(core)]
<1>0. core \in Cores /\ r \in Recorders
  BY DEF Sources, Cores
<1>1. CASE ~r.works
  <2>1. Obs!Recorded(core) = core
    BY <1>1 DEF Obs!Recorded
  <2>2. t = s
    BY <2>1 DEF Sources
  <2> QED
    BY <2>2
<1>2. CASE r.works
  <2> DEFINE new == IF r.size # core.inp \/ ~disk THEN [r EXCEPT !.works = FALSE]
                    ELSE [r EXCEPT !.frames = 1]
  <2>1. Obs!Recorded(core) = [core EXCEPT !.recorder = new]
    BY <1>0, <1>2 DEF Obs!Recorded, Cores
  <2>2. new \in Recorders /\ new.size = r.size /\ r.size # 0
    BY <1>0, <1>2 DEF Recorders, Tracked
  <2> HIDE DEF new
  <2>3. /\ t \in Sources /\ t.core.recorder = new /\ t.slot = s.slot
        /\ t.attached = s.attached /\ (t.core = Obs!NoCore => new = Obs!NoRecorder)
    BY <1>0, <2>1, <2>2 DEF Sources, Cores, Obs!NoCore
  <2>4. new # Obs!NoRecorder /\ r # Obs!NoRecorder /\ s.core # Obs!NoCore
    BY <1>2, <2>2 DEF Obs!NoRecorder, Obs!NoCore
  <2> QED
    BY <2>2, <2>3, <2>4 DEF Tracked, Found
<1> QED
  BY <1>1, <1>2

\* The plugin starts with no source.
LEMMA ObsStarts == ASSUME Obs!Init PROVE ObsInv
<1> DEFINE blank == [core |-> Obs!NoCore, calibrated |-> FALSE, config |-> "none",
                     inp |-> settings.inp, format |-> "i420",
                     slot |-> [c \in Obs!Cameras |-> FALSE],
                     replay |-> FALSE, follow |-> TRUE, attached |-> FALSE]
           applied == Obs!ApplySettings(blank, settings)
<1>1. settings \in Obs!Settings /\ active = FALSE /\ disk = TRUE
  BY DEF Obs!Init
<1>2. blank \in Sources /\ Tracked(blank) /\ Found(blank)
  BY <1>1, ObsAssumption DEF Sources, Cores, Recorders, Tracked, Found, Obs!Settings, Obs!NoCore,
     Obs!NoRecorder, Obs!ObsSourceAssumption
<1> HIDE DEF blank
<1>3. applied \in Sources /\ Tracked(applied) /\ Found(applied)
  BY <1>1, <1>2, ApplyKeeps
<1> HIDE DEF applied
<1>4. src = Obs!TryInit(Obs!LoadCalibration(applied))
  BY DEF Obs!Init, blank, applied
<1>5. src \in Sources /\ Tracked(src) /\ src.slot = applied.slot
  BY <1>1, <1>3, <1>4, LoadKeeps, TryInitKeeps
<1>6. Found(src)
  BY <1>3, <1>5 DEF Found
<1>7. /\ upstream \in [Obs!Cameras -> {0} \cup Sizes] /\ out = "nothing" /\ events = <<>>
      /\ obs \in [Obs!ObsOutputs -> BOOLEAN]
  <2>1. obs = [o \in Obs!ObsOutputs |-> FALSE]
    BY DEF Obs!Init
  <2>2. obs \in [Obs!ObsOutputs -> BOOLEAN]
    BY <2>1
  <2> QED
    BY <2>2 DEF Obs!Init
<1>8. events \in Seq({"started", "stopped"})
  BY <1>7
<1>9. active \in BOOLEAN /\ disk \in BOOLEAN
  BY <1>1
<1> QED
  BY <1>1, <1>5, <1>6, <1>7, <1>8, <1>9 DEF ObsInv

\* The update callback keeps every source tracked.
LEMMA ObsUpdateKeeps ==
  ASSUME ObsInv, NEW new \in Obs!Settings, Obs!Update(new)
  PROVE  ObsInv'
<1> DEFINE applied == Obs!ApplySettings(src, new)
           loaded == IF new.config # src.config THEN Obs!LoadCalibration(applied) ELSE applied
<1>0. src \in Sources /\ Tracked(src) /\ Found(src) /\ active \in BOOLEAN /\ disk \in BOOLEAN
  BY DEF ObsInv
<1>1. applied \in Sources /\ Tracked(applied) /\ Found(applied)
  BY <1>0, ApplyKeeps
<1>2. /\ settings' = new /\ upstream' = upstream /\ obs' = obs /\ events' = events
      /\ active' = active /\ disk' = disk /\ out' = out
      /\ src' \in {Obs!TryInit(loaded), Obs!UpdateRecorder(loaded)}
  BY DEF Obs!Update
<1> HIDE DEF applied
<1>3. loaded \in Sources /\ Tracked(loaded) /\ loaded.slot = applied.slot
  BY <1>1, LoadKeeps
<1> HIDE DEF loaded
<1>4. src' \in Sources /\ Tracked(src') /\ src'.slot = applied.slot
  BY <1>0, <1>2, <1>3, TryInitKeeps, UpdateKeeps
<1> QED
  BY <1>1, <1>2, <1>4 DEF ObsInv, Found, Tracked

\* So does the tick, with or without a poll, frames or a failing recorder.
LEMMA TickKeeps ==
  ASSUME ObsInv, NEW poll \in BOOLEAN, NEW frames \in BOOLEAN, Obs!Tick(poll, frames)
  PROVE  ObsInv'
<1> DEFINE s == IF poll THEN Obs!UpdateRecorder(Obs!Resolved(src)) ELSE src
           size == upstream["left"]
<1>0. src \in Sources /\ Tracked(src) /\ Found(src) /\ active \in BOOLEAN /\ disk \in BOOLEAN
  BY DEF ObsInv
<1>1. s \in Sources /\ Tracked(s) /\ Found(s)
  <2>1. /\ Obs!Resolved(src) \in Sources /\ Tracked(Obs!Resolved(src))
        /\ Found(Obs!Resolved(src))
    BY <1>0, ResolvedKeeps
  <2> QED
    BY <1>0, <2>1, UpdateKeeps DEF Found
<1> HIDE DEF s
<1>2. /\ settings' = settings /\ upstream' = upstream /\ obs' = obs /\ events' = events
      /\ active' = active /\ disk' = disk
      /\ \/ src' = s /\ out' = "nothing"
         \/ ~Obs!Unusable(s, frames) /\ src' = Obs!AutoDetect(s) /\ out' = "rebuilt"
         \/ /\ src' = [s EXCEPT !.core = Obs!Recorded(s.core)]
            /\ out' \in {"stitched", "error"}
  BY DEF Obs!Tick, s
<1>3. src' \in Sources /\ Tracked(src') /\ Found(src')
  <2>1. CASE src' = s
    BY <1>1, <2>1
  <2>2. CASE ~Obs!Unusable(s, frames) /\ src' = Obs!AutoDetect(s)
    <3> DEFINE t == [s EXCEPT !.inp = size, !.core = Obs!NoCore, !.attached = FALSE]
    <3>1. s.slot["left"] /\ size # 0
      BY <1>1, <2>2 DEF Obs!Unusable, Obs!Cameras, Found
    <3>2. size \in Sizes
      BY <3>1 DEF ObsInv, Obs!Cameras
    <3>3. t \in Sources /\ Tracked(t) /\ t.slot = s.slot
      BY <1>1, <3>2 DEF Sources, Cores, Recorders, Tracked, Obs!NoCore, Obs!NoRecorder
    <3>4. src' = Obs!TryInit(t)
      BY <2>2 DEF Obs!AutoDetect
    <3> HIDE DEF t
    <3>5. src' \in Sources /\ Tracked(src') /\ src'.slot = s.slot
      BY <1>0, <3>3, <3>4, TryInitKeeps
    <3> QED
      BY <1>1, <3>5 DEF Found
  <2>3. CASE src' = [s EXCEPT !.core = Obs!Recorded(s.core)]
    BY <1>0, <1>1, <2>3, RecordedKeeps
  <2> QED
    BY <1>2, <2>1, <2>2, <2>3
<1>4. out' \in {"nothing", "rebuilt", "stitched", "error"}
  BY <1>2
<1> QED
  BY <1>2, <1>3, <1>4 DEF ObsInv, Found, Tracked

\* Every callback keeps the invariant.
LEMMA ObsStep == ASSUME ObsInv, [Obs!Next]_obsVars PROVE ObsInv'
<1>0. /\ events \in Seq({"started", "stopped"}) /\ obs \in [Obs!ObsOutputs -> BOOLEAN]
      /\ upstream \in [Obs!Cameras -> {0} \cup Sizes]
      /\ active \in BOOLEAN /\ disk \in BOOLEAN /\ src \in Sources /\ Found(src)
  BY DEF ObsInv
<1>1. ASSUME NEW new \in Obs!Edited, Obs!Update(new) PROVE ObsInv'
  <2>1. new \in Obs!Settings
    BY DEF Obs!Edited
  <2> QED
    BY <1>1, <2>1, ObsUpdateKeeps
<1>2. ASSUME NEW poll \in BOOLEAN, NEW frames \in BOOLEAN, Obs!Tick(poll, frames) PROVE ObsInv'
  BY <1>2, TickKeeps
<1>3. CASE Obs!FrontendEvent
  <2>1. /\ events # <<>> /\ events' = Tail(events) /\ active' \in BOOLEAN
        /\ UNCHANGED <<settings, src, upstream, obs, disk, out>>
    BY <1>0, <1>3 DEF Obs!FrontendEvent
  <2>2. events' \in Seq({"started", "stopped"})
    BY <1>0, <2>1
  <2> QED
    BY <2>1, <2>2 DEF ObsInv, Found, Tracked
<1>4. ASSUME NEW o \in Obs!ObsOutputs, Obs!ObsPress(o) PROVE ObsInv'
  <2>1. /\ obs' = [obs EXCEPT ![o] = ~@]
        /\ events' = Append(events, IF obs[o] THEN "stopped" ELSE "started")
        /\ UNCHANGED <<settings, src, upstream, active, disk, out>>
    BY <1>4 DEF Obs!ObsPress
  <2>2. obs' \in [Obs!ObsOutputs -> BOOLEAN]
    BY <1>0, <2>1
  <2>3. events' \in Seq({"started", "stopped"})
    BY <1>0, <2>1
  <2> QED
    BY <2>1, <2>2, <2>3 DEF ObsInv, Found, Tracked
<1>5. ASSUME NEW c \in Obs!Cameras, Obs!CameraChanges(c) PROVE ObsInv'
  <2>1. PICK size \in Sizes : upstream' = [upstream EXCEPT ![c] = size]
    BY <1>5 DEF Obs!CameraChanges
  <2>2. UNCHANGED <<settings, src, obs, events, active, disk, out>>
    BY <1>5 DEF Obs!CameraChanges
  <2>3. size # 0 /\ upstream' \in [Obs!Cameras -> {0} \cup Sizes]
    BY <1>0, <2>1, ObsAssumption DEF Obs!ObsSourceAssumption
  <2>4. Found(src)'
    BY <1>0, <2>1, <2>2, <2>3 DEF Found
  <2> QED
    BY <2>2, <2>3, <2>4 DEF ObsInv, Tracked
<1>6. CASE Obs!MachineChanges
  <2>1. /\ disk' \in BOOLEAN
        /\ UNCHANGED <<settings, src, upstream, obs, events, active, out>>
    BY <1>0, <1>6 DEF Obs!MachineChanges
  <2> QED
    BY <2>1 DEF ObsInv, Found, Tracked
<1>7. CASE UNCHANGED obsVars
  BY <1>7 DEF obsVars, ObsInv, Found, Tracked
<1> QED
  BY <1>1, <1>2, <1>3, <1>4, <1>5, <1>6, <1>7 DEF Obs!Next

\* The plugin's invariant holds in every state: the flag follows the recorder through every
\* rebuild of the core.
THEOREM ObsAlways ==
  /\ Obs!Spec => []ObsInv
  /\ MCSpec => []ObsInv
<1>1. ObsInv /\ [Obs!Next]_Obs!sourceVars => ObsInv'
  BY ObsStep DEF Obs!sourceVars, obsVars
<1>2. ObsInv /\ [MCNext]_mcVars => ObsInv'
  BY ObsStep DEF MCNext, mcVars
<1>3. MCInit => ObsInv
  BY ObsStarts DEF MCInit
<1> QED
  BY <1>1, <1>2, <1>3, ObsStarts, PTL DEF MCSpec, Obs!Spec

\* recorder_attached says whether the core has a recorder, whatever the order of settings,
\* upstream resizes, ticks and recorder failures.
THEOREM FlagTracksRecorder ==
  /\ Obs!Spec => []Obs!AttachmentTracked
  /\ MCSpec => []AttachmentTracked
<1>1. ObsInv => Obs!TypeOK /\ Obs!AttachmentTracked
  BY DEF ObsInv, Tracked, Sources, Cores, Obs!TypeOK, Obs!AttachmentTracked
<1>2. ObsInv => AttachmentTracked
  BY <1>1 DEF AttachmentTracked
<1> QED
  BY <1>1, <1>2, ObsAlways, PTL

------------------------------------------------------------------------------
(***************************************************************************)
(* FileExport: a job from its candidates to the finished file.             *)
(***************************************************************************)

\* A non-empty set of numbers has a least one: this is how the proofs below do
\* induction, on the least counterexample.
LEMMA LeastOf ==
  ASSUME NEW I \in SUBSET Nat, I # {}
  PROVE  \E m \in I : \A k \in I : m <= k
<1> DEFINE Less == OpToRel(<, Nat)
<1>1. \E x \in I : \A y \in I : ~ (<<y, x>> \in Less)
  <2>1. IsWellFoundedOn(Less, Nat)
    BY NatLessThanWellFounded
  <2> HIDE DEF Less
  <2> QED
    BY <2>1, WFMin
<1>2. ASSUME NEW x \in I, NEW y \in I, y < x PROVE <<y, x>> \in Less
  <2>1. x \in Nat /\ y \in Nat
    OBVIOUS
  <2>2. Less = {ss \in Nat \X Nat : ss[1] < ss[2]}
    BY DEF OpToRel
  <2> HIDE DEF Less
  <2> QED
    BY <1>2, <2>1, <2>2
<1> HIDE DEF Less
<1>3. PICK x \in I : \A y \in I : ~ (<<y, x>> \in Less)
  BY <1>1
<1>4. ASSUME NEW y \in I PROVE x <= y
  <2>1. x \in Nat /\ y \in Nat /\ ~(y < x)
    BY <1>2, <1>3
  <2> QED
    BY <2>1
<1> QED
  BY <1>3, <1>4

\* The lengths of segments can be summed up, one after the other.
LEMMA SumsExist ==
  ASSUME NEW L \in Nat, NEW len \in [1 .. L -> Nat]
  PROVE  \E f : f = [n \in 0 .. L |-> IF n = 0 THEN 0 ELSE f[n - 1] + len[n]]
<1> DEFINE Sums(f, m) == f = [n \in 0 .. m |-> IF n = 0 THEN 0 ELSE f[n - 1] + len[n]]
           Bad == {m \in 0 .. L : ~ \E f : Sums(f, m)}
<1>1. SUFFICES ASSUME Bad # {} PROVE FALSE
  <2>1. L \in 0 .. L
    OBVIOUS
  <2> QED
    BY <2>1
<1>0. Bad \in SUBSET Nat
  OBVIOUS
<1>2. PICK m \in Bad : \A k \in Bad : m <= k
  <2> HIDE DEF Bad
  <2> QED
    BY <1>0, <1>1, LeastOf
<1>3. m \in 0 .. L /\ m \in Nat
  BY <1>2
<1>4. CASE m = 0
  <2> DEFINE g == [n \in 0 .. 0 |-> 0]
  <2>1. g = [n \in 0 .. m |-> IF n = 0 THEN 0 ELSE g[n - 1] + len[n]]
    BY <1>4
  <2> QED
    BY <1>2, <2>1
<1>5. CASE m # 0
  <2>1. m - 1 \in 0 .. L /\ m - 1 \notin Bad
    <3>1. m - 1 \in 0 .. L /\ ~(m <= m - 1)
      BY <1>3, <1>5
    <3> HIDE DEF Bad
    <3> QED
      BY <1>2, <3>1
  <2>2. PICK f : Sums(f, m - 1)
    BY <2>1
  <2> DEFINE g == [n \in 0 .. m |-> IF n = m THEN f[m - 1] + len[m] ELSE f[n]]
  <2>3. ASSUME NEW n \in 0 .. m
        PROVE  g[n] = IF n = 0 THEN 0 ELSE g[n - 1] + len[n]
    <3>1. CASE n = m
      BY <1>3, <1>5, <3>1
    <3>2. CASE n # m
      BY <1>3, <1>5, <2>2, <3>2
    <3> QED
      BY <3>1, <3>2
  <2>4. Sums(g, m)
    BY <2>3
  <2> QED
    BY <1>2, <2>4
<1> QED
  BY <1>4, <1>5

------------------------------------------------------------------------------
\* The jobs.
JobTypes == [start : Nat, sync : Int, camera : Export!Cameras, limit : Nat, chain : Chains]

\* The packets of the sound.
Packets == [pts : Int, segment : Nat, at : Int]

\* The audio copier's fields.
AudioTypes ==
    [on : BOOLEAN, segment : Nat, next : Nat, offset : Int, nextOffset : Int,
     pendingStart : SUBSET Int, exhausted : BOOLEAN]

\* The types, and where in the recording the audio stands.
ExportTyped ==
    /\ Export!TypeOK
    /\ export \in JobTypes
    /\ dropping \in BOOLEAN /\ eofSent \in BOOLEAN
    /\ sound \in Seq(Packets)
    /\ \/ audio = Export!NoAudio
       \/ /\ audio \in AudioTypes /\ audio.on
          /\ audio.segment \in 1 .. Len(export.chain)
          /\ audio.next \in 0 .. export.chain[audio.segment].frames

\* The end of the audio is the end of nothing else.
LEMMA AudioExhausted ==
  ASSUME NEW a \in AudioTypes, NEW r, r = [a EXCEPT !.exhausted = TRUE]
  PROVE  /\ r \in AudioTypes /\ r.exhausted
         /\ r.next = a.next /\ r.pendingStart = a.pendingStart /\ r.offset = a.offset
         /\ r.nextOffset = a.nextOffset /\ r.segment = a.segment /\ r.on = a.on
<1>1. r \in AudioTypes
  BY DEF AudioTypes
<1>2. /\ r.next = a.next /\ r.pendingStart = a.pendingStart /\ r.offset = a.offset
      /\ r.nextOffset = a.nextOffset /\ r.segment = a.segment /\ r.on = a.on
  BY DEF AudioTypes
<1>3. r.exhausted
  BY DEF AudioTypes
<1> QED
  BY <1>1, <1>2, <1>3

\* The chain of segments of a job, segment by segment.
LEMMA ChainTypes ==
  ASSUME export \in JobTypes
  PROVE  /\ Len(export.chain) \in Nat \ {0}
         /\ \A s \in 1 .. Len(export.chain) :
                export.chain[s] \in [frames : Nat \ {0}, audio : BOOLEAN,
                                     readable : BOOLEAN, first : Int]
         /\ export.chain[1].first = 0
         /\ export.chain[1].frames \in Nat \ {0}
         /\ Export!AudioStart \in Nat
         /\ \A pts : Export!ShownAt(pts) = Export!AudioStart + pts
<1>1. export.chain \in Chains
  BY DEF JobTypes
<1>2. /\ export.chain \in Seq([frames : Nat \ {0}, audio : BOOLEAN,
                             readable : BOOLEAN, first : Int])
      /\ export.chain # <<>> /\ export.chain[1].first = 0
  BY <1>1, ExportAssumption DEF Export!FileExportAssumption
<1>3. Len(export.chain) \in Nat \ {0}
  BY <1>2
<1>4. \A s \in 1 .. Len(export.chain) :
                export.chain[s] \in [frames : Nat \ {0}, audio : BOOLEAN,
                                     readable : BOOLEAN, first : Int]
  <2> DEFINE S == [frames : Nat \ {0}, audio : BOOLEAN, readable : BOOLEAN, first : Int]
  <2>1. export.chain \in Seq(S)
    BY <1>2
  <2> HIDE DEF S
  <2>2. \A s \in 1 .. Len(export.chain) : export.chain[s] \in S
    BY <2>1
  <2> QED
    BY <2>2 DEF S
<1>5. export.chain[1].frames \in Nat \ {0}
  BY <1>3, <1>4
<1>6. /\ export.start \in Nat /\ export.sync \in Int
      /\ export.camera = "left" \/ export.camera = "right"
  BY DEF JobTypes, Export!Cameras
<1>7. Export!AudioSyncSkip(export.camera, export.sync) \in Nat
  BY <1>6 DEF Export!AudioSyncSkip
<1>8. Export!AudioStart \in Nat
  BY <1>6, <1>7 DEF Export!AudioStart
<1>9. \A pts : Export!ShownAt(pts) = Export!AudioStart + pts
  BY DEF Export!AudioStart, Export!ShownAt, Export!AudioSyncSkip, Export!SyncSkip
<1> QED
  BY <1>2, <1>3, <1>4, <1>5, <1>8, <1>9

\* The frames before a segment are those of the segments before it, added up.
LEMMA BeforeAdds ==
  ASSUME export \in JobTypes
  PROVE  /\ Export!Before(1) = 0
         /\ \A s \in 1 .. Len(export.chain) + 1 : Export!Before(s) \in Nat
         /\ \A s \in 1 .. Len(export.chain) :
                Export!Before(s + 1) = Export!Before(s) + export.chain[s].frames
<1> DEFINE L == Len(export.chain)
           len == [n \in 1 .. L |-> export.chain[n].frames]
           Good(f) == f = [n \in 0 .. L |-> IF n = 0 THEN 0 ELSE f[n - 1] + export.chain[n].frames]
           up == CHOOSE f : Good(f)
<1>1. L \in Nat /\ len \in [1 .. L -> Nat]
  BY ChainTypes
<1>2. \E f : Good(f)
  <2>1. PICK f : f = [n \in 0 .. L |-> IF n = 0 THEN 0 ELSE f[n - 1] + len[n]]
    <3> HIDE DEF L, len
    <3> QED
      BY <1>1, SumsExist
  <2>2. \A n \in 0 .. L : n # 0 => len[n] = export.chain[n].frames
    BY <1>1
  <2>3. f = [n \in 0 .. L |-> IF n = 0 THEN 0 ELSE f[n - 1] + export.chain[n].frames]
    BY <2>1, <2>2
  <2> QED
    BY <2>3
<1>3. Good(up)
  BY <1>2
<1>4. \A s : Export!Before(s) = up[s - 1]
  BY DEF Export!Before, Export!Chain
<1> HIDE DEF up
<1>5. up[0] = 0 /\ \A n \in 1 .. L : up[n] = up[n - 1] + len[n]
  BY <1>1, <1>3
<1>6. \A n \in 0 .. L : up[n] \in Nat
  <2> DEFINE Bad == {n \in 0 .. L : up[n] \notin Nat}
  <2>1. SUFFICES ASSUME Bad # {} PROVE FALSE
    OBVIOUS
  <2>2. Bad \subseteq Nat
    BY <1>1
  <2>3. PICK m \in Bad : \A k \in Bad : m <= k
    BY <2>1, <2>2, LeastOf
  <2>4. m \in 0 .. L /\ m # 0
    BY <1>5, <2>3
  <2>5. m - 1 \in 0 .. L /\ m - 1 \notin Bad /\ m \in 1 .. L
    BY <1>1, <2>3, <2>4
  <2>6. up[m - 1] \in Nat /\ len[m] \in Nat
    BY <1>1, <2>5
  <2> HIDE DEF len, L
  <2>7. up[m] \in Nat
    BY <1>5, <2>5, <2>6
  <2> QED
    BY <2>3, <2>7
<1>7. \A s \in 1 .. L : s \in 0 .. L /\ s - 1 \in 0 .. L /\ (s + 1) - 1 = s
  BY <1>1
<1>8. \A s \in 1 .. L + 1 : s - 1 \in 0 .. L
  BY <1>1
<1>9. Export!Before(1) = 0
  BY <1>4, <1>5
<1>10. \A s \in 1 .. L + 1 : Export!Before(s) \in Nat
  BY <1>4, <1>6, <1>8
<1>11. \A s \in 1 .. L : Export!Before(s + 1) = Export!Before(s) + len[s]
  BY <1>4, <1>5, <1>7
<1> QED
  BY <1>9, <1>10, <1>11

------------------------------------------------------------------------------
\* Where the audio stands and what it has settled, while the segments so far
\* follow one another: its next packet continues the file.
AudioPlace ==
    audio.on /\ Export!AudioStart < export.chain[1].frames
             /\ Export!Unbroken(audio.segment) =>
        IF audio.segment = 1
        THEN /\ audio.pendingStart = {} /\ audio.offset = 0
             /\ audio.nextOffset = IF audio.next > Export!AudioStart
                                   THEN audio.next - Export!AudioStart ELSE 0
        ELSE /\ audio.nextOffset =
                    Export!Before(audio.segment) + audio.next - Export!AudioStart
             /\ \/ /\ audio.pendingStart = {}
                   /\ audio.offset + export.chain[audio.segment].first =
                          Export!Before(audio.segment) - Export!AudioStart
                \/ audio.pendingStart = {audio.nextOffset} /\ audio.next = 0

\* A packet of an unbroken chain lies where its sound belongs.
SoundPlace ==
    \A k \in 1 .. Len(sound) :
        Export!AudioStart < export.chain[1].frames /\ Export!Unbroken(sound[k].segment) =>
            sound[k].at = Export!AudioStart + sound[k].pts

\* What every step keeps: the types and the sound's place.
StepInv == ExportTyped /\ AudioPlace /\ SoundPlace

\* A job starts in a state of the step invariant.
LEMMA ExportStarts == ASSUME Export!Init PROVE StepInv
<1> USE DEF Export!Init
<1>1. export \in JobTypes
  <2>1. Starts \subseteq Nat /\ SyncOffsets \subseteq Int /\ Limits \subseteq Nat
    BY ExportAssumption DEF Export!FileExportAssumption
  <2> QED
    BY <2>1 DEF JobTypes
<1>2. <<>> \in Seq(Nat) /\ <<>> \in Seq(Packets) /\ Len(<<>>) = 0
  OBVIOUS
<1>3. ExportTyped
  BY <1>1, <1>2 DEF ExportTyped, Export!TypeOK
<1>4. ~audio.on
  BY DEF Export!NoAudio
<1> QED
  BY <1>2, <1>3, <1>4 DEF StepInv, AudioPlace, SoundPlace

\* The steps of the video and of the call leave the audio alone.
LEMMA SameAudio ==
  ASSUME StepInv, UNCHANGED <<export, audio, sound>>,
         Export!TypeOK', dropping' \in BOOLEAN, eofSent' \in BOOLEAN
  PROVE  StepInv'
<1>1. ExportTyped'
  BY DEF StepInv, ExportTyped, Export!NoAudio
<1>2. Export!AudioStart' = Export!AudioStart /\ \A s : Export!Before(s)' = Export!Before(s)
  BY DEF Export!AudioStart, Export!Before, Export!Chain
<1>3. \A s : Export!Unbroken(s)' <=> Export!Unbroken(s)
  BY DEF Export!Unbroken, Export!Chain
<1>4. AudioPlace' /\ SoundPlace'
  BY <1>2, <1>3 DEF StepInv, AudioPlace, SoundPlace
<1> QED
  BY <1>1, <1>4 DEF StepInv

\* Video, failures and the trailer leave the sound's place alone.
LEMMA VideoKeepsStep ==
  ASSUME StepInv,
         \/ Export!CandidateFails \/ Export!SendFrame \/ Export!ReceivePacket
         \/ Export!ReceiveNone \/ Export!Finish \/ Export!Drop \/ Export!ReadFails
         \/ Export!AudioDone \/ Export!WriteTrailers
  PROVE  StepInv'
<1>1. /\ exported \in Nat /\ codec \in Seq(Nat) /\ video \in Seq(Nat) /\ streamed \in Seq(Nat)
      /\ phase \in {"opening", "refused", "ready", "receiving", "draining",
                    "copying", "trailer", "finished", "failed", "closed", "lost"}
      /\ stream \in {"none", "open", "closed"}
      /\ dropping \in BOOLEAN /\ eofSent \in BOOLEAN
  BY DEF StepInv, ExportTyped, Export!TypeOK
<1>2. UNCHANGED <<export, audio, sound>>
  BY DEF Export!CandidateFails, Export!SendFrame, Export!ReceivePacket, Export!ReceiveNone,
     Export!Finish, Export!Drop, Export!ReadFails, Export!AudioDone, Export!WriteTrailers
<1>3. /\ phase' \in {"opening", "refused", "ready", "receiving", "draining",
                    "copying", "trailer", "finished", "failed", "closed", "lost"}
      /\ stream' \in {"none", "open", "closed"}
      /\ dropping' \in BOOLEAN /\ eofSent' \in BOOLEAN
  BY <1>1
  DEF Export!CandidateFails, Export!SendFrame, Export!ReceivePacket, Export!ReceiveNone,
     Export!Finish, Export!Drop, Export!ReadFails, Export!AudioDone, Export!WriteTrailers,
     Export!WriteToStream, Export!Fail
<1>4. exported' \in {exported, exported + 1}
  BY <1>1
  DEF Export!CandidateFails, Export!SendFrame, Export!ReceivePacket, Export!ReceiveNone,
     Export!Finish, Export!Drop, Export!ReadFails, Export!AudioDone, Export!WriteTrailers
<1>5. codec' \in Seq(Nat) /\ video' \in Seq(Nat) /\ streamed' \in Seq(Nat)
  <2>1. CASE Export!SendFrame
    <3>1. Append(codec, exported) \in Seq(Nat)
      BY <1>1
    <3> QED
      BY <1>1, <2>1, <3>1 DEF Export!SendFrame
  <2>2. CASE Export!ReceivePacket
    <3>1. Head(codec) \in Nat /\ Tail(codec) \in Seq(Nat)
      BY <1>1, <2>2 DEF Export!ReceivePacket
    <3>2. Append(video, Head(codec)) \in Seq(Nat) /\ Append(streamed, Head(codec)) \in Seq(Nat)
      BY <1>1, <3>1
    <3> QED
      BY <1>1, <2>2, <3>1, <3>2 DEF Export!ReceivePacket, Export!WriteToStream
  <2>3. CASE ~Export!SendFrame /\ ~Export!ReceivePacket
    BY <1>1, <2>3
    DEF Export!CandidateFails, Export!ReceiveNone,
     Export!Finish, Export!Drop, Export!ReadFails, Export!AudioDone, Export!WriteTrailers
  <2> QED
    BY <2>1, <2>2, <2>3
<1>6. exported' \in Nat
  BY <1>1, <1>4
<1>7. Export!TypeOK'
  BY <1>3, <1>5, <1>6 DEF Export!TypeOK
<1> QED
  BY <1>2, <1>3, <1>7, SameAudio

\* What the steps of the audio leave alone of the types.
LEMMA AudioTyped ==
  ASSUME StepInv, UNCHANGED <<export, dropping, exported, codec, eofSent, video, streamed>>,
         stream' \in {"none", "open", "closed"},
         phase' \in {phase, "ready", "failed", "lost"},
         sound' \in Seq(Packets),
         \/ audio' = Export!NoAudio
         \/ /\ audio' \in AudioTypes /\ audio'.on
            /\ audio'.segment \in 1 .. Len(export.chain)
            /\ audio'.next \in 0 .. export.chain[audio'.segment].frames
  PROVE  ExportTyped'
<1>1. Export!TypeOK'
  BY DEF StepInv, ExportTyped, Export!TypeOK
<1> QED
  BY <1>1 DEF StepInv, ExportTyped, Export!NoAudio

\* The numbers that the job gives the audio.
LEMMA SameJob ==
  ASSUME UNCHANGED export
  PROVE  /\ Export!AudioStart' = Export!AudioStart
         /\ \A s : Export!Before(s)' = Export!Before(s)
         /\ \A s : Export!Unbroken(s)' <=> Export!Unbroken(s)
BY DEF Export!AudioStart, Export!Before, Export!Unbroken, Export!Chain

\* Opening the encoder and the sound's first segment puts it at the start.
LEMMA OpensKeepsStep == ASSUME StepInv, Export!Opens PROVE StepInv'
<1> DEFINE A == Export!AudioStart
           c == export.chain
<1>1. export \in JobTypes /\ phase = "opening"
  BY DEF StepInv, ExportTyped, Export!Opens
<1>2. /\ Len(c) \in Nat \ {0} /\ c[1].frames \in Nat \ {0} /\ A \in Nat
      /\ c[1].audio \in BOOLEAN
  BY <1>1, ChainTypes
<1>3. PICK p \in 0 .. IF A < c[1].frames THEN A ELSE c[1].frames - 1 : audio' = Export!SetUpAudio(p)
  BY DEF Export!Opens, Export!Chain
<1>4. p \in Nat /\ p <= A /\ p <= c[1].frames
  BY <1>2, <1>3
<1>5. \/ audio' = Export!NoAudio
      \/ audio' = [on |-> TRUE, segment |-> 1, next |-> p, offset |-> 0,
                   nextOffset |-> 0, pendingStart |-> {}, exhausted |-> FALSE]
  BY <1>3 DEF Export!SetUpAudio
<1>6. \/ audio' = Export!NoAudio
      \/ /\ audio' \in AudioTypes /\ audio'.on /\ audio'.segment = 1 /\ audio'.next = p
         /\ audio'.pendingStart = {} /\ audio'.offset = 0 /\ audio'.nextOffset = 0
  <2> DEFINE r == [on |-> TRUE, segment |-> 1, next |-> p, offset |-> 0,
                   nextOffset |-> 0, pendingStart |-> {}, exhausted |-> FALSE]
  <2>1. r \in AudioTypes
    BY <1>4 DEF AudioTypes
  <2>2. /\ r.on /\ r.segment = 1 /\ r.next = p
        /\ r.pendingStart = {} /\ r.offset = 0 /\ r.nextOffset = 0
    OBVIOUS
  <2> HIDE DEF r
  <2> QED
    BY <1>5, <2>1, <2>2 DEF r
<1>7. UNCHANGED <<export, dropping, exported, codec, eofSent, video, streamed, sound>>
      /\ phase' \in {"ready", "failed"} /\ stream' \in {"none", "open", "closed"}
  BY DEF Export!Opens
<1>8. \/ audio' = Export!NoAudio
      \/ /\ audio' \in AudioTypes /\ audio'.on
         /\ audio'.segment \in 1 .. Len(export.chain)
         /\ audio'.next \in 0 .. export.chain[audio'.segment].frames
  BY <1>2, <1>4, <1>6
<1>9. sound' \in Seq(Packets)
  BY <1>7 DEF StepInv, ExportTyped
<1>10. ExportTyped'
  BY <1>7, <1>8, <1>9, AudioTyped
<1>11. AudioPlace'
  <2>1. audio'.on => audio'.segment = 1 /\ audio'.pendingStart = {} /\ audio'.offset = 0
                    /\ audio'.nextOffset = 0 /\ audio'.next = p
    BY <1>6 DEF Export!NoAudio
  <2>2. ~(p > A)
    BY <1>2, <1>4
  <2> QED
    BY <1>7, <2>1, <2>2, SameJob DEF AudioPlace
<1>12. SoundPlace'
  BY <1>7, SameJob DEF StepInv, SoundPlace
<1> QED
  BY <1>10, <1>11, <1>12 DEF StepInv

\* A packet before the start is dropped whole.
LEMMA TrimKeepsStep == ASSUME StepInv, Export!TrimPacket PROVE StepInv'
<1> DEFINE A == Export!AudioStart
           c == export.chain
<1>1. export \in JobTypes /\ phase = "copying" /\ audio.on
  BY DEF StepInv, ExportTyped, Export!TrimPacket, Export!Copying
<1>2. /\ audio \in AudioTypes /\ audio.segment \in 1 .. Len(c)
      /\ audio.next \in 0 .. c[audio.segment].frames
  BY <1>1 DEF StepInv, ExportTyped, Export!NoAudio
<1>3. /\ audio.next < c[audio.segment].frames
      /\ audio.segment = 1 /\ c[1].first + audio.next < A
      /\ audio' = [audio EXCEPT !.next = @ + 1]
      /\ UNCHANGED <<export, dropping, exported, codec, eofSent, video, streamed, sound,
                     phase, stream>>
  BY DEF Export!TrimPacket, Export!Segment, Export!Trimmed, Export!Stamp, Export!Chain
<1>4. A \in Nat /\ c[1].first = 0 /\ c[1].frames \in Nat
  BY <1>1, ChainTypes
<1>5. audio.next \in Nat /\ audio.next + 1 \in 0 .. c[1].frames /\ ~(audio.next + 1 > A)
      /\ ~(audio.next > A)
  BY <1>2, <1>3, <1>4
<1>6. audio' \in AudioTypes /\ audio'.segment = 1 /\ audio'.next = audio.next + 1
      /\ audio'.pendingStart = audio.pendingStart /\ audio'.offset = audio.offset
      /\ audio'.nextOffset = audio.nextOffset /\ audio'.on = audio.on
  <2>1. /\ audio.pendingStart \in SUBSET Int /\ audio.offset \in Int /\ audio.nextOffset \in Int
        /\ audio.next + 1 \in Nat
    BY <1>2, <1>5 DEF AudioTypes
  <2>2. audio' = [audio EXCEPT !.next = audio.next + 1, !.pendingStart = audio.pendingStart,
                               !.offset = audio.offset, !.nextOffset = audio.nextOffset]
    BY <1>2, <1>3 DEF AudioTypes
  <2> DEFINE x == audio.next + 1
             w == audio.pendingStart
             o == audio.offset
             m == audio.nextOffset
  <2>3. x \in Nat /\ w \in SUBSET Int /\ o \in Int /\ m \in Int
        /\ audio' = [audio EXCEPT !.next = x, !.pendingStart = w, !.offset = o, !.nextOffset = m]
    BY <2>1, <2>2
  <2>4. /\ audio' \in AudioTypes /\ audio'.on = audio.on /\ audio'.segment = audio.segment
        /\ audio'.next = x /\ audio'.pendingStart = w /\ audio'.offset = o
        /\ audio'.nextOffset = m
    <3> HIDE DEF x, w, o, m
    <3>1. audio' \in AudioTypes
      BY <1>2, <2>3 DEF AudioTypes
    <3>2. audio'.next = x /\ audio'.pendingStart = w /\ audio'.offset = o /\ audio'.nextOffset = m
      BY <1>2, <2>3 DEF AudioTypes
    <3>3. audio'.on = audio.on /\ audio'.segment = audio.segment
      BY <1>2, <2>3 DEF AudioTypes
    <3> QED
      BY <3>1, <3>2, <3>3
  <2> QED
    BY <1>3, <2>4
<1>7. stream \in {"none", "open", "closed"} /\ sound \in Seq(Packets)
  BY DEF StepInv, ExportTyped, Export!TypeOK
<1>8. ExportTyped'
  BY <1>1, <1>2, <1>3, <1>5, <1>6, <1>7, AudioTyped
<1>9. AudioPlace'
  <2>1. SUFFICES ASSUME A < c[1].frames, Export!Unbroken(1)
        PROVE  /\ audio.pendingStart = {} /\ audio.offset = 0 /\ audio.nextOffset = 0
    BY <1>3, <1>5, <1>6, SameJob DEF AudioPlace
  <2> QED
    BY <1>1, <1>3, <1>5, <2>1 DEF StepInv, AudioPlace
<1>10. SoundPlace'
  BY <1>3, SameJob DEF StepInv, SoundPlace
<1> QED
  BY <1>8, <1>9, <1>10 DEF StepInv

\* The packet that is next, of a segment that continues the one before.
LEMMA NextPacket ==
  ASSUME StepInv, audio.on, audio.next < export.chain[audio.segment].frames,
         ~Export!Trimmed
  PROVE  /\ Export!Rebased.pts \in Int /\ Export!Rebased.offset \in Int
         /\ Export!AudioStart < export.chain[1].frames /\ Export!Unbroken(audio.segment) =>
                /\ Export!Rebased.pts =
                       Export!Before(audio.segment) + audio.next - Export!AudioStart
                /\ Export!Rebased.pts = audio.nextOffset
                /\ IF audio.segment = 1 THEN Export!Rebased.offset = 0
                   ELSE Export!Rebased.offset + export.chain[audio.segment].first =
                            Export!Before(audio.segment) - Export!AudioStart
<1> DEFINE A == Export!AudioStart
           c == export.chain
           s == audio.segment
           own == IF s = 1 THEN Export!Stamp - A ELSE Export!Stamp
           target == CHOOSE t \in audio.pendingStart : TRUE
           offset == IF audio.pendingStart = {} THEN audio.offset ELSE target - own
<1>1. export \in JobTypes
  BY DEF StepInv, ExportTyped
<1>2. audio \in AudioTypes /\ s \in 1 .. Len(c) /\ audio.next \in 0 .. c[s].frames
  BY DEF StepInv, ExportTyped, Export!NoAudio
<1>3. /\ audio.offset \in Int /\ audio.nextOffset \in Int /\ audio.pendingStart \subseteq Int
      /\ audio.next \in Nat /\ s \in Nat
  BY <1>1, <1>2, ChainTypes DEF AudioTypes
<1>4. /\ Len(c) \in Nat \ {0} /\ c[s].first \in Int /\ c[s].frames \in Nat /\ A \in Nat
      /\ c[1].first = 0 /\ c[1].frames \in Nat
  BY <1>1, <1>2, ChainTypes
<1>5. Export!Stamp = c[s].first + audio.next
  BY DEF Export!Stamp, Export!Segment, Export!Chain
<1>6. Export!Rebased.offset = offset /\ Export!Rebased.pts = own + offset
  BY DEF Export!Rebased
<1>7. own \in Int
  BY <1>3, <1>4, <1>5
<1>8. audio.pendingStart # {} => target \in Int
  BY <1>3
<1> HIDE DEF target
<1>9. offset \in Int
  BY <1>3, <1>7, <1>8
<1>10. Export!Rebased.pts \in Int /\ Export!Rebased.offset \in Int
  <2> HIDE DEF own, offset
  <2> QED
    BY <1>6, <1>7, <1>9
<1>11. ASSUME A < c[1].frames, Export!Unbroken(s), s = 1
       PROVE  /\ own + offset = Export!Before(1) + audio.next - A
              /\ own + offset = audio.nextOffset /\ offset = 0
  <2>1. /\ audio.pendingStart = {} /\ audio.offset = 0
        /\ audio.nextOffset = IF audio.next > A THEN audio.next - A ELSE 0
    BY <1>11 DEF StepInv, AudioPlace
  <2>2. audio.next >= A
    BY <1>3, <1>4, <1>5, <1>11 DEF Export!Trimmed
  <2>3. Export!Before(1) = 0
    BY <1>1, BeforeAdds
  <2> QED
    BY <1>3, <1>4, <1>5, <1>11, <2>1, <2>2, <2>3
<1>12. ASSUME A < c[1].frames, Export!Unbroken(s), s # 1
       PROVE  /\ own + offset = Export!Before(s) + audio.next - A
              /\ own + offset = audio.nextOffset
              /\ offset + c[s].first = Export!Before(s) - A
  <2>1. /\ audio.nextOffset = Export!Before(s) + audio.next - A
        /\ \/ /\ audio.pendingStart = {}
              /\ audio.offset + c[s].first = Export!Before(s) - A
           \/ audio.pendingStart = {audio.nextOffset} /\ audio.next = 0
    BY <1>12 DEF StepInv, AudioPlace
  <2>2. Export!Before(s) \in Nat
    BY <1>1, <1>2, <1>4, BeforeAdds
  <2>3. own = c[s].first + audio.next
    BY <1>5, <1>12
  <2> DEFINE first == c[s].first
             before == Export!Before(s)
             next == audio.next
             nextOffset == audio.nextOffset
  <2>6. first \in Int /\ before \in Int /\ next \in Int /\ A \in Int /\ own \in Int /\ offset \in Int
    BY <1>3, <1>4, <1>7, <1>9, <2>2
  <2>4. CASE audio.pendingStart = {}
    <3>1. offset = audio.offset /\ audio.offset + c[s].first = Export!Before(s) - A
      BY <2>1, <2>4
    <3>2. nextOffset = before + next - A /\ offset + first = before - A /\ own = first + next
      BY <2>1, <2>3, <3>1
    <3> HIDE DEF own, offset, first, before, next, nextOffset, A
    <3>3. own + offset = before + next - A
      BY <2>6, <3>2
    <3> QED
      BY <3>2, <3>3 DEF first, before, next, nextOffset
  <2>5. CASE audio.pendingStart = {audio.nextOffset} /\ audio.next = 0
    <3>1. target = audio.nextOffset
      BY <2>5 DEF target
    <3>2. offset = audio.nextOffset - own
      BY <2>5, <3>1
    <3>3. audio.nextOffset = Export!Before(s) + audio.next - A /\ audio.next = 0
      BY <2>1, <2>5
    <3>4. /\ nextOffset = before + next - A /\ next = 0 /\ own = first + next
          /\ offset = nextOffset - own
      BY <2>3, <3>2, <3>3
    <3> HIDE DEF own, offset, target, first, before, next, nextOffset, A
    <3>5. own + offset = before + next - A /\ offset + first = before - A
      BY <2>6, <3>4
    <3> QED
      BY <3>4, <3>5 DEF first, before, next, nextOffset
  <2> QED
    BY <2>1, <2>4, <2>5
<1> QED
  BY <1>6, <1>10, <1>11, <1>12

\* A copied packet moves the sound's place on by itself.
LEMMA CopyKeepsStep == ASSUME StepInv, Export!CopyPacket PROVE StepInv'
<1> DEFINE A == Export!AudioStart
           c == export.chain
           s == audio.segment
           pts == Export!Rebased.pts
           read == [audio EXCEPT !.next = @ + 1, !.pendingStart = {},
                                 !.offset = Export!Rebased.offset,
                                 !.nextOffset = IF pts + 1 > @ THEN pts + 1 ELSE @]
           packet == [pts |-> pts, segment |-> s, at |-> Export!Before(s) + audio.next]
<1>1. export \in JobTypes /\ audio.on /\ ~Export!Trimmed /\ audio.next < c[s].frames
  BY DEF StepInv, ExportTyped, Export!CopyPacket, Export!Copying, Export!Segment, Export!Chain
<1>2. audio \in AudioTypes /\ s \in 1 .. Len(c) /\ audio.next \in 0 .. c[s].frames
  BY <1>1 DEF StepInv, ExportTyped, Export!NoAudio
<1>3. audio' = read \/ audio' = [read EXCEPT !.exhausted = TRUE]
  BY DEF Export!CopyPacket
<1>4. /\ sound' = sound \/ sound' = Append(sound, packet)
      /\ phase' \in {phase, "failed", "lost"}
      /\ UNCHANGED <<export, dropping, exported, codec, eofSent, video, streamed, stream>>
  BY DEF Export!CopyPacket, Export!Fail
<1>5. /\ Len(c) \in Nat /\ c[s].frames \in Nat /\ A \in Nat /\ audio.next \in Nat /\ s \in Nat
      /\ c[s].first \in Int
  BY <1>1, <1>2, ChainTypes
<1>6. pts \in Int /\ Export!Rebased.offset \in Int
  BY <1>1, NextPacket
<1>7. Export!Before(s) \in Nat
  BY <1>1, <1>2, <1>5, BeforeAdds
<1>8. audio.next + 1 \in 0 .. c[s].frames
  BY <1>1, <1>5
<1>9. /\ audio' \in AudioTypes /\ audio'.on = audio.on /\ audio'.segment = s /\ audio'.next = audio.next + 1
      /\ audio'.pendingStart = {} /\ audio'.offset = Export!Rebased.offset
      /\ audio'.nextOffset = IF pts + 1 > audio.nextOffset THEN pts + 1 ELSE audio.nextOffset
  <2> HIDE DEF pts
  <2>1. audio.nextOffset \in Int /\ (IF pts + 1 > audio.nextOffset THEN pts + 1 ELSE audio.nextOffset) \in Int
    BY <1>2, <1>6 DEF AudioTypes
  <2>2. audio.next + 1 \in Nat /\ {} \in SUBSET Int
    BY <1>5
  <2> DEFINE x == audio.next + 1
             o == Export!Rebased.offset
             m == IF pts + 1 > audio.nextOffset THEN pts + 1 ELSE audio.nextOffset
  <2>4. x \in Nat /\ o \in Int /\ m \in Int
        /\ read = [audio EXCEPT !.next = x, !.pendingStart = {}, !.offset = o, !.nextOffset = m]
    BY <1>2, <1>6, <2>1, <2>2 DEF AudioTypes
  <2>5. /\ read \in AudioTypes /\ read.on = audio.on /\ read.segment = s /\ read.next = x
        /\ read.pendingStart = {} /\ read.offset = o /\ read.nextOffset = m
    <3> HIDE DEF x, o, m, read
    <3>1. read \in AudioTypes
      BY <1>2, <2>4 DEF AudioTypes
    <3>2. read.next = x /\ read.pendingStart = {} /\ read.offset = o /\ read.nextOffset = m
      BY <1>2, <2>4 DEF AudioTypes
    <3>3. read.on = audio.on /\ read.segment = audio.segment
      BY <1>2, <2>4 DEF AudioTypes
    <3> QED
      BY <3>1, <3>2, <3>3
  <2>3. /\ read \in AudioTypes /\ read.on = audio.on /\ read.segment = s /\ read.next = audio.next + 1
        /\ read.pendingStart = {} /\ read.offset = Export!Rebased.offset
        /\ read.nextOffset = IF pts + 1 > audio.nextOffset THEN pts + 1 ELSE audio.nextOffset
    BY <2>5
  <2> HIDE DEF read
  <2> QED
    BY <1>3, <2>3, AudioExhausted
<1>10. packet \in Packets
  BY <1>5, <1>6, <1>7 DEF Packets
<1>11. sound \in Seq(Packets) /\ sound' \in Seq(Packets)
  <2>1. sound \in Seq(Packets)
    BY DEF StepInv, ExportTyped
  <2> HIDE DEF packet
  <2> QED
    BY <1>4, <1>10, <2>1
<1> HIDE DEF read
<1>12. ExportTyped'
  <2>1. stream \in {"none", "open", "closed"}
    BY DEF StepInv, ExportTyped, Export!TypeOK
  <2> QED
    BY <1>1, <1>2, <1>4, <1>8, <1>9, <1>11, <2>1, AudioTyped
<1>13. AudioPlace'
  <2>1. SUFFICES ASSUME A < c[1].frames, Export!Unbroken(s)
        PROVE  IF s = 1
               THEN audio'.offset = 0
                    /\ audio'.nextOffset = IF audio'.next > A THEN audio'.next - A ELSE 0
               ELSE /\ audio'.nextOffset = Export!Before(s) + audio'.next - A
                    /\ audio'.offset + c[s].first = Export!Before(s) - A
    BY <1>4, <1>9, SameJob DEF AudioPlace
  <2>2. /\ pts = Export!Before(s) + audio.next - A /\ pts = audio.nextOffset
        /\ IF s = 1 THEN Export!Rebased.offset = 0
           ELSE Export!Rebased.offset + c[s].first = Export!Before(s) - A
    BY <1>1, <2>1, NextPacket
  <2>3. audio'.nextOffset = pts + 1
    BY <1>6, <1>9, <2>2
  <2>4. s = 1 => Export!Before(s) = 0 /\ audio.next >= A
    <3>1. s = 1 => Export!Before(s) = 0
      BY <1>1, BeforeAdds
    <3>2. c[1].first = 0
      BY <1>1, ChainTypes
    <3> QED
      BY <1>1, <1>5, <3>1, <3>2
      DEF Export!Trimmed, Export!Stamp, Export!Segment, Export!Chain
  <2> HIDE DEF pts
  <2>5. CASE s = 1
    <3> DEFINE b == Export!Before(s)
               x == audio.next
    <3>1. pts = b + x - A /\ b = 0 /\ x >= A /\ Export!Rebased.offset = 0
      BY <2>2, <2>4, <2>5
    <3>2. x \in Nat /\ A \in Nat
      BY <1>5
    <3>3. audio'.offset = 0 /\ audio'.nextOffset = pts + 1 /\ audio'.next = x + 1
      BY <1>9, <2>3, <3>1
    <3> HIDE DEF b, x
    <3>4. pts + 1 = (x + 1) - A /\ x + 1 > A
      BY <3>1, <3>2
    <3> QED
      BY <2>5, <3>3, <3>4
  <2>6. CASE s # 1
    <3> DEFINE b == Export!Before(s)
               x == audio.next
    <3>1. pts = b + x - A
      BY <2>2
    <3>2. x \in Nat /\ A \in Nat /\ b \in Nat
      BY <1>5, <1>7
    <3>3. audio'.nextOffset = pts + 1 /\ audio'.next = x + 1
      BY <1>9, <2>3
    <3>4. audio'.offset + c[s].first = b - A
      BY <1>9, <2>2, <2>6
    <3>5. pts + 1 = b + (x + 1) - A
      <4> HIDE DEF b, x
      <4> QED
        BY <3>1, <3>2
    <3> QED
      BY <2>6, <3>3, <3>4, <3>5
  <2> QED
    BY <2>5, <2>6
<1>14. SoundPlace'
  <2>1. SUFFICES ASSUME NEW k \in 1 .. Len(sound'), A < c[1].frames,
                        Export!Unbroken(sound'[k].segment)
                 PROVE  sound'[k].at = A + sound'[k].pts
    BY <1>4, SameJob DEF SoundPlace
  <2>2. CASE k \in 1 .. Len(sound) /\ sound'[k] = sound[k]
    BY <2>1, <2>2 DEF StepInv, SoundPlace
  <2>3. CASE sound'[k] = packet
    <3>1. pts = Export!Before(s) + audio.next - A
      BY <1>1, <2>1, <2>3, NextPacket
    <3> HIDE DEF pts
    <3>2. Export!Before(s) + audio.next = A + pts
      BY <1>5, <1>6, <1>7, <3>1
    <3> QED
      BY <2>3, <3>2
  <2>4. \/ k \in 1 .. Len(sound) /\ sound'[k] = sound[k]
        \/ sound'[k] = packet
    <3> HIDE DEF packet
    <3> QED
      BY <1>4, <1>11, <2>1
  <2> QED
    BY <2>2, <2>3, <2>4
<1> QED
  BY <1>12, <1>13, <1>14 DEF StepInv

\* The segment that comes next is the one after, when nothing breaks the chain.
LEMMA AdvanceKeepsStep == ASSUME StepInv, Export!AdvanceSegment PROVE StepInv'
<1> DEFINE A == Export!AudioStart
           c == export.chain
           s == audio.segment
           later == s + 1 .. Len(c)
           stops == {t \in later : c[t].audio \/ ~c[t].readable}
           n == CHOOSE t \in stops : \A u \in stops : t <= u
<1>1. export \in JobTypes /\ audio.on /\ audio.next = c[s].frames
  BY DEF StepInv, ExportTyped, Export!AdvanceSegment, Export!Copying, Export!Segment, Export!Chain
<1>2. audio \in AudioTypes /\ s \in 1 .. Len(c)
  BY <1>1 DEF StepInv, ExportTyped, Export!NoAudio
<1>3. /\ \/ stops = {} /\ audio' = [audio EXCEPT !.exhausted = TRUE]
         \/ audio' = audio
         \/ /\ stops # {} /\ c[n].readable
            /\ audio' = [audio EXCEPT !.segment = n, !.next = 0,
                                      !.pendingStart = {audio.nextOffset}]
      /\ phase' \in {phase, "failed", "lost"}
      /\ UNCHANGED <<export, dropping, exported, codec, eofSent, video, streamed, sound,
                     stream>>
  BY DEF Export!AdvanceSegment, Export!Fail, Export!Chain
<1>4. /\ Len(c) \in Nat /\ A \in Nat /\ s \in Nat /\ audio.nextOffset \in Int
      /\ c[s].frames \in Nat \ {0}
  BY <1>1, <1>2, ChainTypes DEF AudioTypes
<1>5. stops # {} => n \in stops /\ \A u \in stops : n <= u
  <2>1. stops \in SUBSET Nat
    BY <1>4
  <2> HIDE DEF stops
  <2>2. stops # {} => \E t \in stops : \A u \in stops : t <= u
    BY <2>1, LeastOf
  <2> QED
    BY <2>2
<1>6. stops # {} => n \in 1 .. Len(c) /\ n \in Nat /\ n > s
  <2> HIDE DEF n
  <2> QED
    BY <1>4, <1>5
<1>7. stops # {} => c[n].frames \in Nat
  BY <1>1, <1>6, ChainTypes
<1> HIDE DEF n, stops
<1>8. /\ audio' \in AudioTypes /\ audio'.on = audio.on /\ audio'.segment \in 1 .. Len(c)
      /\ audio'.next \in 0 .. c[audio'.segment].frames
  <2>1. audio.next \in 0 .. c[s].frames
    BY <1>1, <1>4
  <2>2. CASE audio' = audio \/ audio' = [audio EXCEPT !.exhausted = TRUE]
    BY <1>2, <2>1, <2>2 DEF AudioTypes
  <2>3. CASE /\ stops # {}
             /\ audio' = [audio EXCEPT !.segment = n, !.next = 0,
                                       !.pendingStart = {audio.nextOffset}]
    <3>1. audio' \in AudioTypes /\ audio'.segment = n /\ audio'.next = 0
      BY <1>2, <1>4, <1>6, <2>3 DEF AudioTypes
    <3>2. 0 \in 0 .. c[n].frames
      BY <1>7, <2>3
    <3> QED
      BY <1>6, <2>3, <3>1, <3>2
  <2> QED
    BY <1>3, <2>2, <2>3
<1>9. ExportTyped'
  <2>1. stream \in {"none", "open", "closed"} /\ sound \in Seq(Packets)
    BY DEF StepInv, ExportTyped, Export!TypeOK
  <2> QED
    BY <1>1, <1>3, <1>8, <2>1, AudioTyped
<1>10. AudioPlace'
  <2>1. CASE audio' = audio \/ audio' = [audio EXCEPT !.exhausted = TRUE]
    <3>1. /\ audio'.on = audio.on /\ audio'.segment = s /\ audio'.next = audio.next
          /\ audio'.offset = audio.offset /\ audio'.pendingStart = audio.pendingStart
          /\ audio'.nextOffset = audio.nextOffset
      BY <1>2, <2>1 DEF AudioTypes
    <3> QED
      BY <1>3, <3>1, SameJob DEF StepInv, AudioPlace
  <2>2. CASE /\ stops # {} /\ c[n].readable
             /\ audio' = [audio EXCEPT !.segment = n, !.next = 0,
                                       !.pendingStart = {audio.nextOffset}]
    <3>1. /\ audio'.segment = n /\ audio'.next = 0
          /\ audio'.pendingStart = {audio.nextOffset} /\ audio'.nextOffset = audio.nextOffset
      BY <1>2, <2>2 DEF AudioTypes
    <3>2. SUFFICES ASSUME A < c[1].frames, Export!Unbroken(n)
                   PROVE  audio.nextOffset = Export!Before(n) + 0 - A /\ n # 1
      BY <1>3, <3>1, SameJob DEF AudioPlace
    <3>3. n = s + 1
      <4>1. s + 1 \in 1 .. n /\ s + 1 \in later
        BY <1>4, <1>6, <2>2
      <4>2. s + 1 \in stops
        BY <3>2, <4>1 DEF stops, Export!Unbroken, Export!Chain
      <4> QED
        BY <1>4, <1>5, <1>6, <2>2, <4>2
    <3>4. Export!Unbroken(s)
      <4>1. \A t \in 1 .. s : t \in 1 .. n
        BY <1>4, <3>3
      <4> QED
        BY <3>2, <4>1 DEF Export!Unbroken
    <3>5. /\ Export!Before(s + 1) = Export!Before(s) + c[s].frames
          /\ Export!Before(s) \in Nat /\ Export!Before(1) = 0
      BY <1>1, <1>2, <1>4, BeforeAdds
    <3>6. CASE s = 1
      <4>1. audio.nextOffset = IF audio.next > A THEN audio.next - A ELSE 0
        BY <1>1, <3>2, <3>4, <3>6 DEF StepInv, AudioPlace
      <4> QED
        <5>1. audio.next > A /\ audio.next = c[1].frames /\ n = 2
          BY <1>1, <1>4, <3>2, <3>3, <3>6
        <5>2. Export!Before(n) = c[1].frames
          BY <1>1, <1>4, <3>3, <3>5, <3>6
        <5> QED
          BY <1>4, <3>6, <4>1, <5>1, <5>2
    <3>7. CASE s # 1
      <4>1. audio.nextOffset = Export!Before(s) + audio.next - A
        BY <1>1, <3>2, <3>4, <3>7 DEF StepInv, AudioPlace
      <4>2. Export!Before(n) = Export!Before(s) + c[s].frames
        BY <3>3, <3>5
      <4> QED
        <5> DEFINE before == Export!Before(s)
                   after == Export!Before(n)
                   frames == c[s].frames
                   nextOffset == audio.nextOffset
        <5>1. /\ nextOffset = before + frames - A /\ after = before + frames
              /\ before \in Int /\ frames \in Int /\ A \in Int
          BY <1>1, <1>4, <3>5, <4>1, <4>2
        <5>2. n # 1
          BY <1>4, <3>3, <3>7, <1>2
        <5> HIDE DEF before, after, frames, nextOffset, A
        <5>3. nextOffset = after + 0 - A
          BY <5>1
        <5> QED
          BY <5>2, <5>3 DEF after, nextOffset
    <3> QED
      BY <3>6, <3>7
  <2> QED
    BY <1>3, <2>1, <2>2
<1>11. SoundPlace'
  BY <1>3, SameJob DEF StepInv, SoundPlace
<1> QED
  BY <1>9, <1>10, <1>11 DEF StepInv

\* Every step of the job keeps the types and the sound's place.
LEMMA ExportStep == ASSUME StepInv, [Export!Next]_exportVars PROVE StepInv'
<1>1. CASE UNCHANGED exportVars
  <2>1. UNCHANGED <<export, audio, sound, phase, exported, codec, video, streamed, stream,
                    dropping, eofSent>>
    BY <1>1 DEF exportVars
  <2>2. Export!TypeOK' /\ dropping' \in BOOLEAN /\ eofSent' \in BOOLEAN
    BY <2>1 DEF StepInv, ExportTyped, Export!TypeOK
  <2> QED
    BY <2>1, <2>2, SameAudio
<1> QED
  BY <1>1, OpensKeepsStep, VideoKeepsStep, TrimKeepsStep, CopyKeepsStep, AdvanceKeepsStep
  DEF Export!Next, Export!CopyAudio

------------------------------------------------------------------------------
\* The frames sent to the codec.
FramesSent == IF phase = "receiving" THEN exported + 1 ELSE exported

\* The packets in the file and then the frames in the codec are the frames
\* sent, and the stream has the first of them.
VideoSoFar ==
    /\ Len(video) + Len(codec) = FramesSent
    /\ \A k \in 1 .. Len(video) : video[k] = k - 1
    /\ \A k \in 1 .. Len(codec) : codec[k] = Len(video) + k - 1
    /\ Len(streamed) <= Len(video)
    /\ \A k \in 1 .. Len(streamed) : streamed[k] = k - 1
    /\ stream = "open" => Len(streamed) = Len(video)
    /\ phase = "opening" => exported = 0
    /\ eofSent <=> phase \in {"draining", "copying", "trailer", "finished"}
    /\ phase \in {"copying", "trailer", "finished"} => codec = <<>> \/ "codec" \in quiet

\* The sound is what the segments so far have for the window.
SoundSoFar ==
    "read" \notin quiet /\ Export!Unbroken(Len(export.chain))
        /\ Export!AudioStart < export.chain[1].frames =>
            /\ phase \notin {"opening", "refused"} => audio.on
            /\ phase \in {"opening", "refused", "ready", "receiving", "draining"} => sound = <<>>
            /\ phase \in {"ready", "receiving", "draining"} =>
                   ~audio.exhausted /\ audio.nextOffset = 0
            /\ phase \in {"copying", "trailer", "finished"} =>
                   IF audio.exhausted THEN Export!AudioWhole
                   ELSE Len(sound) = audio.nextOffset /\ audio.nextOffset <= exported + 1
            /\ phase \in {"trailer", "finished"} => audio.exhausted

\* The file of a call that has not failed.
FileSoFar == ~dropping /\ phase # "failed" => VideoSoFar /\ SoundSoFar

\* The inductive invariant: the file so far, while nothing failed or was dropped.
ExportInv == StepInv /\ FileSoFar /\ (phase = "finished" => ~dropping)

\* A job starts with an empty file.
LEMMA FileStarts == ASSUME Export!Init PROVE FileSoFar /\ (phase = "finished" => ~dropping)
<1> USE DEF Export!Init
<1>1. VideoSoFar
  BY DEF VideoSoFar, FramesSent
<1>2. SoundSoFar
  BY DEF SoundSoFar
<1> QED
  BY <1>1, <1>2 DEF FileSoFar

\* The numbers of the video.
LEMMA VideoTypes ==
  ASSUME StepInv
  PROVE  /\ video \in Seq(Nat) /\ codec \in Seq(Nat) /\ streamed \in Seq(Nat)
         /\ exported \in Nat /\ Len(video) \in Nat /\ Len(codec) \in Nat /\ Len(streamed) \in Nat
         /\ sound \in Seq(Packets) /\ Len(sound) \in Nat
         /\ eofSent \in BOOLEAN /\ dropping \in BOOLEAN
         /\ stream \in {"none", "open", "closed"}
BY DEF StepInv, ExportTyped, Export!TypeOK

\* A frame is sent: the codec has one more.
LEMMA SendKeepsVideo ==
  ASSUME StepInv, VideoSoFar, Export!SendFrame, phase' = "receiving"
  PROVE  VideoSoFar'
<1>1. /\ phase = "ready" /\ codec' = Append(codec, exported)
      /\ UNCHANGED <<exported, video, streamed, stream, eofSent, quiet>>
  BY DEF Export!SendFrame, Export!Fail
<1>2. /\ codec \in Seq(Nat) /\ exported \in Nat /\ Len(codec) \in Nat /\ Len(video) \in Nat
  BY VideoTypes
<1>3. Len(video) + Len(codec) = exported
  BY <1>1 DEF VideoSoFar, FramesSent
<1>4. /\ Len(codec') = Len(codec) + 1
      /\ \A k \in 1 .. Len(codec) + 1 : codec'[k] = IF k = Len(codec) + 1 THEN exported ELSE codec[k]
  BY <1>1, <1>2
<1>5. Len(video') + Len(codec') = FramesSent'
  <2>1. FramesSent' = exported + 1 /\ Len(video') = Len(video)
    BY <1>1 DEF FramesSent
  <2> QED
    <3> DEFINE v == Len(video)
               n == Len(codec)
               m == Len(codec')
    <3>1. v \in Nat /\ n \in Nat /\ v + n = exported /\ m = n + 1 /\ exported \in Nat
      BY <1>2, <1>3, <1>4
    <3> HIDE DEF v, n, m
    <3>2. v + m = exported + 1
      BY <3>1
    <3> QED
      BY <2>1, <3>2 DEF v, m
<1>6. ASSUME NEW k \in 1 .. Len(codec') PROVE codec'[k] = Len(video) + k - 1
  <2>1. CASE k = Len(codec) + 1
    BY <1>2, <1>3, <1>4, <2>1
  <2>2. CASE k \in 1 .. Len(codec)
    <3>1. codec[k] = Len(video) + k - 1
      BY <2>2 DEF VideoSoFar
    <3>2. codec'[k] = codec[k]
      BY <1>2, <1>4, <2>2
    <3> QED
      BY <3>1, <3>2
  <2> QED
    BY <1>2, <1>4, <2>1, <2>2
<1> QED
  BY <1>1, <1>5, <1>6 DEF VideoSoFar

\* A packet leaves the codec for the stream and for the file.
LEMMA ReceiveKeepsVideo ==
  ASSUME StepInv, VideoSoFar, Export!ReceivePacket, phase' = phase,
         video' = Append(video, Head(codec))
  PROVE  VideoSoFar'
<1>1. /\ codec # <<>> /\ codec' = Tail(codec) /\ phase \in {"receiving", "draining"}
      /\ \/ stream = "open" /\ streamed' = Append(streamed, Head(codec)) /\ stream' = stream
         \/ stream' # "open" /\ streamed' = streamed
      /\ UNCHANGED <<exported, eofSent, quiet>>
  BY DEF Export!ReceivePacket, Export!WriteToStream
<1>2. /\ codec \in Seq(Nat) /\ video \in Seq(Nat) /\ streamed \in Seq(Nat)
      /\ Len(codec) \in Nat /\ Len(video) \in Nat /\ Len(streamed) \in Nat /\ exported \in Nat
  BY VideoTypes
<1>3. Len(codec) > 0 /\ Head(codec) = Len(video)
  <2>1. Len(codec) > 0 /\ 1 \in 1 .. Len(codec) /\ Head(codec) = codec[1]
    BY <1>1, <1>2
  <2>2. codec[1] = Len(video) + 1 - 1
    BY <2>1 DEF VideoSoFar
  <2> QED
    BY <1>2, <2>1, <2>2
<1>4. /\ Len(codec') = Len(codec) - 1
      /\ \A k \in 1 .. Len(codec) - 1 : codec'[k] = codec[k + 1]
  BY <1>1, <1>2
<1>5. /\ Len(video') = Len(video) + 1
      /\ \A k \in 1 .. Len(video) : video'[k] = video[k]
      /\ video'[Len(video) + 1] = Len(video)
  BY <1>2, <1>3
<1>6. Len(video') + Len(codec') = FramesSent'
  <2>1. Len(video) + Len(codec) = FramesSent /\ FramesSent' = FramesSent
    BY <1>1 DEF VideoSoFar, FramesSent
  <2> QED
    BY <1>2, <1>3, <1>4, <1>5, <2>1
<1>7. \A k \in 1 .. Len(video') : video'[k] = k - 1
  <2> SUFFICES ASSUME NEW k \in 1 .. Len(video') PROVE video'[k] = k - 1
    OBVIOUS
  <2>1. CASE k \in 1 .. Len(video)
    BY <1>5, <2>1 DEF VideoSoFar
  <2>2. CASE k = Len(video) + 1
    BY <1>2, <1>5, <2>2
  <2> QED
    BY <1>2, <1>5, <2>1, <2>2
<1>8. ASSUME NEW k \in 1 .. Len(codec') PROVE codec'[k] = Len(video') + k - 1
  <2>0. k \in 1 .. Len(codec) - 1
    BY <1>4
  <2>1. k \in Nat /\ k + 1 \in 1 .. Len(codec) /\ k \in 1 .. Len(codec) - 1
    BY <1>2, <2>0
  <2>2. codec[k + 1] = Len(video) + (k + 1) - 1
    BY <2>1 DEF VideoSoFar
  <2>3. codec'[k] = codec[k + 1]
    BY <1>4, <2>1
  <2>4. Len(video) + (k + 1) - 1 = (Len(video) + 1) + k - 1
    BY <1>2, <2>1
  <2> QED
    BY <1>5, <2>2, <2>3, <2>4
<1>9. /\ Len(streamed') <= Len(video') /\ \A k \in 1 .. Len(streamed') : streamed'[k] = k - 1
      /\ stream' = "open" => Len(streamed') = Len(video')
  <2>1. CASE stream' # "open" /\ streamed' = streamed
    BY <1>2, <1>5, <2>1 DEF VideoSoFar
  <2>2. CASE stream = "open" /\ streamed' = Append(streamed, Head(codec)) /\ stream' = stream
    <3>1. Len(streamed) = Len(video)
      BY <2>2 DEF VideoSoFar
    <3>2. /\ Len(streamed') = Len(streamed) + 1
          /\ streamed'[Len(streamed) + 1] = Len(video)
          /\ \A k \in 1 .. Len(streamed) : streamed'[k] = streamed[k]
      <4>1. Head(codec) = Len(video) /\ streamed \in Seq(Nat)
        BY <1>2, <1>3, <1>4, <1>5
      <4> QED
        BY <2>2, <4>1
    <3>3. Len(streamed') = Len(video')
      BY <1>5, <3>1, <3>2
    <3>4. \A k \in 1 .. Len(streamed) : streamed[k] = k - 1
      BY DEF VideoSoFar
    <3>5. ASSUME NEW k \in 1 .. Len(streamed') PROVE streamed'[k] = k - 1
      <4>1. CASE k = Len(streamed) + 1
        <5>1. k = Len(video) + 1
          BY <3>1, <4>1
        <5>2. streamed'[k] = Len(video)
          BY <3>2, <4>1
        <5> QED
          BY <1>2, <5>1, <5>2
      <4>2. CASE k \in 1 .. Len(streamed)
        <5>2. streamed'[k] = streamed[k]
          BY <3>2, <4>2
        <5> QED
          BY <3>4, <4>2, <5>2
      <4>3. k \in 1 .. Len(streamed) + 1
        BY <3>2
      <4>4. k = Len(streamed) + 1 \/ k \in 1 .. Len(streamed)
        BY <1>2, <4>3
      <4> QED
        BY <4>1, <4>2, <4>4
    <3>6. Len(streamed') <= Len(video')
      BY <1>2, <1>5, <3>3
    <3> QED
      BY <3>3, <3>5, <3>6
  <2> QED
    BY <1>1, <2>1, <2>2
<1> QED
  BY <1>1, <1>6, <1>7, <1>8, <1>9 DEF VideoSoFar

\* Every step keeps the written video the frames sent so far.
LEMMA VideoKeeps ==
  ASSUME StepInv, VideoSoFar, ~dropping, phase # "failed", Export!Next,
         ~dropping', phase' # "failed"
  PROVE  VideoSoFar'
<1>1. exported \in Nat /\ Len(codec) \in Nat /\ codec \in Seq(Nat) /\ Len(video) \in Nat
      /\ Len(streamed) \in Nat
  BY VideoTypes
<1>2. CASE Export!SendFrame
  BY <1>2, SendKeepsVideo DEF Export!SendFrame, Export!Fail
<1>3. CASE Export!ReceivePacket
  BY <1>3, ReceiveKeepsVideo DEF Export!ReceivePacket, Export!Fail
<1>4. CASE Export!ReceiveNone
  <2>1. /\ UNCHANGED <<codec, eofSent, video, stream, streamed>>
        /\ \/ phase = "receiving" /\ phase' = "ready" /\ exported' = exported + 1
           \/ phase = "draining" /\ phase' = "copying" /\ exported' = exported
    BY <1>4 DEF Export!ReceiveNone
  <2>2. phase = "draining" => codec = <<>> \/ "codec" \in quiet'
    <3>1. phase = "draining" => eofSent
      BY DEF VideoSoFar
    <3>2. CASE Len(codec) <= (IF eofSent THEN 0 ELSE CodecDelay)
      BY <1>1, <3>1, <3>2
    <3>3. CASE quiet' = quiet \cup {"codec"}
      BY <3>3
    <3> QED
      BY <1>4, <3>2, <3>3 DEF Export!ReceiveNone
  <2>3. FramesSent' = FramesSent
    BY <2>1 DEF FramesSent
  <2>4. phase' \in {"ready", "copying"}
        /\ (eofSent' <=> phase' \in {"draining", "copying", "trailer", "finished"})
    BY <2>1 DEF VideoSoFar
  <2> QED
    BY <2>1, <2>2, <2>3, <2>4 DEF VideoSoFar
<1>5. CASE Export!Finish
  <2>1. phase = "ready" /\ phase' = "draining" /\ eofSent'
        /\ UNCHANGED <<codec, exported, video, stream, streamed, quiet>>
    BY <1>5 DEF Export!Finish
  <2> QED
    BY <2>1 DEF VideoSoFar, FramesSent
<1>6. CASE Export!Drop
  BY <1>6 DEF Export!Drop
<1>7. CASE Export!CandidateFails \/ Export!Opens
  <2>1. /\ phase = "opening" /\ phase' \in {"opening", "refused", "ready"}
        /\ UNCHANGED <<codec, exported, eofSent, video, streamed, quiet>>
    BY <1>7 DEF Export!CandidateFails, Export!Opens
  <2>2. exported = 0 /\ Len(video) + Len(codec) = exported
    BY <2>1 DEF VideoSoFar, FramesSent
  <2>3. Len(streamed) = Len(video)
    BY <1>1, <2>2 DEF VideoSoFar
  <2> QED
    BY <2>1, <2>2, <2>3 DEF VideoSoFar, FramesSent
<1>8. CASE Export!CopyAudio \/ Export!WriteTrailers
  <2>1. /\ phase \in {"copying", "trailer"} /\ phase' \in {"copying", "trailer", "finished"}
        /\ UNCHANGED <<codec, exported, eofSent, video, streamed>>
        /\ stream' = "open" => stream = "open"
        /\ quiet \subseteq quiet'
    BY <1>8
    DEF Export!CopyAudio, Export!WriteTrailers, Export!TrimPacket, Export!CopyPacket,
        Export!ReadFails, Export!AdvanceSegment, Export!AudioDone, Export!Copying, Export!Fail
  <2> QED
    BY <2>1 DEF VideoSoFar, FramesSent
<1> QED
  BY <1>2, <1>3, <1>4, <1>5, <1>6, <1>7, <1>8 DEF Export!Next

------------------------------------------------------------------------------
\* No segment starts after the end of the recording.
LEMMA BeforeTotal ==
  ASSUME export \in JobTypes, NEW s \in 1 .. Len(export.chain) + 1
  PROVE  Export!Before(s) <= Export!Total
<1> DEFINE L == Len(export.chain)
           Bad == {n \in 0 .. L : ~(Export!Before(L + 1 - n) <= Export!Total)}
<1>1. L \in Nat /\ \A n \in 1 .. L : export.chain[n].frames \in Nat
  BY ChainTypes
<1>2. Export!Total = Export!Before(L + 1)
  BY DEF Export!Total, Export!Chain
<1>3. Bad = {}
  <2>1. SUFFICES ASSUME Bad # {} PROVE FALSE
    OBVIOUS
  <2>2. Bad \in SUBSET Nat
    BY <1>1
  <2>3. PICK m \in Bad : \A k \in Bad : m <= k
    <3> HIDE DEF Bad
    <3> QED
      BY <2>1, <2>2, LeastOf
  <2>4. m \in 0 .. L /\ ~(Export!Before(L + 1 - m) <= Export!Total)
    BY <2>3
  <2>5. m # 0
    <3>1. L + 1 - 0 = L + 1 /\ L + 1 \in 1 .. L + 1
      BY <1>1
    <3>2. Export!Before(L + 1) \in Nat
      BY <3>1, BeforeAdds
    <3> QED
      BY <1>2, <2>4, <3>1, <3>2
  <2>6. m - 1 \in 0 .. L /\ ~(m <= m - 1) /\ m \in Nat
    BY <1>1, <2>4, <2>5
  <2>7. m - 1 \notin Bad
    <3> HIDE DEF Bad
    <3> QED
      BY <2>3, <2>6
  <2>8. Export!Before(L + 1 - (m - 1)) <= Export!Total
    BY <2>6, <2>7
  <2>9. L + 1 - m \in 1 .. L /\ L + 1 - (m - 1) = (L + 1 - m) + 1
    BY <1>1, <2>4, <2>5
  <2>10. Export!Before((L + 1 - m) + 1) =
             Export!Before(L + 1 - m) + export.chain[L + 1 - m].frames
    BY <2>9, BeforeAdds
  <2>11. Export!Before(L + 1 - m) \in Nat /\ export.chain[L + 1 - m].frames \in Nat
    <3>1. L + 1 - m \in 1 .. L + 1
      BY <1>1, <2>9
    <3> QED
      BY <1>1, <2>9, <3>1, BeforeAdds
  <2>12. Export!Total \in Nat
    <3>1. L + 1 \in 1 .. L + 1
      BY <1>1
    <3> QED
      BY <1>2, <3>1, BeforeAdds
  <2> DEFINE b == Export!Before(L + 1 - m)
             f == export.chain[L + 1 - m].frames
             t == Export!Total
  <2>13. b \in Nat /\ f \in Nat /\ t \in Nat /\ b + f <= t /\ ~(b <= t)
    BY <2>4, <2>8, <2>9, <2>10, <2>11, <2>12
  <2> HIDE DEF b, f, t
  <2> QED
    BY <2>13
<1>4. L + 1 - s \in 0 .. L /\ L + 1 - (L + 1 - s) = s
  BY <1>1
<1> QED
  BY <1>3, <1>4

\* What the sound is known to be once the window and the recording are whole.
LEMMA SoundTypes ==
  ASSUME StepInv, audio.on
  PROVE  /\ audio \in AudioTypes
         /\ audio.segment \in 1 .. Len(export.chain)
         /\ audio.next \in 0 .. export.chain[audio.segment].frames
         /\ audio.nextOffset \in Int /\ audio.next \in Nat /\ audio.segment \in Nat
         /\ Export!Unbroken(Len(export.chain)) => Export!Unbroken(audio.segment)
<1>1. export \in JobTypes /\ audio # Export!NoAudio
  BY DEF StepInv, ExportTyped, Export!NoAudio
<1>2. /\ audio \in AudioTypes
      /\ audio.segment \in 1 .. Len(export.chain)
      /\ audio.next \in 0 .. export.chain[audio.segment].frames
  BY <1>1 DEF StepInv, ExportTyped
<1>3. audio.nextOffset \in Int /\ audio.next \in Nat /\ audio.segment \in Nat
  BY <1>2 DEF AudioTypes
<1>4. Export!Unbroken(Len(export.chain)) => Export!Unbroken(audio.segment)
  <2>1. Len(export.chain) \in Nat
    BY <1>1, ChainTypes
  <2>2. \A t \in 1 .. audio.segment : t \in 1 .. Len(export.chain)
    BY <1>2, <2>1
  <2> QED
    BY <2>2 DEF Export!Unbroken
<1> QED
  BY <1>2, <1>3, <1>4

\* The window, the recording and the window's start, from here on.
Heard == /\ "read" \notin quiet /\ Export!Unbroken(Len(export.chain))
         /\ Export!AudioStart < export.chain[1].frames

\* A copied packet continues the written sound.
LEMMA CopyKeepsSound ==
  ASSUME StepInv, SoundSoFar, Export!CopyPacket, phase' # "failed", ~dropping
  PROVE  SoundSoFar'
<1> DEFINE A == Export!AudioStart
           c == export.chain
           s == audio.segment
           pts == Export!Rebased.pts
           read == [audio EXCEPT !.next = @ + 1, !.pendingStart = {},
                                 !.offset = Export!Rebased.offset,
                                 !.nextOffset = IF pts + 1 > @ THEN pts + 1 ELSE @]
           packet == [pts |-> pts, segment |-> s, at |-> Export!Before(s) + audio.next]
<1>1. /\ phase = "copying" /\ phase' = "copying" /\ audio.on /\ ~audio.exhausted
      /\ audio.next < c[s].frames /\ ~Export!Trimmed
      /\ UNCHANGED <<export, exported, quiet>>
  BY DEF Export!CopyPacket, Export!Copying, Export!Segment, Export!Chain, Export!Fail
<1>2. /\ audio \in AudioTypes /\ s \in 1 .. Len(c) /\ audio.next \in Nat
      /\ audio.nextOffset \in Int
  BY <1>1, SoundTypes
<1>3. /\ pts > exported => audio' = [read EXCEPT !.exhausted = TRUE] /\ sound' = sound
      /\ ~(pts > exported) => audio' = read /\ sound' = Append(sound, packet)
  BY <1>1 DEF Export!CopyPacket, Export!Fail
<1>4. SUFFICES ASSUME Heard
               PROVE  /\ audio'.on
                      /\ IF audio'.exhausted THEN Export!AudioWhole'
                         ELSE Len(sound') = audio'.nextOffset /\ audio'.nextOffset <= exported + 1
  BY <1>1, SameJob DEF SoundSoFar, Heard
<1>5. Len(sound) = audio.nextOffset /\ audio.nextOffset <= exported + 1
  BY <1>1, <1>4 DEF SoundSoFar, Heard
<1>6. /\ pts \in Int /\ pts = audio.nextOffset
      /\ pts = Export!Before(s) + audio.next - A
      /\ Export!Rebased.offset \in Int
  BY <1>1, <1>4, NextPacket, SoundTypes DEF Heard
<1>7. export \in JobTypes /\ exported \in Nat /\ sound \in Seq(Packets) /\ Len(sound) \in Nat
  BY VideoTypes DEF StepInv, ExportTyped
<1>8. A \in Nat /\ c[s].frames \in Nat /\ Len(c) \in Nat
  BY <1>2, <1>7, ChainTypes
<1>9. CASE pts > exported
  <2>1. audio'.on /\ audio'.exhausted /\ sound' = sound
    BY <1>1, <1>2, <1>3, <1>9 DEF AudioTypes
  <2>2. Len(sound) = exported + 1 /\ pts = exported + 1
    BY <1>5, <1>6, <1>7, <1>9
  <2>3. /\ Export!Before(s + 1) = Export!Before(s) + c[s].frames
        /\ Export!Before(s + 1) <= Export!Total
        /\ Export!Before(s) \in Nat /\ Export!Before(s + 1) \in Nat /\ Export!Total \in Nat
    <3>1. s + 1 \in 1 .. Len(c) + 1 /\ s \in 1 .. Len(c) + 1 /\ Len(c) + 1 \in 1 .. Len(c) + 1
      BY <1>2, <1>8
    <3>2. Export!Before(Len(c) + 1) \in Nat
      BY <1>7, <3>1, BeforeAdds
    <3> QED
      BY <1>2, <1>7, <3>1, <3>2, BeforeAdds, BeforeTotal DEF Export!Total, Export!Chain
  <2>4. ~(Export!Total - A <= exported)
    <3> DEFINE b == Export!Before(s)
               n == audio.next
               f == c[s].frames
               t == Export!Total
    <3>1. /\ b \in Nat /\ n \in Nat /\ f \in Nat /\ t \in Nat /\ A \in Nat
          /\ b + f <= t /\ n < f /\ b + n - A = exported + 1
      BY <1>1, <1>2, <1>6, <1>8, <2>2, <2>3
    <3> HIDE DEF b, n, f, t, A
    <3>2. ~(t - A <= exported)
      BY <1>7, <3>1
    <3> QED
      BY <3>2 DEF t
  <2>5. Export!Total' = Export!Total /\ Export!AudioStart' = A
    BY <1>1, SameJob DEF Export!Total, Export!Chain
  <2>6. Export!AudioWhole'
    BY <1>1, <2>1, <2>2, <2>4, <2>5 DEF Export!AudioWhole
  <2> QED
    BY <2>1, <2>6
<1>10. CASE ~(pts > exported)
  <2>1. audio' = read /\ sound' = Append(sound, packet)
    BY <1>3, <1>10
  <2>2. audio'.on /\ ~audio'.exhausted
    BY <1>1, <1>2, <2>1 DEF AudioTypes
  <2>3. audio'.nextOffset = IF pts + 1 > audio.nextOffset THEN pts + 1 ELSE audio.nextOffset
    BY <1>2, <2>1 DEF AudioTypes
  <2>4. Len(sound') = Len(sound) + 1
    BY <1>7, <2>1
  <2> DEFINE m == audio.nextOffset
             q == audio'.nextOffset
             n == Len(sound)
  <2>5. /\ pts \in Int /\ pts = m /\ n = m /\ exported \in Nat /\ ~(pts > exported)
        /\ q = IF pts + 1 > m THEN pts + 1 ELSE m
    BY <1>5, <1>6, <1>7, <1>10, <2>3
  <2> HIDE DEF pts, m, q, n
  <2>6. n + 1 = q /\ q <= exported + 1
    BY <2>5
  <2> QED
    BY <2>2, <2>4, <2>6 DEF q, n
<1> QED
  BY <1>9, <1>10

\* Going on to the next segment leaves no gap in the sound but where a segment has none.
LEMMA AdvanceKeepsSound ==
  ASSUME StepInv, SoundSoFar, Export!AdvanceSegment, phase' # "failed", ~dropping
  PROVE  SoundSoFar'
<1> DEFINE A == Export!AudioStart
           c == export.chain
           s == audio.segment
           later == s + 1 .. Len(c)
           stops == {t \in later : c[t].audio \/ ~c[t].readable}
           n == CHOOSE t \in stops : \A u \in stops : t <= u
<1>1. /\ phase = "copying" /\ phase' = "copying" /\ audio.on /\ ~audio.exhausted
      /\ audio.next = c[s].frames
      /\ UNCHANGED <<export, exported, quiet, sound>>
  BY DEF Export!AdvanceSegment, Export!Copying, Export!Segment, Export!Chain, Export!Fail
<1>2. /\ audio \in AudioTypes /\ s \in 1 .. Len(c) /\ audio.next \in Nat
      /\ audio.nextOffset \in Int
  BY <1>1, SoundTypes
<1>3. \/ stops = {} /\ audio' = [audio EXCEPT !.exhausted = TRUE]
      \/ audio' = [audio EXCEPT !.segment = n, !.next = 0,
                                !.pendingStart = {audio.nextOffset}]
  BY <1>1 DEF Export!AdvanceSegment, Export!Fail, Export!Chain
<1>4. SUFFICES ASSUME Heard
               PROVE  /\ audio'.on
                      /\ IF audio'.exhausted THEN Export!AudioWhole'
                         ELSE Len(sound') = audio'.nextOffset /\ audio'.nextOffset <= exported + 1
  BY <1>1, SameJob DEF SoundSoFar, Heard
<1>5. Len(sound) = audio.nextOffset /\ audio.nextOffset <= exported + 1
  BY <1>1, <1>4 DEF SoundSoFar, Heard
<1>6. export \in JobTypes /\ exported \in Nat /\ Len(sound) \in Nat
  BY VideoTypes DEF StepInv, ExportTyped
<1>7. A \in Nat /\ c[s].frames \in Nat \ {0} /\ Len(c) \in Nat /\ c[1].frames \in Nat
  BY <1>2, <1>6, ChainTypes
<1>8. CASE stops = {} /\ audio' = [audio EXCEPT !.exhausted = TRUE]
  <2>1. audio'.on /\ audio'.exhausted
    BY <1>1, <1>2, <1>8 DEF AudioTypes
  <2>2. s = Len(c)
    <3>1. s # Len(c) => s + 1 \in later /\ s + 1 \in 1 .. Len(c)
      BY <1>2, <1>7
    <3>2. s # Len(c) => c[s + 1].audio
      BY <1>4, <3>1 DEF Heard, Export!Unbroken, Export!Chain
    <3> QED
      BY <1>8, <3>1, <3>2
  <2>3. Export!Unbroken(s)
    BY <1>4, <2>2 DEF Heard
  <2>4. /\ Export!Total = Export!Before(s) + c[s].frames
        /\ Export!Before(s) \in Nat /\ (s = 1 => Export!Before(s) = 0)
    <3>1. Export!Total = Export!Before(s + 1)
      BY <2>2 DEF Export!Total, Export!Chain
    <3>2. s \in 1 .. Len(c) + 1
      BY <1>2, <1>7
    <3> QED
      BY <1>2, <1>6, <3>1, <3>2, BeforeAdds
  <2>5. audio.nextOffset = Export!Total - A
    <3> DEFINE b == Export!Before(s)
               f == c[s].frames
               t == Export!Total
               m == audio.nextOffset
    <3>1. /\ b \in Nat /\ f \in Nat /\ t = b + f /\ A \in Nat /\ m \in Int
          /\ \/ b = 0 /\ f > A /\ m = IF f > A THEN f - A ELSE 0
             \/ m = b + f - A
      <4>1. CASE s = 1
        <5>1. audio.nextOffset = IF audio.next > A THEN audio.next - A ELSE 0
          BY <1>1, <1>4, <2>3, <4>1 DEF StepInv, AudioPlace, Heard
        <5> QED
          BY <1>1, <1>2, <1>4, <1>7, <2>4, <4>1, <5>1 DEF Heard
      <4>2. CASE s # 1
        <5>1. audio.nextOffset = Export!Before(s) + audio.next - A
          BY <1>1, <1>4, <2>3, <4>2 DEF StepInv, AudioPlace, Heard
        <5> QED
          BY <1>1, <1>2, <1>7, <2>4, <5>1
      <4> QED
        BY <4>1, <4>2
    <3> HIDE DEF b, f, t, m, A
    <3>2. m = t - A
      BY <3>1
    <3> QED
      BY <3>2 DEF m, t
  <2>6. Export!Total' = Export!Total /\ Export!AudioStart' = A
    BY <1>1, SameJob DEF Export!Total, Export!Chain
  <2>7. Export!AudioWhole'
    <3> DEFINE left == Export!Total - A
    <3>1. Len(sound) = left /\ left <= exported + 1 /\ left \in Int
      BY <1>2, <1>5, <2>5
    <3> HIDE DEF left
    <3>2. Len(sound) = IF left <= exported THEN left ELSE exported + 1
      BY <1>6, <3>1
    <3> QED
      BY <1>1, <2>6, <3>2 DEF Export!AudioWhole, left
  <2> QED
    BY <2>1, <2>7
<1>9. CASE audio' = [audio EXCEPT !.segment = n, !.next = 0, !.pendingStart = {audio.nextOffset}]
  <2> HIDE DEF n
  <2>1. audio'.on /\ ~audio'.exhausted /\ audio'.nextOffset = audio.nextOffset
    BY <1>1, <1>2, <1>9 DEF AudioTypes
  <2> QED
    BY <1>1, <1>5, <2>1
<1> QED
  BY <1>3, <1>8, <1>9

\* Every step keeps the written sound gapless up to its place.
LEMMA SoundKeeps ==
  ASSUME StepInv, SoundSoFar, ~dropping, phase # "failed", Export!Next,
         ~dropping', phase' # "failed"
  PROVE  SoundSoFar'
<1>1. CASE Export!CopyPacket
  BY <1>1, CopyKeepsSound
<1>2. CASE Export!AdvanceSegment
  BY <1>2, AdvanceKeepsSound
<1>3. CASE Export!Opens
  <2>1. export \in JobTypes
    BY DEF StepInv, ExportTyped
  <2>2. SUFFICES ASSUME Heard PROVE audio'.on /\ ~audio'.exhausted /\ audio'.nextOffset = 0
    BY <1>3, SameJob DEF SoundSoFar, Heard, Export!Opens
  <2>3. export.chain[1].audio
    <3>1. 1 \in 1 .. Len(export.chain)
      BY <2>1, ChainTypes
    <3> QED
      BY <2>2, <3>1 DEF Heard, Export!Unbroken, Export!Chain
  <2>4. PICK p : audio' = Export!SetUpAudio(p)
    BY <1>3 DEF Export!Opens
  <2> QED
    BY <2>3, <2>4 DEF Export!SetUpAudio, Export!Chain
<1>4. CASE Export!TrimPacket
  <2>1. /\ phase = "copying" /\ phase' = phase /\ audio.on /\ ~audio.exhausted
        /\ audio' = [audio EXCEPT !.next = @ + 1]
        /\ UNCHANGED <<export, exported, quiet, sound>>
    BY <1>4 DEF Export!TrimPacket, Export!Copying
  <2>2. /\ audio'.on = audio.on /\ audio'.exhausted = audio.exhausted
        /\ audio'.nextOffset = audio.nextOffset
    BY <2>1, SoundTypes DEF AudioTypes
  <2> QED
    BY <2>1, <2>2, SameJob DEF SoundSoFar
<1>5. CASE Export!ReadFails
  BY <1>5 DEF Export!ReadFails, SoundSoFar
<1>6. CASE Export!AudioDone \/ Export!WriteTrailers
  <2>1. /\ UNCHANGED <<export, exported, quiet, sound, audio>>
        /\ \/ phase = "copying" /\ phase' = "trailer" /\ ~(audio.on /\ ~audio.exhausted)
           \/ phase = "trailer" /\ phase' = "finished"
    BY <1>6 DEF Export!AudioDone, Export!WriteTrailers, Export!Copying, Export!Fail
  <2>2. Export!AudioWhole' <=> Export!AudioWhole
    BY <2>1, SameJob DEF Export!AudioWhole, Export!Total, Export!Chain
  <2>3. SUFFICES ASSUME Heard PROVE audio.on /\ audio.exhausted /\ Export!AudioWhole
    BY <2>1, <2>2, SameJob DEF SoundSoFar, Heard
  <2> QED
    BY <2>1, <2>3 DEF SoundSoFar, Heard
<1>7. CASE Export!ReceiveNone /\ phase = "draining"
  <2>1. /\ UNCHANGED <<export, exported, sound, audio>>
        /\ phase' = "copying" /\ ("read" \notin quiet' => "read" \notin quiet)
    BY <1>7 DEF Export!ReceiveNone
  <2>2. exported \in Nat
    BY VideoTypes
  <2>3. SUFFICES ASSUME Heard
                 PROVE  /\ audio.on /\ ~audio.exhausted
                        /\ Len(sound) = audio.nextOffset /\ audio.nextOffset <= exported + 1
    BY <2>1, SameJob DEF SoundSoFar, Heard
  <2>4. sound = <<>> /\ audio.on /\ ~audio.exhausted /\ audio.nextOffset = 0
    BY <1>7, <2>3 DEF SoundSoFar, Heard
  <2> QED
    BY <2>2, <2>4
<1>8. CASE \/ Export!CandidateFails \/ Export!SendFrame \/ Export!ReceivePacket
           \/ (Export!ReceiveNone /\ phase = "receiving") \/ Export!Finish
  <2>1. /\ UNCHANGED <<export, sound, audio>>
        /\ "read" \notin quiet' => "read" \notin quiet
        /\ \/ phase = "opening" /\ phase' \in {"opening", "refused"}
           \/ /\ phase \in {"ready", "receiving", "draining"}
              /\ phase' \in {"ready", "receiving", "draining"}
    BY <1>8
    DEF Export!CandidateFails, Export!SendFrame, Export!ReceivePacket, Export!ReceiveNone,
        Export!Finish, Export!Fail
  <2> QED
    BY <2>1, SameJob DEF SoundSoFar
<1>9. CASE Export!Drop
  BY <1>9 DEF Export!Drop
<1> QED
  BY <1>1, <1>2, <1>3, <1>4, <1>5, <1>6, <1>7, <1>8, <1>9
  DEF Export!Next, Export!CopyAudio, Export!ReceiveNone

\* Every step keeps the invariant.
LEMMA ExportKeeps ==
  ASSUME ExportInv, [Export!Next]_exportVars
  PROVE  ExportInv'
<1>1. StepInv'
  BY ExportStep DEF ExportInv
<1>2. CASE UNCHANGED exportVars
  <2>1. UNCHANGED <<export, phase, dropping, exported, codec, eofSent, video, stream, streamed,
                    audio, sound, quiet>>
    BY <1>2 DEF exportVars
  <2>2. Export!AudioWhole' <=> Export!AudioWhole
    BY <2>1, SameJob DEF Export!AudioWhole, Export!Total, Export!Chain
  <2>3. (VideoSoFar' <=> VideoSoFar) /\ (SoundSoFar' <=> SoundSoFar)
    <3>1. VideoSoFar' <=> VideoSoFar
      BY <2>1 DEF VideoSoFar, FramesSent
    <3>2. SoundSoFar' <=> SoundSoFar
      BY <2>1, <2>2, SameJob DEF SoundSoFar
    <3> QED
      BY <3>1, <3>2
  <2> QED
    BY <1>1, <2>1, <2>3 DEF ExportInv, FileSoFar
<1>3. CASE Export!Next
  <2>1. ~dropping' /\ phase' # "failed" => ~dropping /\ phase # "failed"
    BY <1>3
    DEF Export!Next, Export!CandidateFails, Export!Opens, Export!SendFrame, Export!ReceivePacket,
        Export!ReceiveNone, Export!Finish, Export!Drop, Export!CopyAudio, Export!TrimPacket,
        Export!CopyPacket, Export!ReadFails, Export!AdvanceSegment, Export!AudioDone,
        Export!WriteTrailers, Export!Copying
  <2>2. FileSoFar'
    BY <1>3, <2>1, VideoKeeps, SoundKeeps DEF ExportInv, FileSoFar
  <2>3. phase' = "finished" => ~dropping'
    BY <1>3
    DEF Export!Next, Export!CandidateFails, Export!Opens, Export!SendFrame, Export!ReceivePacket,
        Export!ReceiveNone, Export!Finish, Export!Drop, Export!CopyAudio, Export!TrimPacket,
        Export!CopyPacket, Export!ReadFails, Export!AdvanceSegment, Export!AudioDone,
        Export!WriteTrailers, Export!Copying, Export!Fail
  <2> QED
    BY <1>1, <2>2, <2>3 DEF ExportInv
<1> QED
  BY <1>2, <1>3

\* A job starts in a state of the invariant.
LEMMA ExportBegins == Export!Init => ExportInv
BY ExportStarts, FileStarts DEF ExportInv

\* The export's invariant holds in every state: where the audio stands in the recording, and
\* what of the frames sent the codec, the stream and the file hold.
THEOREM ExportAlways ==
  /\ Export!Spec => []ExportInv
  /\ MCSpec => []ExportInv
<1>1. ExportInv /\ [Export!Next]_Export!exportVars => ExportInv'
  BY ExportKeeps DEF Export!exportVars, exportVars
<1>2. ExportInv /\ [MCNext]_mcVars => ExportInv'
  BY ExportKeeps DEF MCNext, mcVars
<1>3. MCInit => ExportInv
  BY ExportBegins DEF MCInit
<1> QED
  BY <1>1, <1>2, <1>3, ExportBegins, PTL DEF MCSpec, Export!Spec

\* Whatever time stamps the segments start with and whichever camera the sync
\* offset delays, a packet of the file sounds what its frame shows.
THEOREM SoundInStep ==
  /\ Export!Spec => [](Export!TypeOK /\ Export!AudioInStep)
  /\ MCSpec => []AudioInStep
<1>1. ASSUME ExportInv PROVE Export!TypeOK /\ Export!AudioInStep
  <2>1. Export!TypeOK
    BY <1>1 DEF ExportInv, StepInv, ExportTyped
  <2>2. SUFFICES ASSUME Export!AudioStart < export.chain[1].frames,
                        NEW packet \in Export!Range(sound), Export!Unbroken(packet.segment)
                 PROVE  Export!InSync(packet)
    BY <2>1 DEF Export!AudioInStep, Export!AudioAligned, Export!Chain
  <2>3. sound \in Seq(Packets) /\ export \in JobTypes
    BY <1>1 DEF ExportInv, StepInv, ExportTyped
  <2>4. PICK k \in 1 .. Len(sound) : packet = sound[k]
    BY <2>3 DEF Export!Range
  <2>5. packet.at = Export!AudioStart + packet.pts
    BY <1>1, <2>2, <2>4 DEF ExportInv, StepInv, SoundPlace
  <2> QED
    BY <2>3, <2>5, ChainTypes DEF Export!InSync
<1>2. ExportInv => AudioInStep
  BY <1>1 DEF AudioInStep
<1> QED
  BY <1>1, <1>2, ExportAlways, PTL

\* Ok from finish means that the file has every frame once and in order and
\* the sound of all of them, and the stream the first of them.
THEOREM FinishedFileIsWhole ==
  /\ Export!Spec => []Export!FinishedIsWhole
  /\ MCSpec => []FinishedIsWhole
<1>1. ASSUME ExportInv PROVE Export!FinishedIsWhole
  <2>1. SUFFICES ASSUME phase = "finished" PROVE
            /\ Export!IsPrefix(streamed, video)
            /\ "codec" \in quiet \/ video = [k \in 1 .. exported |-> k - 1]
            /\ \/ "read" \in quiet \/ ~Export!Unbroken(Len(export.chain))
               \/ Export!AudioStart >= export.chain[1].frames
               \/ Export!AudioWhole
    BY DEF Export!FinishedIsWhole, Export!Chain
  <2>2. VideoSoFar /\ SoundSoFar /\ StepInv
    BY <1>1, <2>1 DEF ExportInv, FileSoFar
  <2>3. /\ video \in Seq(Nat) /\ streamed \in Seq(Nat) /\ codec \in Seq(Nat) /\ exported \in Nat
        /\ Len(video) \in Nat /\ Len(streamed) \in Nat
    BY <2>2, VideoTypes
  <2>4. Export!IsPrefix(streamed, video)
    <3>1. Len(streamed) <= Len(video)
      BY <2>2 DEF VideoSoFar
    <3>2. \A k \in 1 .. Len(streamed) : streamed[k] = video[k]
      BY <2>2, <2>3, <3>1 DEF VideoSoFar
    <3>3. SubSeq(streamed, 1, Len(streamed)) = SubSeq(video, 1, Len(streamed))
      BY <2>3, <3>1, <3>2
    <3> QED
      BY <3>1, <3>3 DEF Export!IsPrefix
  <2>5. "codec" \notin quiet => video = [k \in 1 .. exported |-> k - 1]
    <3>1. SUFFICES ASSUME "codec" \notin quiet PROVE video = [k \in 1 .. exported |-> k - 1]
      OBVIOUS
    <3>2. codec = <<>> /\ Len(video) + Len(codec) = exported
      BY <2>1, <2>2, <3>1 DEF VideoSoFar, FramesSent
    <3>3. Len(video) = exported
      BY <2>3, <3>2
    <3> QED
      BY <2>2, <2>3, <3>3 DEF VideoSoFar
  <2>6. \/ "read" \in quiet \/ ~Export!Unbroken(Len(export.chain))
        \/ ~(Export!AudioStart < export.chain[1].frames)
        \/ Export!AudioWhole
    BY <2>1, <2>2 DEF SoundSoFar
  <2>7. Export!AudioStart >= export.chain[1].frames
            <=> ~(Export!AudioStart < export.chain[1].frames)
    <3>1. Export!AudioStart \in Nat /\ export.chain[1].frames \in Nat
      BY <2>2, ChainTypes DEF StepInv, ExportTyped
    <3> QED
      BY <3>1
  <2> QED
    BY <2>4, <2>5, <2>6, <2>7
<1>2. ExportInv => FinishedIsWhole
  BY <1>1 DEF FinishedIsWhole
<1> QED
  BY <1>1, <1>2, ExportAlways, PTL

==============================================================================
