-------------------------- MODULE KeeImportProofs --------------------------
(***************************************************************************)
(* Proofs about KeeImport, for any payloads, contents of /dev and bounds   *)
(* that satisfy TransportAssumption and ImportAssumption.  ScanEnds is a   *)
(* liveness property and left to TLC.                                      *)
(***************************************************************************)
EXTENDS KeeImport, FiniteSetTheorems, SequenceTheorems, TLAPS

(* What every transport that was made holds, and that it could be made.    *)
ShownInv ==
  \A s \in shown :
    /\ s.text = [cmd |-> "LEDGER", payload |-> s.sent]
    /\ Length[s.sent] < KEE_TRANSPORT_CHUNK_MAX_SIZE - 2

(* A pipeline delivers its one code by its watch, and has messages only    *)
(* while it plays; only the last one plays.                                *)
PipelineSound(line) ==
  /\ line.watch => line.delivered = 0
  /\ line.delivered <= 1
  /\ line.state # "playing" => line.bus = <<>>

PipelinesInv ==
  /\ \A p \in Scans : PipelineSound(pipeline[p])
  /\ \A p \in Scans : p # scan => pipeline[p].state # "playing"

(* What is seen and what is in the text was shown, or is nothing that can  *)
(* be read.                                                                *)
TextsInv ==
  /\ \A p \in Scans : pipeline[p].bus \in Seq(InView \cup {Other})
  /\ import_content \in InView \cup {Nothing}

ImportInv ==
  /\ TypeOK
  /\ ShownInv
  /\ PipelinesInv
  /\ TextsInv
  /\ Genuine

-----------------------------------------------------------------------------
LEMMA BoundTypes == MaxScans \in Nat /\ MaxBus \in Nat /\ 0 \in 0 .. MaxScans
<1>1. MaxScans \in Nat /\ MaxBus \in Nat
  BY ImportAssumption, Zenon
<1>2. QED
  BY <1>1

(* What is written is what is taken out, as the ledger it was: the object  *)
(* takes for its length what the cursor has counted.                       *)
LEMMA ExportedText ==
  ASSUME NEW payload \in Payload, NEW out_len, Fits(exported(payload), out_len)
  PROVE  /\ kee_transport_next(exported(payload)) = [cmd |-> "LEDGER", payload |-> payload]
         /\ Length[payload] < KEE_TRANSPORT_CHUNK_MAX_SIZE - 2
<1> DEFINE trans == exported(payload)
           n == Length[payload]
<1>1. n \in Nat /\ n > 0
  BY TransportAssumption
<1> HIDE DEF n
<1>2. /\ trans.cmd = "LEDGER" /\ trans.state = 0 /\ trans.body = payload
      /\ trans.at = 1 /\ trans.len = n /\ trans.crsr = 1 + n
  BY DEF exported, kee_transport_write, kee_transport_single, n
<1>3. begun(trans) = [trans EXCEPT !.data_len = 1 + n, !.crsr = 0, !.state = 1]
  BY <1>2 DEF begun
<1>4. begun(trans).data_len = 1 + n /\ begun(trans).crsr = 0
  BY <1>3 DEF exported, kee_transport_write, kee_transport_single
<1>5. remaining(trans) = 1 + n
  BY <1>1, <1>4 DEF remaining
<1>6. covered(trans, 0, remaining(trans))
  BY <1>1, <1>2, <1>5 DEF covered
<1>7. remaining(trans) < KEE_TRANSPORT_CHUNK_MAX_SIZE - 1
  BY DEF Fits
<1>8. n < KEE_TRANSPORT_CHUNK_MAX_SIZE - 2
  BY <1>1, <1>5, <1>7 DEF KEE_TRANSPORT_CHUNK_MAX_SIZE
<1>9. QED
  BY <1>2, <1>6, <1>8 DEF kee_transport_next, n

(* The longer the message, the longer its text. *)
LEMMA EncodedLength ==
  ASSUME NEW n \in Nat
  PROVE  /\ encoded(n) \in Nat
         /\ n <= LastRead => encoded(n) < KEE_TRANSPORT_CHUNK_MAX_SIZE
         /\ n > LastRead => encoded(n) >= KEE_TRANSPORT_CHUNK_MAX_SIZE
<1>1. (n + 2) \div 3 \in Nat /\ n \div 54 \in Nat
  BY SMT
<1>2. n <= 567 => (n + 2) \div 3 <= 189 /\ n \div 54 <= 10
  BY SMT
<1>3. n > 567 => (n + 2) \div 3 >= 190 /\ n \div 54 >= 10
  BY SMT
<1>4. QED
  BY <1>1, <1>2, <1>3 DEF encoded, LastRead, KEE_TRANSPORT_CHUNK_MAX_SIZE

(* An import holds the text it was given, behind the command, and spills   *)
(* it just when there is no room; the command comes from the text.         *)
LEMMA ImportHolds ==
  ASSUME NEW text
  PROVE  /\ import(text).cmd = "IMPORT" /\ import(text).body = text
         /\ import(text).at = 1 /\ import(text).len = size(text)
         /\ import(text).data_len = KEE_TRANSPORT_CHUNK_MAX_SIZE
         /\ kee_transport_read(import(text)) = [cmd |-> text.cmd, payload |-> text.payload]
         /\ kee_transport_read(import(text)).payload = text.payload
<1>1. /\ import(text).cmd = "IMPORT" /\ import(text).body = text
      /\ import(text).at = 1 /\ import(text).len = size(text)
      /\ import(text).data_len = KEE_TRANSPORT_CHUNK_MAX_SIZE
  BY DEF import, kee_transport_write, kee_transport_single
<1>2. QED
  BY <1>1 DEF kee_transport_read

LEMMA ImportReads ==
  ASSUME NEW text \in Text, NEW out_len, out_len \in Nat, Length[text.payload] + 1 <= out_len
  PROVE  IF Deflated[text.payload] <= LastRead
         THEN readable(import(text), out_len) ELSE spilt(import(text))
<1> DEFINE n == Deflated[text.payload]
<1>1. n \in Nat
  BY TransportAssumption DEF Text
<1>2. size(text) = encoded(n) /\ encoded(n) \in Nat
  BY <1>1, EncodedLength DEF size
<1>3. PICK trans : trans = import(text)
  OBVIOUS
<1>4. /\ trans.cmd = "IMPORT" /\ trans.body = text
      /\ trans.at = 1 /\ trans.len = encoded(n)
      /\ trans.data_len = KEE_TRANSPORT_CHUNK_MAX_SIZE
  <2>1. /\ import(text).cmd = "IMPORT" /\ import(text).body = text
        /\ import(text).at = 1 /\ import(text).len = size(text)
        /\ import(text).data_len = KEE_TRANSPORT_CHUNK_MAX_SIZE
    BY ImportHolds, Zenon
  <2>2. /\ trans.cmd = "IMPORT" /\ trans.body = text
        /\ trans.at = 1 /\ trans.len = size(text)
        /\ trans.data_len = KEE_TRANSPORT_CHUNK_MAX_SIZE
    BY <1>3, <2>1
  <2>3. trans.len = encoded(n)
    BY <1>2, <2>2
  <2> HIDE DEF n
  <2>4. QED
    BY <2>2, <2>3
<1>5. CASE n <= LastRead
  <2>1. encoded(n) < KEE_TRANSPORT_CHUNK_MAX_SIZE
    BY <1>1, <1>5, EncodedLength
  <2> HIDE DEF n
  <2>2. ~spilt(trans)
    BY <1>2, <1>4, <2>1 DEF spilt, KEE_TRANSPORT_CHUNK_MAX_SIZE
  <2>3. covered(trans, start(trans), trans.data_len)
    BY <1>2, <1>4, <2>1 DEF covered, start, KEE_TRANSPORT_CHUNK_MAX_SIZE
  <2>4. readable(import(text), out_len)
    BY <1>3, <1>4, <2>2, <2>3 DEF readable
  <2>5. QED
    BY <1>5, <2>4 DEF n
<1>6. CASE ~(n <= LastRead)
  <2>1. encoded(n) >= KEE_TRANSPORT_CHUNK_MAX_SIZE
    BY <1>1, <1>6, EncodedLength DEF LastRead
  <2> HIDE DEF n
  <2>2. spilt(import(text))
    BY <1>2, <1>3, <1>4, <2>1 DEF spilt, KEE_TRANSPORT_CHUNK_MAX_SIZE
  <2>3. QED
    BY <1>6, <2>2 DEF n
<1>7. QED
  BY <1>5, <1>6

(* Of a text that was shown, what was sent in it is accepted; of anything  *)
(* else nothing.                                                           *)
LEMMA AcceptedSent ==
  ASSUME ShownInv, NEW text \in InView \cup {Nothing, Other}
  PROVE  accepted(text) \subseteq {s.sent : s \in shown}
<1>1. CASE \E s \in shown : text = s.text
  <2>1. PICK s \in shown : text = s.text
    BY <1>1
  <2>2. s.text = [cmd |-> "LEDGER", payload |-> s.sent]
    BY DEF ShownInv
  <2>3. [cmd |-> "LEDGER", payload |-> s.sent].payload = s.sent
    OBVIOUS
  <2>4. kee_transport_read(import(text)).payload = text.payload
    BY ImportHolds, Zenon
  <2>5. accepted(text) \subseteq {text.payload}
    BY <2>4 DEF accepted
  <2>6. text.payload = s.sent
    BY <2>1, <2>2, <2>3, Zenon
  <2>7. QED
    BY <2>5, <2>6
<1>2. CASE text \in {Garbage, Nothing, Other}
  <2>1. text \notin Text
    BY <1>2, TransportAssumption, ImportAssumption
  <2>2. QED
    BY <2>1, ImportHolds DEF accepted, readable
<1>3. QED
  BY <1>1, <1>2 DEF InView

(* The list of cameras is a sequence, however often the search breaks off. *)
LEMMA CameraList ==
  ASSUME NEW dir \in Dir
  PROVE  kee_camera_scan(dir) \in Seq({"capture", ""})
<1> DEFINE known == {i \in DOMAIN dir : \A j \in 1 .. i : dir[j] # "closed"}
           found == {i \in known : dir[i] = "capture"}
           cameras == [n \in 1 .. Cardinality(found) |-> "capture"]
<1>1. Len(dir) \in Nat /\ DOMAIN dir = 1 .. Len(dir)
  BY ImportAssumption
<1>2. IsFiniteSet(found)
  <2>1. found \subseteq 1 .. Len(dir)
    BY <1>1
  <2>2. IsFiniteSet(1 .. Len(dir))
    BY <1>1, FS_Interval
  <2>3. QED
    BY <2>1, <2>2, FS_Subset
<1>3. Cardinality(found) \in Nat
  BY <1>2, FS_CardinalityType
<1>4. ASSUME NEW n \in Nat
      PROVE  [i \in 1 .. n |-> "capture"] \in Seq({"capture", ""})
  BY SeqDef
<1>5. cameras \in Seq({"capture", ""})
  BY <1>3, <1>4
<1>6. Append(cameras, "") \in Seq({"capture", ""})
  BY <1>5, AppendProperties
<1>7. kee_camera_scan(dir) = IF known = DOMAIN dir THEN Append(cameras, "") ELSE cameras
  BY DEF kee_camera_scan
<1> HIDE DEF cameras, known
<1>8. QED
  BY <1>5, <1>6, <1>7

LEMMA NoPipelineSound ==
  /\ NoPipeline \in Pipeline
  /\ PipelineSound(NoPipeline)
  /\ NoPipeline.state # "playing"
  /\ NoPipeline.delivered = 0
  /\ \A S : NoPipeline.bus \in Seq(S)
<1>1. \A S : <<>> \in Seq(S)
  BY EmptySeq
<1>2. QED
  BY <1>1 DEF NoPipeline, Pipeline, PipelineSound

(* No pipeline, no text: what both ends of the application leave behind.   *)
LEMMA Emptied ==
  ASSUME TypeOK, ShownInv, Genuine,
         pipeline' = [p \in Scans |-> NoPipeline], scan' = 0, import_content' = Nothing,
         accept' = FALSE, up' \in BOOLEAN, camera_list' \in Seq({"capture", ""}),
         selected' \in 0 .. Len(camera_list'), UNCHANGED <<shown, ledgers>>
  PROVE  ImportInv'
<1>1. TypeOK'
  BY NoPipelineSound, BoundTypes DEF TypeOK
<1>2. PipelinesInv'
  BY NoPipelineSound DEF PipelinesInv
<1>3. TextsInv'
  BY NoPipelineSound DEF TextsInv
<1>4. QED
  BY <1>1, <1>2, <1>3 DEF ImportInv, ShownInv, Genuine

LEMMA InitHolds == Init => ImportInv
<1> SUFFICES ASSUME Init PROVE ImportInv
  OBVIOUS
<1>1. <<>> \in Seq({"capture", ""}) /\ Len(<<>>) = 0
  BY EmptySeq
<1>2. TypeOK
  <2>1. pipeline \in [Scans -> Pipeline]
    BY NoPipelineSound DEF Init
  <2>2. scan \in 0 .. MaxScans
    BY BoundTypes DEF Init
  <2>3. camera_list \in Seq({"capture", ""}) /\ selected \in 0 .. Len(camera_list)
    BY <1>1 DEF Init
  <2>4. QED
    BY <2>1, <2>2, <2>3 DEF Init, TypeOK
<1>3. PipelinesInv
  BY NoPipelineSound DEF Init, PipelinesInv
<1>4. TextsInv
  BY NoPipelineSound DEF Init, TextsInv
<1>5. QED
  BY <1>2, <1>3, <1>4 DEF ImportInv, Init, ShownInv, Genuine

-----------------------------------------------------------------------------
LEMMA StartHolds ==
  ASSUME ImportInv, NEW dir \in Dir, Start(dir)
  PROVE  ImportInv'
<1>1. kee_camera_scan(dir) \in Seq({"capture", ""})
  BY CameraList
<1>2. kee_camera_scan(dir) # <<>> => Len(kee_camera_scan(dir)) \in Nat \ {0}
  BY <1>1, EmptySeq
<1>3. camera_list' = kee_camera_scan(dir)
        /\ selected' = IF kee_camera_scan(dir) = <<>> THEN 0 ELSE 1
  BY DEF Start, Opened
<1>4. Len(kee_camera_scan(dir)) \in Nat
  BY <1>1, LenProperties
<1>5. selected' \in 0 .. Len(camera_list')
  BY <1>2, <1>3, <1>4
<1>6. QED
  BY <1>1, <1>3, <1>5, Emptied DEF Start, Opened, ImportInv

LEMMA ClosedHolds ==
  ASSUME ImportInv, Closed, UNCHANGED <<shown, ledgers>>
  PROVE  ImportInv'
<1>1. <<>> \in Seq({"capture", ""}) /\ Len(<<>>) = 0
  BY EmptySeq
<1>2. camera_list' \in Seq({"capture", ""}) /\ selected' \in 0 .. Len(camera_list')
  BY <1>1 DEF Closed
<1>3. QED
  BY <1>2, Emptied DEF Closed, ImportInv

(* Another transport to be seen spoils nothing that was seen before. *)
LEMMA ShownGrows ==
  ASSUME ImportInv, NEW payload \in Payload, NEW out_len, Fits(exported(payload), out_len),
         shown' = shown \cup {[sent |-> payload, text |-> kee_transport_next(exported(payload))]},
         UNCHANGED <<up, page, ledgers>>
  PROVE  ImportInv'
<1> DEFINE text == [cmd |-> "LEDGER", payload |-> payload]
           new == [sent |-> payload, text |-> text]
<1>1. text \in Text /\ new \in [sent : Payload, text : Text]
  BY DEF Text, Command
<1>2. shown' = shown \cup {new}
  BY ExportedText
<1>3. /\ new.sent = payload /\ new.text = [cmd |-> "LEDGER", payload |-> new.sent]
      /\ Length[new.sent] < KEE_TRANSPORT_CHUNK_MAX_SIZE - 2
  BY ExportedText
<1> HIDE DEF new, text
<1>4. TypeOK'
  BY <1>1, <1>2 DEF ImportInv, TypeOK, page
<1>5. ShownInv'
  BY <1>2, <1>3 DEF ImportInv, ShownInv
<1>6. PipelinesInv'
  BY DEF ImportInv, PipelinesInv, page
<1>7. TextsInv'
  <2>1. InView \subseteq InView'
    BY <1>2 DEF InView
  <2>2. \A bus \in Seq(InView \cup {Other}) : bus \in Seq((InView \cup {Other})')
    BY <2>1
  <2>3. QED
    BY <2>1, <2>2 DEF ImportInv, TextsInv, page
<1>8. Genuine'
  BY <1>2 DEF ImportInv, Genuine, page
<1>9. QED
  BY <1>4, <1>5, <1>6, <1>7, <1>8 DEF ImportInv

(* The camera before is stopped and silenced, the next pipeline is new. *)
LEMMA ChooseCameraHolds ==
  ASSUME ImportInv, NEW i \in DOMAIN camera_list, ChooseCamera(i)
  PROVE  ImportInv'
<1>1. CASE camera_list[i] = ""
  BY <1>1, ClosedHolds DEF ChooseCamera
<1>2. CASE camera_list[i] # ""
  <2> DEFINE begins == [NoPipeline EXCEPT !.state = "playing", !.watch = TRUE]
  <2>1. /\ scan < MaxScans /\ scan' = scan + 1 /\ selected' = i
        /\ pipeline' = [p \in Scans |->
               IF p = scan + 1 THEN begins
               ELSE IF p = scan THEN scan_free(pipeline[p]) ELSE pipeline[p]]
        /\ UNCHANGED <<shown, ledgers, up, camera_list, import_content, accept>>
    BY <1>2 DEF ChooseCamera
  <2>2. \A S : <<>> \in Seq(S)
    BY EmptySeq
  <2>3. /\ begins \in Pipeline /\ PipelineSound(begins)
        /\ \A S : begins.bus \in Seq(S)
    <3>1. begins.bus = <<>> /\ begins.state = "playing" /\ begins.delivered = 0
      BY DEF NoPipeline
    <3>2. ASSUME NEW line \in Pipeline
          PROVE  [line EXCEPT !.state = "playing", !.watch = TRUE] \in Pipeline
      BY DEF Pipeline
    <3>3. begins \in Pipeline
      BY <3>2, NoPipelineSound
    <3> HIDE DEF begins
    <3>4. PipelineSound(begins)
      BY <3>1 DEF PipelineSound
    <3>5. QED
      BY <2>2, <3>1, <3>3, <3>4
  <2>4. \A line \in Pipeline :
          /\ scan_free(line) \in Pipeline
          /\ PipelineSound(line) => PipelineSound(scan_free(line))
          /\ scan_free(line).state # "playing"
          /\ \A S : scan_free(line).bus \in Seq(S)
    BY <2>2 DEF scan_free, Pipeline, PipelineSound
  <2>5. scan' \in 0 .. MaxScans
    <3>1. scan \in 0 .. MaxScans
      BY DEF ImportInv, TypeOK
    <3>2. QED
      BY <2>1, <3>1, BoundTypes
  <2>6. selected' \in 0 .. Len(camera_list')
    <3>1. camera_list \in Seq({"capture", ""})
      BY DEF ImportInv, TypeOK
    <3>2. Len(camera_list) \in Nat /\ i \in 1 .. Len(camera_list)
      BY <3>1, LenProperties
    <3>3. QED
      BY <2>1, <3>2
  <2> HIDE DEF begins
  <2>7. TypeOK'
    BY <2>1, <2>3, <2>4, <2>5, <2>6 DEF ImportInv, TypeOK
  <2>8. PipelinesInv'
    BY <2>1, <2>3, <2>4 DEF ImportInv, PipelinesInv, TypeOK
  <2>9. TextsInv'
    BY <2>1, <2>3, <2>4 DEF ImportInv, TextsInv, TypeOK, InView
  <2>10. QED
    BY <2>1, <2>7, <2>8, <2>9 DEF ImportInv, ShownInv, Genuine
<1>3. QED
  BY <1>1, <1>2

(* A message is posted only by the pipeline that plays. *)
LEMMA PostHolds ==
  ASSUME ImportInv, NEW p \in Scans, NEW message \in InView \cup {Other}, Post(p, message)
  PROVE  ImportInv'
<1>1. /\ pipeline[p].state = "playing"
      /\ pipeline' = [pipeline EXCEPT ![p].bus = Append(@, message)]
      /\ UNCHANGED <<shown, up, camera_list, selected, scan, import_content, accept, ledgers>>
  BY DEF Post
<1>2. pipeline \in [Scans -> Pipeline] /\ pipeline[p] \in Pipeline
  BY DEF ImportInv, TypeOK
<1>3. InView \subseteq Code
  BY DEF ImportInv, TypeOK, InView, Code
<1>4. Append(pipeline[p].bus, message) \in Seq(Code \cup {Other})
  BY <1>2, <1>3, AppendProperties DEF Pipeline
<1>5. Append(pipeline[p].bus, message) \in Seq(InView \cup {Other})
  BY AppendProperties DEF ImportInv, TextsInv
<1> DEFINE line == [pipeline[p] EXCEPT !.bus = Append(@, message)]
<1>6. line \in Pipeline /\ line.bus = Append(pipeline[p].bus, message)
      /\ line.state = "playing" /\ line.watch = pipeline[p].watch
      /\ line.delivered = pipeline[p].delivered
  BY <1>1, <1>2, <1>4 DEF Pipeline
<1>7. pipeline' = [pipeline EXCEPT ![p] = line]
  BY <1>1, <1>2
<1> HIDE DEF line
<1>8. TypeOK'
  BY <1>1, <1>2, <1>6, <1>7 DEF ImportInv, TypeOK
<1>9. PipelinesInv'
  <2>1. PipelineSound(line)
    BY <1>6 DEF ImportInv, PipelinesInv, PipelineSound
  <2>2. QED
    BY <1>1, <1>2, <1>6, <1>7, <2>1 DEF ImportInv, PipelinesInv
<1>10. TextsInv'
  BY <1>1, <1>2, <1>5, <1>6, <1>7 DEF ImportInv, TextsInv, InView
<1>11. QED
  BY <1>1, <1>8, <1>9, <1>10 DEF ImportInv, ShownInv, Genuine

(* Handling takes one message off the bus; only a code ends the watch.     *)
LEMMA Handled ==
  ASSUME NEW line \in Pipeline, line.bus # <<>>
  PROVE  /\ handled(line) \in Pipeline
         /\ handled(line).bus = Tail(line.bus)
         /\ handled(line).state = line.state
         /\ handled(line).watch => ~is_code(Head(line.bus))
         /\ handled(line).delivered =
              IF is_code(Head(line.bus)) THEN line.delivered + 1 ELSE line.delivered
<1> DEFINE message == Head(line.bus)
           delivered == IF is_code(message) THEN line.delivered + 1 ELSE line.delivered
<1>1. Tail(line.bus) \in Seq(Code \cup {Other})
  BY HeadTailProperties DEF Pipeline
<1>2. watched(message) \in BOOLEAN
  BY DEF watched, is_code
<1>3. delivered \in Nat
  BY DEF Pipeline
<1>4. handled(line) = [line EXCEPT !.bus = Tail(line.bus), !.watch = watched(message),
                                   !.delivered = delivered]
  BY DEF handled
<1> HIDE DEF delivered
<1>5. handled(line) \in Pipeline
  BY <1>1, <1>2, <1>3, <1>4 DEF Pipeline
<1>6. /\ handled(line).bus = Tail(line.bus) /\ handled(line).state = line.state
      /\ handled(line).watch = watched(message) /\ handled(line).delivered = delivered
  BY <1>4 DEF Pipeline
<1>7. watched(message) => ~is_code(message)
  BY DEF watched
<1>8. QED
  BY <1>5, <1>6, <1>7 DEF delivered

(* A watch delivers once and goes; what it delivers was shown, or cannot   *)
(* be read.                                                                *)
LEMMA DispatchHolds ==
  ASSUME ImportInv, NEW p \in Scans, Dispatch(p)
  PROVE  ImportInv'
<1> DEFINE message == Head(pipeline[p].bus)
           line == handled(pipeline[p])
<1>1. /\ pipeline[p].watch /\ pipeline[p].bus # <<>>
      /\ pipeline' = [pipeline EXCEPT ![p] = line]
      /\ IF is_code(message)
         THEN /\ import_content' = message
              /\ accept' = TRUE
              /\ ledgers' = ledgers \cup accepted(message)
         ELSE UNCHANGED <<import_content, accept, ledgers>>
      /\ UNCHANGED <<shown, up, camera_list, selected, scan>>
  BY DEF Dispatch
<1>2. pipeline \in [Scans -> Pipeline] /\ pipeline[p] \in Pipeline
  BY DEF ImportInv, TypeOK
<1>3. InView \subseteq Code
  BY DEF ImportInv, TypeOK, InView, Code
<1>4. pipeline[p].bus \in Seq(InView \cup {Other})
  BY DEF ImportInv, TextsInv
<1>5. message \in InView \cup {Other} /\ Tail(pipeline[p].bus) \in Seq(InView \cup {Other})
  BY <1>1, <1>4, HeadTailProperties
<1>6. Tail(pipeline[p].bus) \in Seq(Code \cup {Other})
  BY <1>1, <1>2, HeadTailProperties DEF Pipeline
<1>7. is_code(message) => message \in InView
  BY <1>5 DEF is_code
<1>8. PipelineSound(pipeline[p]) /\ pipeline[p].state = "playing" /\ pipeline[p].delivered = 0
  BY <1>1 DEF ImportInv, PipelinesInv, PipelineSound
<1>9. /\ line \in Pipeline
      /\ line.bus = Tail(pipeline[p].bus) /\ line.state = pipeline[p].state
      /\ line.watch => ~is_code(message)
      /\ line.delivered = IF is_code(message) THEN 1 ELSE 0
  BY <1>1, <1>2, <1>8, Handled
<1>10. accepted(message) \subseteq {s.sent : s \in shown}
  BY <1>5, AcceptedSent DEF ImportInv
<1>11. {s.sent : s \in shown} \subseteq Payload
  BY DEF ImportInv, TypeOK
<1> HIDE DEF line, message
<1>12. TypeOK'
  BY <1>1, <1>2, <1>3, <1>7, <1>9, <1>10, <1>11 DEF ImportInv, TypeOK
<1>13. PipelinesInv'
  <2>1. PipelineSound(line)
    BY <1>8, <1>9 DEF PipelineSound
  <2>2. QED
    BY <1>1, <1>2, <1>9, <2>1 DEF ImportInv, PipelinesInv
<1>14. TextsInv'
  BY <1>1, <1>2, <1>5, <1>7, <1>9 DEF ImportInv, TextsInv, InView
<1>15. Genuine'
  BY <1>1, <1>10 DEF ImportInv, Genuine
<1>16. QED
  BY <1>1, <1>12, <1>13, <1>14, <1>15 DEF ImportInv, ShownInv

LEMMA TypeHolds ==
  ASSUME ImportInv, NEW text \in InView \cup {Nothing}, Type(text)
  PROVE  ImportInv'
<1>1. text \in Code \cup {Nothing}
  BY DEF ImportInv, TypeOK, InView, Code
<1>2. TypeOK'
  BY <1>1 DEF Type, ImportInv, TypeOK
<1>3. PipelinesInv' /\ TextsInv'
  BY DEF Type, ImportInv, PipelinesInv, TextsInv, InView
<1>4. QED
  BY <1>2, <1>3 DEF Type, ImportInv, ShownInv, Genuine

LEMMA AcceptHolds ==
  ASSUME ImportInv, Accept
  PROVE  ImportInv'
<1>1. accepted(import_content) \subseteq {s.sent : s \in shown}
  BY AcceptedSent DEF ImportInv, TextsInv
<1>2. {s.sent : s \in shown} \subseteq Payload
  BY DEF ImportInv, TypeOK
<1>3. TypeOK'
  BY <1>1, <1>2 DEF Accept, page, ImportInv, TypeOK
<1>4. PipelinesInv' /\ TextsInv'
  BY DEF Accept, page, ImportInv, PipelinesInv, TextsInv, InView
<1>5. Genuine'
  BY <1>1 DEF Accept, page, ImportInv, Genuine
<1>6. QED
  BY <1>3, <1>4, <1>5 DEF Accept, page, ImportInv, ShownInv

LEMMA StutterHolds ==
  ASSUME ImportInv, UNCHANGED vars
  PROVE  ImportInv'
BY DEF vars, page, ImportInv, TypeOK, ShownInv, PipelinesInv, TextsInv, InView, Genuine

LEMMA NextHolds ==
  ASSUME ImportInv, [Next]_vars
  PROVE  ImportInv'
<1>1. CASE \E dir \in Dir : Start(dir)
  BY <1>1, StartHolds
<1>2. CASE Stop
  BY <1>2, ClosedHolds DEF Stop
<1>3. CASE \E payload \in Payload : Show(payload)
  BY <1>3, ShownGrows DEF Show
<1>4. CASE \E text \in InView, whole \in BOOLEAN, signed \in Payload : CliSign(text, whole, signed)
  BY <1>4, ShownGrows DEF CliSign
<1>5. CASE \E i \in DOMAIN camera_list : ChooseCamera(i)
  BY <1>5, ChooseCameraHolds
<1>6. CASE \E p \in Scans, message \in InView \cup {Other} : Post(p, message)
  BY <1>6, PostHolds
<1>7. CASE \E p \in Scans : Dispatch(p)
  BY <1>7, DispatchHolds
<1>8. CASE \E text \in InView \cup {Nothing} : Type(text)
  BY <1>8, TypeHolds
<1>9. CASE Accept
  BY <1>9, AcceptHolds
<1>10. CASE UNCHANGED vars
  BY <1>10, StutterHolds
<1>11. QED
  BY <1>1, <1>2, <1>3, <1>4, <1>5, <1>6, <1>7, <1>8, <1>9, <1>10 DEF Next

-----------------------------------------------------------------------------
(* All conjuncts of ImportInv hold in every state of the application,      *)
(* whatever is shown, seen, typed and chosen, and wherever it ends.        *)
THEOREM Invariance == Spec => []ImportInv
<1>1. Init => ImportInv
  BY InitHolds
<1>2. ImportInv /\ [Next]_vars => ImportInv'
  BY NextHolds
<1>3. QED
  BY <1>1, <1>2, PTL DEF Spec

(* The page, its pipelines and what is shown keep their types.             *)
THEOREM TypeCorrect == Spec => []TypeOK
<1>1. ImportInv => TypeOK
  BY DEF ImportInv
<1>2. QED
  BY <1>1, Invariance, PTL

(* A scan imports at most once, however often its code is seen.            *)
THEOREM OnceSafe == Spec => []OncePerScan
<1>1. ImportInv => OncePerScan
  BY DEF ImportInv, PipelinesInv, PipelineSound, OncePerScan
<1>2. QED
  BY <1>1, Invariance, PTL

(* Only a message that is handled can raise the count of a pipeline, and   *)
(* only the pipeline that plays has messages.                              *)
LEMMA OnlyCurrentRises ==
  ASSUME ImportInv, [Next]_vars, NEW p \in Scans,
         pipeline'[p].delivered > pipeline[p].delivered
  PROVE  p = scan
<1>1. pipeline \in [Scans -> Pipeline] /\ pipeline[p].delivered \in Nat
  BY DEF ImportInv, TypeOK, Pipeline
<1>2. ~(pipeline'[p].delivered = 0)
  BY <1>1
<1>3. pipeline'[p].delivered # pipeline[p].delivered
  BY <1>1
<1>4. ASSUME NEW dir \in Dir, Start(dir) PROVE FALSE
  BY <1>2, <1>4, NoPipelineSound DEF Start, Opened
<1>5. ASSUME Closed PROVE FALSE
  BY <1>2, <1>5, NoPipelineSound DEF Closed
<1>6. ASSUME NEW i \in DOMAIN camera_list, ChooseCamera(i) PROVE FALSE
  <2>1. [NoPipeline EXCEPT !.state = "playing", !.watch = TRUE].delivered = 0
    BY DEF NoPipeline
  <2>2. scan_free(pipeline[p]).delivered = pipeline[p].delivered
    BY <1>1 DEF scan_free, Pipeline
  <2>3. QED
    BY <1>2, <1>3, <1>5, <1>6, <2>1, <2>2 DEF ChooseCamera
<1>7. ASSUME NEW q \in Scans, NEW message, Post(q, message) PROVE FALSE
  <2>1. [pipeline[p] EXCEPT !.bus = Append(@, message)].delivered = pipeline[p].delivered
    BY <1>1 DEF Pipeline
  <2>2. QED
    BY <1>1, <1>3, <1>7, <2>1 DEF Post
<1>8. ASSUME NEW q \in Scans, Dispatch(q) PROVE p = scan
  <2>1. p = q
    BY <1>1, <1>3, <1>8 DEF Dispatch
  <2>2. pipeline[p].bus # <<>>
    BY <1>8, <2>1 DEF Dispatch
  <2>3. QED
    BY <2>2 DEF ImportInv, PipelinesInv, PipelineSound
<1>9. ASSUME UNCHANGED pipeline PROVE FALSE
  BY <1>3, <1>9
<1>10. QED
  BY <1>4, <1>5, <1>6, <1>7, <1>8, <1>9
     DEF Next, vars, page, Stop, Show, CliSign, Type, Accept

(* What is accepted comes from the camera that is chosen: a pipeline that  *)
(* was stopped has nothing left on its bus for its watch.                  *)
THEOREM CurrentSafe == Spec => OnlyCurrent
<1>1. ImportInv /\ [Next]_vars =>
        [\A p \in Scans : pipeline'[p].delivered > pipeline[p].delivered => p = scan]_vars
  BY OnlyCurrentRises
<1>2. QED
  BY <1>1, Invariance, PTL DEF OnlyCurrent, Spec

(* What is shown, by a page or by the command line, is read again by both  *)
(* as the ledger that was sent in it, up to a compressed length of 567;    *)
(* whatever is longer is written past the end of the buffer.               *)
THEOREM RoundTripSafe == Spec => []RoundTrip
<1>1. ASSUME ImportInv, NEW s \in shown, NEW out_len \in {PageMax, KEE_CLI_BUFMAX}
      PROVE  IF Deflated[s.sent] <= LastRead
             THEN read_back(s, out_len) ELSE spilt(import(s.text))
  <2>1. s.text \in Text /\ s.sent \in Payload
    BY <1>1 DEF ImportInv, TypeOK
  <2>2. s.text = [cmd |-> "LEDGER", payload |-> s.sent]
    BY <1>1 DEF ImportInv, ShownInv
  <2>3. s.text.cmd = "LEDGER" /\ s.text.payload = s.sent
    BY <2>2
  <2>4. Length[s.sent] \in Nat
    BY <2>1, TransportAssumption
  <2>5. Length[s.sent] < 766
    <3>1. Length[s.sent] < KEE_TRANSPORT_CHUNK_MAX_SIZE - 2
      BY <1>1 DEF ImportInv, ShownInv
    <3>2. QED
      BY <2>4, <3>1 DEF KEE_TRANSPORT_CHUNK_MAX_SIZE
  <2>6. out_len \in {1024, 4096}
    BY <1>1 DEF PageMax, KEE_CLI_BUFMAX
  <2>7. Length[s.sent] + 1 <= out_len /\ out_len \in Nat
    BY <2>4, <2>5, <2>6
  <2>8. IF Deflated[s.sent] <= LastRead
        THEN readable(import(s.text), out_len) ELSE spilt(import(s.text))
    BY <2>1, <2>3, <2>7, ImportReads
  <2>9. kee_transport_read(import(s.text)) = [cmd |-> "LEDGER", payload |-> s.sent]
    BY <2>3, ImportHolds
  <2>10. QED
    BY <2>8, <2>9 DEF read_back
<1>2. ImportInv => RoundTrip
  BY <1>1 DEF RoundTrip
<1>3. QED
  BY <1>2, Invariance, PTL

(* Whatever is typed, scanned or read in pieces, only payloads that        *)
(* somebody sent are handed to the "ledger" action.                        *)
THEOREM GenuineSafe == Spec => []Genuine
<1>1. ImportInv => Genuine
  BY DEF ImportInv
<1>2. QED
  BY <1>1, Invariance, PTL

=============================================================================
