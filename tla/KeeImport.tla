------------------------------ MODULE KeeImport ------------------------------
(***************************************************************************)
(* One application's import page, with the pipelines that scan for codes   *)
(* while its handlers run, the text in it and the import button; and what  *)
(* there is to be scanned or pasted: transports that this or another       *)
(* application shows, and those that the command line signer writes.       *)
(*                                                                         *)
(* A pipeline posts messages on its bus from a thread of its own; the main *)
(* loop hands them to the watch, one at a time.  What the "ledger" action  *)
(* does with a payload is the subject of KeeExchange.                      *)
(***************************************************************************)
EXTENDS KeeTransport, Sequences, FiniteSets

CONSTANTS
  Dir,          \* what /dev may hold: sequences of "capture", "other", "closed"
  Other,        \* a message that is no code
  MaxScans,     \* bound: pipelines in a life of the application
  MaxBus        \* bound: messages that wait on a bus

KEE_CLI_BUFMAX == 4096
PageMax == 1024

ASSUME ImportAssumption ==
  /\ \A dir \in Dir : dir \in Seq({"capture", "other", "closed"})
  /\ Other \notin Text \cup {Garbage}
  /\ MaxScans \in Nat /\ MaxBus \in Nat

VARIABLES
  shown,            \* transports made so far, each with what was sent in it
  up,               \* the application runs
  camera_list, selected,    \* of the camera chooser
  scan,             \* the pipeline of the page, 0 if it has none
  pipeline,         \* of each scan its pipeline, bus, watch and codes delivered
  import_content,   \* the text
  accept,           \* import_data_accept is enabled
  ledgers           \* payloads that were handed to the "ledger" action

page == <<camera_list, selected, scan, pipeline, import_content, accept>>
vars == <<shown, up, page, ledgers>>

Scans == 1 .. MaxScans
Code == Text \cup {Garbage}
NoPipeline == [state |-> "none", bus |-> <<>>, watch |-> FALSE, delivered |-> 0]

Pipeline ==
  [state : {"none", "playing", "null"}, bus : Seq(Code \cup {Other}),
   watch : BOOLEAN, delivered : Nat]

TypeOK ==
  /\ shown \subseteq [sent : Payload, text : Text]
  /\ up \in BOOLEAN
  /\ camera_list \in Seq({"capture", ""})
  /\ selected \in 0 .. Len(camera_list)
  /\ scan \in 0 .. MaxScans
  /\ pipeline \in [Scans -> Pipeline]
  /\ import_content \in Code \cup {Nothing}
  /\ accept \in BOOLEAN
  /\ ledgers \subseteq Payload

-----------------------------------------------------------------------------
(* kee_camera_scan goes on after each camera with a new entry of the list, *)
(* so the last one is a device without name; unless a device could not be  *)
(* opened, which ends the list.                                            *)
kee_camera_scan(dir) ==
  LET known == {i \in DOMAIN dir : \A j \in 1 .. i : dir[j] # "closed"}
      found == {i \in known : dir[i] = "capture"}
      cameras == [n \in 1 .. Cardinality(found) |-> "capture"]
  IN  IF known = DOMAIN dir THEN Append(cameras, "") ELSE cameras

(* The chooser starts with the first one selected, which is no change. *)
Opened(dir) ==
  /\ up' = TRUE
  /\ camera_list' = kee_camera_scan(dir)
  /\ selected' = IF kee_camera_scan(dir) = <<>> THEN 0 ELSE 1
  /\ scan' = 0
  /\ pipeline' = [p \in Scans |-> NoPipeline]
  /\ import_content' = Nothing
  /\ accept' = FALSE

Closed ==
  /\ up' = FALSE
  /\ camera_list' = <<>> /\ selected' = 0
  /\ scan' = 0
  /\ pipeline' = [p \in Scans |-> NoPipeline]
  /\ import_content' = Nothing
  /\ accept' = FALSE

Init ==
  /\ shown = {} /\ ledgers = {}
  /\ up = FALSE
  /\ camera_list = <<>> /\ selected = 0
  /\ scan = 0
  /\ pipeline = [p \in Scans |-> NoPipeline]
  /\ import_content = Nothing
  /\ accept = FALSE

Start(dir) == ~up /\ Opened(dir) /\ UNCHANGED <<shown, ledgers>>

(* The end of the process, also by a code whose string did not survive the *)
(* signal that hands it on.                                                *)
Stop == up /\ Closed /\ UNCHANGED <<shown, ledgers>>

-----------------------------------------------------------------------------
(* "add" and "confirm" on an entry page, here or elsewhere.  The room for  *)
(* the compressed message is taken to be the length of the message itself; *)
(* there must be room for the text, too, and the end of its last line,     *)
(* which nobody checks.  What does not fit is an error, which ends the     *)
(* application (Stop).                                                     *)
Show(payload) ==
  /\ Fits(exported(payload), Length[payload])
  /\ encoded(Deflated[payload]) < PageMax
  /\ shown' = shown \cup {[sent |-> payload, text |-> kee_transport_next(exported(payload))]}
  /\ UNCHANGED <<up, page, ledgers>>

(* A file that comes in more than one piece is read over itself. *)
read_file(text, whole) == IF whole THEN text ELSE Garbage

(* kee-sign -y, which does not look at the command: the payload becomes    *)
(* another one.                                                            *)
CliSign(text, whole, signed) ==
  /\ readable(import(read_file(text, whole)), KEE_CLI_BUFMAX)
  /\ Fits(exported(signed), KEE_CLI_BUFMAX)
  /\ shown' = shown \cup {[sent |-> signed, text |-> kee_transport_next(exported(signed))]}
  /\ UNCHANGED <<up, page, ledgers>>

-----------------------------------------------------------------------------
\* For the mutation check: the old pipeline goes on.
scan_free_playing(p) == [p EXCEPT !.bus = <<>>]

(* A pipeline that is stopped flushes its bus.  The watch stays. *)
scan_free(p) == [p EXCEPT !.state = "null", !.bus = <<>>]

(* Another camera is chosen.  The last entry of the list is no device: the *)
(* pipeline does not start, which is an error that ends the application.   *)
ChooseCamera(i) ==
  /\ up /\ i # selected
  /\ UNCHANGED <<shown, ledgers>>
  /\ IF camera_list[i] = ""
     THEN Closed
     ELSE /\ scan < MaxScans
          /\ selected' = i
          /\ scan' = scan + 1
          /\ pipeline' = [p \in Scans |->
               IF p = scan + 1 THEN [NoPipeline EXCEPT !.state = "playing", !.watch = TRUE]
               ELSE IF p = scan THEN scan_free(pipeline[p]) ELSE pipeline[p]]
          /\ UNCHANGED <<up, camera_list, import_content, accept>>

(* The pipeline's own thread: it changes state, or sees a code. *)
Post(p, message) ==
  /\ pipeline[p].state = "playing" /\ Len(pipeline[p].bus) < MaxBus
  /\ pipeline' = [pipeline EXCEPT ![p].bus = Append(@, message)]
  /\ UNCHANGED <<shown, up, camera_list, selected, scan, import_content, accept, ledgers>>

\* For the mutation check: a text that cannot be read leaves the buffer as
\* it was on the stack.
accepted_anyhow(text) == IF readable(import(text), PageMax) THEN {text.payload} ELSE Payload

(* kee_import_handle_import_data_accept.  A text that is written over the  *)
(* length has megabytes decoded, from beyond the stack and into a buffer   *)
(* of PageMax: the process ends (Stop), or nothing is read.                *)
accepted(text) ==
  IF readable(import(text), PageMax) /\ kee_transport_read(import(text)).cmd = "LEDGER"
  THEN {kee_transport_read(import(text)).payload} ELSE {}

\* For the mutation check: the watch stays; it goes with any message; every
\* message is taken for a code.
watched_still(message) == TRUE
watched_once(message) == FALSE
is_code_any(message) == TRUE

is_code(message) == message # Other

(* What kee_import_scan_code_handler answers. *)
watched(message) == ~is_code(message)

handled(line) ==
  LET message == Head(line.bus)
  IN  [line EXCEPT !.bus = Tail(@), !.watch = watched(message),
                   !.delivered = IF is_code(message) THEN @ + 1 ELSE @]

(* The main loop hands a message to the watch.  A code is put in the text  *)
(* and accepted at once.                                                   *)
Dispatch(p) ==
  /\ pipeline[p].watch /\ pipeline[p].bus # <<>>
  /\ LET message == Head(pipeline[p].bus)
     IN  /\ pipeline' = [pipeline EXCEPT ![p] = handled(@)]
         /\ IF is_code(message)
            THEN /\ import_content' = message
                 /\ accept' = TRUE
                 /\ ledgers' = ledgers \cup accepted(message)
            ELSE UNCHANGED <<import_content, accept, ledgers>>
  /\ UNCHANGED <<shown, up, camera_list, selected, scan>>

(* The text can be edited at any time, the button needs a first scan. *)
Type(text) ==
  /\ up
  /\ import_content' = text
  /\ UNCHANGED <<shown, up, camera_list, selected, scan, pipeline, accept, ledgers>>

Accept ==
  /\ up /\ accept
  /\ ledgers' = ledgers \cup accepted(import_content)
  /\ UNCHANGED <<shown, up, page>>

-----------------------------------------------------------------------------
InView == {s.text : s \in shown} \cup {Garbage}

Next ==
  \/ \E dir \in Dir : Start(dir)
  \/ Stop
  \/ \E payload \in Payload : Show(payload)
  \/ \E text \in InView, whole \in BOOLEAN, signed \in Payload : CliSign(text, whole, signed)
  \/ \E i \in DOMAIN camera_list : ChooseCamera(i)
  \/ \E p \in Scans, message \in InView \cup {Other} : Post(p, message)
  \/ \E p \in Scans : Dispatch(p)
  \/ \E text \in InView \cup {Nothing} : Type(text)
  \/ Accept

(* The main loop does not leave a message on a bus whose watch is attached; *)
(* everything else may never happen.                                       *)
Spec == Init /\ [][Next]_vars /\ \A p \in Scans : WF_vars(Dispatch(p))

-----------------------------------------------------------------------------
(* However often a code is seen while it is held before the camera, a scan *)
(* imports once: the handler removes its own watch with the first code.    *)
OncePerScan == \A p \in Scans : pipeline[p].delivered <= 1

(* A code that the camera before has seen is not accepted any more, though *)
(* nothing removes the watch of its bus.                                   *)
OnlyCurrent == [][\A p \in Scans : pipeline'[p].delivered > pipeline[p].delivered => p = scan]_vars

(* Every transport that is shown is read as the ledger that was sent, by   *)
(* the page and by the command line, if it compresses to no more than      *)
(* LastRead bytes: the text must fit into the buffer that the message      *)
(* itself was packed from, and nothing looks at its length on either side. *)
(* The first longer one is shown all the same, and written past the end.   *)
(* The program's own messages are shorter.                                 *)
LastRead == 567

read_back(s, out_len) ==
  readable(import(s.text), out_len) /\
    kee_transport_read(import(s.text)) = [cmd |-> "LEDGER", payload |-> s.sent]

RoundTrip ==
  \A s \in shown :
    IF Deflated[s.sent] <= LastRead
    THEN read_back(s, PageMax) /\ read_back(s, KEE_CLI_BUFMAX)
    ELSE spilt(import(s.text))

(* Only what somebody sent comes in, whatever is typed, scanned or read in *)
(* pieces.                                                                 *)
Genuine == ledgers \subseteq {s.sent : s \in shown}

(* A code that is seen is accepted, unless another camera is chosen or the *)
(* application ends before: messages that are no codes do not end a scan.  *)
Sees(p) == pipeline[p].watch /\ \E i \in DOMAIN pipeline[p].bus : pipeline[p].bus[i] # Other

ScanEnds ==
  \A p \in Scans : Sees(p) ~> (pipeline[p].delivered > 0 \/ pipeline[p].state # "playing")
=============================================================================
