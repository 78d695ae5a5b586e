------------------------------ MODULE KeeContent ------------------------------
(***************************************************************************)
(* The content that the body key of a head or item stands for              *)
(* (content.c, cadir.c): a file named by the key, read into one buffer,    *)
(* with the subject of the message in it copied behind what was read.  A   *)
(* ledger's page resolves its head once and an item every time a row is    *)
(* made for it (gtk/kee-entry-item.c), each time into what is left.        *)
(*                                                                         *)
(* A byte of the file is its place in the file.  The letters of the        *)
(* subject are `subject' bytes of the file from place `head' on.  Sizes    *)
(* are numbers below Word, and subtraction wraps.  A key of 64 zero bytes  *)
(* is never resolved and is left out.                                      *)
(***************************************************************************)
EXTENDS Integers

CONSTANTS
  Size,         \* of the buffer: KEE_CONTENT_DEFAULT_SIZE
  Word,         \* the number of values of a size_t
  Most,         \* the count up to which an empty file is resolved
  Message,      \* the files there may be: [length, head, subject]
  NUL,          \* the byte that ends a string
  Unset,        \* a byte that malloc found
  NULL          \* no subject

(* A message has a subject, with at least as many bytes of header before   *)
(* it; a file may also be empty.                                           *)
ASSUME ContentAssumption ==
  /\ Size \in Nat /\ Word \in Nat /\ Most \in Nat
  /\ 2 <= Size /\ Size <= Most /\ 2 * Most < Word
  /\ Message \subseteq [length : Nat, head : Nat, subject : Nat]
  /\ \A m \in Message :
       /\ 2 * m.length < Word
       /\ 1 <= m.subject /\ m.subject <= m.head
       /\ m.length = 0 \/ m.head + m.subject <= m.length
  /\ NUL \notin Nat /\ Unset \notin Nat /\ NUL # Unset
  /\ NULL \notin Int

VARIABLES
  message,      \* what the key stands for
  file,         \* whether it is in the directory
  mem_size,     \* what the program takes to be left of the buffer
  mem,
  subject,      \* where it is in the buffer
  flags,
  outside       \* something was written that is not in the buffer

vars == <<message, file, mem_size, mem, subject, flags, outside>>

Flags == {"RESOLVED", "DATA", "BODY", "SUBJECT"}

Byte == Nat \cup {NUL, Unset}

TypeOK ==
  /\ message \in Message
  /\ file \in BOOLEAN
  /\ mem_size \in 0 .. Word - 1
  /\ mem \in [0 .. Size - 1 -> Byte]
  /\ subject \in (0 .. Word - 1) \cup {NULL}
  /\ flags \in SUBSET Flags
  /\ outside \in BOOLEAN

(* kee_content_init *)
Init ==
  /\ message \in Message
  /\ file \in BOOLEAN
  /\ mem_size = Size
  /\ mem = [i \in 0 .. Size - 1 |-> Unset]
  /\ subject = NULL
  /\ flags = {}
  /\ outside = FALSE

-----------------------------------------------------------------------------
minus(a, b) == IF b <= a THEN a - b ELSE a - b + Word

least(a, b) == IF a <= b THEN a ELSE b

\* For the mutation check: no room is kept for the byte that ends the data.
room_full == mem_size

(* The room that the file is read into. *)
room == minus(mem_size, 1)

(* cadiz_resolve: the number of bytes read, which nobody checks.  The only *)
(* failure of read here is that of a room beyond the sizes it allows.      *)
Failed == minus(0, 1)
cadiz_resolve == IF 2 * room < Word THEN least(message.length, room) ELSE Failed

(* n bytes of the file from place p on, as a string. *)
text(p, n) == [j \in 0 .. n |-> IF j = n THEN NUL ELSE p + j]

(* The buffer with a string at a place; what is not in it is lost. *)
written(at, string, buffer) ==
  [i \in 0 .. Size - 1 |->
     IF at <= i /\ i - at \in DOMAIN string THEN string[i - at] ELSE buffer[i]]

(* What the parser may find after k bytes were read: the number of letters *)
(* of a subject, or that this is no message.  Of a file that was cut it    *)
(* may take what is there, and after a failure what was there before.      *)
NoMessage == 0
parsed(k) ==
  IF k = message.length /\ k > 0
  THEN {message.subject}
  ELSE {NoMessage} \cup {n \in {least(message.subject, k - message.head)} : n > 0}

\* For the mutation check: what an earlier resolution found stays flagged;
\* room for one more byte is asked for; what was not copied is taken off.
resolved_flags_kept(n, fits) ==
  flags \cup {"RESOLVED", "DATA"}
    \cup {f \in {"BODY"} : n # NoMessage} \cup {f \in {"SUBJECT"} : fits}
subject_fits_strict(n, left) == n # NoMessage /\ n + 1 < left
kept_always(left, n, fits) == left - (n + 1)

(* The flags are set anew by each resolution. *)
resolved_flags(n, fits) ==
  {"RESOLVED", "DATA"}
    \cup {f \in {"BODY"} : n # NoMessage} \cup {f \in {"SUBJECT"} : fits}

(* Whether n letters and the byte that ends them can be copied. *)
subject_fits(n, left) == n # NoMessage /\ n + 1 <= left

(* What is left when they were. *)
kept(left, n, fits) == IF fits THEN left - (n + 1) ELSE left

(* kee_content_resolve.  The length of what was read is decremented before *)
(* it is taken off, so that the subject lies on its last byte, and an      *)
(* empty file adds to what is left.                                        *)
Resolve ==
  /\ file
  /\ mem_size <= Most
  /\ \E n \in parsed(cadiz_resolve) :
       LET k == cadiz_resolve
           c == minus(k, 1)
           left == minus(mem_size, c)
           fits == subject_fits(n, left)
           read == IF k = Failed THEN mem ELSE written(0, text(0, k), mem)
       IN  /\ flags' = resolved_flags(n, fits)
           /\ mem_size' = kept(left, n, fits)
           /\ subject' = IF fits THEN c ELSE subject
           /\ mem' = IF fits THEN written(c, text(message.head, n), read) ELSE read
           /\ outside' = (outside \/ k >= Size \/ (fits /\ c + n >= Size))
  /\ UNCHANGED <<message, file>>

(* There is no such file. *)
Miss ==
  /\ ~file
  /\ flags' = {"RESOLVED"}
  /\ UNCHANGED <<message, file, mem_size, mem, subject, outside>>

(* Files come and go; what is in them is what their name is the digest of. *)
Change ==
  /\ file' = ~file
  /\ UNCHANGED <<message, mem_size, mem, subject, flags, outside>>

Next == Resolve \/ Miss \/ Change

Spec == Init /\ [][Next]_vars

-----------------------------------------------------------------------------
(* What is at a place of the buffer is a string. *)
Reads(at, string) ==
  /\ at # NULL
  /\ \A j \in DOMAIN string : at + j \in 0 .. Size - 1 /\ mem[at + j] = string[j]

(* As long as some of the buffer is left, however often a content was      *)
(* resolved and however long its file is, a resolution writes to nothing   *)
(* else.                                                                   *)
InsideWhileRoom == [][0 < mem_size => outside' = outside]_vars

(* The flag of the subject never outlives it: as long as it is set and     *)
(* every string is in the buffer, what is read as the subject are letters  *)
(* of the subject, from the first on.                                      *)
FlagTells ==
  "SUBJECT" \in flags /\ ~outside =>
    \E n \in 1 .. message.subject : Reads(subject, text(message.head, n))

(* While there is room for the file and its subject, a resolution finds    *)
(* all there is and shows the whole subject, wherever earlier ones wrote.  *)
WholeShown == flags = Flags /\ Reads(subject, text(message.head, message.subject))
WholeWhileRoom ==
  [][Resolve /\ 0 < message.length /\ message.length + message.subject <= mem_size
       => WholeShown']_vars
=============================================================================
