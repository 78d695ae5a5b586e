---------------------------- MODULE KeeTransport ----------------------------
(***************************************************************************)
(* struct kee_transport_t of transport.c, as the entry page, the import    *)
(* page and the command line use it: one object for one message, in text   *)
(* (the raw mode is used by tests only).                                   *)
(*                                                                         *)
(* Compression and base64 lose nothing, so a text is the command and the   *)
(* payload it was made from, if all of these were packed and all of the    *)
(* text is read again; everything else is Garbage.  That hangs on lengths: *)
(* the payload's own, that of command and payload when compressed, that of *)
(* the text, the room there is and what the object takes its length for.   *)
(***************************************************************************)
EXTENDS Integers

CONSTANTS
  Payload, Length, Deflated,
  Garbage,
  Nothing       \* what nothing was written into

KEE_TRANSPORT_CHUNK_MAX_SIZE == 768

Command == {"IMPORT", "LEDGER"}

Text == [cmd : Command, payload : Payload]

ASSUME TransportAssumption ==
  /\ Length \in [Payload -> Nat \ {0}]
  /\ Deflated \in [Payload -> Nat \ {0}]
  /\ Garbage \notin Text /\ Garbage \notin Payload
  /\ Nothing \notin Text \cup Payload \cup {Garbage}

(* base64 makes four characters of three bytes and a line of 72 of them;   *)
(* pack takes the last line's end off.                                     *)
encoded(n) == 4 * ((n + 2) \div 3) + n \div 54

(* How long Garbage is does not matter: it is not read either way.         *)
size(text) == IF text \in Text THEN encoded(Deflated[text.payload]) ELSE 0

\* For the mutation check: no length is taken for no room.
kee_transport_single_empty(cmd, len) ==
  [cmd |-> cmd, state |-> 0, crsr |-> 1, body |-> Nothing, at |-> 0, len |-> 0,
   data_len |-> len + 1]

kee_transport_single(cmd, len) ==
  [cmd |-> cmd, state |-> 0, crsr |-> 1, body |-> Nothing, at |-> 0, len |-> 0,
   data_len |-> IF len = 0 THEN KEE_TRANSPORT_CHUNK_MAX_SIZE ELSE len + 1]

(* The body goes where the cursor is, whether or not there is room. *)
kee_transport_write(trans, body, len) ==
  IF trans.state # 0 THEN trans
  ELSE [trans EXCEPT !.body = body, !.at = trans.crsr, !.len = len, !.crsr = @ + len]

(* What is written past the buffer is written over the length behind it:   *)
(* the behaviour is undefined from there on.                               *)
spilt(trans) == trans.at + trans.len > KEE_TRANSPORT_CHUNK_MAX_SIZE

(* The body lies in the n bytes from there. *)
covered(trans, from, n) == from <= trans.at /\ trans.at + trans.len <= from + n

(* The first call fixes the length.                                        *)
begun(trans) ==
  IF trans.state # 0 THEN trans
  ELSE [trans EXCEPT !.data_len = trans.crsr, !.crsr = 0, !.state = 1]

remaining(trans) == begun(trans).data_len - begun(trans).crsr

(* Whatever is as long as the buffer or does not fit compressed into what  *)
(* the caller says it has is refused.                                      *)
Fits(trans, out_len) ==
  /\ ~spilt(trans)
  /\ remaining(trans) < KEE_TRANSPORT_CHUNK_MAX_SIZE - 1
  /\ Deflated[trans.body] <= out_len

kee_transport_next(trans) ==
  IF covered(trans, 0, remaining(trans))
  THEN [cmd |-> trans.cmd, payload |-> trans.body] ELSE Garbage

(* What an import reads it takes the command off. *)
start(trans) == IF trans.cmd = "IMPORT" THEN 1 ELSE 0

(* The zeroes behind the text are no part of it, and neither is what       *)
(* inflate does not ask for.                                               *)
readable(trans, out_len) ==
  /\ ~spilt(trans)
  /\ trans.body \in Text /\ covered(trans, start(trans), trans.data_len)
  /\ Length[trans.body.payload] + 1 <= out_len

kee_transport_read(trans) ==
  [cmd |-> IF trans.cmd = "IMPORT" THEN trans.body.cmd ELSE trans.cmd,
   payload |-> trans.body.payload]

-----------------------------------------------------------------------------
(* The two ways in which the program uses it. *)
exported(payload) ==
  kee_transport_write(kee_transport_single("LEDGER", Length[payload]), payload, Length[payload])

import(text) == kee_transport_write(kee_transport_single("IMPORT", 0), text, size(text))
=============================================================================
