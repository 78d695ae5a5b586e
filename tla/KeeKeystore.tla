----------------------------- MODULE KeeKeystore -----------------------------
(***************************************************************************)
(* The key store of gpg.c: a directory of encrypted key files with the     *)
(* link kee.key to the main one, and the processes that use it.  Programs  *)
(* that make keys (gpg_key_create) share it with programs that unlock the  *)
(* main key (gpg_store_check) and sign with it.                            *)
(*                                                                         *)
(* A key file is named by the fingerprint of its key, so files, keys and   *)
(* fingerprints are all elements of Key.  What encrypts a file is a secret *)
(* of 32 bytes: gpg_key_create takes one, gpg_store_check takes a          *)
(* passphrase, whose digest is one.  Nothing authenticates what is         *)
(* decrypted: with another secret it is noise, which is not a key.         *)
(***************************************************************************)
EXTENDS Integers

CONSTANTS
  Key, Secret, Passphrase,
  gpg_store_digest,     \* of each passphrase its secret
  App,          \* processes that unlock and sign: the application
  Maker,        \* processes that make keys
  KeySize,      \* the size of a key's expression
  NoKey, NoSecret,
  Freed         \* what a pointer to a released key points to

ENCRYPT_BLOCKSIZE == 4096
ReadSize == 1024
LengthSize == 4

(* The expression of a key and its length lie in what one read returns.    *)
ASSUME KeystoreAssumption ==
  /\ NoKey \notin Key /\ Freed \notin Key /\ NoKey # Freed
  /\ NoSecret \notin Secret
  /\ gpg_store_digest \in [Passphrase -> Secret]
  /\ \A a, b \in Passphrase : gpg_store_digest[a] = gpg_store_digest[b] => a = b
  /\ App \cap Maker = {}
  /\ KeySize \in Nat \ {0} /\ KeySize + LengthSize <= ReadSize

VARIABLES
  files,        \* of each key its file: the blocks that are on disk, the secret,
                \* and whether the disk refused what was to follow
  link,         \* the key that kee.key leads to
  gpg,          \* of each process its struct gpg_store
  proc,         \* of each process the handler that runs, and whether it is unlocked
  signatures    \* made so far: the signer, and the key that the head names

vars == <<files, link, gpg, proc, signatures>>

Process == App \cup Maker

get_padsize(insize, blocksize) == ((insize + blocksize) \div blocksize) * blocksize

(* What a complete key file has. *)
Blocks == get_padsize(KeySize, ENCRYPT_BLOCKSIZE) \div ReadSize

NoFile == [blocks |-> -1, secret |-> NoSecret, cut |-> FALSE]

TypeOK ==
  /\ files \in [Key -> [blocks : -1 .. Blocks, secret : Secret \cup {NoSecret},
                         cut : BOOLEAN]]
  /\ link \in Key \cup {NoKey}
  /\ gpg \in [Process -> [k : Key \cup {NoKey, Freed}, fingerprint : Key \cup {NoKey},
                          public_key : Key \cup {NoKey}]]
  /\ proc \in [Process -> [at : {"down", "aborted", "idle", "write", "unlink", "symlink"},
                           unlocked : Secret \cup {NoSecret}]]
  /\ signatures \in SUBSET [signer : Key \cup {NoKey, Freed}, alice : Key \cup {NoKey}]

-----------------------------------------------------------------------------
(* key_from_file reads as many whole blocks as there are, at least one, and *)
(* ignores whether they make a key: gcry_sexp_new leaves none then.         *)
readable(name) == name # NoKey /\ files[name].blocks > 0

\* For the mutation check: noise is taken for a key.
key_from_file_noise(name, secret) == name

key_from_file(name, secret) == IF files[name].secret = secret THEN name ELSE NoKey

\* For the mutation check: the fingerprint is that of the key before.
keygrip_before(g, k) == [g EXCEPT !.k = k, !.fingerprint = g.k]

(* key_from_file and gcry_pk_get_keygrip have set these ... *)
keygrip(g, k) == [g EXCEPT !.k = k, !.fingerprint = k]

(* ... when key_apply_public sets this, or fails. *)
key_apply_public(g, k) == [g EXCEPT !.public_key = k]

(* The ways in which a load can end.  A key file that is missing fails     *)
(* like one that does not decrypt.                                         *)
gpg_key_load(g, name, secret) ==
  LET k == key_from_file(name, secret)
  IN  IF ~readable(name) THEN {[result |-> "KEYFAIL", gpg |-> g]}
      ELSE IF k = NoKey THEN {[result |-> "KEYFAIL", gpg |-> [g EXCEPT !.k = NoKey]]}
      ELSE {[result |-> "FAIL", gpg |-> keygrip(g, k)],
            [result |-> "OK", gpg |-> key_apply_public(keygrip(g, k), k)]}

-----------------------------------------------------------------------------
(* gpg_store_init *)
NoStore == [k |-> NoKey, fingerprint |-> NoKey, public_key |-> NoKey]
Down == [at |-> "down", unlocked |-> NoSecret]

Init ==
  /\ files = [k \in Key |-> NoFile]
  /\ link = NoKey
  /\ gpg = [p \in Process |-> NoStore]
  /\ proc = [p \in Process |-> Down]
  /\ signatures = {}

Start(p) ==
  /\ proc[p].at \in {"down", "aborted"}
  /\ proc' = [proc EXCEPT ![p].at = "idle"]
  /\ UNCHANGED <<files, link, gpg, signatures>>

Gone(p, at) ==
  /\ proc' = [proc EXCEPT ![p] = [Down EXCEPT !.at = at]]
  /\ gpg' = [gpg EXCEPT ![p] = NoStore]
  /\ UNCHANGED <<files, link, signatures>>

(* A process is stopped, or ends by an error before the key file is there  *)
(* or in unlink.                                                           *)
Stop(p) == proc[p].at \notin {"down", "aborted"} /\ Gone(p, "down")

-----------------------------------------------------------------------------
(* key_create and key_create_file, up to the open file: the key is new, and *)
(* so is the file with its name.  The store takes over its fingerprint and  *)
(* its public key, and not the key.                                         *)
Create(p, secret) ==
  /\ proc[p].at = "idle" /\ p \in Maker
  /\ \E k \in Key :
       /\ files[k] = NoFile
       /\ files' = [files EXCEPT ![k] = [blocks |-> 0, secret |-> secret, cut |-> FALSE]]
       /\ gpg' = [gpg EXCEPT ![p].fingerprint = k, ![p].public_key = k]
  /\ proc' = [proc EXCEPT ![p].at = "write"]
  /\ UNCHANGED <<link, signatures>>

\* For the mutation check: the link is made while the file is written.
written_some(b) == b \in 0 .. Blocks

written(b) == b = Blocks

(* What is written reaches the disk with the buffer of the file, the rest  *)
(* when it is closed.  A write that is refused, at the latest by fclose,   *)
(* ends the loop, too, and nobody notices: gpg_key_create makes the link.  *)
Write(p) ==
  /\ proc[p].at = "write"
  /\ LET file == files[gpg[p].fingerprint]
     IN  \E b \in file.blocks .. Blocks, cut \in {file.cut, TRUE} :
           /\ cut => b < Blocks
           /\ files' = [files EXCEPT ![gpg[p].fingerprint] =
                          [blocks |-> b, secret |-> file.secret, cut |-> cut]]
           /\ proc' = IF written(b) \/ cut THEN [proc EXCEPT ![p].at = "unlink"] ELSE proc
  /\ UNCHANGED <<link, gpg, signatures>>

Unlink(p) ==
  /\ proc[p].at = "unlink"
  /\ link' = NoKey
  /\ proc' = [proc EXCEPT ![p].at = "symlink"]
  /\ UNCHANGED <<files, gpg, signatures>>

(* symlink fails if another process was faster: that is an error, by which *)
(* its maker ends.                                                         *)
Symlink(p) ==
  /\ proc[p].at = "symlink"
  /\ IF link = NoKey
     THEN /\ link' = gpg[p].fingerprint
          /\ proc' = [proc EXCEPT ![p].at = "idle"]
          /\ UNCHANGED <<files, gpg, signatures>>
     ELSE Gone(p, "down")

(* A maker loads a key by its fingerprint, or the main one, and ends if it *)
(* cannot.                                                                 *)
Find(p, name, secret) ==
  /\ proc[p].at = "idle" /\ p \in Maker
  /\ \E load \in gpg_key_load(gpg[p], name, secret) :
       IF load.result = "OK"
       THEN /\ gpg' = [gpg EXCEPT ![p] = load.gpg]
            /\ UNCHANGED <<files, link, proc, signatures>>
       ELSE Gone(p, "down")

-----------------------------------------------------------------------------
(* kee_key_handle_unlock_click with gpg_store_check, until it succeeds.    *)
(* Whatever fails is first logged as an error, and debug_log of the        *)
(* application makes that a fatal one: neither is a passphrase refused nor *)
(* a key made.                                                             *)
Unlock(p, passphrase) ==
  /\ proc[p].at = "idle" /\ p \in App /\ proc[p].unlocked = NoSecret
  /\ \E load \in gpg_key_load(gpg[p], link, gpg_store_digest[passphrase]) :
       IF load.result = "OK"
       THEN /\ gpg' = [gpg EXCEPT ![p] = load.gpg]
            /\ proc' = [proc EXCEPT ![p].unlocked = gpg_store_digest[passphrase]]
            /\ UNCHANGED <<files, link, signatures>>
       ELSE Gone(p, "aborted")

\* For the mutation check: whatever key is the main one signs.
signing_key_main(p) == link

signing_key(p) == gpg[p].fingerprint

(* The head names the public key of the store; gpg_store_sign_with loads   *)
(* the key of its fingerprint, signs and releases it.  Who cannot sign     *)
(* ends, the application by the log of the failure.                        *)
Sign(p, secret) ==
  /\ proc[p].at = "idle"
  /\ \E load \in gpg_key_load(gpg[p], signing_key(p), secret) :
       IF load.result = "OK"
       THEN /\ signatures' = signatures \cup
                 {[signer |-> load.gpg.k, alice |-> gpg[p].public_key]}
            /\ gpg' = [gpg EXCEPT ![p] = [load.gpg EXCEPT !.k = Freed]]
            /\ UNCHANGED <<files, link, proc>>
       ELSE Gone(p, IF p \in App THEN "aborted" ELSE "down")

(* kee_entry_handle_add and kee_entry_handle_confirm ask for the passphrase *)
(* again.                                                                  *)
SignEntry(p, passphrase) ==
  p \in App /\ proc[p].unlocked # NoSecret /\ Sign(p, gpg_store_digest[passphrase])

Next ==
  \E p \in Process :
    \/ Start(p) \/ Stop(p) \/ Write(p) \/ Unlink(p) \/ Symlink(p)
    \/ \E passphrase \in Passphrase : Unlock(p, passphrase) \/ SignEntry(p, passphrase)
    \/ \E secret \in Secret :
         \/ Create(p, secret)
         \/ p \in Maker /\ Sign(p, secret)
         \/ \E name \in Key \cup {link} : Find(p, name, secret)

Spec == Init /\ [][Next]_vars

-----------------------------------------------------------------------------
(* However many processes make keys and wherever they stop, kee.key leads  *)
(* to a key file that is not complete only if the disk refused a part of   *)
(* it, which key_create_file does not notice: the link is made last.       *)
LinkLeads == link # NoKey => files[link].blocks = Blocks \/ files[link].cut

(* Who is named as alice in a head has signed it, also if kee.key was made *)
(* to lead elsewhere after the process was unlocked.                       *)
SignerIsAlice == \A s \in signatures : s.signer = s.alice

(* An application that is unlocked can sign with the passphrase that       *)
(* unlocked it, and with no other.                                         *)
UnlockedSigns ==
  \A p \in App, passphrase \in Passphrase : proc[p].unlocked # NoSecret =>
    ((\E load \in gpg_key_load(gpg[p], gpg[p].fingerprint, gpg_store_digest[passphrase]) :
        load.result = "OK")
       <=> gpg_store_digest[passphrase] = proc[p].unlocked)

(* The following is meant by the program and is not so.                    *)

(* A passphrase that does not unlock the key is refused, and the           *)
(* application goes on.                                                    *)
WrongIsRefused == \A p \in App : proc[p].at # "aborted"
=============================================================================
