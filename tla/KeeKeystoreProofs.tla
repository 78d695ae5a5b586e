------------------------- MODULE KeeKeystoreProofs -------------------------
(***************************************************************************)
(* Proofs about KeeKeystore, for any keys, secrets and processes that      *)
(* satisfy KeystoreAssumption.                                             *)
(***************************************************************************)
EXTENDS KeeKeystore, TLAPS

(* The loop of key_create_file that wrote the file has ended.              *)
Written(k) == files[k].blocks = Blocks \/ files[k].cut

(* What holds of a process by itself: at each step of making a key how     *)
(* much of its file there is; once unlocked, that its key can be loaded.   *)
MakesKey(p) ==
  /\ p \in App => proc[p].at \in {"down", "aborted", "idle"}
  /\ proc[p].at = "write" =>
       gpg[p].fingerprint \in Key /\ files[gpg[p].fingerprint].blocks >= 0
  /\ proc[p].at \in {"unlink", "symlink"} =>
       gpg[p].fingerprint \in Key /\ Written(gpg[p].fingerprint)

HoldsKey(p) ==
  p \in App /\ proc[p].unlocked # NoSecret =>
    /\ gpg[p].fingerprint \in Key
    /\ files[gpg[p].fingerprint].blocks > 0
    /\ files[gpg[p].fingerprint].secret = proc[p].unlocked

Sound(p) ==
  /\ gpg[p].fingerprint = gpg[p].public_key
  /\ MakesKey(p)
  /\ HoldsKey(p)

KeystoreInv ==
  /\ TypeOK
  /\ LinkLeads
  /\ SignerIsAlice
  /\ \A p \in Process : Sound(p)

-----------------------------------------------------------------------------
(* A complete file has at least what one read takes. *)
LEMMA BlocksType == Blocks \in Nat /\ Blocks > 0
<1>1. KeySize \in Nat /\ KeySize > 0
  BY KeystoreAssumption
<1>2. (KeySize + 4096) \div 4096 \in Nat /\ (KeySize + 4096) \div 4096 >= 1
  BY <1>1, SMT
<1>3. ASSUME NEW n \in Nat, n >= 1
      PROVE  (n * 4096) \div 1024 \in Nat /\ (n * 4096) \div 1024 > 0
  BY <1>3, SMT
<1>4. QED
  BY <1>2, <1>3 DEF Blocks, get_padsize, ENCRYPT_BLOCKSIZE, ReadSize

(* What a struct gpg_store holds.                                          *)
Stores == [k : Key \cup {NoKey, Freed}, fingerprint : Key \cup {NoKey}, public_key : Key \cup {NoKey}]

(* A load that succeeds has the key of that name, in a store that is that  *)
(* key's all through.                                                      *)
LEMMA LoadSound ==
  ASSUME TypeOK, NEW g \in Stores,
         NEW name \in Key \cup {NoKey}, NEW secret \in Secret,
         NEW load \in gpg_key_load(g, name, secret), load.result = "OK"
  PROVE  /\ name \in Key /\ files[name].blocks > 0 /\ files[name].secret = secret
         /\ load.gpg \in Stores
         /\ load.gpg.k = name /\ load.gpg.fingerprint = name /\ load.gpg.public_key = name
<1>1. NoKey \notin Key
  BY KeystoreAssumption
<1>2. readable(name) /\ key_from_file(name, secret) # NoKey
  BY DEF gpg_key_load
<1>3. name \in Key /\ files[name].blocks > 0
  BY <1>2 DEF readable
<1>4. files[name].secret = secret /\ key_from_file(name, secret) = name
  BY <1>2 DEF key_from_file
<1>5. load.gpg = key_apply_public(keygrip(g, name), name)
  BY <1>1, <1>2, <1>3, <1>4 DEF gpg_key_load
<1>6. QED
  BY <1>3, <1>4, <1>5 DEF key_apply_public, keygrip, Stores

(* There is one whenever file and secret belong together.                  *)
LEMMA LoadOpens ==
  ASSUME NEW g, NEW name \in Key, NEW secret \in Secret,
         files[name].blocks > 0, files[name].secret = secret
  PROVE  \E load \in gpg_key_load(g, name, secret) : load.result = "OK"
<1>1. name # NoKey
  BY KeystoreAssumption
<1>2. readable(name) /\ key_from_file(name, secret) = name
  BY <1>1 DEF readable, key_from_file
<1>3. QED
  BY <1>1, <1>2 DEF gpg_key_load

-----------------------------------------------------------------------------
(* Files only grow, keep their secret, and stay cut. *)
FileKept(k) ==
  /\ files'[k].blocks >= files[k].blocks
  /\ files'[k].secret = files[k].secret
  /\ files[k].cut => files'[k].cut

FilesKept == \A k \in Key : files[k] # NoFile => FileKept(k)

LEMMA OthersSound ==
  ASSUME KeystoreInv, TypeOK', FilesKept, NEW p \in Process, gpg'[p] = gpg[p], proc'[p] = proc[p]
  PROVE  Sound(p)'
<1>1. Blocks \in Nat /\ Blocks > 0
  BY BlocksType
<1>2. \A k \in Key : files[k].blocks \in -1 .. Blocks /\ files'[k].blocks \in -1 .. Blocks
  BY DEF KeystoreInv, TypeOK
<1>3. Sound(p)
  BY DEF KeystoreInv
<1>4. MakesKey(p)'
  BY <1>1, <1>2, <1>3 DEF Sound, MakesKey, Written, FilesKept, FileKept, NoFile
<1>5. HoldsKey(p)'
  BY <1>1, <1>2, <1>3 DEF Sound, HoldsKey, FilesKept, FileKept, NoFile
<1>6. QED
  BY <1>3, <1>4, <1>5 DEF Sound

LEMMA SameFilesKept ==
  ASSUME KeystoreInv, files' = files
  PROVE  FilesKept
<1>1. \A k \in Key : files[k].blocks \in -1 .. Blocks
  BY DEF KeystoreInv, TypeOK
<1>2. QED
  BY <1>1, BlocksType DEF FilesKept, FileKept

(* The link leads to a file that is written after a step if it did before. *)
LEMMA LinkKept ==
  ASSUME KeystoreInv, TypeOK', FilesKept, link' = link
  PROVE  LinkLeads'
<1>1. CASE link = NoKey
  BY <1>1 DEF LinkLeads
<1>2. CASE link # NoKey
  <2>1. link \in Key /\ Written(link)
    BY <1>2 DEF KeystoreInv, TypeOK, LinkLeads, Written
  <2>2. files[link].blocks \in -1 .. Blocks /\ files'[link].blocks \in -1 .. Blocks
    BY <2>1 DEF KeystoreInv, TypeOK
  <2>3. files[link] # NoFile
    BY <2>1, BlocksType DEF Written, NoFile
  <2>4. Written(link)'
    BY <2>1, <2>2, <2>3, BlocksType DEF FilesKept, FileKept, Written
  <2>5. QED
    BY <2>4 DEF LinkLeads, Written
<1>3. QED
  BY <1>1, <1>2

-----------------------------------------------------------------------------
LEMMA InitSound == Init => KeystoreInv
<1>1. HAVE Init
<1>2. TypeOK
  BY <1>1, BlocksType, KeystoreAssumption DEF Init, TypeOK, NoFile, NoStore, Down
<1>3. \A p \in Process : Sound(p)
  BY <1>1 DEF Init, Sound, MakesKey, HoldsKey, NoStore, Down
<1>4. QED
  BY <1>1, <1>2, <1>3 DEF Init, KeystoreInv, LinkLeads, SignerIsAlice

LEMMA StartKeeps ==
  ASSUME KeystoreInv, NEW p \in Process, Start(p)
  PROVE  KeystoreInv'
<1>1. TypeOK'
  BY DEF KeystoreInv, TypeOK, Start
<1>2. FilesKept
  BY SameFilesKept DEF Start
<1>3. Sound(p)'
  BY DEF KeystoreInv, TypeOK, Start, Sound, MakesKey, HoldsKey
<1>4. \A q \in Process \ {p} : Sound(q)'
  BY <1>1, <1>2, OthersSound DEF KeystoreInv, TypeOK, Start
<1>5. QED
  BY <1>1, <1>2, <1>3, <1>4, LinkKept DEF KeystoreInv, Start, SignerIsAlice

LEMMA GoneKeeps ==
  ASSUME KeystoreInv, NEW p \in Process, NEW at \in {"down", "aborted"}, Gone(p, at)
  PROVE  KeystoreInv'
<1>1. TypeOK'
  BY DEF KeystoreInv, TypeOK, Gone, NoStore, Down
<1>2. FilesKept
  BY SameFilesKept DEF Gone
<1>3. gpg'[p] = NoStore /\ proc'[p] = [Down EXCEPT !.at = at]
  BY DEF KeystoreInv, TypeOK, Gone
<1>4. Sound(p)'
  BY <1>3 DEF Sound, MakesKey, HoldsKey, NoStore, Down
<1>5. \A q \in Process \ {p} : Sound(q)'
  BY <1>1, <1>2, OthersSound DEF KeystoreInv, TypeOK, Gone
<1>6. QED
  BY <1>1, <1>2, <1>4, <1>5, LinkKept DEF KeystoreInv, Gone, SignerIsAlice

LEMMA CreateKeeps ==
  ASSUME KeystoreInv, NEW p \in Process, NEW secret \in Secret, Create(p, secret)
  PROVE  KeystoreInv'
<1>1. PICK k \in Key :
        /\ files[k] = NoFile
        /\ files' = [files EXCEPT ![k] = [blocks |-> 0, secret |-> secret, cut |-> FALSE]]
        /\ gpg' = [gpg EXCEPT ![p].fingerprint = k, ![p].public_key = k]
  BY DEF Create
<1>2. /\ proc' = [proc EXCEPT ![p].at = "write"]
      /\ p \in Maker /\ p \notin App
      /\ link' = link /\ signatures' = signatures
  BY KeystoreAssumption DEF Create
<1>3. Blocks \in Nat /\ Blocks > 0
  BY BlocksType
<1>4. files' \in [Key -> [blocks : -1 .. Blocks, secret : Secret \cup {NoSecret}, cut : BOOLEAN]]
  BY <1>1, <1>3 DEF KeystoreInv, TypeOK
<1>5. gpg' \in [Process -> [k : Key \cup {NoKey, Freed}, fingerprint : Key \cup {NoKey},
                           public_key : Key \cup {NoKey}]]
  BY <1>1 DEF KeystoreInv, TypeOK
<1>6. TypeOK'
  BY <1>2, <1>4, <1>5 DEF KeystoreInv, TypeOK
<1>7. FilesKept
  <2>1. ASSUME NEW f \in Key, files[f] # NoFile
        PROVE  FileKept(f)
    <3>1. f # k
      BY <1>1, <2>1
    <3>2. files'[f] = files[f] /\ files[f].blocks \in -1 .. Blocks
      BY <1>1, <3>1 DEF KeystoreInv, TypeOK
    <3>3. QED
      BY <3>2, <1>3 DEF FileKept
  <2>2. QED
    BY <2>1 DEF FilesKept, FileKept
<1>8. Sound(p)'
  <2>1. gpg'[p].fingerprint = k /\ gpg'[p].public_key = k /\ proc'[p].at = "write"
    BY <1>1, <1>2 DEF KeystoreInv, TypeOK
  <2>2. files'[k].blocks = 0
    BY <1>1 DEF KeystoreInv, TypeOK
  <2>3. QED
    BY <1>2, <2>1, <2>2 DEF Sound, MakesKey, HoldsKey
<1>9. \A q \in Process \ {p} : Sound(q)'
  BY <1>1, <1>2, <1>6, <1>7, OthersSound DEF KeystoreInv, TypeOK
<1>10. QED
  BY <1>2, <1>6, <1>7, <1>8, <1>9, LinkKept DEF KeystoreInv, SignerIsAlice

LEMMA WriteKeeps ==
  ASSUME KeystoreInv, NEW p \in Process, Write(p)
  PROVE  KeystoreInv'
<1> DEFINE k == gpg[p].fingerprint
<1>1. PICK b \in files[k].blocks .. Blocks, cut \in {files[k].cut, TRUE} :
        /\ files' = [files EXCEPT ![k] = [blocks |-> b, secret |-> files[k].secret, cut |-> cut]]
        /\ proc' = IF written(b) \/ cut THEN [proc EXCEPT ![p].at = "unlink"] ELSE proc
  BY DEF Write
<1>2. link' = link /\ gpg' = gpg /\ signatures' = signatures /\ proc[p].at = "write"
  BY DEF Write
<1>3. Blocks \in Nat /\ Blocks > 0
  BY BlocksType
<1>4. Sound(p) /\ p \notin App
  BY <1>2 DEF KeystoreInv, Sound, MakesKey
<1>5. k \in Key /\ files[k].blocks \in 0 .. Blocks /\ b \in 0 .. Blocks
  <2>1. k \in Key /\ files[k].blocks >= 0
    BY <1>2, <1>4 DEF Sound, MakesKey
  <2>2. files[k].blocks \in -1 .. Blocks
    BY <2>1 DEF KeystoreInv, TypeOK
  <2>3. QED
    BY <1>3, <2>1, <2>2
<1>6. files[k].secret \in Secret \cup {NoSecret} /\ cut \in BOOLEAN
  BY <1>5 DEF KeystoreInv, TypeOK
<1> DEFINE file == [blocks |-> b, secret |-> files[k].secret, cut |-> cut]
           FileType == [blocks : -1 .. Blocks, secret : Secret \cup {NoSecret}, cut : BOOLEAN]
<1>12. files' = [files EXCEPT ![k] = file]
  BY <1>1
<1>13. file \in FileType
  BY <1>3, <1>5, <1>6
<1>14. files' \in [Key -> FileType]
  <2> HIDE DEF file
  <2>1. files \in [Key -> FileType]
    BY DEF KeystoreInv, TypeOK
  <2>2. QED
    BY <1>5, <1>12, <1>13, <2>1
<1>15. proc' \in {proc, [proc EXCEPT ![p].at = "unlink"]}
  BY <1>1
<1>7. TypeOK'
  <2>1. proc' \in [Process -> [at : {"down", "aborted", "idle", "write", "unlink", "symlink"},
                              unlocked : Secret \cup {NoSecret}]]
    BY <1>15 DEF KeystoreInv, TypeOK
  <2>2. QED
    BY <1>2, <1>14, <2>1 DEF KeystoreInv, TypeOK
<1>16. files \in [Key -> FileType] /\ (files[k].cut => cut)
  BY <1>6 DEF KeystoreInv, TypeOK
<1>17. files'[k] = file /\ \A f \in Key \ {k} : files'[f] = files[f]
  <2> HIDE DEF file
  <2>1. k \in DOMAIN files
    BY <1>5, <1>16
  <2>2. [files EXCEPT ![k] = file][k] = file
    BY <2>1
  <2>3. ASSUME NEW f \in Key \ {k}
        PROVE  [files EXCEPT ![k] = file][f] = files[f]
    BY <1>16, <2>3
  <2>4. QED
    BY <1>12, <2>2, <2>3
<1>18. b >= files[k].blocks
  BY <1>5
<1>8. FilesKept
  <2>1. ASSUME NEW f \in Key, files[f] # NoFile
        PROVE  FileKept(f)
    <3>1. files[f].blocks \in -1 .. Blocks
      BY DEF KeystoreInv, TypeOK
    <3>2. CASE f = k
      <4>1. files'[k].blocks = b /\ files'[k].secret = files[k].secret /\ files'[k].cut = cut
        BY <1>17
      <4>2. QED
        BY <1>16, <1>18, <3>2, <4>1 DEF FileKept
    <3>3. CASE f # k
      <4>1. files'[f] = files[f]
        BY <1>17, <3>3
      <4>2. QED
        BY <3>1, <4>1, <1>3 DEF FileKept
    <3>4. QED
      BY <3>2, <3>3
  <2>2. QED
    BY <2>1 DEF FilesKept, FileKept
<1>9. Sound(p)'
  <2>1. files'[k].blocks = b /\ files'[k].cut = cut
    BY <1>17
  <2>2. proc'[p].at = IF written(b) \/ cut THEN "unlink" ELSE "write"
    BY <1>1, <1>2 DEF KeystoreInv, TypeOK
  <2>3. MakesKey(p)'
    BY <1>2, <1>3, <1>4, <1>5, <2>1, <2>2 DEF MakesKey, Written, written
  <2>4. QED
    BY <1>2, <1>4, <2>3 DEF Sound, HoldsKey
<1>10. \A q \in Process \ {p} : Sound(q)'
  BY <1>1, <1>2, <1>7, <1>8, OthersSound DEF KeystoreInv, TypeOK
<1>11. QED
  BY <1>2, <1>7, <1>8, <1>9, <1>10, LinkKept DEF KeystoreInv, SignerIsAlice

LEMMA UnlinkKeeps ==
  ASSUME KeystoreInv, NEW p \in Process, Unlink(p)
  PROVE  KeystoreInv'
<1>1. TypeOK'
  BY DEF KeystoreInv, TypeOK, Unlink
<1>2. FilesKept
  BY SameFilesKept DEF Unlink
<1>3. Sound(p)'
  BY DEF KeystoreInv, TypeOK, Unlink, Sound, MakesKey, Written, HoldsKey
<1>4. \A q \in Process \ {p} : Sound(q)'
  BY <1>1, <1>2, OthersSound DEF KeystoreInv, TypeOK, Unlink
<1>5. QED
  BY <1>1, <1>3, <1>4 DEF KeystoreInv, Unlink, LinkLeads, SignerIsAlice

LEMMA SymlinkKeeps ==
  ASSUME KeystoreInv, NEW p \in Process, Symlink(p)
  PROVE  KeystoreInv'
<1>1. gpg[p].fingerprint \in Key /\ Written(gpg[p].fingerprint)
  BY DEF KeystoreInv, Symlink, Sound, MakesKey
<1>2. CASE link = NoKey
  <2>1. /\ link' = gpg[p].fingerprint /\ proc' = [proc EXCEPT ![p].at = "idle"]
        /\ files' = files /\ gpg' = gpg /\ signatures' = signatures
    BY <1>2 DEF Symlink
  <2>2. TypeOK'
    BY <1>1, <2>1 DEF KeystoreInv, TypeOK
  <2>3. FilesKept
    BY <2>1, SameFilesKept
  <2>4. Sound(p)'
    BY <2>1 DEF KeystoreInv, TypeOK, Symlink, Sound, MakesKey, HoldsKey
  <2>5. \A q \in Process \ {p} : Sound(q)'
    BY <2>1, <2>2, <2>3, OthersSound DEF KeystoreInv, TypeOK
  <2>6. LinkLeads'
    BY <1>1, <2>1 DEF Written, LinkLeads
  <2>7. QED
    BY <2>1, <2>2, <2>4, <2>5, <2>6 DEF KeystoreInv, SignerIsAlice
<1>3. CASE link # NoKey
  BY <1>3, GoneKeeps DEF Symlink
<1>4. QED
  BY <1>2, <1>3

-----------------------------------------------------------------------------
LEMMA FindKeeps ==
  ASSUME KeystoreInv, NEW p \in Process, NEW name \in Key \cup {NoKey}, NEW secret \in Secret,
         Find(p, name, secret)
  PROVE  KeystoreInv'
<1>1. /\ TypeOK /\ gpg[p] \in Stores /\ Sound(p)
      /\ p \in Maker /\ p \notin App /\ proc[p].at = "idle"
  BY KeystoreAssumption DEF KeystoreInv, TypeOK, Stores, Find
<1>2. PICK load \in gpg_key_load(gpg[p], name, secret) :
        IF load.result = "OK"
        THEN /\ gpg' = [gpg EXCEPT ![p] = load.gpg]
             /\ UNCHANGED <<files, link, proc, signatures>>
        ELSE Gone(p, "down")
  BY DEF Find
<1>3. CASE load.result = "OK"
  <2>1. load.gpg \in Stores /\ load.gpg.fingerprint = load.gpg.public_key
    BY <1>1, <1>3, LoadSound
  <2>2. /\ gpg' = [gpg EXCEPT ![p] = load.gpg] /\ gpg'[p] = load.gpg
        /\ files' = files /\ link' = link /\ proc' = proc /\ signatures' = signatures
    BY <1>2, <1>3 DEF KeystoreInv, TypeOK
  <2>3. TypeOK'
    BY <2>1, <2>2 DEF KeystoreInv, TypeOK, Stores
  <2>4. FilesKept
    BY <2>2, SameFilesKept
  <2>5. Sound(p)'
    BY <1>1, <2>1, <2>2 DEF Sound, MakesKey, HoldsKey
  <2>6. \A q \in Process \ {p} : Sound(q)'
    BY <2>2, <2>3, <2>4, OthersSound DEF KeystoreInv, TypeOK
  <2>7. QED
    BY <2>2, <2>3, <2>4, <2>5, <2>6, LinkKept DEF KeystoreInv, SignerIsAlice
<1>4. CASE load.result # "OK"
  BY <1>2, <1>4, GoneKeeps
<1>5. QED
  BY <1>3, <1>4

LEMMA UnlockKeeps ==
  ASSUME KeystoreInv, NEW p \in Process, NEW passphrase \in Passphrase, Unlock(p, passphrase)
  PROVE  KeystoreInv'
<1> DEFINE secret == gpg_store_digest[passphrase]
<1>1. secret \in Secret /\ link \in Key \cup {NoKey}
  BY KeystoreAssumption DEF KeystoreInv, TypeOK
<1>2. TypeOK /\ gpg[p] \in Stores /\ Sound(p) /\ proc[p].at = "idle"
  BY DEF KeystoreInv, TypeOK, Stores, Unlock
<1> PICK load \in gpg_key_load(gpg[p], link, secret) :
      IF load.result = "OK"
      THEN /\ gpg' = [gpg EXCEPT ![p] = load.gpg]
           /\ proc' = [proc EXCEPT ![p].unlocked = secret]
           /\ UNCHANGED <<files, link, signatures>>
      ELSE Gone(p, "aborted")
  BY DEF Unlock
<1>3. CASE load.result = "OK"
  <2>1. /\ gpg' = [gpg EXCEPT ![p] = load.gpg]
        /\ proc' = [proc EXCEPT ![p].unlocked = secret]
        /\ files' = files /\ link' = link /\ signatures' = signatures
    BY <1>3
  <2>2. load.gpg \in Stores /\ load.gpg.fingerprint = link /\ load.gpg.public_key = link
    BY <1>1, <1>2, <1>3, LoadSound
  <2>3. link \in Key /\ files[link].blocks > 0 /\ files[link].secret = secret
    BY <1>1, <1>2, <1>3, LoadSound
  <2>4. TypeOK'
    BY <1>1, <2>1, <2>2 DEF KeystoreInv, TypeOK, Stores
  <2>5. FilesKept
    BY <2>1, SameFilesKept
  <2>6. gpg'[p] = load.gpg /\ proc'[p].unlocked = secret /\ proc'[p].at = "idle"
    BY <1>2, <2>1 DEF KeystoreInv, TypeOK
  <2>7. Sound(p)'
    BY <2>1, <2>2, <2>3, <2>6 DEF Sound, MakesKey, HoldsKey
  <2>8. \A q \in Process \ {p} : Sound(q)'
    BY <2>1, <2>4, <2>5, OthersSound DEF KeystoreInv, TypeOK
  <2>9. QED
    BY <2>1, <2>4, <2>5, <2>7, <2>8, LinkKept DEF KeystoreInv, SignerIsAlice
<1>4. CASE load.result # "OK"
  BY <1>4, GoneKeeps
<1>5. QED
  BY <1>3, <1>4

LEMMA SignKeeps ==
  ASSUME KeystoreInv, NEW p \in Process, NEW secret \in Secret, Sign(p, secret)
  PROVE  KeystoreInv'
<1> DEFINE name == gpg[p].fingerprint
<1>1. TypeOK /\ gpg[p] \in Stores /\ Sound(p) /\ proc[p].at = "idle"
  BY DEF KeystoreInv, TypeOK, Stores, Sign
<1>2. name \in Key \cup {NoKey}
  BY <1>1 DEF Stores
<1> PICK load \in gpg_key_load(gpg[p], name, secret) :
      IF load.result = "OK"
      THEN /\ signatures' = signatures \cup
                {[signer |-> load.gpg.k, alice |-> gpg[p].public_key]}
           /\ gpg' = [gpg EXCEPT ![p] = [load.gpg EXCEPT !.k = Freed]]
           /\ UNCHANGED <<files, link, proc>>
      ELSE Gone(p, IF p \in App THEN "aborted" ELSE "down")
  BY DEF Sign, signing_key
<1> DEFINE new == [load.gpg EXCEPT !.k = Freed]
           made == [signer |-> load.gpg.k, alice |-> gpg[p].public_key]
<1>3. CASE load.result = "OK"
  <2>1. /\ signatures' = signatures \cup {made}
        /\ gpg' = [gpg EXCEPT ![p] = new]
        /\ files' = files /\ link' = link /\ proc' = proc
    BY <1>3
  <2>2. /\ load.gpg \in Stores /\ load.gpg.k = name
        /\ load.gpg.fingerprint = name /\ load.gpg.public_key = name
    BY <1>1, <1>2, <1>3, LoadSound
  <2>3. name = gpg[p].public_key
    BY <1>1 DEF Sound
  <2>4. new \in Stores /\ new.fingerprint = name /\ new.public_key = name
    BY <2>2 DEF Stores
  <2>5. made \in [signer : Key \cup {NoKey, Freed}, alice : Key \cup {NoKey}]
    BY <1>2, <2>2, <2>3
  <2>6. TypeOK'
    BY <2>1, <2>4, <2>5 DEF KeystoreInv, TypeOK, Stores
  <2>7. SignerIsAlice'
    <3>1. made.signer = made.alice
      BY <2>2, <2>3
    <3>2. QED
      BY <2>1, <3>1 DEF KeystoreInv, SignerIsAlice
  <2>8. FilesKept
    BY <2>1, SameFilesKept
  <2>9. gpg'[p] = new
    BY <2>1 DEF KeystoreInv, TypeOK
  <2>10. Sound(p)'
    BY <1>1, <2>1, <2>4, <2>9 DEF Sound, MakesKey, HoldsKey
  <2>11. \A q \in Process \ {p} : Sound(q)'
    BY <2>1, <2>6, <2>8, OthersSound DEF KeystoreInv, TypeOK
  <2>12. QED
    BY <2>1, <2>6, <2>7, <2>8, <2>10, <2>11, LinkKept DEF KeystoreInv
<1>4. CASE load.result # "OK"
  BY <1>4, GoneKeeps
<1>5. QED
  BY <1>3, <1>4

LEMMA NextKeeps ==
  ASSUME KeystoreInv, [Next]_vars
  PROVE  KeystoreInv'
<1>1. CASE Next
  <2>1. PICK p \in Process :
          \/ Start(p) \/ Stop(p) \/ Write(p) \/ Unlink(p) \/ Symlink(p)
          \/ \E passphrase \in Passphrase : Unlock(p, passphrase) \/ SignEntry(p, passphrase)
          \/ \E secret \in Secret :
               \/ Create(p, secret)
               \/ p \in Maker /\ Sign(p, secret)
               \/ \E name \in Key \cup {link} : Find(p, name, secret)
    BY <1>1 DEF Next
  <2>2. CASE Start(p)
    BY <2>2, StartKeeps
  <2>3. CASE Stop(p)
    BY <2>3, GoneKeeps DEF Stop
  <2>4. CASE Write(p) \/ Unlink(p) \/ Symlink(p)
    BY <2>4, WriteKeeps, UnlinkKeeps, SymlinkKeeps
  <2>5. ASSUME NEW passphrase \in Passphrase, Unlock(p, passphrase) \/ SignEntry(p, passphrase)
        PROVE  KeystoreInv'
    <3>1. gpg_store_digest[passphrase] \in Secret
      BY KeystoreAssumption
    <3>2. QED
      BY <2>5, <3>1, UnlockKeeps, SignKeeps DEF SignEntry
  <2>6. ASSUME NEW secret \in Secret, Create(p, secret) \/ (p \in Maker /\ Sign(p, secret))
        PROVE  KeystoreInv'
    BY <2>6, CreateKeeps, SignKeeps
  <2>7. ASSUME NEW secret \in Secret, NEW name \in Key \cup {link}, Find(p, name, secret)
        PROVE  KeystoreInv'
    <3>1. name \in Key \cup {NoKey}
      BY DEF KeystoreInv, TypeOK
    <3>2. QED
      BY <2>7, <3>1, FindKeeps
  <2>8. QED
    BY <2>1, <2>2, <2>3, <2>4, <2>5, <2>6, <2>7
<1>2. CASE UNCHANGED vars
  BY <1>2 DEF vars, KeystoreInv, TypeOK, LinkLeads, SignerIsAlice, Sound, MakesKey, HoldsKey,
              Written
<1>3. QED
  BY <1>1, <1>2

-----------------------------------------------------------------------------
(* The inductive invariant of the key store and of its processes.          *)
THEOREM Invariance == Spec => []KeystoreInv
BY InitSound, NextKeeps, PTL DEF Spec

(* Files, link, stores and processes keep their types. *)
THEOREM TypeCorrect == Spec => []TypeOK
<1>1. KeystoreInv => TypeOK
  BY DEF KeystoreInv
<1>2. QED
  BY <1>1, Invariance, PTL

(* kee.key leads to complete key files, and to such as gpg_key_create took *)
(* for complete although the disk refused a part of them.                  *)
THEOREM LinkSafe == Spec => []LinkLeads
<1>1. KeystoreInv => LinkLeads
  BY DEF KeystoreInv
<1>2. QED
  BY <1>1, Invariance, PTL

(* Whoever kee_entry_handle_add and kee_entry_handle_confirm name as alice *)
(* has made the signature.                                                 *)
THEOREM SignerSafe == Spec => []SignerIsAlice
<1>1. KeystoreInv => SignerIsAlice
  BY DEF KeystoreInv
<1>2. QED
  BY <1>1, Invariance, PTL

(* After gpg_store_check has succeeded, that passphrase and no other signs, *)
(* whatever other processes do to the key store.                           *)
THEOREM UnlockedSafe == Spec => []UnlockedSigns
<1>1. ASSUME KeystoreInv, NEW p \in App, NEW passphrase \in Passphrase,
             proc[p].unlocked # NoSecret
      PROVE  (\E load \in gpg_key_load(gpg[p], gpg[p].fingerprint, gpg_store_digest[passphrase]) :
                load.result = "OK") <=> gpg_store_digest[passphrase] = proc[p].unlocked
  <2>1. p \in Process /\ gpg_store_digest[passphrase] \in Secret
    BY KeystoreAssumption DEF Process
  <2>2. TypeOK /\ gpg[p] \in Stores /\ HoldsKey(p)
    BY <1>1, <2>1 DEF KeystoreInv, TypeOK, Stores, Sound
  <2>3. /\ gpg[p].fingerprint \in Key
        /\ files[gpg[p].fingerprint].blocks > 0
        /\ files[gpg[p].fingerprint].secret = proc[p].unlocked
    BY <1>1, <2>2 DEF HoldsKey
  <2>4. ASSUME NEW load \in gpg_key_load(gpg[p], gpg[p].fingerprint, gpg_store_digest[passphrase]),
               load.result = "OK"
        PROVE  gpg_store_digest[passphrase] = proc[p].unlocked
    BY <2>1, <2>2, <2>3, <2>4, LoadSound
  <2>5. ASSUME gpg_store_digest[passphrase] = proc[p].unlocked
        PROVE  \E load \in gpg_key_load(gpg[p], gpg[p].fingerprint, gpg_store_digest[passphrase]) :
                 load.result = "OK"
    BY <2>1, <2>3, <2>5, LoadOpens
  <2>6. QED
    BY <2>4, <2>5
<1>2. KeystoreInv => UnlockedSigns
  BY <1>1 DEF UnlockedSigns
<1>3. QED
  BY <1>2, Invariance, PTL
=============================================================================
