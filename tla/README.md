# kee in TLA+

`kee` (GTK4, C) keeps bilateral ledgers of credit and collateral between two
key holders.  Alice writes an entry and signs it, Bob counter-signs it, and
each of them keeps the result in a database of their own.  What they exchange
travels by hand, as QR codes, copied text or files.  This directory holds a
TLA+ development of that program: modules translated from `src/src`, TLC
configurations that check them on small instances, and theorems that TLAPS
checks for every value of the constants.

Source paths below are relative to `src/src`.  `PROJECT.json` names, for each
definition that models code, the lines it stands for, and for each hazard the
properties that cover it.

## 1. The system

| component | source | state it keeps | operations | talks to |
|---|---|---|---|---|
| ledger | `ledger.c` | a `kee_ledger_t`: cached digest, two public keys, list of items from the last to the first | parse, serialise in three modes, sign, verify, put | key store, database, content |
| entry page | `gtk/kee-entry.c` | one ledger per page, a form | add (new request), confirm (counter-sign) | ledger, database, transport page |
| menu | `gtk/kee-menu.c` | the window; the "ledger" action receives imports | new entry, import, back, import of a ledger by item state | navigation, entry page, ledger |
| navigation | `gtk/nav.c`, `aux/beamenu/` | a stack of at most 8 pages, one widget per page, the current node of a menu graph | set, back, exits | menu |
| transport | `transport.c`, `gtk/kee-transport.c` | a chunk buffer with cursor, command byte and a state flag | single, write, next, read; render as QR | entry page, import page |
| import page | `gtk/kee-import.c`, `gtk/scan.c` | scan pipeline, text buffer, accept action | choose camera, receive code, accept | menu |
| database | `db.c` over LMDB | environment; one shared transaction and cursor | put in a transaction, next, rewind | ledger, stores |
| stores | `gtk/kee-entry-store.c`, `gtk/kee-entry-item-store.c` | number of ledgers counted at start, buffer of the last record | seek, get item, scan of items | database, entry page |
| key store | `gpg.c`, `gtk/kee-key.c` | the loaded key, last signature; key files and the `kee.key` link | check (unlock), create, load, sign, verify | ledger, menu |
| content | `content.c`, `cadir.c` | a buffer per ledger and item, flags | resolve | entry page |
| command line | `cmd/` | nothing beyond one run | sign or print a transport file | ledger, key store |
| context, settings, names, logging, byte helpers | | paths, text | | |

Everything graphical runs on one GLib main loop: a handler is never preempted
by another one.  What makes the program hard is therefore not threads but

* several wallets whose messages are lost, duplicated, reordered or given to
  the wrong reader, with one import handler for all of them;
* processes that stop between the commit of a transaction and the display of
  what was committed (a failed signature or put is logged with
  `G_LOG_LEVEL_ERROR`, which GLib makes fatal, so errors are crashes too);
* state that outlives the handler that made it: the ledger inside a form, the
  digest cached by the parser, the shared cursor of the database context, the
  count of the list;
* roles that are decided by the reader: whoever is not the head's `alice` reads
  the item as `BOB`'s, a third party included;
* results that are ignored (`kee_nav_set`, `kee_entry_store_seek`, a lookup
  that cannot find anything).

What should hold, per component:

* **exchange**: a requester records only what the named counterparty signed,
  head and entry exactly as stored; nothing changes the delta that was
  requested, nor the counterparty and terms it was requested for; a ledger is recorded
  once; what is shown as confirmed is stored.
* **database**: one transaction at a time, no cursor used after its
  transaction; every handler leaves the context at rest; a head comes with its
  reverse and item record or not at all.
* **stores**: index `i` of the list is the `i`-th ledger as long as the process
  runs.
* **navigation**: a page is on the stack exactly if it has a widget, the
  current node is the top, the stack stays within its 8 places.
* **transport**: what was written is read again, as long as there is room for it
  on both sides.
* **key store**: a key that was created can be loaded by its passphrase and
  only by it; `kee.key` names a complete key file, wherever a maker stops; whoever
  a head names as alice has signed.
* **content**: the buffer is not overrun however often content is resolved.
* **import**: data is accepted once per scan, and never from a freed pipeline.

## 2. What is modelled

### `KeeLedger`: data and pure functions of `ledger.c`

Constant-level.  A head is its two keys and `Terms` (unit of account, decimals,
body key); an entry is parent, `Delta` (the initiator's credit and collateral
change, time, body key), the response flag and the two signature fields.
`kee_ledger_item_serialize` drops signatures by mode as the code does,
`verify_item_asn` checks the response signature and nothing else,
`kee_ledger_parse_item` puts request and response signature into the slots of
their roles, `kee_ledger_item_initiator` and `kee_ledger_item_state` decide role
and state of what was parsed.

Abstractions.  SHA-512 is collision free, so the digest of a head *is* the head.
A signature is the record (signer, head, entry) it was made over, so that it
verifies for that and for nothing else.  DER, base64, zlib and QR are lossless.
A signature field of length 0 (`Absent`) and 64 zero bytes (`Zeroes`) differ on
the wire and are the same in memory, because the program depends on it.  The
`parent` field is 64 zero bytes, or, for the second and later items of a list,
the first 64 bytes of the C structure of the item before (`ledger.c:687`).  In
`KeeExchange`, where nothing but the last item is ever stored, all that is kept of
them is that they are "memory"; `KeeChain` says what is in them.

### `KeeExchange`: wallets that exchange ledgers

One wallet per element of `Party`: the GTK application and the command line
signer of one key holder.  Variables: `running`, `db` (stored ledgers), `form`
(the page of a new entry), `sheet` (the imported ledger shown for
confirmation), `rendering` (a transport that a handler is about to show), `net`
(all transports shown so far).

| action | code |
|---|---|
| `Unlock`, `Stop` | start and unlock; quit or crash. `Stop` may come at any point, also between commit and display |
| `NewEntry` | `kee_menu_act_new_entry` |
| `Add` | `kee_entry_handle_add`: fill head, append item, sign, serialise for RESPONSE |
| `Render` | `kee_transport_handle_qr` |
| `ImportFinal`, `ImportResponse` | `kee_menu_act_import_entry` by the state of the parsed item, with `kee_ledger_put`, `process_entry_ledger` and the item scan |
| `Confirm` | `kee_entry_handle_confirm`: overwrite alice, sign, put, serialise |
| `CliSign` | `kee-sign -y` |

`net` only grows and may be read by anyone: loss, duplication, reordering and
wrong delivery need no action of their own.  The page that is visible is left
out here (it is the subject of `KeeNav`), so more handlers may run than a user can reach; this only adds
behaviours.  An import that does not decode logs an error, which ends the
application: that is a `Stop`.  Requests without signature change nothing and are
stuttering steps.

`kee_ledger_put` is one LMDB transaction and one step; what refuses a second put
is `MDB_NOOVERWRITE` on the reverse record, since neither of the two lookups in
front of it ever finds the ledger.  All items that the application makes have
time 0 and so one key under their digest: the second `db_add` of a list fails,
which ends the item loop, and only the last item is stored.  The name lookup of
an import fails with `ERR_DB_FAIL` when no record in the database is at or above
it, which ends the process: `Seeded` wallets have such records from the start.

### `KeeAgreement`: what the exchange promises

Offers, counter-signatures and records, with no wallets or crashes:
a requester records a ledger at most once and only when its head's bob has
signed.  `KeeExchange` implements it under the mapping at the end of that
module; `ImplementsAgreement` is checked by TLC and proved.

### `KeeNav`: the pages of the window

The three places in which the program keeps where the user is (`stack` with
`stack_crsr` and the table `widgets` in `nav.c`, the current node of beamenu),
what the window shows of it (`visible`, the enabled header buttons), and what
the boxes of the pages hold (`children`).  The menu is a parameter: the pages at
which the exits `back`, `new_entry` and `import` are set.  Boxes hold kinds of
children (form, sheet, selected entry, picture, ...), not contents.

| action | code |
|---|---|
| `Init`, `Unlock` | `ui_build` puts the key page on the list; `ui_handle_unlock` forces it off |
| `GoBack`, `OpenImport`, `NewEntry` | the header's actions in `kee-menu.c`, as long as they are enabled |
| `Select` | `kee_entry_list_handle_select`; an entry selected again is in full mode already and is not put on the page |
| `Render`, `Continue` | `kee_transport_render`, `kee_transport_handle_continue` |
| `Scan`, `Code`, `Accept` | a camera is chosen; its first code, on whatever page it comes; the import button |

`kee_menu_next`, `kee_menu_set` and `kee_menu_prev` are operators of those actions,
with the results they ignore: a page that is open already is refused by
`kee_nav_set` and shown all the same.

### `KeeDb`: one database, call by call

One key holder's process, with every call of LMDB a step and a possible end of
the process.  Variables: `db` (the records on disk), `ctx` (`struct db_ctx`:
transaction, cursor, `browsing`, `started`, `current_key`, and what LMDB itself
knows of the handles), `job` (which handler runs, at which call, with which
locals), `clock`, and the list's `last_value`, `last_count`, `rows`.  `db.c` is a set of
functions of the context: `db_next` with its first part `begun`, `db_rewind`,
`db_start`, `db_add`.  Where LMDB would be used in a way that it does not allow, the
flag `misused` is set.

| action | code |
|---|---|
| `Start`, `Count` | `kee_entry_store_new`: seek to the end, keep how far that was |
| `GetItem`, `Seek` | `kee_entry_store_get_item` and `kee_entry_store_seek`, whose result is ignored |
| `Sheet` | an imported ledger gets a page |
| `Name`, `Items` | `process_entry_ledger` and `kee_entry_item_store_scan`, for both |
| `Put`, `PutLookup`, `PutStart`, `PutHead`, `PutReverse`, `PutEntry`, `PutFinish` | `kee_ledger_put` and `kee_ledger_item_put_buf` |
| `Stop` | the process ends at any call; a handler that logs an error ends it too |

A key is three numbers: the prefix byte, what follows it, and the time at the end
of an item's key, so that the order of keys is that of their bytes.  A handler's
search key that is cut short or padded is written as what it compares like.  The
byte of an item's key that nothing sets (`ledger.c:1068`, a gap between digest and
time) is taken to be the same in all of them.  The clock is assumed not to go
back: with a clock that does, a head may come before older ones in the list, or be
refused.

### `KeeStore`: what the database promises to the pages

Ledgers are recorded one at a time, each digest once; a list that was opened
shows in row `i` the `i`-th of those that were there.  `KeeDb` implements it: the
heads in the order of their keys are the ledgers, and the commit is the moment of
recording.

### `KeeKeystore`: key files and who signs with them

The directory of a `struct gpg_store`: `files` (of each key the blocks of its file
that are on disk and the secret that encrypts it), `link` (what `kee.key` leads to);
the processes that use it, each with its `gpg` (loaded key, fingerprint, public
key), where it is in its handler, and the secret that unlocked it; and the
`signatures` made so far.  Makers are the programs that call `gpg_key_create` and
`gpg_key_load` directly (the tests and fixtures; the application only has a "create"
button that unlocks); with `Find` and `Sign` they also stand for `kee-sign`, which
loads the main key and signs.

| action | code |
|---|---|
| `Start`, `Stop` | `gpg_store_init`; a process ends at any point |
| `Create`, `Write` | `key_create`, `key_create_file`: a new key and its file, what reaches the disk of it; the disk may refuse the rest |
| `Unlink`, `Symlink` | the rest of `gpg_key_create` |
| `Find` | `gpg_key_load` by fingerprint or of the main key |
| `Unlock` | the unlock button with `gpg_store_check` |
| `Sign`, `SignEntry` | `gpg_store_sign_with` as `kee_ledger_sign` calls it; the two entry handlers, which ask for the passphrase again |

A key, its fingerprint and its file name are one value.  The cipher is not
authenticated, so a file opened with another secret gives noise; noise that is by
chance the expression of a key is left out.  Passphrases reach the files through
`gpg_store_digest`; a key made with a raw secret, as the tests do, has no passphrase.
The sum of a key's expression and its length field is less than the 1024 bytes of
one read (`KeystoreAssumption`), so whatever part of a file can be read holds it all.
`key_create_file` ends its loop without a word when `fwrite` writes nothing, ignores
`fclose` and returns `ERR_OK`, so that the link is made to an incomplete file: such a
file is `cut`.  That `LinkLeads` allows; it says that nothing else makes the link lead to
such a file, no stop and no other maker.  A cut file without a whole block does not
unlock.  `gpg_key_load` sets key and fingerprint (`keygrip`) before it looks for the public
key, which may fail (`key_apply_public`), so it has two ways to end once the file opened.

A failing `Unlock` or `SignEntry` aborts the application, since all that can fail there
is logged as an error and `gtk/debug.c` makes that fatal.

### `KeeTransport`, `KeeImport`: texts, codes and the import page

`KeeTransport` is `struct kee_transport_t` as its callers use it, in text mode:
`kee_transport_single`, `kee_transport_write`, `kee_transport_next` and
`kee_transport_read` are functions of the record of command, state, cursor, length
(`data_len`) and body, with the place where the body was written (`at`) and how long it
is (`len`).  Compression and base64 lose nothing, but only of what they are given:
`kee_transport_next` packs the bytes from the cursor to the length, `kee_transport_read`
unpacks as many as the length says, and what comes out is the message only if the
body lies in them (`covered`).  A text is a command and a payload, and everything
else that may be typed or scanned is `Garbage`.  Each payload has its `Length` and
its length compressed (`Deflated`); `encoded` is the length of the text that base64
makes of that, line ends included.

`kee_transport_write` does not look at the size of the buffer, 768 bytes.  A write that
goes past it (`spilt`) overwrites the length behind it, which is undefined: such an
object is refused by `kee_transport_next`, if its length is still there, and what is
read of it is left out.  The command line shows whatever fits compressed into its 4096
bytes, and the import page copies that text, a third longer, into the 768.  `RoundTrip` says
where the limit is: up to 567 compressed bytes everything that is shown is read again
as it was, by the page and by the command line; every longer one is written past the
buffer.  The messages of this program are of some 500 bytes before compression.

`KeeImport` is one application's import page.  Variables: `shown` (all transports
made, with what was sent in each), `up`, `camera_list` and `selected` of the chooser,
`scan` and `pipeline` (of each scan its state, bus, watch, and how many codes were
delivered), `import_content`, `accept`, `ledgers` (what was handed to the "ledger"
action, whose handling is `KeeExchange`).

| action | code |
|---|---|
| `Start`, `Stop` | `kee_import_init` with `kee_camera_scan`; the end at any point |
| `Show` | the transport part of `kee_entry_handle_add` and `kee_entry_handle_confirm` |
| `CliSign` | `kee-sign -y`: read the file, `cli_decode`, `cli_encode` |
| `ChooseCamera` | `kee_import_handle_camera_change` with `kee_import_scanchange`, `scan_free` and `scan_begin` |
| `Post` | a pipeline's own thread (GStreamer, external): a code is seen, or something else is said |
| `Dispatch` | `kee_import_scan_code_handler` and, in the same step, the handlers of "data_available" with the accept action they activate |
| `Type`, `Accept` | the text is edited; the import button |

Taken from GStreamer and GTK: a pipeline set to NULL flushes its bus and posts no
more, its watch stays; a drop down has its first entry selected at the start, and
selecting that is no change.  `kee_camera_scan` ends its list with an entry for a
device "/dev/", whose pipeline does not start; with one camera this entry is the
only change the chooser allows, and the error ends the application.  The handler
passes a `GString` where the signal has a string, which its comments say may crash:
that is a `Stop`.

### `KeeContent`: the buffer of a content

What the body key of a head or an item stands for: `message` (a file named by the
key, and whether it is in the directory, `file`), the buffer `mem` byte by byte,
`mem_size` (what the program takes to be left of it), `subject` (where that is),
`flags`, and `outside`, set when a byte is written that is not in the buffer.

| action | code |
|---|---|
| `Init` | `kee_content_init` |
| `Resolve`, `Miss` | `kee_content_resolve` with `cadiz_resolve`, of a file that is there and of one that is not |
| `Change` | the file comes or goes (external) |

A ledger's page resolves its head once (`gtk/kee-entry.c:474`), and every time a row is made
for an item that item is resolved anew (`gtk/kee-entry-item.c:80`), into what earlier
resolutions left.  A byte of the file is its place in it and `size_t` has `Word` values, so that what
wraps in the program wraps here: the length of an empty file, decremented, adds one
to what is left, and with nothing left the room is as large as a `size_t`, `read`
fails, and its -1 is taken for a length.  What cmime finds in a message that was cut
is a choice (`parsed`).  That a message without a subject gives a NULL, which nobody
checks, is left out: messages have one.

### `KeeCodec`, `KeeChain`: the items of a ledger

`KeeCodec` is the way of an int onto the wire and back: big-endian order
(`to_endian`), the leading bytes that libtasn1 drops (`minimal`, external), `strap_be`
that fills them in again.  A byte has `Base` values.

`KeeChain` is a ledger with all its items: `list` (from the first on; the last is
`ledger.last_item`), `cache` (count and balances), `session` (which process this is),
`disk` (the item records) and `kept` (what the list was when it was put).

| action | code |
|---|---|
| `Add` | `kee_ledger_add_item` and what its callers set; time does not go back |
| `SignRequest` | `kee_ledger_sign` as alice |
| `SignResponse` | as `tests/testutil.c:62-97` has `kee_ledger_sign` counter-sign, with whatever key is loaded |
| `Put` | the item loop of `kee_ledger_put`, from the last item on |
| `Open` | another process: `kee_entry_item_store_scan` with `kee_ledger_parse_item_db` and the balance cache |

`kee_ledger_verify` is an operator with the order and the assignments of the loop: the
result for a response is replaced by that for the request of the same item.  What is
checked of it is that it accepts what was signed (`SignedVerifies`); that it also accepts
a wrong response beside a right request is what the code does and nothing to promise.  The
first 64 bytes of an item, the parent of the next, are the address of its own
predecessor, four deltas, time, initiator, response flag and the beginning of
alice's signature; addresses never agree in two processes, the rest does.

The records that are scanned come in the order of their keys, digest and time, and so the
`n`-th is the one with `n - 1` earlier ones (`scanned`); no two of one ledger have one time.
What the test data generator leaves (`Seeds`) has the SHA-512 sum of the item before as parent, and
`SeedsAssumption` says what else is so of it.  `SignedVerifies` leaves such databases out: the
program takes another parent for their items.

What the module shows besides its properties: a record without a response is put
with 64 zero bytes in its place, which a parser takes for a signature that does not
verify, so that the page of the ledger has an empty item for it that is not counted;
of two items with one time the older, and all before it, are not put; a list
verifies in another process only up to its second item.

## 3. Checks

| run | instance | what it shows |
|---|---|---|
| `exchange_pair` | two wallets, one with names, two deltas, at most 3 transports, one application up at a time | `TypeOK`, `StoredDeltaWasRequested`, `StoredTermsWereRequested`, `ShownIsStored`, and the refinement `ImplementsAgreement` |
| `exchange_third` | three wallets, one delta, at most 3 transports, the two unnamed wallets symmetric | `RecordedIsCountersigned` with an outsider who imports, confirms and signs what is not theirs |
| `exchange_shared` | two wallets | **violated**: what Bob shares after confirming does not carry his signature |
| `nav` | the menu of `menu.txt`, boxes of at most 5 children | `NavConsistent`, `VisibleIsOpen`, `BackLeads`, `Locked`, `ListStays` |
| `db` | `Ledger` with three ledgers of two counterparties, three databases to start from, `MaxTime` 3 | `NeverMisused`, `AtRest`, `SearchesFirst`, `WholeLedgers`, the refinement `ImplementsStore`, the action property `HandlersBounded`, and the liveness property `HandlersEnd` |
| `db_name` | the same | **violated**: a counterparty is shown by the name of another key |
| `keystore` | two keys, three secrets, two passphrases, two makers and one application | `LinkLeads`, `SignerIsAlice`, `UnlockedSigns` |
| `keystore_wrong` | the same | **violated**: a passphrase that unlocks no key ends the application |
| `import` | three payloads, two contents of `/dev`, at most 3 scans and 3 messages on a bus | `OncePerScan`, `OnlyCurrent`, `RoundTrip`, `Genuine`, and the liveness property `ScanEnds` |
| `content` | a buffer of 12 bytes, files of up to 14, subjects of up to 4, words of 64 values | `FlagTells`, and the action properties `InsideWhileRoom`, `WholeWhileRoom` |
| `chain` | lists of at most 3 items, four deltas, bytes of 4 values, an empty database and two of the test data generator, 2 processes | `SignedVerifies`, `OpensWhatWasPut`, `ShowsTheSum` |
| `chain_parent` | the same | **violated**: the parent of an entry is another one for whoever opens the ledger |

Bounds (`MaxNet`, `MaxRunning` in `MCKeeExchange`).  A full exchange takes two
transports (request, final); the third leaves room for a duplicate made by a
second press of "add", for the confirmation by a wrong party, or for a second
command line signature.  Applications interact only through `net`, so two that
are up at once do nothing that two that take turns cannot, except that one
survives the other's stop; the theorems carry no bound at all.  Two deltas are
needed for a swapped delta to show.  `BetweenTwo` (violation runs only) keeps
the traces to ledgers between two different keys; it restricts the search, and
a violation found under it is one of the full system.

The state of `KeeNav` is finite but for the boxes: `gtk_box_remove` takes one
child and a rendered transport brings two.  Their number decides nothing, so
`MaxChildren` only ends the search, after several rounds of each page.

In `KeeDb` a reading of the clock is spent on each recording, so `MaxTime` bounds how
many ledgers there can be: three, which takes a list with a first, a middle and a
last row, and recordings while a list is open.  The three databases are none, one
with names only (the lookup finds a record of another prefix) and one as the test
data generator leaves it, with items of other times.  One of the ledgers has a
digest that is not that of its content, as after a confirmation.  The second process
that reads the database, the command line signer, opens none.

In `KeeKeystore` the second key is what a second maker, or the same one later, makes
the link lead to while the application holds the first; a maker whose `symlink` comes
second needs a second maker.  Of the three secrets one belongs to the passphrase
that unlocks, one to a wrong passphrase and one to none.  Keys that are used up
bound the run; a file takes its four blocks one by one or together, and any of them may
be the one that the disk refuses.

In `KeeImport` three scans (`MaxScans`) let two cameras take turns and the first be
chosen again; three messages on a bus (`MaxBus`) are one that is no code and a code
that is seen twice.  Of the three payloads one compresses well enough for the room
the entry page gives it and two fit only into the command line's, the one of the last
length that is read again (567 bytes compressed) and the other of the next; of the two
contents of `/dev` one has two cameras and one a single camera after which the
search breaks off.

In `KeeContent` files and subjects are shorter, as long as and longer than the buffer or
what is left of it; `Most` (20) is the count up to which an empty file is resolved again,
since each time adds one.  In `KeeChain` three items (`MaxItems`) are the first with a first, a
second and a third parent, and the second process (`MaxSessions`) the first with other addresses;
two of the four deltas have the same time, one is what an item has before it is set, and
their sums leave an int of eight bits.

Fairness.  In `KeeImport` a message on a bus with a watch is handed to it in the end
(`WF_vars(Dispatch(p))`), since GLib's main loop dispatches every ready source and no
handler blocks.  In `KeeDb` a handler that runs takes its next step
(`WF_vars(Handler)`): it is one call on the main thread, and LMDB's calls return.  Every
other action is started by a person or a device that may as well do nothing, and
the program has no timer or retry; all promises but `ScanEnds` and `HandlersEnd` are
safety properties.  `HandlersEnd` hangs on the fact that the scans always move on, and
that the item loop of `kee_ledger_put`, which ends by an error only, gets one.  That much
is safety, stated as `HandlersBounded` and proved: every call of a handler leaves fewer
(`CallsLeft`), and a put that ends has its ledger on disk.

The four violated properties are quoted from the repository in
`PROJECT.json` under "findings":

1. README.md:247-251 lets Bob share the counter-signed entry with Alice, who
   stores it.  `kee_entry_handle_confirm` serialises in RESPONSE mode, so his
   signature stays at home, and Alice's application shows the transport for
   confirmation again.  Only the command line signer produces the final form.
2. `src/testdata_asn1.py:675` stores a name under the key that it names, and
   `gtk/kee-entry.c:343` shows what was found as the counterparty.  The search finds
   the next key at or above it, and only the prefix byte is compared: whoever has
   no name is shown by the name of somebody else, if there is one.
3. `debug.h:11-14` reserves the end of the application for critical errors, and
   `gtk/kee-key.c:61` goes on after a wrong passphrase.  `gtk/debug.c` maps errors to
   GLib's fatal level as well, and a key file that is missing or does not decrypt is an
   error: the application aborts at the first wrong passphrase, and on a new key
   store before the branch of `gpg_store_check` that makes a key, which
   `gpg_key_load` would not let it reach either.
4. README.md:209 has the parent of an entry be the SHA-512 sum of the entry before
   it, and the test data generator makes it so.  `kee_ledger_item_serialize` takes the
   first 64 bytes of a C structure, so that `kee_ledger_verify` refuses the generator's
   chains, and the program's own in another process from the third item on.

Other disagreements were met that have no run:

* `db.h:35` has the reverse record resolve a content hash to the entry.  After a
  confirmation the head that is stored has another `alice` than the head whose cached
  digest is the key (`gtk/kee-entry.c:103`).
* README.md:249 has Alice verify both signatures.  The parser verifies one
  (`ledger.c:241`), and two presses of "add" on one form yield a request signature over a
  parent that no later serialisation has, which is recorded all the same.
  `kee_ledger_verify`, for its part, accepts a wrong response beside a right request.
* README.md:27 lists an "Import summary and accept page".  After a new entry, its
  transport and "continue", the page of entries is still on the stack: an import
  that asks for confirmation is refused a second one (`gtk/kee-menu.c:265`), its sheet
  replaces the scan form of the import page, and the old entry form is shown.
* README.md:26 promises the import of text that was pasted, and the accept action
  stays disabled until a first scan (`gtk/kee-import.c:298`).  `KeeImport` has that guard
  in `Accept`.
* `tests/content.c` resolves a content once.  Resolved again and again, a file whose
  length and subject together divide the size of the buffer leaves nothing of it, and
  the next resolution writes before the buffer (`content.c:42-45`).  `KeeContent` has the
  step; `InsideWhileRoom` says that it takes that to write outside.

From the transport page there is no way back to the list, since its only way
on is to the import page on top of it: this needs a restart, as README.md:18
describes.  `KeeNav` shows it, but that something can be reached is a possibility
and no property of single behaviours.

## 4. Proofs

`KeeExchangeProofs` proves for all values of the constants that satisfy
`LedgerAssumption` and `ExchangeAssumption` (absent values are not real ones,
`NoKey` is nobody's key, a calloc'ed delta is a delta):

| theorem | statement |
|---|---|
| `TypeCorrect` | `Spec => []TypeOK` |
| `Invariance` | `Spec => []ExchangeInv` |
| `RecordedSafe`, `DeltaSafe`, `TermsSafe`, `ShownSafe` | the four safety invariants of the runs |
| `Refinement` | `Spec => ImplementsAgreement` |

None of the safety invariants is inductive.  That a requester's record is
counter-signed depends on where a FINAL transport can come from:
`ExchangeInv` adds that every response signature in circulation was made by the
command line signer over exactly the entry that carries it (`NetInv`), that an
application only renders requests of its own or ones that circulate
(`RenderingInv`), and that a sheet shows an item that circulates, in the
requester's role only for the requester (`SheetInv`), so that a requester cannot
confirm, and thereby store, a ledger of their own: its slot is already signed.
A sheet that was extended from the database is dealt with by `Known`: its put
fails.  For `TermsSafe` a request that circulates or is shown keeps its delta and terms together
(`RequestKept`), although a confirmation puts another alice into the head.  That put refuses a
second record (`OneRecordPerLedger`) restates its guard and is only part of the induction: the
refinement needs it.  The proof has one lemma per action and under it one step per conjunct
the action can disturb; lemmas on the operators of `KeeLedger` (what
serialising, signing and parsing keep) come first.

`KeeNavProofs` proves for every menu that satisfies `MenuAssumption` (no more
pages than places on the stack, no way back from the list, no exit at all from
the key page) what the run `nav` checks: `TypeCorrect` (the stack keeps to its
8 places), `NavigationSafe`, `VisibleSafe`, `BackSafe`, `LockedSafe` and the action
property `ListSafe`.  That the stack fits needs `NavConsistent` and a count: a
page is pushed only if it has no widget, widgets are exactly the pages of the
stack, so there are as many as `stack_crsr` says and one more is still a page.
That a way back is never missing needs that the list is at the bottom and on no
other place, and that the buttons are those of the current node (`StackInv`);
that no import and no button reaches past the key page, that it is the second
of two pages as long as it is open (`KeyInv`); that only it unlocks, what the
boxes of the other pages may hold (`BoxesInv`).  `NextKeeps` and `PrevKeeps` say what
a push and a pop keep; each action's lemma adds its boxes and flags.  Every step
of the window leaves the key page closed, hence `ListStays`.

`KeeDbProofs` proves for any digests, keys, ledgers and databases that satisfy
`DbAssumption` (keys are numbers) and `SeedsAssumption` (what is there at first is
whole, with no key twice) the invariants of the run `db`:
`TypeCorrect`, `MisuseSafe`, `RestSafe`, `SearchSafe` and `WholeSafe`.  Lemmas on the functions of
`db.c` come first (`RewindRests`, `BegunLooks`, `NextSound`, ...): a context is at
rest, in a lookup, or in a transaction, and each function takes one to another.
`NextSound` needs that a lookup which finds something finds a record, hence that a
set of records with different keys has a first one (`LeastRecord`, from the
well-foundedness of the numbers).  `ContextInv` says which of the three holds at
each call of each handler; `ValuesInv` that a list that is not empty has found a
ledger, without which a row could show the uninitialised buffer; `PutInv` what the
transaction has added at each call of `kee_ledger_put`; `RecordsInv` that what is on disk
is whole.  `CommitWhole` shows that the last `PutInv` commits a whole database.
`HandlersSafe` proves `HandlersBounded`.  The scans of the list are bounded by the ranks of
the heads (`NextHead`); that of the items has nothing that counts them, and `ItemsInv` says
what bounds it: the cursor stands at an item of the same ledger whose time is no less than the
number found before it (`NextItem`), and the times end.  In the item loop of `kee_ledger_put` an
item that was added cannot be added again (`PutNearer`).

Its second part proves from the same assumptions that `KeeDb` implements `KeeStore`
(`StoreRefinement`, the property `ImplementsStore` of the run `db`).  The abstract list is
the heads on disk by their rank, the number of heads before them; the first lemmas are
about ranks in any finite set of numbers (each number below its size is the rank of one
member, a new greatest member leaves the others theirs).  `NextHead` is the point of the
proof: a lookup in a scan finds the head whose rank is the number of those found before,
or that number is the size of the set.  It needs that the scan still sees the database as
it is and stands at a head of the rank before (`ScanInv`), and carries over to what the
list says in `ListInv`: its size is at most the number of heads, a seek never goes beyond
its index, a row's content is that of its index.  Hence `kee_entry_store_seek`, which does
not tell how far it came, always comes to its index.  The last call of `kee_ledger_put` appends
(`FinishSimulates`), because its time is after all others and a reverse record of its
digest would be another one with the same key.

`KeeKeystoreProofs` proves for any keys, secrets and processes that satisfy
`KeystoreAssumption` (absent values are not real ones, two passphrases have two
digests, a key's expression fits in one read) what the run `keystore` checks:
`TypeCorrect`, `LinkSafe`, `SignerSafe` and `UnlockedSafe`.  The inductive
invariant adds, of each process, how much of its key's file there is at each step
of making it, or that the disk refused the rest (`MakesKey`), and that an unlocked one's fingerprint names a file that
its secret opens (`HoldsKey`).  `OthersSound` carries both over the steps of other
processes, from `FilesKept`: files only grow and keep their secret, since a new key
never has the name of an old one.  `LoadSound` says what `gpg_key_load`
returns when it succeeds, `LoadOpens` that it can whenever file and secret belong together.

`KeeImportProofs` proves for any payloads, devices and bounds that satisfy
`TransportAssumption` and `ImportAssumption` (garbage and absent values are no texts) the
safety properties of the run `import`: `TypeCorrect`, `OnceSafe`, `CurrentSafe` (an
action property), `RoundTripSafe` and `GenuineSafe`.  The inductive invariant adds that a
watch which is still there has delivered nothing, that only the last pipeline plays
and only a playing one has messages (`PipelinesInv`), so that the watches that stay have
nothing to handle; and that every transport was made from what was sent in it and
every message and text was shown or is no text (`ShownInv`, `TextsInv`).  `RoundTripSafe` follows the lengths:
what could be shown was short enough to be written and packed whole (`ExportedText`), and its
text fits behind the command byte exactly up to `LastRead` (`EncodedLength`, `ImportReads`).

`KeeContentProofs` proves for any buffer, word and messages that satisfy `ContentAssumption`
(half of the words hold twice what is ever left, messages have a subject behind as
many bytes of header) all that the run `content` checks: `ContentTypeCorrect`, `FlagSafe` and the action
properties `InsideSafe` and `WholeSafe`.  The inductive invariant (`IInv`) adds that a file that is
not empty never leaves more than the buffer (`Small`), and that of a file which does not fit
together with its subject either nothing was read yet or so little is left that no
later reading reaches the subject (`Full`).  `ResolveFacts` gives the numbers of one
resolution, wrapped or not; everything else is by cases on them.

`KeeCodecProofs` proves for bytes of any even number of values (`CodecAssumption`; the run
`chain` has four, the machine 256) that an int survives its way into an entry and out of it
(`RoundTrip`) and that a balance stays an int and exact where the sum is one (`WrapIsInt`).
`DivisionTwice` gives the four bytes of a number as quotients, `Bytes` puts them together
again and finds the sign in the first, `StrapMinimal` shows that `strap_be` restores whatever
the encoding dropped.

`KeeChainProofs` proves for lists of any length, any number of processes and any head
what the run `chain` checks: `TypeCorrect`, `AcceptsSigned` and the action properties
`OpensPut` and `SumIsShown`.  Its assumptions are `ChainAssumption` (deltas are ints, a field of
no bytes or of zeroes is nobody's signature), `CodecAssumption` and `SeedsAssumption` (a
database of the generator has a record of every item, its items ordered by times that differ,
each signed over the parent that its own record has).

The loops of the code are folds and a recursive function, whose values are CHOOSEs.  That a
function with the recursion exists is proved from finite sets of indices, taken in the order
of their maximum or minimum (`FoldExists`; `LeftFoldExists` for the two sums).  Then each loop is
what its invariant says: `Accepts` (`kee_ledger_verify` accepts a list none of whose items ends its
loop), `PutResult` (the records back to the first item whose time another one after it
has, and whether the loop still runs), `CacheFold` and `SumFold` (the balances of the items
summed up so far).  `WrapSum` lets a sum be cut to an int after every item or once at the end,
`OpenedCache` has the two sums go side by side.  `Serialized` and `Parsed` take an item through
its record: what comes back is the item if it is counter-signed, with `RoundTrip` for its
numbers, and an empty one if not; `Scan` says that the `n`-th record found is that of the `n`-th item,
since it has `n - 1` records of smaller time.

The properties that are about what is on disk are not inductive, and `SignedVerifies` is not
either.  `IInv` adds (`Disk`) that the records are those of `Newest` and that as long as nothing was
put every signature was made over the item with the parent it has in this process (`Made`), and
(`Origin`) that the records were made in one process, unless the generator made them; and
(`Requests`) of every item in memory that its request signature was made here, or that it is one
that was found: unchanged, or the last one found, whose response may have been made anew.
From the latter, `KeptVerifies` has the request of the first item found verify because it has no
parent, and that of the second because the bytes of the first hold no address; no more than
two can be such, because at most two were counted (`CountAll`).

Only model-checked: the four violated properties, and `ScanEnds` and `HandlersEnd`, liveness
properties and out of the prover's reach.  Of `HandlersEnd` what is left to TLC is that a
handler that runs can always take a step, and that it takes it.

## 5. Plan

In order; each module with its MC module, mutants and, where marked, proofs.

1. `KeeLedger`, `KeeAgreement`, `KeeExchange`, `KeeExchangeProofs` (done).
2. `KeeNav`, `KeeNavProofs` (done).
3. `KeeDb` with the list and item stores, `KeeStore`, `KeeDbProofs` (done).
4. The refinement of `KeeStore` as a theorem, in `KeeDbProofs` (done).
5. `KeeKeystore`, `KeeKeystoreProofs` (done).
6. `KeeTransport`, `KeeImport`, `KeeImportProofs` (done).
7. `KeeContent`, `KeeContentProofs` (done).
8. `KeeCodec`, `KeeChain`, `KeeCodecProofs`, `KeeChainProofs` (done).

## 6. Not modelled

* Conversions without a property about them: DER, base64, zlib, QR drawing,
  LDAP names, hexadecimal, colours and layout, log texts.
* Widgets other than the actions they trigger.
* The device side of GStreamer and V4L2.
* Declarations nothing uses (`state.c`, `wire.h`, `rpc.h`, `item.h`, `command.h`) and
  code that is commented out.
* Build tools (`asn1/generate.c`, `aux/beamenu/gen.c`) and test data generators.
* Disk corruption and exhaustion: LMDB's commit is atomic.
