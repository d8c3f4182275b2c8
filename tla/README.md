# LionKey: models, checks and proofs

LionKey is a FIDO2 authenticator (CTAP 2.1) for an STM32H533 board. It talks to
hosts over USB (CTAPHID) and over NFC, answers CTAP requests in one thread, and
keeps credentials and PIN state in internal flash. This directory models it in
TLA+. TLC checks the models on small instances (`runs` in `PROJECT.json`), and
TLAPS proves the main results for every value of the constants (`theorems`).
`map` in `PROJECT.json` says which lines of the source each definition models.

    tlc -config MCCtapHid_request.cfg MCCtapHid.tla      # model-check one run
    tlapm CtapHidProofs.tla                               # check the proofs of a module

## 1. Inventory

### How the program runs

There is **one thread and no interrupt handler with logic of its own**. `app_run`
(`targets/stm32h533/Src/app.c`) loops over `app_hid_task`, `app_ctaphid_task` and the
NFC task. Concurrency comes from *nesting*: a CTAP request that takes long calls
back into the application (keepalive points, the wait for the user), which runs the
USB stack and handles incoming packets while the request's code is still on the
stack with pointers into the transport's buffer. The other sources of disorder
are independent hosts and channels, the user, the clock (a 32-bit millisecond
counter) and the power supply.

    host --USB--> usb.c --> app.c --> ctaphid.c --.                .--> credentials --> store --.
                                                   +--> ctap.c --> +--> PIN / token             +--> flash
    reader -NFC-> nfc.c --> ctap_nfc.c -----------'    (dispatch)  '--> reset ------------------'
                       ^------- keepalive / user presence callbacks (nested) -------'

### Components

| Component | State | Operations | What makes it correct | Here |
|---|---|---|---|---|
| **CTAPHID transport** `core/ctaphid.c` | one assembly buffer for all channels, with flags for complete and cancelled; the highest allocated channel ID | process a packet, allocate or resynchronize a channel, time out, cancel, fragment a response | a message is exactly what its channel sent; a running request is never disturbed; busy, timeout and abort concern the owner of the buffer only | `CtapHid` |
| **Application loop, USB side** `app.c`, `usb.c` | send queue of HID reports (129 entries), where the thread is | loop, queue and send packets, wait for an empty queue, keepalive, user presence wait | the queue never overflows into `Error_Handler`; responses are contiguous and complete; every message is answered | `CtapHid` |
| **PIN** `core/ctap_pin.c` | PIN and total attempts (persistent), attempts of this boot (RAM), key agreement keys | setPIN, changePIN, getPinToken, getPinUvAuthTokenUsingPinWithPermissions, getRetries, getKeyAgreement | guesses are limited across power cycles and storage errors; blocking is final | `ClientPin` |
| **pinUvAuthToken** `ctap_pin_uv_auth_token.c`, `ctap_pin_protocol.c` | one token value per protocol, one shared token state: in use, user verified, permissions, relying party, start and last use | begin, stop, check timers, verify, bind, consume | only the last platform that gave the PIN holds a token; for one relying party, one operation with user presence and ten minutes | `ClientPin` |
| **Dispatcher, reset, stateful commands** `ctap.c`, `ctap_reset.c` | one stateful command (getAssertion, two enumerations), its time, its list of handles; time of initialization | dispatch, expire, discard, continue, reset | a continuation never outlives what authorised it; a reset erases everything, and only shortly after power up | `ClientPin` (time and tokens), `Credentials` (the lists) |
| **Credential commands** `ctap_credentials.c`, `ctap_credential_management.c`, `ctap_selection.c` | in `ctap_state` only | makeCredential, getAssertion, getNextAssertion, metadata, enumerations, delete, update | tokens are consumed exactly by operations with user presence; handles stay valid between commands | tokens in `ClientPin`, credentials in `Credentials` |
| **Credential store** `ctap_credential_store.c` | items in the storage, sign counter | store (overwriting the same RP and user), look up, list, delete, update | one discoverable credential per RP and user; nothing lost by a failed overwrite; lists are complete; what was deleted stays so | `Credentials` |
| **Flash storage** `flash_storage.c` | header, deleted mark, data and checksum in flash words; write position; counter pages | find, create, update (create, then delete the old one), delete, erase, increment the counter | a power loss between two programming operations leaves the old or the new item; no word is programmed twice; the counter never falls back while credentials exist | `FlashStorage` |
| **In-memory storage** `ctap_memory_storage.c` | a list of items | the same interface | the abstract item store | `ItemStore` |
| **NFC** `nfc/Src/*.c` | session and exchange state, selected applet, chain buffer and its flags, user presence and its timer | parse an APDU, select, requests and responses in one APDU or in pieces, error recovery, session end | requests and responses arrive whole and in order whatever was left behind; the user presence of a selection ends with its session and its time; a lost reader's session ends | `CtapNfc` (APDUs), `NfcSession` (session), `Encodings` (parsing an APDU) |
| **CBOR parser and encoders** `ctap_parse.c`, `ctap_encode.c`, `ctap_get_info.c`, `ctap_asn1.c` | none | decode and encode | requests with the wrong types or lengths are refused; the algorithm is the first supported one; the DER form of a signature is canonical | the last two in `Encodings`; the models take parsed requests |
| **String truncation** `ctap_string.c` | none | truncation of RP IDs and names | the stored form of an RP ID fits and keeps what it may keep | `Encodings` (RP IDs) |
| **Cryptography** `ctap_crypto_software.c`, `crypto/`, `hw_crypto.c` | hardware contexts | hash, HMAC, ECDH, AES, signatures | test vectors | not modelled: perfect in the models |
| **Board support**, **vendored libraries** | | | | not modelled |

### Behaviour that is hard to test

`hazards` in `PROJECT.json` lists each case at its line. The main ones:

* packets of several channels interleave, arrive late, or arrive in the middle of a
  request whose buffer they may not touch;
* the send queue holds exactly one maximal response, while replies and keepalives
  may already wait in it;
* the power may be lost between recognising a wrong PIN and writing the lower number
  of attempts, and between the two writes of a changePIN; the storage may refuse;
* two protocols with a token value each share one token state; timers are only
  looked at when a request comes; next-item commands verify no token;
* `ctap_init` runs again in the middle of a session when a reset calls it;
* the power may be lost between any two programming operations of the flash: items half
  written, two live copies of an item, a reset half done; a programming operation may
  fail; the write position is found again at every power up;
* a credential that an enumeration still has to return is overwritten, updated or deleted by a
  request in between; the power is lost between a new item and the delete marker of the one it replaces;
* the state of APDU chaining is shared by requests and responses and outlives sessions and applets;
* the reader may leave in every state of an exchange; the user presence of an NFC selection has a timer
  that is looked at in one state only, and the USB side reads the same flag.

## 2. Plan

The modules in the order of the plan, the most important behaviour first; all of it is done:

1. `CtapHid` (transport, loop, queue) with `CtapHidProofs`.
2. `ClientPin` (PIN, token, stateful commands, reset, power loss) with `ClientPinProofs`, and `Authorization` (abstract: the grant
   that entering the PIN is), which the first refines.
3. `ItemStore` (abstract: calls are atomic, an interrupted one may add an item) and `FlashStorage` (one programming
   operation at a time, with power loss and failures), the second refining the first, with `FlashStorageProofs`.
4. `Credentials` (the store, its commands, and the state of getAssertion and the enumerations with real handles)
   with `CredentialsProofs`, and `PinItems` (the PIN state composed with `ItemStore`: which of several items a power up
   finds, and what a torn one is taken for) with `PinItemsProofs`.
5. `NfcSession` (session, error recovery, user presence, and what the NFC side shares with the USB side) with
   `NfcSessionProofs`, and `CtapNfc` (APDUs and chaining) with `CtapNfcProofs`.
6. `Encodings`: pure algorithms against reference definitions, with `EncodingsProofs`.

Still worth doing: the failure of an erase in `FlashStorage`, which needs an assumption on what a half erased sector
reads as; a torn credential item and its readers; an abstract specification of the transport that `CtapHid` implements; responses as
CBOR structures.

The map covers a small share of the repository's lines because most of them are third-party code under `lib/` and
`targets/stm32h533/Drivers` (RFAL, TinyUSB, the ST HAL, CMSIS headers) with no logic of LionKey's. Of the project's own C sources in
`core/`, `nfc/` and the application in `targets/stm32h533/Src`, what is left out is in section 6.

## 3. Modules

### CtapHid

The thread's position is the variable `pc`: `idle` (main loop), `drain` (the wait for an
empty send queue before a message is handled), `request` (a CTAP handler runs), `wait_up`
(it waits for the user), `respond` (the wait before the response is queued), and two
halting states (`Error_Handler`, a failed assertion). `Receive(p)` handles one packet of
a host (`app_handle_incoming_hid_packet` and all of `ctaphid_process_packet`, timeout
check and answer included) and is enabled wherever the code reaches the USB stack, that
is in every `pc` that has not halted. `SendOne` is the IN endpoint becoming free. `Task` is the main loop's
own progress, one action per segment between two points at which packets can be
handled. `buffer` is `ctaphid_channel_buffer_t`, `queue` the report queue, `highest` the
last allocated channel.

Data: an octet is a pair `<<source, position>>`, so that a lost, repeated, reordered or foreign
octet is visible; packet sizes are constants (57 and 59 in the code); a CTAP response is its length.

A definition `X_Y` is `X` with the plausible bug `Y`. It is not used by any other definition;
the entries `mutants` in `PROJECT.json` put it in the place of `X` to show which property
notices. `ClientPin` follows the same convention.

### ClientPin

One request at a time, so a request is one step. The exception is the writes of
the PIN state: `writes` holds those the running request still has to do, `WriteDone` and
`WriteFails` do them one at a time, and `PowerCycle` may come in between. Each request first
drops an expired token and stateful command (`TokenNow`, `StatefulNow`), as `ctap_request` does.
`held` is the set of (host, protocol) pairs whose platform knows the current token: a
signature verifies exactly if its pair is in `held` and a token is in use. The two
history variables, `wrong` (wrong PINs answered since the last right one) and `audit` (what the
current token was used for), are read by no guard.

The key agreement keys are not a variable. A parameter encrypted with an outdated shared secret
is one that does not verify (`NoEffect`) or one that decrypts to a wrong PIN (`WrongPin`); both are
already possible at any time for any host, so keeping the keys would only remove behaviours.
`audit.enumerations` says that the current token authorised an enumeration, so that `OfThisToken` (the token a platform knows is the one that did) fails if another token is issued while the enumeration
goes on. How many credentials a request finds is a choice of the environment, made where the code finds out.

### Authorization

What a pinUvAuthToken is for, without how it is kept: a *grant* to one holder, with what the holder may still do (permissions, relying party, time) and what
it has done. There is at most one, entering a PIN takes it over (`Issue`), and every use names the permission it needs (`Bind`, `Assert`, `Operate`, `Manage`). It knows no protocols, signatures,
timers that are looked at late, stateful commands or attempts. `ClientPin` implements it with the mapping `Grants`: there is a grant if a token is in use and some pair in `held`
knows its value; what is left of it is the shared token state, its age and its uses are the history variable `audit`. `AuthorizationSpec` is that formula: a request
of `ClientPin` that is authorised, whatever signed it, is a use of *the* grant which that grant allows, and one that is not authorised changes no grant except to end it. The history alone
cannot say this, as it does not record which permission a use needed.

### ItemStore, FlashStorage

`ItemStore` is what the callers of a storage rely on: `items` is what `find_item` yields, `kept` the
items whose call returned `CTAP_STORAGE_OK`. Calls are atomic; a call that is interrupted has done nothing, or has added
its new item, whole or torn (`Interrupted`). The storage of the unit tests (`ctap_memory_storage.c`) is this module without `Interrupted`.

`FlashStorage` counts addresses in flash words of 128 bits. `flash` is the set of items in sector 0, each with the number of words
programmed after its header (`done`) and its delete marker; `end` is the first virgin header, which the headers lead to. `write_address` is the
variable of the code, and whether the two are equal is a question, not an assumption: after a failed call, or a power up with a deleted item at the end,
they differ, and the next item is programmed over used words (`overwritten`; what such words hold then is not modelled, only erasing continues).
`pc` is the operation that is going on, one programming operation per step: `create_or_update_item` is `CreateOrUpdate` (the header), `ProgramData` for each
data word, `ProgramChecksum`, and for an update `MarkOld`; `erase` is `Erase` (the sector's delete marker), `EraseCounter`, `EraseSector`, `WriteHeader`. `PowerCycle` is possible
anywhere and is followed by what `init` does. `CallFails` is a `HAL_FLASH_Program` that fails and ends the call.
`kept`, `interruptions`, `causes` and `returned` are history variables.

The refinement hides the new item while its call goes on, because nothing looks for items in the middle of a call; the step that a caller sees is the checksum for a
creation, the old item's delete marker for an update, the sector's delete marker for an erase. A power loss or a failure in the middle of a call is the abstract `Interrupted`.
`OfKind(k)` is the storage as seen by who only knows the items of the kind `k`, and is an `ItemStore` too (`KindsAreApart`).

### Credentials

`items` is the storage's list of credential items in storage order; a handle is a position in it, as the code's handles are
addresses, and a deleted item stays readable until a reset. Every request is one step but for those that store an item: `call` then holds what is still
to be done, first the delete marker of the item that is replaced (`DeleteOld`, or `DeleteOldFails`), then, for makeCredential, the signature counter and the
answer (`MakeCredentialReplies`). The power may be lost in between. `stateful.listed` is the array of handles that getAssertion or an enumeration has filled,
`todo` the part the index has not passed. Whether a request's signature verifies belongs to `ClientPin`; here the request carries the outcome.
History variables: `handed` (credentials the platforms count on), `gone` (reported as deleted), `begun` (items when the list was made), `interruptions`, `orphaned`.
The properties of the store hold after any number of interrupted calls, because they count: `Kept` are the live items but for the one that the running call is about to delete, `DiscoverableOf` and
`OverwrittenOf` an account's discoverable items and its other credentials that were overwritten by a discoverable one.

### PinItems

`ClientPin` takes a write of the PIN state for a step that happens or does not. `PinItems` is the PIN state over `ItemStore` (`INSTANCE ItemStore`), so that an
interrupted write may leave its new item beside the old one, whole or torn, and `Load` is what `ctap_init_pin_persistent_state` makes of them: it takes the first item that
`find_item` yields. It has no tokens and no boot attempts. `GuessesPaid` of `ClientPin` is thus a statement about atomic writes, `GuessesBounded` one about interrupted ones.
Two theorems hold the three modules together: that an `ItemStore` of nothing but PIN items is what the flash gives its caller is `KindsAreApart`, and that writes which are not interrupted are the
atomic ones of `ClientPin`, where a power up reads back the RAM's state, is `PowerUpFindsState`.

### CtapNfc, NfcSession

`CtapNfc` has one action per kind of APDU, as `nfc_parse_and_respond` dispatches them; `ctx` is `t4t_context_t`. An octet is a triple (request or response, command,
position), so that a lost, repeated or stale one is visible, also in the memory of the chain buffer, which is never cleared. The history variable `reader` is what a reader knows from its own
commands and the answers to them; `astray` marks one that began a command while it still had pieces of a response to fetch, or sent something else between the parts of a request,
and nothing is promised to it until it selects an applet again.

`NfcSession` alternates `rfalNfcWorker` (external: the `Worker...` actions) with one step of `app_nfc_task`; in between the time passes, the reader comes or goes and a USB request is
handled. `user_present` is `app_ctap.nfc_user_present`, which the selection of the applet sets and both sides read. `rx` classes the received frame (an APDU, empty, too long).

### Encodings

A state is one call of one function with its input and result; the initial states enumerate the inputs and the only step returns. Each property compares the result with a definition
that is written from the format, not from the code: an APDU is read as the one that was written, a DER integer reads back as the number and is minimal.

### MCCtapHid, MCClientPin, MCFlashStorage, MCCredentials, MCPinItems, MCCtapNfc, MCNfcSession, MCEncodings

The instances for TLC. `MCCtapHid` adds a budget of host packets for liveness. Symmetry (hosts, PINs, relying parties, users, stored values) is used where every property is an invariant or about single steps.

### CtapHidProofs, ClientPinProofs, FlashStorageProofs, CredentialsProofs, PinItemsProofs, CtapNfcProofs, NfcSessionProofs, EncodingsProofs

The theorems, see section 5.

## 4. Runs

Type invariants and the inductive invariants are proved (section 5), not checked again by the runs.

### Passing

| Run | Question | Bounds and why they suffice |
|---|---|---|
| `hid_request` | Is the assembled message exactly what its channel sent; does a PING return exactly that, in whole and contiguous responses? Do packets handled in the middle of a request leave it alone; is the cancel flag its own; does the response always fit; is a channel refused as busy only while a message is in progress, and an incomplete message given up only by its owner or the timeout? | two allocated channels and one that is not; InitSize 1, ContSize 2, up to two continuations: lengths 0, 5 and 8 are none, a message that ends with a full packet, and more than a message can hold (8 is also the length of INIT). Cancel, resynchronization, new messages and stray continuations at every `pc`; a clock of two values and a timeout of 0, so that "elapsed" and "not elapsed" both occur, across the wrap too |
| `hid_liveness` | Is every complete message answered and the buffer freed? | five host packets, enough for allocation, a message of two packets and two disturbances; every kind of command, WINK and an unsupported one included |
| `pin` | Has every answered wrong PIN been paid for in the storage, wherever the power is lost and whichever write fails? Does blocked stay blocked? One holder and one PIN per token; does an enumeration end with the very token that authorised it, unless a reset replaces that; is every authorised request one that the grant of the last PIN entry allows (one relying party, one operation, the permissions asked for, limited age)? | 3 attempts, 2 per boot: both orders in which the counters run out occur; two hosts, protocols, PINs and relying parties: two of everything that could be confused; limits 2 (maximum), 1 (initial) and 1 (stateful) in 3 ticks: each timer before, at and after its limit |
| `flash_powerloss` | Do stored items survive a power loss or a failure between any two programming operations; how much can interrupted calls leave behind; do items stay apart and inside; when is a used word programmed; can the counter fall back; does the flash implement the item store? | items of one and two data words in 14 words: several fill the sector with different rests; two interrupted calls, so that the second meets what the first left; two counter words: the first value, one read back, and a full counter |
| `credentials` | Does an account have one discoverable credential; does what an enumeration still has to return exist, and may it be returned to who asked; is its list complete; how many discoverable credentials can an account get, and how many deleted credentials can come back, by interrupted calls and overwritten credentials; is a credential that was handed out there until it is deleted or reset, or else a later one of its account in its place? | two relying parties and two users, so that accounts differ in either; credProtect 1, 2, 3 and one that is not discoverable; three items: one to replace, its replacement, and another; lists of two; one interrupted call |
| `pin_items` | Is the handle the next write goes through always a live item, and one with the state of the RAM unless the last write returned an error, however many writes were interrupted? How many guesses do interrupted writes give away? Does a power up find the state of the RAM if there were none? | two attempts, two interruptions (so that three items can be live), nine handles: more than two rounds of guesses and the interruptions can use up before a reset |
| `nfc_apdus` | Does every request reach `ctap_request` as sent and every response the reader as given, in one APDU or in pieces? | a short APDU of 2 units, room for 3 in the transmit buffer, a chain buffer of 4: requests and responses of one, two and more pieces, exactly full ones, and ones too long; two commands, so that the second meets what the first left |
| `nfc_session` | Does the user presence of a selection end with its session and its time? Is a lost reader's session ended? | a limit of 3 ticks: before, at, after, and renewed by another selection; the rest of the state is finite in the code |
| `encodings` | Is an APDU read as it was written, does a signature read back, does a truncated RP ID fit, is the first supported algorithm chosen? | all inputs: octets of 4 values with the first bit set in half of them, 3 octets per number, lengths around each case's boundary, lists of two algorithms of every kind |

### Violations: where the code does not do what it says

| Run | What TLC finds |
|---|---|
| `flash_full` | An item may end exactly where the sector does (`flash_storage.c:436`); the next power up continues the search behind it and fails `assert(... address < max_address)` (`flash_storage.c:376`). 102 PIN states of 5 words fill the 510 words exactly, and every counted wrong PIN writes one. |
| `pin_items_answered` | After one interrupted (or failed, and silently dropped) write, the PIN that setPIN answered `CTAP2_OK` for ("successfully set and persisted", `ctap_pin.c:160`) is not the one the next power up finds: it takes the first of two items (`ctap.c:19`). |
| `nfc_keepalive` | An NFC request 12 seconds after the applet was selected: `ctap_request` begins with a keepalive, the early return for NFC no longer applies because the presence timer has cleared the flag, and `assert(ctaphid_has_complete_message_ready(...))` (`app.c:63`) stops the key. |

More disagreements have no run of their own:

* CTAPHID: a resynchronizing channel is answered with the channel ID allocated last (`app.c:433`), not its own as `app.c:427-428` says. With assertions on, a continuation packet after a complete
  message without payload fails `assert(buffer->payload_length != 0)` (`ctaphid.c:415`); `Continue` models it and `hid_request` reaches it. The error packet for a timed-out
  message, which `ctaphid.c:177-179` keeps the timeout check apart for, is built and then overwritten (`app.c:363-371`).
* PIN and token: `last_use` is stamped before the signature is looked at (`ctap_pin_protocol.c:393`), so a refused request lets an unused token live beyond the initial usage limit. A reset
  makes new tokens without stopping the old one (`ctap_reset.c:50`), so an enumeration goes on although its token is gone: `EnumerationEndsUnlessReset` excepts exactly that step. `ctap_init`, which every
  reset runs, restarts the 10 seconds in which a reset is allowed (`ctap.c:101`). The token timers are only compared when a request comes, so a token left alone until the 32-bit tick
  counter has wrapped (49.7 days) is accepted again: `TokenAgeLimited` holds for a clock that does not wrap and fails for one that does.
* Credentials: `ctap_credential_store.c:278-279` says that a discoverable credential of the same account is overwritten; `:280-281` looks for one only if the new credential is discoverable and takes the first it
  finds, discoverable or not, so that an account that also has a credential that is not discoverable may get a second discoverable one, for each such credential that is overwritten. `OnePerAccountOfDiscoverables`
  counts them (`OverwrittenOf`). With an allow list the response carries `numberOfCredentials` for what is then a single assertion (`ctap_credentials.c:1037-1041`, `:1269`). `ctap.c:347-348` says that
  the whole stateful state is zero if no command is active; the error paths of getAssertion leave what they had filled in of it.
* NFC: one selection stands for the user in any number of requests, USB ones included (`app.c:111-113`); the limit is 12 s (`ctap_nfc.h:31`) where the comment at `:49` says two minutes. While the flag is set a USB request gets no keepalives (`app.c:72-100`).
  A first frame without an APDU leaves the session idle for good (`nfc.c:467-472`): `Deaf` in `LostReaderEndsSession`. A long frame is refused in `nfc_handle_wait_rx` only. A request in more than two parts
  whose middle parts carry CLA 0x90 loses the earlier ones: each such part restarts the chain buffer (`ctap_nfc.c:213-224`), and only CLA 0x80 appends. While a response is being fetched a short request is appended behind it (`ctap_nfc.c:182-187`);
  pieces fetched after that may come from beyond the buffer (`ctap_nfc.c:154`). `nfc_init_session` leaves the chaining state, the selection of an applet resets it. These are why `astray` readers are excepted.
* Encodings: a short APDU with Le 0 and no data (80 C0 00 00 00) is refused as malformed (`nfc_utils.c:55`, `:89`) although `ctap_nfc.c:127` and `:140` treat that Le as 256. A credential type other than
  "public-key" leaves the type uninitialized, and a prefix of it is accepted (`ctap_parse.c:709-730`). Truncation may cut a UTF-8 code point (`ctap_string.c:31-36`).
* Flash: the shortcut of `erase` for an empty storage compares an absolute address with the offset 32 (`flash_storage.c:644`) and is never taken.

### Fairness

Two runs assume any. `hid_liveness`: weak fairness of `SendOne` (the host polls the IN endpoint; USB requires it)
and of `Task` (the main loop runs; the wait for the user ends after 30 seconds at the latest,
`app.c:131-168`; every CTAP handler returns). No fairness for packets, keepalives or
the clock. The hosts fall silent after a budget of packets on purpose: `app_wait_for_empty_hid_send_queue` spins until the
queue is empty while it handles packets that refill it, so a host that floods the device can
keep it there for ever, and the code promises nothing else.

`nfc_session`: weak fairness of `Worker` and of `Task`, that is of the main loop, which calls `app_nfc_task` in every iteration. None for the reader, the clock or USB requests.
That the session ends when the reader has left follows because `rfalNfcWorker` then fails a running exchange and restarts from the states without a field, which RFAL does in every call.

### Deadlock

Deadlock is checked in every run but those of `NfcSession`, where a failed assertion stops the key, and of `Encodings`, where a call returns once. In the others some action is always possible. After `Error_Handler`, which no run reaches, and after the failed assertion in `CtapHid`, which `hid_request` reaches, that is the clock alone.

## 5. Proofs

**CtapHidProofs** proves `Invariance == Spec => []IInv` and from it the type invariant, `MessageIntegrity`,
`RequestStaysReady`, `CancelScoped`, `ResponseAlwaysFits`, `ResponsesWhole`, `PingEchoed` and the action properties
`RequestStaysTheSame`, `BusyOnlyWhileInProgress` and `OnlyOwnerOrTimeoutDiscards`, for all packet
sizes, channel ranges, timeouts and clock widths. Assumptions: `SizeAssumption`, `HostAssumption`.
Why more than `TypeOK` is needed: the octets are right only because the next sequence number says where the next
packet's payload goes, and because the length of the assembled part is always the sum of an
initialization packet and that many full continuations unless the message is complete (`BufferShape`); the request
is undisturbed only because the thread works on nothing but a complete message, which no branch of
`ProcessPacket` touches (`RequestShape`). `IInv` is these two with the types. The proof has one lemma per branch of
`ctaphid_process_packet` (`StartMessageSound`, `ContinueSound`, ...), stated about a buffer rather than a state, so that `Receive` combines them.

`ResponsesWhole` and `PingEchoed` are of the queue, and inductive with `IInv`: as predicates of a queue (`Whole`, `Echoed`) they hold of
the packets of one message (`MessageWhole`), survive the removal of the first packet (`TailWhole`) and a reply put
behind (`AppendWhole`, which is where a continuation packet or a head as a reply would break them). A response is put
only into an empty queue, so nothing else is needed. That an octet comes back at its place is the division
with remainder of `OctetPlace`, for every size of packet. The two action properties are about the step that refuses or discards: only
`StartMessage` and `Continue` answer busy, on a buffer the timeout has left occupied (`BusyMeansOccupied`), and only
`Resynchronize` empties an incomplete one (`OnlyResynchronizeDiscards`).

**ClientPinProofs** proves, for all numbers of attempts, hosts, protocols, PINs, relying parties and limits, with
or without failing writes, `Invariance == Spec => []IInv`, and from it the type invariant and `GuessesPaid`, `OneHolder`,
`TokenOfCurrentPin`, `OneOperationPerPin`, `BlockedUntilReset` and `BlockedUntilPowerCycle`. Assumptions:
`AttemptsAssumption`, `ValuesAssumption`, `TimeAssumption`. `IInv` is `BaseInv`, which is inductive and has three parts besides the types, and `EnumerationShape`.

* `PinInv`, the counters. A wrong PIN is counted in RAM at once and in the storage a step later, so "paid for" is not
  inductive while a write is outstanding. `WritesShape` says what can be outstanding: the PIN state of the RAM, and before it, only for a
  changePIN, the old PIN with full attempts, when nothing is owed. `Paid` then bounds `wrong` against the RAM, the
  storage and the pending write separately, and `Blocked` says that a stored PIN without attempts is also blocked in RAM.
* `HolderShape`, the holder of the token: at most one pair in `held`, and the PIN is the one of the issue.
* `ServiceShape`, what a token was used for: once it served a relying party, the token is bound to that one, or has no
  permissions left, which is what prevents the second operation.
* `EnumerationShape`, what binds a stateful command to a token: a running enumeration was authorised by the token that the
  token state is about. Every request that replaces that token ends the enumeration (`StatefulAfterStop`), or is a reset, which
  leaves the token state in use and only makes its value unknown.

One lemma per request shows that `IInv` is kept (`UsedTokenType`, `AuthorizedFresh` and `ServesLeft` hold what they share),
and the action properties follow from one lemma, `StorageChanges`, on which steps change the storage.

`Authorizes == Spec => AuthorizationSpec` is the refinement of `Authorization`. It needs the invariant in three places: `OneHolder` makes the grant that a verified signature names the only
one (`GrantChanges`); `HolderShape` leaves no grant to whom a setPIN gives a PIN; and `AgeInv`, that a used token was at most as old as it may be, makes the timer that is looked at with each request the limit of the abstract `Allows`. There is one lemma per kind of use (`BindGrants`, `AssertGrants`, `OperateGrants`,
`ManageGrants`, `IssueGrants`), that the model's `Authorized` is what the abstract `Allows` asks for is `AuthorizedIsAllowed`, and what requests do that are refused is `TokenLeft`: the grant stays or expires. Its hypothesis is
`MaxClock < ClockMod`, as for the age: with a wrap the token's age on the clock is not the grant's.
That a token serves one operation and one relying party (`OneOperationPerPin`) and only for a limited time (`TokenAgeLimited`) also follows from `AuthorizationSpec`, so the run does not check them again; they are theorems of their
own because the first holds without that hypothesis, and the invariant needs it.

`TokenAgeLimitedHolds` has a hypothesis of its own, which is where the code's promise ends: `MaxClock < ClockMod` (the tick counter
does not wrap after a power up). `EnumerationEndsUnlessResetHolds` needs none: the exception for a reset is in the property, and with
`EnumerationShape` the step in which an enumeration loses its token can only be one that empties `held`.

**FlashStorageProofs** proves, for all sizes of the sector and of the items, any number of interruptions, with or without failing
programs, `Invariance == Spec => []IInv`, from it the type invariant, `NothingLost`, `ItemsInside`, `OverwriteCauses`, `CounterNeverRepeats` and `JunkBounded`, and
`Refinement == Spec => StoreSpec`: the flash storage implements `ItemStore`. Assumption: `SizeAssumption`. The invariant says that the sector's delete marker decides whether
anything in it counts (`SectorShape`); that the items follow one another up to `end` (`FlashShape`); that a running call's new item is the last one and the item it is
to delete is still live (`CallShape`); that stored items are among those a caller would find (`KeptShape`); and that `write_address` is `end` unless one of the two causes has occurred
(`AddressShape`, which needs that `find_write_address` finds the end if the last item is live: `FoundIsEnd`). Without `CallShape` an update could delete an item that is already gone and
`NothingLost` would not be inductive. The refinement has one lemma per step of the code; that the new item comes after all others, which the abstract `Create` and `Update` promise, is `NewIsLast`.
`JunkBounded` needs to know more of a step than that it is one of `ItemStore`: each lemma says which one it is (`Create`, `Update`, `Delete`, `Erase` or `Interrupted`). Only `Interrupted` adds an item that no caller stored, and it
comes with an interruption of the flash; so the items that are not `kept` are never more than the interruptions (`JunkInv`).
`KindsAreApart` follows from `Refinement`: every step of `ItemStore` is, restricted to one kind, a step of `ItemStore` again or a stutter (`StepOfKind`); an update from one kind to another is a deletion to
the one and a creation to the other. TLC cannot take it as a property, because the instance has a parameter.

**CredentialsProofs** proves, for all relying parties, users, kinds, list lengths, storage sizes and numbers of interruptions, the type invariant and the six
properties of the run. Assumption: `CredentialsAssumption`. The invariant has three parts.

* `StoreInv` is about items: a running call's new item is the last one and the old one still lives (`CallShape`); an ID is the position of an earlier item of the same account and as
  discoverable (`IdShape`), so that an updated credential is recognised; and a credential handed out is there, is being replaced, or has been succeeded by a later one (`HandedInv`).
* `CountInv` is about the items that should not be there. `Surplus` are the items of deleted credentials and the later copies of a credential that has several, `ExcessOf(a)` an account's discoverable items and its
  surplus ones. `DeletedGone` and `OnePerAccountOfDiscoverables` are not inductive without them: a second copy is harmless until the first one is deleted, and a copy of a
  credential that is not discoverable until makeCredential overwrites the first. Only an interrupted call adds to either set, one item (`CountInterrupted`); a call that is not exchanges one item for
  another (`CountReplaced`), adds a discoverable credential to an account that has none (`CountAdded`), or overwrites the last item of a credential that is not
  discoverable, which `OverwrittenOf` then counts. The lemmas give these exchanges as set inclusions, and `AccountSum` and `SurplusSum` turn them into numbers.
* `StatefulInv` is about the list of a stateful command, and holds although the store changes between two commands because items are only appended and marked, and an account's live
  item is only ever replaced by a newer one of the account, unless it is deleted, which discards the list.

One lemma per step; `Appending` and `Marking` hold what the steps that change the storage share.

**CtapNfcProofs** proves `RequestAsSent` and `ResponseAsGiven` for all sizes of APDUs and buffers (`CtapNfcAssumption`). The invariant holds only for a reader that is not astray and while the applet is selected, the only
time at which the chaining state is read: with `chaining_in` the buffer begins with what the reader has sent of its request, with `chaining_out` the octets from the offset on
are the rest of its response, and both are never set together. That SELECT resets the chain is what re-establishes it after other applets and sessions.

**NfcSessionProofs** proves `PresenceLimited` for every limit: the flag is set in a session only, every way out of it drops the flag, and a step of the task that keeps it has compared the timer.

**PinItemsProofs** proves `HandleLive`, `GuessesBounded` and `PowerUpFindsState` for any numbers of PINs, attempts, items and interruptions, from `PinItemsAssumption` and `TornAssumption`. `GuessesBounded` is not inductive: how many wrong
PINs may still be answered depends on which of several live items the next power up takes. The invariant counts *places* a PIN state can be taken from, that is the live items, with the RAM at the place of the item it is written over (`Slots`).
An interrupted or failed write adds one place at most, because a whole one removes the old item with its place. `Left` is the set of guesses that are left at each place; its size and the wrong PINs answered so far together never exceed one full round per
place that may exist. The lemmas are about `Left`: what a write, an interruption, a right and a wrong PIN do to the number of its elements.
`HandleLive` distinguishes a write that *failed* (`failed`: the RAM is ahead of the storage until the next write succeeds or the power goes) from one that the power cut off, after which the power up
reads what it finds. So it holds after any number of interruptions. What is false after one is that there is no later item elsewhere (`pin_items_answered`); it holds while nothing was interrupted, because there is only one place then (`Slots`), and gives `PowerUpFindsState`:
the item a power up takes is the one at the handle, which has the state of the RAM.

**EncodingsProofs** proves the four properties of `Encodings` for every number of values of an octet above two, every width of numbers, room and length of input (`EncodingsAssumption`), so
that the 256 values, 32 octets and 1024-octet messages of the code are covered, which TLC cannot enumerate. The loops of the code are choices of a first place in the model (`LeadingZeros`, `Chosen`); that a first place exists is the well-foundedness of `<`, and the rest follows from its being the first.
`ApduIsReadAsWritten` goes through the cases of the parser, and shows of each refusal that no form of APDU has these octets; it distinguishes a short from an extended APDU by length, as the code does. `SignatureIsReadBack` shows that each integer
is minimal in the cases of a high and of a low first octet, and then where the second integer begins.

**Only model-checked**: the liveness properties `EveryMessageAnswered` and `LostReaderEndsSession` (fairness and ENABLED are out of TLAPS' reach). Every other property of a passing run is a theorem. The three violations are TLC's.

## 6. What the models leave out, and what that means

* *Integrity per channel.* `MessageIntegrity` says that the octets come from the owner's channel in the order it sent them. A host that starts
  a new message on its own channel while its previous one is incomplete gets CHANNEL_BUSY, and its further continuation packets
  are taken for the old message if their sequence numbers fit: the code does that too, and only that host is concerned.
* *An uninitialized value.* The error code of the answer to a refused allocation is read without having been set
  (`app.c:402-417`); the model chooses between two codes.
* *Cryptography* is perfect; failures of the random number generator, which the code ignores (TODO in `ctap.c`), do not occur.
* *getKeyAgreement, getRetries, getInfo, selection* change nothing the model keeps: they are `NoEffect`.
* *The LED and the debug console*; the time a handler takes inside an NFC exchange (waiting time extensions are RFAL's).
* *NFC*: the files of the NDEF applet (read, and update, which copies into a constant array), other CLAs, which are only refused, and the set-up of RFAL. RFAL itself is external: its states are those the task tells apart.
* *Credentials*: attestation, hmac-secret and the other extensions, large blobs and the contents of the responses; a torn credential item, which the store would take for a whole one.
* *The CBOR parser and encoders*: field by field over tinycbor; an option of a request is a value the model chooses.
* *Composition*: `Credentials` and `ClientPin` share the token and the state of the stateful commands by having the same actions on it, not by an INSTANCE; `Credentials` lets the state expire at any time, which covers every way `ClientPin` ends it.
* *Reset* is one step in `ClientPin`; the steps of the storage's erase are in `FlashStorage`. An erase or a program of a marker that the HAL refuses in the middle of
  a reset is not modelled.
* *Flash words* are programmed or not: a power loss within the programming of one 128-bit word (which the hardware's ECC would report) is not modelled, nor is the content of a
  word programmed twice, nor the option bytes of the high cycling area. The checksum is never looked at by the code, and so not by the model: a torn item is an item with the data `Torn`.
  The size of an item is a function of its kind; a kind is a key with a size. Counter values do not reach 32 bits: 1536 increments of at most 4.
* *Bounds*: everything marked `bound` at the constants of a module (hosts, PINs, clock, request kinds) limits the instance, not the code.
