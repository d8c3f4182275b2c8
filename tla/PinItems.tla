------------------------------ MODULE PinItems ------------------------------
(***************************************************************************)
(* The PIN state and its items in the storage: which of them a power up    *)
(* finds (ctap_init_pin_persistent_state), and which of them a write       *)
(* replaces (update_persistent_pin_state).                                 *)
(*                                                                         *)
(* ClientPin takes a write of the PIN state for one step that happens or   *)
(* does not.  Here it is a call of the storage, with the outcomes that     *)
(* ItemStore gives such a call: an interrupted one may leave its new item  *)
(* beside the old one, whole or torn.                                      *)
(*                                                                         *)
(* The attempts of a boot are left out: they only make guesses rarer.      *)
(* failed, answered, wrong and interruptions are history variables: no     *)
(* action depends on them, except that interruptions are bounded.          *)
(* An operator X_Y is the definition X with the plausible bug Y; nothing   *)
(* uses it.                                                                *)
(***************************************************************************)
EXTENDS Integers, FiniteSets

CONSTANTS
    Pins, NoPin,        \* bound: the PINs
    NobodysPin, Torn,   \* what the hash in a torn item is, and such an item
    Attempts,           \* CTAP_PIN_TOTAL_ATTEMPTS
    VirginAttempts,     \* what an unprogrammed octet says (255)
    Handles,            \* bound: the handles of items, in the order of the addresses
    MaxInterruptions,   \* bound: writes that fail or are cut off by a power loss
    MayFail             \* whether the storage may fail

ASSUME PinItemsAssumption ==
    /\ NoPin \notin Pins /\ NobodysPin \notin Pins \cup {NoPin}
    /\ Attempts \in Nat \ {0} /\ VirginAttempts \in Nat /\ Attempts < VirginAttempts
    /\ Handles \subseteq Nat \ {0}
    /\ MaxInterruptions \in Nat
    /\ MayFail \in BOOLEAN

VARIABLES
    items, kept,    \* the storage, see ItemStore
    pin_state,      \* state->pin_state
    handle,         \* state->pin_state_item_handle
    failed,         \* whether the last write since the power up returned an error
    answered,       \* the PIN that setPIN or changePIN last answered CTAP2_OK for
    wrong,          \* wrong PINs answered since the last right one
    interruptions   \* writes that failed or were cut off since the last reset

history == <<answered, wrong, interruptions>>
vars == <<items, kept, pin_state, handle, failed, history>>

PinState == [pin : Pins \cup {NobodysPin}, attempts : 0..VirginAttempts]

ASSUME TornAssumption == Torn \notin PinState

Storage == INSTANCE ItemStore
           WITH Keys <- {"PIN_INFO"}, Values <- PinState

-----------------------------------------------------------------------------
(* Power up.                                                               *)

DefaultState == [pin |-> NoPin, attempts |-> Attempts]

\* Virgin flash words: a hash that no PIN has, and more attempts than there are.
TornState == [pin |-> NobodysPin, attempts |-> VirginAttempts]

Loaded(i) == IF i.value = Torn THEN TornState ELSE i.value

\* ctap_init_pin_persistent_state takes the first item that find_item yields.
Load ==
    \/ /\ items' = {}
       /\ pin_state' = DefaultState /\ handle' = 0
    \/ \E first \in items' :
          /\ \A i \in items' : first.at <= i.at
          /\ pin_state' = Loaded(first) /\ handle' = first.at

PowerUp == Load /\ failed' = FALSE

PowerCycle ==
    /\ UNCHANGED <<items, kept>>
    /\ PowerUp
    /\ UNCHANGED history

-----------------------------------------------------------------------------
(* Writes: update_persistent_pin_state with its three outcomes.            *)

NewItem(state) == {i \in Storage!Item : i.value = state}

Written_OldStays(state) ==
    /\ \E i \in NewItem(state) : Storage!Create(i) /\ handle' = i.at
    /\ pin_state' = state /\ failed' = FALSE
    /\ UNCHANGED interruptions

Written_HandleKept(state) ==
    /\ \E i \in NewItem(state) :
          /\ IF handle = 0 THEN Storage!Create(i)
             ELSE \E old \in items : old.at = handle /\ Storage!Update(old, i)
          /\ handle' = IF handle = 0 THEN i.at ELSE handle
    /\ pin_state' = state /\ failed' = FALSE
    /\ UNCHANGED interruptions

\* create_or_update_item returns CTAP_STORAGE_OK.
Written(state) ==
    /\ \E i \in NewItem(state) :
          /\ IF handle = 0 THEN Storage!Create(i)
             ELSE \E old \in items : old.at = handle /\ Storage!Update(old, i)
          /\ handle' = i.at
    /\ pin_state' = state /\ failed' = FALSE
    /\ UNCHANGED interruptions

\* What a call leaves that does not get to its end: nothing, or the new item, without
\* its data, without the second word of it (the end of the hash), or whole.
PartlyDone(state) ==
    /\ interruptions < MaxInterruptions
    /\ interruptions' = interruptions + 1
    /\ \/ UNCHANGED <<items, kept>>
       \/ \E i \in NewItem(state) \cup NewItem(Torn)
                 \cup NewItem([state EXCEPT !.pin = NobodysPin]) :
             Storage!Interrupted(i)

\* It returns an error, which is dropped: the RAM has the new state.
Failed(state) ==
    /\ MayFail
    /\ PartlyDone(state)
    /\ pin_state' = state /\ failed' = TRUE
    /\ UNCHANGED handle

Answers(state) == Written(state) \/ Failed(state)

\* The power is lost during the call: there is no answer.
Lost(state) == PartlyDone(state) /\ PowerUp /\ UNCHANGED <<answered, wrong>>

-----------------------------------------------------------------------------
(* Requests.                                                               *)

PinIsSet == pin_state.pin # NoPin
Fresh(pin) == [pin |-> pin, attempts |-> Attempts]

\* handle_invalid_pin: a PIN other than the one that is set.
WrongPin ==
    /\ PinIsSet /\ pin_state.attempts > 0
    /\ LET state == [pin_state EXCEPT !.attempts = @ - 1]
       IN  \/ /\ Answers(state)
              /\ wrong' = wrong + (IF pin_state.pin \in Pins THEN 1 ELSE 0)
              /\ UNCHANGED answered
           \/ Lost(state)

RightPin_NotPersistent ==
    /\ pin_state.pin \in Pins /\ pin_state.attempts > 0
    /\ pin_state' = Fresh(pin_state.pin) /\ wrong' = 0
    /\ UNCHANGED <<items, kept, handle, failed, answered, interruptions>>

\* check_pin_hash with the right PIN; the attempts are only written if one is missing.
RightPin ==
    /\ pin_state.pin \in Pins /\ pin_state.attempts > 0
    /\ IF pin_state.attempts = Attempts
       THEN /\ wrong' = 0
            /\ UNCHANGED <<items, kept, pin_state, handle, failed, answered, interruptions>>
       ELSE \/ Answers(Fresh(pin_state.pin)) /\ wrong' = 0 /\ UNCHANGED answered
            \/ Lost(Fresh(pin_state.pin))

\* set_pin, for setPIN, or for changePIN once the current PIN has been checked.
StorePin(pin) ==
    /\ pin_state.pin \in Pins \cup {NoPin} /\ pin_state.attempts = Attempts
    /\ \/ Answers(Fresh(pin)) /\ answered' = pin /\ wrong' = 0
       \/ Lost(Fresh(pin))

Reset ==
    /\ Storage!Erase
    /\ PowerUp
    /\ answered' = NoPin /\ wrong' = 0 /\ interruptions' = 0

Init ==
    /\ Storage!Init
    /\ pin_state = DefaultState /\ handle = 0
    /\ failed = FALSE /\ answered = NoPin /\ wrong = 0 /\ interruptions = 0

Next ==
    \/ PowerCycle
    \/ WrongPin
    \/ RightPin
    \/ \E pin \in Pins : StorePin(pin)
    \/ Reset

Spec == Init /\ [][Next]_vars

-----------------------------------------------------------------------------
(* Properties.                                                             *)

\* However many writes the power cut off or the storage failed, the next write replaces
\* an item that is there, never one that is gone, and that item has the very state the
\* RAM has, unless the last write returned an error; with no item there is no PIN.
HandleLive ==
    IF handle = 0
    THEN failed \/ pin_state = DefaultState
    ELSE \E i \in items : i.at = handle /\ (failed \/ Loaded(i) = pin_state)

\* However often the power is lost or a write fails, each such event gives at most one
\* round of attempts; guesses at a torn item's PIN cannot succeed and do not count.
GuessesBounded == wrong <= Attempts * (1 + interruptions)

\* As long as no write has been interrupted or has failed, a power up finds the PIN state
\* and the handle that were there before: the storage holds it once and it is the latest
\* (update_persistent_pin_state, ctap_init_pin_persistent_state).
PowerUpFindsState ==
    [][PowerCycle /\ interruptions = 0 => UNCHANGED <<pin_state, handle>>]_vars

-----------------------------------------------------------------------------
(* What a comment of the source says and the code does not do.             *)

\* "CTAP2_OK pin successfully set and persisted" (ctap_pin.c:160): it stays the PIN
\* until another one is answered.
AnsweredPinStays == answered # NoPin => pin_state.pin = answered

-----------------------------------------------------------------------------
(* The inductive invariant of the proofs. *)

\* What the code can hold of the PIN: no PIN is left with more attempts than there are.
Sound(state) ==
    /\ state \in [pin : Pins \cup {NoPin, NobodysPin}, attempts : 0..VirginAttempts]
    /\ state.pin \in Pins => state.attempts <= Attempts

\* The guesses at a PIN that a state still allows.
Weight(state) == IF state.pin \in Pins THEN state.attempts ELSE 0

\* The places a state can be taken from: the items, and the RAM at the place of the item
\* it is written over.
Slots == {handle} \cup {i.at : i \in items}

\* The guesses that are left at each of them.
Left ==
    {guess \in Slots \X (1..Attempts) :
        \/ guess[1] = handle /\ guess[2] <= Weight(pin_state)
        \/ \E i \in items : i.at = guess[1] /\ guess[2] <= Weight(Loaded(i))}

\* Each interruption adds one place at most.
PlacesInv ==
    /\ items \subseteq Storage!Item
    /\ \A i, j \in items : i.at = j.at => i = j
    /\ \A i \in items : Sound(Loaded(i))
    /\ Sound(pin_state) /\ handle \in Handles \cup {0}
    /\ failed \in BOOLEAN /\ wrong \in Nat /\ interruptions \in Nat
    /\ failed => interruptions # 0
    /\ HandleLive
    /\ IsFiniteSet(Slots) /\ Cardinality(Slots) <= 1 + interruptions

\* A guess that has been made is no longer left at any of them.
IInv == PlacesInv /\ wrong + Cardinality(Left) <= Attempts * (1 + interruptions)
=============================================================================
