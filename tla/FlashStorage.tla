---------------------------- MODULE FlashStorage ----------------------------
(***************************************************************************)
(* The flash storage of the board (targets/stm32h533/Src/flash_storage.c), *)
(* one programming operation at a time; the power may be lost between any  *)
(* two of them.                                                            *)
(*                                                                         *)
(* Addresses are counted in flash words (128 bits) from the base of sector *)
(* 0.  An item is a header, a word for the delete marker, the data and a   *)
(* checksum; the headers chain the items, so the sector is a set of items  *)
(* without gaps and the address of the first virgin header.                *)
(*                                                                         *)
(* kept, interruptions, causes and returned are history variables: no      *)
(* action depends on them, except that interruptions are bounded.          *)
(* An operator X_Y is the definition X with the plausible bug Y; nothing   *)
(* uses it.                                                                *)
(***************************************************************************)
EXTENDS Integers, Sequences, FiniteSets

CONSTANTS
    Size,               \* data words of an item, by its kind: key and size in bytes
    Values, Torn,       \* bound: the data of items; that of one only partly written
    MaxAddress,         \* sector_base_address(1)
    CounterWords,       \* capacity of the counter's EDATA sector (1536)
    Increments,         \* what a counter increment adds: 1..4
    ProgramFails,       \* TRUE if HAL_FLASH_Program may fail
    MaxInterruptions    \* bound: interrupted calls since the last erase

Keys == DOMAIN Size

ASSUME SizeAssumption ==
    /\ Keys # {} /\ \A k \in Keys : Size[k] \in Nat
    /\ Torn \notin Values
    /\ MaxAddress \in Nat /\ MaxAddress >= 2 /\ CounterWords \in Nat
    /\ Increments \subseteq Nat \ {0}
    /\ ProgramFails \in BOOLEAN /\ MaxInterruptions \in Nat

VARIABLES
    sector,         \* sector 0: its header and delete marker
    flash,          \* the items in sector 0
    end,            \* address of the first virgin header
    counters,       \* the programmed words of the counter's sector
    write_address,  \* context->write_address
    pc,             \* the operation that is going on
    item,           \* the item it creates
    old,            \* the address of the item it is to delete then, or 0
    overwritten,    \* a word was programmed that was not virgin
    kept,           \* items a call reported as stored
    interruptions,  \* calls that failed or ended with a power loss on the way
    causes,         \* why write_address may not be the end of the items
    returned        \* the last value of the counter a call returned

history == <<kept, interruptions, causes, returned>>
vars == <<sector, flash, end, counters, write_address, pc, item, old, overwritten, history>>

\* The first item follows the sector's header and delete marker.
MinAddress == 2

\* compute_total_item_size
Total(k) == 3 + Size[k]

Addresses == 0..MaxAddress
NewItem(k, v) == [at |-> write_address, key |-> k, value |-> v]
After(i) == i.at + Total(i.key)

Live == {x \in flash : ~x.deleted}

\* The part of an item its reader sees: the checksum is not looked at.
Read(x) == [at |-> x.at, key |-> x.key,
            value |-> IF x.done >= Size[x.key] THEN x.value ELSE Torn]

Ready == pc = "idle" /\ ~overwritten

Init ==
    /\ sector = "blank" /\ flash = {} /\ end = MinAddress /\ counters = <<>>
    /\ pc = "erase_counter"
    /\ write_address = 0 /\ old = 0
    /\ item = [at |-> 0, key |-> CHOOSE k \in Keys : TRUE, value |-> Torn]
    /\ overwritten = FALSE
    /\ kept = {} /\ interruptions = 0 /\ causes = {} /\ returned = 0

-----------------------------------------------------------------------------
(* Items. *)

HasRoom_HeaderOnly(k) == write_address + 1 <= MaxAddress

HasRoom(k) == write_address + Total(k) <= MaxAddress

WithHeader_OldDeleted(x, o) ==
    {IF y.at = o THEN [y EXCEPT !.deleted = TRUE] ELSE y : y \in flash} \cup {x}

WithHeader(x, o) == flash \cup {x}

\* create_or_update_item as far as the header; an update is a creation that is
\* followed by deleting the old item, whose kind need not be the same.  A word that is not virgin is damaged.
CreateOrUpdate(k, v, o) ==
    /\ Ready
    /\ o = 0 \/ \E x \in Live : x.at = o
    /\ HasRoom(k)
    /\ IF write_address = end
       THEN /\ flash' = WithHeader([at |-> write_address, key |-> k, value |-> v,
                                    done |-> 0, deleted |-> FALSE], o)
            /\ end' = write_address + Total(k)
            /\ item' = NewItem(k, v) /\ old' = o
            /\ pc' = "program"
            /\ UNCHANGED overwritten
       ELSE overwritten' = TRUE /\ UNCHANGED <<flash, end, item, old, pc>>
    /\ UNCHANGED <<sector, counters, write_address, history>>

\* The next word of the data, or the checksum.
Programmed(x) == (flash \ {x}) \cup {[x EXCEPT !.done = @ + 1]}

ProgramData ==
    /\ pc = "program"
    /\ \E x \in flash : x.at = item.at /\ x.done < Size[x.key] /\ flash' = Programmed(x)
    /\ UNCHANGED <<sector, end, counters, write_address, pc, item, old, overwritten, history>>

ProgramChecksum_KeepsAddress ==
    /\ pc = "program"
    /\ \E x \in flash : x.at = item.at /\ x.done = Size[x.key] /\ flash' = Programmed(x)
    /\ UNCHANGED write_address
    /\ IF old = 0 THEN pc' = "idle" /\ kept' = kept \cup {item}
                  ELSE pc' = "mark" /\ UNCHANGED kept
    /\ UNCHANGED <<sector, end, counters, item, old, overwritten,
                   interruptions, causes, returned>>

ProgramChecksum ==
    /\ pc = "program"
    /\ \E x \in flash : x.at = item.at /\ x.done = Size[x.key] /\ flash' = Programmed(x)
    /\ write_address' = After(item)
    /\ IF old = 0 THEN pc' = "idle" /\ kept' = kept \cup {item}
                  ELSE pc' = "mark" /\ UNCHANGED kept
    /\ UNCHANGED <<sector, end, counters, item, old, overwritten,
                   interruptions, causes, returned>>

Marked(x) == (flash \ {x}) \cup {[x EXCEPT !.deleted = TRUE]}

MarkOld_Forgotten ==
    /\ pc = "mark"
    /\ pc' = "idle"
    /\ \E x \in flash : x.at = old /\ kept' = (kept \ {Read(x)}) \cup {item}
    /\ UNCHANGED <<sector, flash, end, counters, write_address, item, old, overwritten,
                   interruptions, causes, returned>>

\* The end of an update.
MarkOld ==
    /\ pc = "mark"
    /\ pc' = "idle"
    /\ \E x \in flash :
          /\ x.at = old
          /\ flash' = Marked(x)
          /\ kept' = (kept \ {Read(x)}) \cup {item}
    /\ UNCHANGED <<sector, end, counters, write_address, item, old, overwritten,
                   interruptions, causes, returned>>

\* HAL_FLASH_Program fails and leaves the word as it was: the call ends, what
\* it has programmed stays.
CallFails ==
    /\ ProgramFails /\ interruptions < MaxInterruptions
    /\ pc \in {"program", "mark"}
    /\ pc' = "idle"
    /\ interruptions' = interruptions + 1
    /\ causes' = IF pc = "program" THEN causes \cup {"failed_create"} ELSE causes
    /\ UNCHANGED <<sector, flash, end, counters, write_address, item, old, overwritten,
                   kept, returned>>

\* delete_item, one word; the address is asserted to be below write_address.
Delete ==
    /\ Ready
    /\ \E x \in Live : x.at < write_address /\ flash' = Marked(x) /\ kept' = kept \ {Read(x)}
    /\ UNCHANGED <<sector, end, counters, write_address, pc, item, old, overwritten,
                   interruptions, causes, returned>>

-----------------------------------------------------------------------------
(* The counter.  If HAL_FLASH_Program fails nothing has changed.           *)

Counter == IF counters = <<>> THEN 1 ELSE counters[Len(counters)]

IncrementCounter(n) ==
    /\ Ready
    /\ Len(counters) < CounterWords
    /\ counters' = Append(counters, Counter + n)
    /\ pc' = "count"
    /\ UNCHANGED <<sector, flash, end, write_address, item, old, overwritten, history>>

ReturnCounter ==
    /\ pc = "count"
    /\ pc' = "idle"
    /\ returned' = Counter
    /\ UNCHANGED <<sector, flash, end, counters, write_address, item, old, overwritten,
                   kept, interruptions, causes>>

-----------------------------------------------------------------------------
(* Erasing and powering up. *)

Erase_WithoutMark ==
    /\ pc = "idle"
    /\ pc' = "erase_counter"
    /\ UNCHANGED <<sector, flash, end, counters, write_address, item, old, overwritten, history>>

\* erase: the delete marker of the sector decides, the rest can be repeated.
Erase ==
    /\ pc = "idle"
    /\ sector' = "deleted"
    /\ pc' = "erase_counter"
    /\ kept' = {} /\ interruptions' = 0
    /\ returned' = 0
    /\ UNCHANGED <<flash, end, counters, write_address, item, old, overwritten, causes>>

EraseCounter ==
    /\ pc = "erase_counter"
    /\ counters' = <<>>
    /\ pc' = "erase_sector"
    /\ UNCHANGED <<sector, flash, end, write_address, item, old, overwritten, history>>

EraseSector ==
    /\ pc = "erase_sector"
    /\ sector' = "blank"
    /\ flash' = {} /\ end' = MinAddress
    /\ overwritten' = FALSE
    /\ pc' = "write_header"
    /\ UNCHANGED <<counters, write_address, item, old, history>>

WriteHeader ==
    /\ pc = "write_header"
    /\ sector' = "valid"
    /\ write_address' = MinAddress
    /\ causes' = {}
    /\ pc' = "idle"
    /\ UNCHANGED <<flash, end, counters, item, old, overwritten, kept, interruptions, returned>>

\* find_write_address: after the last item that is not deleted.
FoundWriteAddress(a) ==
    \/ Live = {} /\ a = MinAddress
    \/ \E x \in Live : a = After(x) /\ \A y \in Live : y.at <= x.at

\* The last item of the sector is a deleted one.
EndsDeleted == \E x \in flash : x.deleted /\ After(x) = end

\* The power is lost and comes back: stm32h533_flash_storage_init.  It only
\* reads, or starts to erase.
PowerCycle ==
    /\ ~overwritten
    /\ IF pc \in {"program", "mark"}
       THEN interruptions < MaxInterruptions /\ interruptions' = interruptions + 1
       ELSE UNCHANGED interruptions
    /\ IF sector = "valid"
       THEN /\ \E a \in Addresses :
                  /\ FoundWriteAddress(a)
                  /\ write_address' = a
            /\ causes' = IF EndsDeleted THEN {"deleted_tail"} ELSE {}
            /\ pc' = "idle"
       ELSE pc' = "erase_counter" /\ UNCHANGED <<write_address, causes>>
    /\ UNCHANGED <<sector, flash, end, counters, item, old, overwritten, kept, returned>>

Next ==
    \/ \E k \in Keys, v \in Values, o \in Addresses : CreateOrUpdate(k, v, o)
    \/ ProgramData
    \/ ProgramChecksum
    \/ MarkOld
    \/ CallFails
    \/ Delete
    \/ \E n \in Increments : IncrementCounter(n)
    \/ ReturnCounter
    \/ Erase
    \/ EraseCounter
    \/ EraseSector
    \/ WriteHeader
    \/ PowerCycle

Spec == Init /\ [][Next]_vars

-----------------------------------------------------------------------------
(* The item store it implements. *)

\* Nothing reads the sector once its marker is programmed.  While a call goes on,
\* its new item is not looked for.
Visible == {x \in Live : pc \in {"program", "mark"} => x.at # item.at}
Items == IF sector = "valid" THEN {Read(x) : x \in Visible} ELSE {}

Store == INSTANCE ItemStore WITH Handles <- Addresses, items <- Items

StoreSpec == Store!Spec

\* What a caller sees of it that knows the items of one kind only, as those of the PIN state
\* do and those of the credentials.
Own(set, k) == {i \in set : i.key = k}

OfKind(k) == INSTANCE ItemStore
             WITH Handles <- Addresses, Keys <- {k}, items <- Own(Items, k), kept <- Own(kept, k)

-----------------------------------------------------------------------------
(* Properties. *)

FlashItem == [at : Addresses, key : Keys, value : Values, done : Nat, deleted : BOOLEAN]

TypeOK ==
    /\ sector \in {"blank", "valid", "deleted"}
    /\ flash \subseteq FlashItem
    /\ end \in Addresses
    /\ counters \in Seq(Nat)
    /\ write_address \in Addresses
    /\ pc \in {"idle", "program", "mark", "count", "erase_counter", "erase_sector", "write_header"}
    /\ item \in [at : Addresses, key : Keys, value : Values \cup {Torn}]
    /\ old \in Addresses
    /\ overwritten \in BOOLEAN
    /\ interruptions \in 0..MaxInterruptions
    /\ causes \subseteq {"failed_create", "deleted_tail"}
    /\ returned \in Nat

\* An item whose call has returned stays readable and whole until a later call for
\* it returns, wherever the power is lost on the way (create first, delete then).
NothingLost == kept \subseteq {Read(x) : x \in Live}

\* Apart from what interrupted calls left, at most one item each, find_item
\* yields what was stored: an item that was updated is there once.
JunkBounded == Cardinality(Items \ kept) <= interruptions

\* Items never reach beyond the sector nor into one another.
ItemsInside ==
    /\ \A x \in flash : x.at >= MinAddress /\ After(x) <= end
    /\ MinAddress <= end /\ end <= MaxAddress
    /\ \A x, y \in flash : x.at < y.at => After(x) <= y.at

\* A word that is not virgin is programmed only after a failed call, or after a power up
\* with deleted items at the end, which find_write_address does not see.
OverwriteCauses == overwritten => causes # {}

\* "erase the sector 0 last to ensure atomicity" (flash_storage.c:327): while the
\* items are there no value of the counter comes twice, wherever the power is lost.
CounterNeverRepeats == sector = "valid" => Counter >= returned

-----------------------------------------------------------------------------
(* The inductive invariant of the proofs. *)

\* The marker of the sector decides whether anything in it counts.
SectorShape ==
    /\ pc \in {"idle", "program", "mark", "count"} <=> sector = "valid"
    /\ sector # "valid" => kept = {} /\ returned = 0
    /\ pc = "write_header" => flash = {} /\ end = MinAddress /\ ~overwritten
    /\ pc \in {"erase_sector", "write_header"} => counters = <<>>

FlashShape ==
    /\ ItemsInside
    /\ \A x, y \in flash : x.at = y.at => x = y
    /\ IF flash = {} THEN end = MinAddress ELSE \E x \in flash : After(x) = end
    /\ \A x \in flash : x.done <= Size[x.key] + 1

\* The item a call creates is the last one; what it is to delete then is still there.
IsNew(x) == x \in Live /\ x.at = item.at /\ x.key = item.key /\ x.value = item.value
CallShape ==
    pc \in {"program", "mark"} =>
        /\ ~overwritten
        /\ item.value # Torn
        /\ After(item) = end
        /\ \E x \in flash : IsNew(x) /\ (pc = "program" <=> x.done <= Size[x.key])
        /\ write_address = IF pc = "program" THEN item.at ELSE end
        /\ old = 0 => pc = "program"
        /\ old # 0 => \E x \in Visible : x.at = old

KeptShape == sector = "valid" => kept \subseteq {Read(x) : x \in Visible}

\* Unless something went wrong before, write_address is the end of the items.
AddressShape ==
    /\ OverwriteCauses
    /\ pc \in {"idle", "count"} /\ causes = {} => write_address = end

IInv == TypeOK /\ SectorShape /\ FlashShape /\ CallShape /\ KeptShape /\ AddressShape
            /\ CounterNeverRepeats

\* What interrupted calls have left in the sector.
Junk == Items \ kept
JunkInv == IsFiniteSet(Junk) /\ Cardinality(Junk) <= interruptions

-----------------------------------------------------------------------------
(* What an assertion of the source says and the code does not do.          *)

\* "address < max_address" (flash_storage.c:376) for the address after an item
\* from which find_item continues, as every power up does from the last one.
IterationStaysInside == sector = "valid" => \A x \in Live : After(x) < MaxAddress
=============================================================================
