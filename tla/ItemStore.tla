----------------------------- MODULE ItemStore -----------------------------
(***************************************************************************)
(* What a storage (core/ctap_storage.h) promises its callers.  The test    *)
(* storage (core/ctap_memory_storage.c) is this specification without      *)
(* Interrupted; the flash storage of the board is shown to implement all   *)
(* of it.                                                                  *)
(*                                                                         *)
(* items are the items find_item yields, in the order of their handles.    *)
(* kept are those of them whose call has returned CTAP_STORAGE_OK: they    *)
(* stay as they are until a later call for them returns.  An interrupted   *)
(* call has done nothing but perhaps added an item, whole or torn.         *)
(***************************************************************************)
EXTENDS Naturals

CONSTANTS
    Handles,        \* bound: the handles an item can have
    Keys,           \* what an item is: its ctap_storage_key_t and its size
    Values, Torn    \* bound: the data of items; that of one only partly written

VARIABLES items, kept

Item == [at : Handles, key : Keys, value : Values \cup {Torn}]

Init == items = {} /\ kept = {}

\* A new item comes after all others.
Last(i) == \A j \in items : j.at < i.at

Create(i) ==
    /\ Last(i) /\ i.value # Torn
    /\ items' = items \cup {i}
    /\ kept' = kept \cup {i}

Update(old, i) ==
    /\ old \in items
    /\ Last(i) /\ i.value # Torn
    /\ items' = (items \ {old}) \cup {i}
    /\ kept' = (kept \ {old}) \cup {i}

Delete(old) ==
    /\ old \in items
    /\ items' = items \ {old}
    /\ kept' = kept \ {old}

Erase == items' = {} /\ kept' = {}

Interrupted(i) ==
    /\ Last(i)
    /\ items' = items \cup {i}
    /\ UNCHANGED kept

Next ==
    \/ \E i \in Item : Create(i) \/ Interrupted(i)
    \/ \E old \in items, i \in Item : Update(old, i)
    \/ \E old \in items : Delete(old)
    \/ Erase

Spec == Init /\ [][Next]_<<items, kept>>
=============================================================================
