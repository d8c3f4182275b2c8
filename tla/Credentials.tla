---------------------------- MODULE Credentials ----------------------------
(***************************************************************************)
(* The credentials: the store (core/ctap_credential_store.c), the commands *)
(* that make, use, list, change and delete them (core/ctap_credentials.c,  *)
(* core/ctap_credential_management.c), and the state that getAssertion and *)
(* the enumerations keep between two requests.                             *)
(*                                                                         *)
(* A handle is a position in items: the storage appends, and a deleted     *)
(* item stays readable where it is until a reset.  The id of a credential, *)
(* 32 random octets, is the position at which it was first stored.         *)
(*                                                                         *)
(* One request at a time; a request that stores an item takes a step for   *)
(* the item, one for the delete marker of the item it replaces and one for *)
(* the rest, and the power may be lost between them.  Whether a signature  *)
(* verifies is the subject of ClientPin: here sig says whether the request *)
(* has one that does.  Requests that change nothing have no action.        *)
(*                                                                         *)
(* handed, gone, begun, interruptions and orphaned are history variables:  *)
(* no action depends on them, except that interruptions are bounded.       *)
(* An operator X_Y is the definition X with the plausible bug Y; nothing   *)
(* uses it.                                                                *)
(***************************************************************************)
EXTENDS Integers, Sequences, FiniteSets

CONSTANTS
    Rps, NoRp, Users,   \* bound: the relying parties and their users
    Kinds,              \* bound: the rk options and credProtect levels they send
    IdLists,            \* bound: the exclude and allow lists they send
    MaxItems,           \* items that fit into the storage
    MaxList,            \* length of the credentials and rp_ids arrays (128)
    MaxInterruptions    \* bound: interrupted calls since the last reset

ASSUME CredentialsAssumption ==
    /\ NoRp \notin Rps
    /\ Kinds \subseteq BOOLEAN \X (1..3)
    /\ {MaxItems, MaxList, MaxInterruptions} \subseteq Nat

VARIABLES
    items,          \* the credential items since the last reset, in storage order
    counter_full,   \* no room for another value of the signature counter
    call,           \* what the running request still has to do
    pin_set,        \* ctap_is_pin_set
    stateful,       \* state->stateful_command_state
    handed,         \* ids of the credentials the platforms count on
    gone,           \* ids deleteCredential has reported as deleted
    begun,          \* number of items when the stateful command began
    interruptions,  \* calls that failed or ended with a power loss on the way
    orphaned        \* a reset erased the items the stateful command refers to

history == <<handed, gone, begun, interruptions, orphaned>>
vars == <<items, counter_full, call, pin_set, stateful, history>>

NoCall == [pc |-> "idle", op |-> "none", old |-> 0]

\* listed: the array of handles; todo: those from the next index on.  The
\* arrays are filled in storage order, so the next one is the smallest.
NoStateful == [cmd |-> "none", rp |-> NoRp, uv |-> FALSE, listed |-> {}, todo |-> {}]

Init ==
    /\ items = <<>>
    /\ counter_full = FALSE
    /\ call = NoCall
    /\ pin_set = FALSE
    /\ stateful = NoStateful
    /\ handed = {} /\ gone = {} /\ begun = 0 /\ interruptions = 0 /\ orphaned = FALSE

-----------------------------------------------------------------------------
(* The store. *)

Live == {h \in DOMAIN items : ~items[h].deleted}

\* The first of some handles in storage order.
First(S) == CHOOSE h \in S : \A g \in S : h <= g

SameAccount(c, d) == c.rp = d.rp /\ c.user = d.user

HasRoom == Len(items) < MaxItems

NewCredential(rp, user, rk, protect) ==
    [id |-> Len(items) + 1, rp |-> rp, user |-> user, disc |-> rk,
     protect |-> protect, deleted |-> FALSE]

Existing_OfRp(c) == {h \in Live : items[h].rp = c.rp}
Existing_Ignored(c) == {}

\* ctap_find_credential_item_by_rp_id_and_user_id: neither discoverability nor
\* protection is looked at.
Existing(c) == {h \in Live : SameAccount(items[h], c)}

\* ctap_lookup_credential_by_desc
WithId(id) == {h \in Live : items[h].id = id}

ShouldAdd_LevelTwo(c, fromAllowList, uv) == uv \/ c.protect # 3

\* ctap_should_add_credential_to_list
ShouldAdd(c, fromAllowList, uv) ==
    /\ c.protect = 3 => uv
    /\ c.protect = 2 => uv \/ fromAllowList

FindDiscoverable_Shortened(rp, uv) ==
    LET found == {h \in Live : items[h].rp = rp /\ items[h].disc /\ ShouldAdd(items[h], FALSE, uv)}
    IN  {h \in found : Cardinality({g \in found : g < h}) < MaxList}

\* ctap_find_discoverable_credentials_by_rp_id
FindDiscoverable(rp, uv) ==
    {h \in Live : items[h].rp = rp /\ items[h].disc /\ ShouldAdd(items[h], FALSE, uv)}

\* ctap_enumerate_rp_ids_of_discoverable_credentials: the first item of each.
DiscoverableRps ==
    {h \in Live : /\ items[h].disc
                  /\ \A g \in Live : items[g].disc /\ items[g].rp = items[h].rp => h <= g}

\* The lists refuse what does not fit into their array.
Fits(S) == Cardinality(S) <= MaxList

-----------------------------------------------------------------------------
(* Requests. *)

Idle == call.pc = "idle"
KeepStore == UNCHANGED <<items, counter_full, call, pin_set>>

\* Where the request begins, what the next one may no longer use is discarded.
Discard == stateful' = NoStateful /\ begun' = 0 /\ orphaned' = FALSE

\* The 30 seconds of a stateful command, or the token that authorised it, are over.
StatefulExpires ==
    /\ Idle /\ stateful.cmd # "none"
    /\ Discard
    /\ KeepStore /\ UNCHANGED <<handed, gone, interruptions>>

\* Set by authenticatorClientPIN.
SetPin ==
    /\ Idle /\ ~pin_set
    /\ pin_set' = TRUE
    /\ UNCHANGED <<items, counter_full, call, stateful, history>>

\* process_exclude_list: a credential with protection 3 does not count unless
\* the user is verified.
Excluded(exclude, rp, uv) ==
    \E id \in exclude : /\ WithId(id) # {}
                        /\ LET c == items[First(WithId(id))]
                           IN  c.rp = rp /\ (c.protect = 3 => uv)

Stores(op, c, old) ==
    /\ HasRoom
    /\ items' = Append(items, c)
    /\ call' = [pc |-> IF old = 0 THEN "reply" ELSE "delete", op |-> op, old |-> old]

\* authenticatorMakeCredential as far as the new item.  Without a PIN a
\* signature is not looked at, and the user counts as not verified.  The
\* stateful command is left alone.
MakeCredential(rp, user, rk, protect, sig, exclude) ==
    /\ Idle
    /\ pin_set /\ rk => sig
    /\ ~Excluded(exclude, rp, pin_set /\ sig)
    /\ LET c == NewCredential(rp, user, rk, protect)
       IN  Stores("make", c, IF rk /\ Existing(c) # {} THEN First(Existing(c)) ELSE 0)
    /\ UNCHANGED <<counter_full, pin_set, stateful, history>>

DeleteOld_Forgotten ==
    /\ call.pc = "delete"
    /\ call' = IF call.op = "make" THEN [call EXCEPT !.pc = "reply"] ELSE NoCall
    /\ UNCHANGED <<items, counter_full, pin_set, stateful, history>>

\* delete_item at the end of create_or_update_item; an update is complete then.
DeleteOld ==
    /\ call.pc = "delete"
    /\ items' = [items EXCEPT ![call.old].deleted = TRUE]
    /\ call' = IF call.op = "make" THEN [call EXCEPT !.pc = "reply"] ELSE NoCall
    /\ UNCHANGED <<counter_full, pin_set, stateful, history>>

\* The marker cannot be programmed: the request ends with an error.
DeleteOldFails ==
    /\ call.pc = "delete" /\ interruptions < MaxInterruptions
    /\ call' = NoCall
    /\ interruptions' = interruptions + 1
    /\ UNCHANGED <<items, counter_full, pin_set, stateful, handed, gone, begun, orphaned>>

\* increment_counter, which any increment may leave full.
Counts == ~counter_full /\ counter_full' \in BOOLEAN

\* What the platforms count on once they have the answer: the new credential,
\* and for a discoverable one no longer those of the same account.
HandedWith(c) ==
    {id \in handed : ~(c.disc /\ SameAccount(items[id], c))} \cup {c.id}

\* The rest of makeCredential: if the counter is full the answer is an error,
\* and the new credential stays.
MakeCredentialReplies ==
    /\ call.pc = "reply"
    /\ call' = NoCall
    /\ \/ Counts /\ handed' = HandedWith(items[Len(items)])
       \/ counter_full /\ UNCHANGED <<counter_full, handed>>
    /\ UNCHANGED <<items, pin_set, stateful, gone, begun, interruptions, orphaned>>

\* What a begin command leaves when it has returned the first of a list.
Began(cmd, rp, uv, S) ==
    IF Cardinality(S) > 1
    THEN /\ stateful' = [cmd |-> cmd, rp |-> rp, uv |-> uv,
                         listed |-> S, todo |-> S \ {First(S)}]
         /\ begun' = Len(items) /\ orphaned' = FALSE
    ELSE Discard

\* authenticatorGetAssertion without an allow list.  Nothing eligible, too much
\* of it, no consent or a full counter: an error, and no stateful command.
GetAssertion(rp, sig) ==
    /\ Idle
    /\ LET uv == pin_set /\ sig
           S == FindDiscoverable(rp, uv)
       IN  \/ Discard /\ UNCHANGED counter_full
           \/ S # {} /\ Fits(S) /\ Counts /\ Began("assertion", rp, uv, S)
    /\ UNCHANGED <<items, call, pin_set, handed, gone, interruptions>>

\* With one, a single credential is used and nothing is left to come back for.
GetAssertionAllowed(rp, sig, allow) ==
    /\ Idle
    /\ Discard
    /\ LET S == {First(WithId(id)) : id \in {i \in allow : WithId(i) # {}}}
           found == {h \in S : items[h].rp = rp /\ ShouldAdd(items[h], TRUE, pin_set /\ sig)}
       IN  UNCHANGED counter_full \/ (found # {} /\ Counts)
    /\ UNCHANGED <<items, call, pin_set, handed, gone, interruptions>>

Advances(cmd) ==
    /\ stateful.cmd = cmd
    /\ LET left == stateful.todo \ {First(stateful.todo)}
       IN  IF left = {} THEN Discard
           ELSE stateful' = [stateful EXCEPT !.todo = left] /\ UNCHANGED <<begun, orphaned>>
    /\ UNCHANGED <<items, call, pin_set, handed, gone, interruptions>>

\* A full counter or an item that is no longer readable: an error, and the
\* same one is next again; like any request without effect that is no step.
GetNextAssertion == Idle /\ Advances("assertion") /\ Counts

EnumerateRpsBegin(sig) ==
    /\ Idle /\ pin_set /\ sig
    /\ IF Fits(DiscoverableRps) /\ DiscoverableRps # {}
       THEN Began("rps", NoRp, TRUE, DiscoverableRps) ELSE Discard
    /\ KeepStore /\ UNCHANGED <<handed, gone, interruptions>>

EnumerateRpsGetNextRp == Idle /\ Advances("rps") /\ UNCHANGED counter_full

EnumerateCredentialsBegin(rp, sig) ==
    /\ Idle /\ pin_set /\ sig
    /\ LET S == FindDiscoverable(rp, TRUE)
       IN  IF Fits(S) /\ S # {} THEN Began("credentials", rp, TRUE, S) ELSE Discard
    /\ KeepStore /\ UNCHANGED <<handed, gone, interruptions>>

EnumerateCredentialsGetNextCredential ==
    Idle /\ Advances("credentials") /\ UNCHANGED counter_full

\* deleteCredential and updateUserInformation discard the state before they look
\* for the credential; tokenRp is the relying party the token is bound to.
MayChange(id, tokenRp) ==
    WithId(id) # {} /\ tokenRp \in {NoRp, items[First(WithId(id))].rp}

DeleteCredential_KeepsState(id, tokenRp, sig) ==
    /\ Idle /\ pin_set /\ sig
    /\ MayChange(id, tokenRp)
    /\ items' = [items EXCEPT ![First(WithId(id))].deleted = TRUE]
    /\ gone' = gone \cup {id} /\ handed' = handed \ {id}
    /\ UNCHANGED <<counter_full, call, pin_set, stateful, begun, orphaned, interruptions>>

DeleteCredential(id, tokenRp, sig) ==
    /\ Idle /\ pin_set /\ sig
    /\ Discard
    /\ \/ /\ MayChange(id, tokenRp)
          /\ items' = [items EXCEPT ![First(WithId(id))].deleted = TRUE]
          /\ gone' = gone \cup {id} /\ handed' = handed \ {id}
       \/ UNCHANGED <<items, gone, handed>>
    /\ UNCHANGED <<counter_full, call, pin_set, interruptions>>

\* The copy keeps everything but the user's names.
UpdateUserInformation(id, tokenRp, sig) ==
    /\ Idle /\ pin_set /\ sig
    /\ Discard
    /\ \/ /\ MayChange(id, tokenRp)
          /\ LET h == First(WithId(id)) IN Stores("update", items[h], h)
       \/ UNCHANGED <<items, call>>
    /\ UNCHANGED <<counter_full, pin_set, handed, gone, interruptions>>

\* authenticatorReset: ctap_init leaves the state of a stateful command as it is.
Reset ==
    /\ Idle
    /\ items' = <<>> /\ counter_full' = FALSE /\ pin_set' = FALSE
    /\ handed' = {} /\ gone' = {} /\ interruptions' = 0
    /\ orphaned' = (stateful.cmd # "none")
    /\ UNCHANGED <<call, stateful, begun>>

PowerCycle ==
    /\ IF Idle THEN UNCHANGED interruptions
       ELSE interruptions < MaxInterruptions /\ interruptions' = interruptions + 1
    /\ call' = NoCall
    /\ Discard
    /\ UNCHANGED <<items, counter_full, pin_set, handed, gone>>

Ids == 1..MaxItems

Next ==
    \/ StatefulExpires
    \/ SetPin
    \/ \E rp \in Rps, user \in Users, kind \in Kinds, sig \in BOOLEAN, exclude \in IdLists :
          MakeCredential(rp, user, kind[1], kind[2], sig, exclude)
    \/ DeleteOld
    \/ DeleteOldFails
    \/ MakeCredentialReplies
    \/ \E rp \in Rps, sig \in BOOLEAN :
          \/ GetAssertion(rp, sig)
          \/ \E allow \in IdLists : GetAssertionAllowed(rp, sig, allow)
          \/ EnumerateCredentialsBegin(rp, sig)
    \/ GetNextAssertion
    \/ \E sig \in BOOLEAN : EnumerateRpsBegin(sig)
    \/ EnumerateRpsGetNextRp
    \/ EnumerateCredentialsGetNextCredential
    \/ \E id \in Ids, tokenRp \in Rps \cup {NoRp}, sig \in BOOLEAN :
          DeleteCredential(id, tokenRp, sig) \/ UpdateUserInformation(id, tokenRp, sig)
    \/ Reset
    \/ PowerCycle

Spec == Init /\ [][Next]_vars

-----------------------------------------------------------------------------
(* Properties. *)

Handles == 1..MaxItems

Item == [id : Handles, rp : Rps, user : Users, disc : BOOLEAN, protect : 1..3,
         deleted : BOOLEAN]

TypeOK ==
    /\ items \in Seq(Item) /\ Len(items) <= MaxItems
    /\ counter_full \in BOOLEAN /\ pin_set \in BOOLEAN
    /\ call \in [pc : {"idle", "delete", "reply"}, op : {"none", "make", "update"},
                 old : 0..MaxItems]
    /\ stateful \in [cmd : {"none", "assertion", "rps", "credentials"}, rp : Rps \cup {NoRp},
                     uv : BOOLEAN, listed : SUBSET Handles, todo : SUBSET Handles]
    /\ handed \subseteq Handles /\ gone \subseteq Handles
    /\ begun \in 0..MaxItems
    /\ interruptions \in 0..MaxInterruptions
    /\ orphaned \in BOOLEAN

\* The items a stateful command still has to return are there.
Pending == IF orphaned THEN {} ELSE stateful.todo

Accounts == [rp : Rps, user : Users]

\* What there is, but for the item that the running call is about to delete.
Kept == {h \in Live : ~(call.pc = "delete" /\ h = call.old)}

\* The discoverable credentials of an account, and its others that are gone although
\* deleteCredential has not deleted them.
DiscoverableOf(a) == {h \in Kept : SameAccount(items[h], a) /\ items[h].disc}
OverwrittenOf(a) ==
    {id \in DOMAIN items :
        /\ items[id].id = id /\ SameAccount(items[id], a) /\ ~items[id].disc
        /\ id \notin gone /\ \A h \in Kept : items[h].id # id}

\* An account has one discoverable credential, whatever the order in which credentials are
\* made, changed and deleted, but for one more for each interrupted call, and one for
\* each credential that is not discoverable and was overwritten in place of a
\* discoverable one (ctap_find_credential_item_by_rp_id_and_user_id takes the first).
OnePerAccountOfDiscoverables ==
    \A a \in Accounts :
        Cardinality(DiscoverableOf(a)) <= 1 + interruptions + Cardinality(OverwrittenOf(a))

\* What a getNextAssertion or an enumeration still returns belongs to an account (an
\* enumerated relying party: to one) that has a discoverable credential now, although
\* other requests came in between and the handles were taken before them.
PendingAccountLives ==
    \A h \in Pending :
        /\ h \in DOMAIN items
        /\ \E g \in Live :
              /\ items[g].disc /\ items[g].rp = items[h].rp
              /\ stateful.cmd # "rps" => items[g].user = items[h].user

\* What it still returns belongs to the relying party that was asked for, is
\* discoverable, and is not protected unless the first request verified the user.
PendingEligible ==
    \A h \in Pending :
        /\ items[h].disc
        /\ stateful.cmd # "rps" => items[h].rp = stateful.rp
        /\ stateful.uv \/ items[h].protect = 1

\* No credential that was eligible when the command began is left out: a list that
\* does not fit is refused, not shortened.
NothingOmitted ==
    \A h \in Live :
        /\ stateful.cmd # "none" /\ ~orphaned
        /\ h <= begun /\ items[h].disc /\ (stateful.uv \/ items[h].protect = 1)
        => IF stateful.cmd = "rps"
           THEN \E g \in stateful.listed : items[g].rp = items[h].rp
           ELSE items[h].rp = stateful.rp => h \in stateful.listed

\* A credential that was deleted does not come back: only an interrupted call leaves an
\* item of which deleteCredential later deletes another copy, and one such item at most
\* (updateUserInformation makes the copies, deleteCredential deletes the first).
DeletedGone ==
    Cardinality({h \in Kept : items[h].id \in gone}) <= interruptions

\* A later credential of the same account was stored, and is there or was deleted.
Succeeded(id) ==
    \E n \in DOMAIN items :
        /\ n > id /\ SameAccount(items[n], items[id])
        /\ WithId(n) # {} \/ n \in gone

\* A credential a platform was given stays until it is deleted or another one of the
\* account is given to the platform.  Only a makeCredential that was interrupted, or found
\* the counter full, deletes it and gives no answer (the old one goes before the answer is
\* known), and never without a later credential of the account in its place.
HandedKept ==
    Idle =>
        \A id \in handed :
            \/ WithId(id) # {}
            \/ (interruptions > 0 \/ counter_full) /\ Succeeded(id)

-----------------------------------------------------------------------------
(* The inductive invariant.                                                *)

\* Between its steps a call has stored its item last, and the item it replaces is one
\* of the same account that is still there ("delete") or just deleted ("reply").
CallShape ==
    LET new == items[Len(items)]
        old == items[call.old]
    IN  /\ call.pc = "idle" <=> call.op = "none"
        /\ call.pc # "idle" => items # <<>> /\ ~new.deleted
        /\ call.pc # "idle" /\ call.op = "make" => new.id = Len(items)
        /\ call.pc = "reply" => call.op = "make"
        /\ call.pc = "delete" => call.old # 0 /\ ~old.deleted
        /\ call.pc # "idle" /\ call.old # 0 =>
              /\ call.old \in 1..(Len(items) - 1)
              /\ SameAccount(old, new)
              /\ call.op = "make" => new.disc
              /\ call.op = "update" => new.id = old.id /\ new.disc = old.disc

\* An id is that of an earlier item, of the same account and as discoverable.
IdShape ==
    \A h \in DOMAIN items :
        /\ items[h].id \in 1..h
        /\ SameAccount(items[items[h].id], items[h])
        /\ items[items[h].id].disc = items[h].disc
        /\ items[items[h].id].id = items[h].id

HistoryShape == handed \subseteq DOMAIN items /\ gone \subseteq DOMAIN items

\* A makeCredential that has deleted the old credential has not answered yet.
HandedInv ==
    \A id \in handed :
        \/ WithId(id) # {}
        \/ call.pc = "reply" /\ call.old # 0 /\ items[call.old].id = id
        \/ (interruptions > 0 \/ counter_full) /\ Succeeded(id)

\* The copies that deleteCredential does not find first, and what was deleted and is there.
Surplus ==
    {h \in Kept : \/ items[h].id \in gone
                  \/ \E g \in Kept : g < h /\ items[g].id = items[h].id}

StatefulShape ==
    /\ stateful.todo \subseteq stateful.listed
    /\ stateful.cmd = "none" => stateful.listed = {} /\ begun = 0
    /\ stateful.cmd = "rps" => stateful.uv
    /\ ~orphaned => stateful.listed \subseteq DOMAIN items /\ begun <= Len(items)

\* What an account has that may be more than it should have.
ExcessOf(a) == {h \in Kept : SameAccount(items[h], a) /\ (items[h].disc \/ h \in Surplus)}

StoreInv == CallShape /\ IdShape /\ HistoryShape /\ HandedInv

\* Each interrupted call adds at most one item that should not be there.
CountInv ==
    /\ Cardinality(Surplus) <= interruptions
    /\ \A a \in Accounts :
          Cardinality(ExcessOf(a)) <= 1 + interruptions + Cardinality(OverwrittenOf(a))

StatefulInv ==
    StatefulShape /\ PendingAccountLives /\ PendingEligible /\ NothingOmitted

IInv == TypeOK /\ StoreInv /\ CountInv /\ StatefulInv

=============================================================================
