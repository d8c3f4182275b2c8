------------------------- MODULE CredentialsProofs -------------------------
(***************************************************************************)
(* Theorems about Credentials, for all relying parties, users, lists and   *)
(* sizes of the storage: the properties of the store and of the stateful   *)
(* commands.                                                               *)
(*                                                                         *)
(* The invariant has a part about the items and the running call           *)
(* (StoreInv), one that counts the items that should not be there          *)
(* (CountInv) and one about the stateful command (StatefulInv).  A step    *)
(* changes the items in three ways only: it appends one (Appending), marks *)
(* one as deleted (Marking) or erases them all; most of the steps leave    *)
(* the store or the stateful command alone.                                *)
(***************************************************************************)
EXTENDS Credentials, WellFoundedInduction, FiniteSetTheorems, TLAPS

-----------------------------------------------------------------------------
(* The first handle.                                                       *)

LessThan == {p \in Nat \X Nat : p[1] < p[2]}

LEMMA LessThanWellFounded == IsWellFoundedOn(LessThan, Nat)
<1>1. LessThan \cap (Nat \X Nat) \subseteq OpToRel(<, Nat)
  BY Zenon DEF LessThan, OpToRel
<1>. QED  BY <1>1, NatLessThanWellFounded, IsWellFoundedOnSubrelation

\* Some handles have a first one.
LEMMA FirstIsLeast ==
    ASSUME NEW S, S \subseteq Nat, S # {}
    PROVE  First(S) \in S /\ \A h \in S : First(S) <= h
<1>1. PICK x \in S : \A y \in S : <<y, x>> \notin LessThan
  BY LessThanWellFounded, WFMin
<1>2. \A y \in S : y \in Nat /\ x \in Nat /\ ~(y < x)
  BY <1>1 DEF LessThan
<1>3. \A y \in S : x <= y
  BY <1>2
<1>. QED  BY <1>3 DEF First

-----------------------------------------------------------------------------
(* The three ways to change the items.                                     *)

Appending(c) == items' = Append(items, c) /\ HasRoom /\ c \in Item /\ ~c.deleted

Marking(h) == items' = [items EXCEPT ![h].deleted = TRUE] /\ h \in Live

LEMMA ItemsType ==
    ASSUME TypeOK
    PROVE  /\ Len(items) \in 0..MaxItems /\ MaxItems \in Nat
           /\ DOMAIN items = 1..Len(items)
           /\ Live \subseteq DOMAIN items /\ DOMAIN items \subseteq Handles
           /\ DOMAIN items \subseteq Nat
           /\ \A h \in DOMAIN items : items[h] \in Item
           /\ items = <<>> <=> Len(items) = 0
  BY CredentialsAssumption DEF TypeOK, Live, Handles

LEMMA AppendingFacts ==
    ASSUME TypeOK, NEW c, Appending(c)
    PROVE  /\ items' \in Seq(Item)
           /\ Len(items') = Len(items) + 1 /\ Len(items') <= MaxItems
           /\ DOMAIN items' = DOMAIN items \cup {Len(items) + 1}
           /\ Len(items) + 1 \notin DOMAIN items
           /\ \A h \in DOMAIN items : items'[h] = items[h]
           /\ items'[Len(items) + 1] = c
           /\ Live' = Live \cup {Len(items) + 1}
<1>1. /\ items' \in Seq(Item) /\ Len(items') = Len(items) + 1
      /\ items'[Len(items) + 1] = c
      /\ \A h \in DOMAIN items : items'[h] = items[h]
      /\ Len(items) \in Nat /\ Len(items) < MaxItems
  BY ItemsType DEF Appending, HasRoom, TypeOK
<1>2. /\ DOMAIN items' = DOMAIN items \cup {Len(items) + 1}
      /\ Len(items) + 1 \notin DOMAIN items
  BY <1>1, ItemsType
<1>3. Live' = Live \cup {Len(items) + 1}
  BY <1>1, <1>2 DEF Live, Appending
<1>. QED  BY <1>1, <1>2, <1>3, ItemsType

LEMMA MarkingFacts ==
    ASSUME TypeOK, NEW h, Marking(h)
    PROVE  /\ items' \in Seq(Item)
           /\ Len(items') = Len(items) /\ DOMAIN items' = DOMAIN items
           /\ \A g \in DOMAIN items :
                 /\ items'[g].id = items[g].id /\ items'[g].rp = items[g].rp
                 /\ items'[g].user = items[g].user /\ items'[g].disc = items[g].disc
                 /\ items'[g].protect = items[g].protect
                 /\ g # h => items'[g] = items[g]
           /\ Live' = Live \ {h}
<1>1. /\ h \in DOMAIN items
      /\ [items[h] EXCEPT !.deleted = TRUE] \in Item
      /\ items[h].deleted = FALSE
  BY ItemsType DEF Marking, Item, Live
<1>2. items' = [items EXCEPT ![h] = [items[h] EXCEPT !.deleted = TRUE]]
  BY DEF Marking
<1>3. /\ items' \in Seq(Item)
      /\ Len(items') = Len(items) /\ DOMAIN items' = DOMAIN items
      /\ items'[h] = [items[h] EXCEPT !.deleted = TRUE]
      /\ \A g \in DOMAIN items \ {h} : items'[g] = items[g]
  BY <1>1, <1>2 DEF TypeOK
<1>4. \A g \in DOMAIN items :
         /\ items'[g].id = items[g].id /\ items'[g].rp = items[g].rp
         /\ items'[g].user = items[g].user /\ items'[g].disc = items[g].disc
         /\ items'[g].protect = items[g].protect
         /\ g # h => items'[g] = items[g]
  BY <1>1, <1>3, ItemsType DEF Item
<1>5. items'[h].deleted
  BY <1>1, <1>3, ItemsType DEF Item
<1>6. Live' = Live \ {h}
  BY <1>1, <1>3, <1>5 DEF Live
<1>. QED  BY <1>3, <1>4, <1>6

\* What the lists consist of.
LEMMA FoundAreLive ==
    ASSUME TypeOK
    PROVE  /\ \A c : Existing(c) \subseteq Live
           /\ \A id : WithId(id) \subseteq Live
           /\ \A rp, uv : FindDiscoverable(rp, uv) \subseteq Live
           /\ DiscoverableRps \subseteq Live
           /\ Live \subseteq Nat /\ Live \subseteq Handles
  BY ItemsType DEF Existing, WithId, FindDiscoverable, DiscoverableRps

LEMMA FirstWithId ==
    ASSUME TypeOK, NEW id, WithId(id) # {}
    PROVE  /\ First(WithId(id)) \in Live
           /\ items[First(WithId(id))].id = id
           /\ \A h \in Live : items[h].id = id => First(WithId(id)) <= h
<1>1. WithId(id) \subseteq Live /\ WithId(id) \subseteq Nat
  BY FoundAreLive
<1>2. /\ First(WithId(id)) \in WithId(id)
      /\ \A h \in WithId(id) : First(WithId(id)) <= h
  BY <1>1, FirstIsLeast
<1>. QED  BY <1>1, <1>2 DEF WithId

-----------------------------------------------------------------------------
(* What the actions do to the items.                                       *)

LEMMA MakeAppends ==
    ASSUME TypeOK, NEW rp \in Rps, NEW user \in Users, NEW kind \in Kinds,
           NEW sig \in BOOLEAN, NEW exclude \in IdLists,
           MakeCredential(rp, user, kind[1], kind[2], sig, exclude)
    PROVE  \E c \in Item, old \in 0..Len(items) :
              /\ Appending(c) /\ call.pc = "idle"
              /\ c.id = Len(items) + 1
              /\ call' = [pc |-> IF old = 0 THEN "reply" ELSE "delete", op |-> "make", old |-> old]
              /\ IF old = 0 THEN c.disc => Existing(c) = {}
                 ELSE c.disc /\ old \in Live /\ SameAccount(items[old], c)
<1>. DEFINE c == NewCredential(rp, user, kind[1], kind[2])
            old == IF kind[1] /\ Existing(c) # {} THEN First(Existing(c)) ELSE 0
<1>1. kind[1] \in BOOLEAN /\ kind[2] \in 1..3
  BY CredentialsAssumption
<1>2. HasRoom /\ items' = Append(items, c)
      /\ call' = [pc |-> IF old = 0 THEN "reply" ELSE "delete", op |-> "make", old |-> old]
  BY DEF MakeCredential, Stores
<1>3. /\ c \in Item /\ c.id = Len(items) + 1 /\ ~c.deleted
      /\ c.disc = kind[1]
  BY <1>1, <1>2, ItemsType DEF NewCredential, Item, HasRoom, Handles
<1>4. Existing(c) # {} => First(Existing(c)) \in Existing(c)
  <2>. Existing(c) \subseteq Nat
    BY FoundAreLive
  <2>. QED  BY FirstIsLeast
<1>5. Existing(c) # {} => /\ First(Existing(c)) \in Live /\ First(Existing(c)) \in 1..Len(items)
                          /\ SameAccount(items[First(Existing(c))], c)
  BY <1>4, ItemsType DEF Existing
<1>6. old \in 0..Len(items)
  BY <1>5, ItemsType
<1>7. IF old = 0 THEN c.disc => Existing(c) = {}
      ELSE c.disc /\ old \in Live /\ SameAccount(items[old], c)
  BY <1>3, <1>5
<1>8. call.pc = "idle"
  BY DEF MakeCredential, Idle
<1>9. Appending(c)
  BY <1>2, <1>3 DEF Appending
<1>. HIDE DEF c, old
<1>. QED  BY <1>2, <1>3, <1>6, <1>7, <1>8, <1>9

LEMMA UpdateAppends ==
    ASSUME TypeOK, NEW id, NEW tokenRp, NEW sig, UpdateUserInformation(id, tokenRp, sig)
    PROVE  /\ call.pc = "idle" /\ Discard
           /\ \/ UNCHANGED <<items, call>>
              \/ \E old \in Live :
                    /\ Appending(items[old])
                    /\ call' = [pc |-> "delete", op |-> "update", old |-> old]
                    /\ \A h \in Live : items[h].id = items[old].id => old <= h
<1>1. call.pc = "idle" /\ Discard
  BY DEF UpdateUserInformation, Idle
<1>2. CASE UNCHANGED <<items, call>>
  BY <1>1, <1>2
<1>3. CASE /\ MayChange(id, tokenRp)
           /\ Stores("update", items[First(WithId(id))], First(WithId(id)))
  <2>1. /\ First(WithId(id)) \in Live /\ items[First(WithId(id))].id = id
        /\ \A h \in Live : items[h].id = id => First(WithId(id)) <= h
    BY <1>3, FirstWithId DEF MayChange
  <2>2. First(WithId(id)) # 0 /\ items[First(WithId(id))] \in Item
        /\ ~items[First(WithId(id))].deleted
    BY <2>1, ItemsType DEF Live
  <2>3. Appending(items[First(WithId(id))])
    BY <1>3, <2>2 DEF Appending, Stores
  <2>4. call' = [pc |-> "delete", op |-> "update", old |-> First(WithId(id))]
    BY <1>3, <2>2 DEF Stores
  <2>. QED  BY <1>1, <2>1, <2>3, <2>4
<1>. QED  BY <1>2, <1>3 DEF UpdateUserInformation

LEMMA DeleteOldMarks ==
    ASSUME TypeOK, CallShape, DeleteOld
    PROVE  Marking(call.old)
<1>1. call.old # 0 /\ ~items[call.old].deleted /\ call.old \in 1..(Len(items) - 1)
  BY DEF DeleteOld, CallShape
<1>2. call.old \in Live
  BY <1>1, ItemsType DEF Live
<1>. QED  BY <1>2 DEF DeleteOld, Marking

LEMMA DeleteCredentialMarks ==
    ASSUME TypeOK, NEW id, NEW tokenRp, NEW sig, DeleteCredential(id, tokenRp, sig)
    PROVE  /\ call.pc = "idle" /\ call' = call /\ Discard
           /\ \/ UNCHANGED <<items, gone, handed>>
              \/ \E h \in Live :
                    /\ Marking(h) /\ items[h].id = id
                    /\ \A g \in Live : items[g].id = id => h <= g
                    /\ gone' = gone \cup {id} /\ handed' = handed \ {id}
<1>1. call.pc = "idle" /\ call' = call /\ Discard
  BY DEF DeleteCredential, Idle
<1>2. CASE UNCHANGED <<items, gone, handed>>
  BY <1>1, <1>2
<1>3. CASE /\ MayChange(id, tokenRp)
           /\ items' = [items EXCEPT ![First(WithId(id))].deleted = TRUE]
           /\ gone' = gone \cup {id} /\ handed' = handed \ {id}
  <2>1. /\ First(WithId(id)) \in Live /\ items[First(WithId(id))].id = id
        /\ \A h \in Live : items[h].id = id => First(WithId(id)) <= h
    BY <1>3, FirstWithId DEF MayChange
  <2>2. Marking(First(WithId(id)))
    BY <1>3, <2>1 DEF Marking
  <2>. QED  BY <1>1, <1>3, <2>1, <2>2
<1>. QED  BY <1>2, <1>3 DEF DeleteCredential

-----------------------------------------------------------------------------
(* Types.                                                                  *)

LEMMA StatefulType ==
    ASSUME TypeOK, Discard \/ UNCHANGED <<stateful, begun, orphaned>>
    PROVE  /\ stateful' \in [cmd : {"none", "assertion", "rps", "credentials"},
                             rp : Rps \cup {NoRp}, uv : BOOLEAN,
                             listed : SUBSET Handles, todo : SUBSET Handles]
           /\ begun' \in 0..MaxItems /\ orphaned' \in BOOLEAN
<1>1. CASE Discard
  <2>1. 0 \in 0..MaxItems
    BY ItemsType
  <2>2. NoStateful \in [cmd : {"none", "assertion", "rps", "credentials"},
                       rp : Rps \cup {NoRp}, uv : BOOLEAN,
                       listed : SUBSET Handles, todo : SUBSET Handles]
    BY DEF NoStateful
  <2>. QED  BY <1>1, <2>1, <2>2 DEF Discard
<1>2. CASE UNCHANGED <<stateful, begun, orphaned>>
  BY <1>2 DEF TypeOK
<1>. QED  BY <1>1, <1>2

LEMMA BeganType ==
    ASSUME TypeOK, NEW cmd \in {"assertion", "rps", "credentials"}, NEW rp \in Rps \cup {NoRp},
           NEW uv \in BOOLEAN, NEW S, S \subseteq Live, Began(cmd, rp, uv, S)
    PROVE  /\ stateful' \in [cmd : {"none", "assertion", "rps", "credentials"},
                             rp : Rps \cup {NoRp}, uv : BOOLEAN,
                             listed : SUBSET Handles, todo : SUBSET Handles]
           /\ begun' \in 0..MaxItems /\ orphaned' \in BOOLEAN
<1>1. CASE Discard
  BY <1>1, StatefulType
<1>2. CASE /\ stateful' = [cmd |-> cmd, rp |-> rp, uv |-> uv,
                           listed |-> S, todo |-> S \ {First(S)}]
           /\ begun' = Len(items) /\ orphaned' = FALSE
  <2>1. S \subseteq Handles
    BY FoundAreLive
  <2>. QED  BY <1>2, <2>1, ItemsType
<1>. QED  BY <1>1, <1>2 DEF Began

LEMMA AdvancesType ==
    ASSUME TypeOK, NEW cmd, Advances(cmd)
    PROVE  /\ stateful' \in [cmd : {"none", "assertion", "rps", "credentials"},
                             rp : Rps \cup {NoRp}, uv : BOOLEAN,
                             listed : SUBSET Handles, todo : SUBSET Handles]
           /\ begun' \in 0..MaxItems /\ orphaned' \in BOOLEAN
<1>1. CASE Discard
  BY <1>1, StatefulType
<1>2. CASE /\ stateful' = [stateful EXCEPT !.todo = stateful.todo \ {First(stateful.todo)}]
           /\ UNCHANGED <<begun, orphaned>>
  BY <1>2 DEF TypeOK
<1>. QED  BY <1>1, <1>2 DEF Advances

\* A new item is one more, and a marked one is an item.
LEMMA StoreType ==
    ASSUME TypeOK, (\E c : Appending(c)) \/ (\E h : Marking(h)) \/ UNCHANGED items
    PROVE  items' \in Seq(Item) /\ Len(items') <= MaxItems
<1>1. ASSUME NEW c, Appending(c) PROVE items' \in Seq(Item) /\ Len(items') <= MaxItems
  BY <1>1, AppendingFacts
<1>2. ASSUME NEW h, Marking(h) PROVE items' \in Seq(Item) /\ Len(items') <= MaxItems
  BY <1>2, MarkingFacts, ItemsType
<1>3. CASE UNCHANGED items
  BY <1>3 DEF TypeOK
<1>. QED  BY <1>1, <1>2, <1>3

LEMMA TypeStep ==
    ASSUME IInv, [Next]_vars
    PROVE  TypeOK'
<1>. TypeOK /\ CallShape
  BY DEF IInv, StoreInv
<1>. DEFINE CallType == [pc : {"idle", "delete", "reply"}, op : {"none", "make", "update"},
                         old : 0..MaxItems]
            StatefulTypes == [cmd : {"none", "assertion", "rps", "credentials"},
                              rp : Rps \cup {NoRp}, uv : BOOLEAN,
                              listed : SUBSET Handles, todo : SUBSET Handles]
<1>1. TypeOK' <=>
               /\ items' \in Seq(Item) /\ Len(items') <= MaxItems
               /\ counter_full' \in BOOLEAN /\ pin_set' \in BOOLEAN
               /\ call' \in CallType
               /\ stateful' \in StatefulTypes /\ begun' \in 0..MaxItems /\ orphaned' \in BOOLEAN
               /\ handed' \subseteq Handles /\ gone' \subseteq Handles
               /\ interruptions' \in 0..MaxInterruptions
  BY DEF TypeOK
<1>2. NoCall \in CallType /\ 0 \in 0..MaxInterruptions /\ 0 \in 0..MaxItems
      /\ MaxInterruptions \in Nat /\ MaxItems \in Nat
  BY CredentialsAssumption DEF NoCall
<1>3. /\ items \in Seq(Item) /\ Len(items) <= MaxItems
      /\ counter_full \in BOOLEAN /\ pin_set \in BOOLEAN /\ call \in CallType
      /\ stateful \in StatefulTypes /\ begun \in 0..MaxItems /\ orphaned \in BOOLEAN
      /\ handed \subseteq Handles /\ gone \subseteq Handles
      /\ interruptions \in 0..MaxInterruptions
  BY DEF TypeOK
<1>. HIDE DEF CallType, StatefulTypes
<1>4. ASSUME StatefulExpires PROVE TypeOK'
  BY <1>1, <1>3, <1>4, StatefulType DEF StatefulExpires, KeepStore, StatefulTypes
<1>5. ASSUME SetPin PROVE TypeOK'
  BY <1>1, <1>3, <1>5 DEF SetPin, history
<1>6. ASSUME NEW rp \in Rps, NEW user \in Users, NEW kind \in Kinds, NEW sig \in BOOLEAN,
             NEW exclude \in IdLists, MakeCredential(rp, user, kind[1], kind[2], sig, exclude)
      PROVE  TypeOK'
  <2>1. call' \in CallType /\ \E c : Appending(c)
    BY <1>6, MakeAppends, ItemsType DEF CallType
  <2>2. items' \in Seq(Item) /\ Len(items') <= MaxItems
    BY <2>1, StoreType
  <2>. QED  BY <1>1, <1>3, <1>6, <2>1, <2>2 DEF MakeCredential, history
<1>7. ASSUME DeleteOld PROVE TypeOK'
  <2>1. items' \in Seq(Item) /\ Len(items') <= MaxItems
    BY <1>7, DeleteOldMarks, StoreType
  <2>2. call' \in CallType
    BY <1>2, <1>3, <1>7 DEF DeleteOld, CallType
  <2>. QED  BY <1>1, <1>3, <1>7, <2>1, <2>2 DEF DeleteOld, history
<1>8. ASSUME DeleteOldFails PROVE TypeOK'
  <2>1. interruptions' \in 0..MaxInterruptions
    BY <1>2, <1>3, <1>8 DEF DeleteOldFails
  <2>. QED  BY <1>1, <1>2, <1>3, <1>8, <2>1 DEF DeleteOldFails
<1>9. ASSUME MakeCredentialReplies PROVE TypeOK'
  <2>1. handed' \subseteq Handles
    <3>1. call.pc # "idle"
      BY <1>9 DEF MakeCredentialReplies
    <3>2. Len(items) \in DOMAIN items
      BY <3>1, ItemsType DEF CallShape
    <3>3. items[Len(items)].id \in Handles
      BY <3>2, ItemsType DEF Item
    <3>. QED  BY <1>3, <1>9, <3>3 DEF MakeCredentialReplies, HandedWith
  <2>2. counter_full' \in BOOLEAN
    BY <1>3, <1>9 DEF MakeCredentialReplies, Counts
  <2>. QED  BY <1>1, <1>2, <1>3, <1>9, <2>1, <2>2 DEF MakeCredentialReplies
<1>10. ASSUME NEW rp \in Rps, NEW sig \in BOOLEAN, GetAssertion(rp, sig)
       PROVE  TypeOK'
  <2>1. counter_full' \in BOOLEAN
    BY <1>3, <1>10 DEF GetAssertion, Counts
  <2>2. stateful' \in StatefulTypes /\ begun' \in 0..MaxItems /\ orphaned' \in BOOLEAN
    <3>1. CASE Discard
      BY <3>1, StatefulType DEF StatefulTypes
    <3>2. CASE Began("assertion", rp, pin_set /\ sig, FindDiscoverable(rp, pin_set /\ sig))
      BY <1>3, <3>2, BeganType, FoundAreLive DEF StatefulTypes
    <3>. QED  BY <1>10, <3>1, <3>2 DEF GetAssertion
  <2>. QED  BY <1>1, <1>3, <1>10, <2>1, <2>2 DEF GetAssertion
<1>11. ASSUME NEW rp \in Rps, NEW sig \in BOOLEAN, NEW allow \in IdLists,
              GetAssertionAllowed(rp, sig, allow)
       PROVE  TypeOK'
  <2>1. counter_full' \in BOOLEAN
    BY <1>3, <1>11 DEF GetAssertionAllowed, Counts
  <2>2. stateful' \in StatefulTypes /\ begun' \in 0..MaxItems /\ orphaned' \in BOOLEAN
    BY <1>11, StatefulType DEF GetAssertionAllowed, StatefulTypes
  <2>. QED  BY <1>1, <1>3, <1>11, <2>1, <2>2 DEF GetAssertionAllowed
<1>12. ASSUME NEW rp \in Rps, NEW sig \in BOOLEAN, EnumerateCredentialsBegin(rp, sig)
       PROVE  TypeOK'
  <2>1. stateful' \in StatefulTypes /\ begun' \in 0..MaxItems /\ orphaned' \in BOOLEAN
    <3>1. CASE Discard
      BY <3>1, StatefulType DEF StatefulTypes
    <3>2. CASE Began("credentials", rp, TRUE, FindDiscoverable(rp, TRUE))
      BY <1>3, <3>2, BeganType, FoundAreLive DEF StatefulTypes
    <3>. QED  BY <1>12, <3>1, <3>2 DEF EnumerateCredentialsBegin
  <2>. QED  BY <1>1, <1>3, <1>12, <2>1
            DEF EnumerateCredentialsBegin, KeepStore
<1>13. ASSUME GetNextAssertion PROVE TypeOK'
  <2>1. counter_full' \in BOOLEAN
    BY <1>13 DEF GetNextAssertion, Counts
  <2>. QED  BY <1>1, <1>3, <1>13, <2>1, AdvancesType DEF GetNextAssertion, Advances, StatefulTypes
<1>14. ASSUME NEW sig \in BOOLEAN, EnumerateRpsBegin(sig)
       PROVE  TypeOK'
  <2>1. stateful' \in StatefulTypes /\ begun' \in 0..MaxItems /\ orphaned' \in BOOLEAN
    <3>1. CASE Discard
      BY <3>1, StatefulType DEF StatefulTypes
    <3>2. CASE Began("rps", NoRp, TRUE, DiscoverableRps)
      BY <1>3, <3>2, BeganType, FoundAreLive DEF StatefulTypes
    <3>. QED  BY <1>14, <3>1, <3>2 DEF EnumerateRpsBegin
  <2>. QED  BY <1>1, <1>3, <1>14, <2>1
            DEF EnumerateRpsBegin, KeepStore
<1>15. ASSUME EnumerateRpsGetNextRp PROVE TypeOK'
  BY <1>1, <1>3, <1>15, AdvancesType DEF EnumerateRpsGetNextRp, Advances, StatefulTypes
<1>16. ASSUME EnumerateCredentialsGetNextCredential PROVE TypeOK'
  BY <1>1, <1>3, <1>16, AdvancesType
     DEF EnumerateCredentialsGetNextCredential, Advances, StatefulTypes
<1>17. ASSUME NEW id \in Ids, NEW tokenRp \in Rps \cup {NoRp}, NEW sig \in BOOLEAN,
              DeleteCredential(id, tokenRp, sig)
       PROVE  TypeOK'
  <2>1. Discard /\ ((\E h : Marking(h)) \/ UNCHANGED items)
    BY <1>17, DeleteCredentialMarks
  <2>2. items' \in Seq(Item) /\ Len(items') <= MaxItems
    BY <2>1, StoreType
  <2>3. stateful' \in StatefulTypes /\ begun' \in 0..MaxItems /\ orphaned' \in BOOLEAN
    BY <2>1, StatefulType DEF StatefulTypes
  <2>4. handed' \subseteq Handles /\ gone' \subseteq Handles
    BY <1>3, <1>17 DEF DeleteCredential, Ids, Handles
  <2>. QED  BY <1>1, <1>3, <1>17, <2>2, <2>3, <2>4 DEF DeleteCredential
<1>18. ASSUME NEW id \in Ids, NEW tokenRp \in Rps \cup {NoRp}, NEW sig \in BOOLEAN,
              UpdateUserInformation(id, tokenRp, sig)
       PROVE  TypeOK'
  <2>1. Discard /\ ((\E c : Appending(c)) \/ UNCHANGED items)
    BY <1>18, UpdateAppends
  <2>2. items' \in Seq(Item) /\ Len(items') <= MaxItems
    BY <2>1, StoreType
  <2>3. stateful' \in StatefulTypes /\ begun' \in 0..MaxItems /\ orphaned' \in BOOLEAN
    BY <2>1, StatefulType DEF StatefulTypes
  <2>4. call' \in CallType
    BY <1>2, <1>3, <1>18, UpdateAppends, FoundAreLive DEF CallType, Handles
  <2>. QED  BY <1>1, <1>3, <1>18, <2>2, <2>3, <2>4
            DEF UpdateUserInformation
<1>19. ASSUME Reset PROVE TypeOK'
  <2>1. items' \in Seq(Item) /\ Len(items') <= MaxItems
    BY <1>2, <1>19 DEF Reset
  <2>. QED  BY <1>1, <1>2, <1>3, <1>19, <2>1 DEF Reset
<1>20. ASSUME PowerCycle PROVE TypeOK'
  <2>1. interruptions' \in 0..MaxInterruptions
    BY <1>2, <1>3, <1>20 DEF PowerCycle
  <2>2. stateful' \in StatefulTypes /\ begun' \in 0..MaxItems /\ orphaned' \in BOOLEAN
    BY <1>20, StatefulType DEF PowerCycle, StatefulTypes
  <2>. QED  BY <1>1, <1>2, <1>3, <1>20, <2>1, <2>2 DEF PowerCycle
<1>21. ASSUME UNCHANGED vars PROVE TypeOK'
  BY <1>1, <1>3, <1>21 DEF vars, history
<1>. QED  BY <1>1, <1>4, <1>5, <1>6, <1>7, <1>8, <1>9, <1>10, <1>11, <1>12, <1>13, <1>14,
             <1>15, <1>16, <1>17, <1>18, <1>19, <1>20, <1>21
          DEF Next

-----------------------------------------------------------------------------
(* The items and the running call.                                         *)

\* What the invariant says of an item.
LEMMA IdType ==
    ASSUME TypeOK, IdShape, NEW h \in DOMAIN items
    PROVE  items[h].id \in DOMAIN items /\ items[h].id <= h
<1>1. h \in Nat /\ h <= Len(items) /\ items[h].id \in 1..h
  BY ItemsType DEF IdShape
<1>. QED  BY <1>1, ItemsType

\* An item is added: what does not depend on whether it is a new credential.
LEMMA AppendedShape ==
    ASSUME TypeOK, IdShape, HistoryShape, NEW c \in Item, Appending(c),
           \/ c.id = Len(items) + 1
           \/ \E old \in DOMAIN items : c = items[old],
           UNCHANGED <<gone, handed>>
    PROVE  IdShape' /\ HistoryShape'
<1>0. PICK N \in Nat : N = Len(items) + 1
  BY ItemsType
<1>1. /\ N \in Nat /\ N \notin DOMAIN items
      /\ DOMAIN items' = DOMAIN items \cup {N}
      /\ \A h \in DOMAIN items : items'[h] = items[h]
      /\ items'[N] = c
  BY <1>0, AppendingFacts
<1>2. ASSUME NEW h \in DOMAIN items
      PROVE  /\ items'[h].id \in 1..h /\ SameAccount(items'[items'[h].id], items'[h])
             /\ items'[items'[h].id].disc = items'[h].disc
             /\ items'[items'[h].id].id = items'[h].id
  <2>1. items[h].id \in DOMAIN items
    BY IdType
  <2>. QED  BY <1>1, <2>1 DEF IdShape
<1>3. /\ c.id \in 1..N /\ SameAccount(items'[c.id], c)
      /\ items'[c.id].disc = c.disc /\ items'[c.id].id = c.id
  <2>1. CASE c.id = N
    BY <1>0, <1>1, <2>1 DEF SameAccount
  <2>2. ASSUME NEW old \in DOMAIN items, c = items[old]
        PROVE  /\ c.id \in 1..N /\ SameAccount(items'[c.id], c)
               /\ items'[c.id].disc = c.disc /\ items'[c.id].id = c.id
    <3>1. /\ items[old].id \in DOMAIN items /\ SameAccount(items[items[old].id], items[old])
          /\ items[items[old].id].disc = items[old].disc
          /\ items[items[old].id].id = items[old].id
      BY IdType DEF IdShape
    <3>2. items[old].id \in 1..N
      BY <1>0, <3>1, ItemsType
    <3>3. items'[c.id] = items[c.id]
      BY <1>1, <2>2, <3>1
    <3>4. /\ SameAccount(items'[c.id], c)
          /\ items'[c.id].disc = c.disc /\ items'[c.id].id = c.id
      BY <2>2, <3>1, <3>3
    <3>. QED  BY <2>2, <3>2, <3>4
  <2>. QED  BY <1>0, <2>1, <2>2
<1>4. IdShape'
  BY <1>1, <1>2, <1>3 DEF IdShape, SameAccount
<1>5. HistoryShape'
  BY <1>1 DEF HistoryShape
<1>. QED  BY <1>4, <1>5

\* A later credential of the account stays, or is deleted by the platform.
LEMMA SuccessionKept ==
    ASSUME DOMAIN items \subseteq DOMAIN items',
           \A h \in DOMAIN items : items'[h].rp = items[h].rp /\ items'[h].user = items[h].user,
           gone \subseteq gone',
           \A n \in DOMAIN items : WithId(n) # {} => WithId(n)' # {} \/ n \in gone'
    PROVE  \A id \in DOMAIN items : Succeeded(id) => Succeeded(id)'
BY DEF Succeeded, SameAccount

LEMMA StoreMake ==
    ASSUME TypeOK, StoreInv, NEW c \in Item, NEW old \in 0..Len(items),
           Appending(c), call.pc = "idle", c.id = Len(items) + 1,
           call' = [pc |-> IF old = 0 THEN "reply" ELSE "delete", op |-> "make", old |-> old],
           IF old = 0 THEN c.disc => Existing(c) = {}
                      ELSE c.disc /\ old \in Live /\ SameAccount(items[old], c),
           UNCHANGED <<gone, handed, interruptions, counter_full>>
    PROVE  StoreInv'
<1>0. PICK N \in Nat : N = Len(items) + 1
  BY ItemsType
<1>1. /\ N \notin DOMAIN items /\ Len(items') = N
      /\ DOMAIN items' = DOMAIN items \cup {N} /\ DOMAIN items = 1..Len(items)
      /\ \A h \in DOMAIN items : items'[h] = items[h]
      /\ items'[N] = c
      /\ Live' = Live \cup {N} /\ Live \subseteq DOMAIN items
  <2>1. /\ N \notin DOMAIN items /\ Len(items') = N
        /\ DOMAIN items' = DOMAIN items \cup {N}
        /\ \A h \in DOMAIN items : items'[h] = items[h]
        /\ items'[N] = c
        /\ Live' = Live \cup {N}
    BY <1>0, AppendingFacts
  <2>. QED  BY <2>1, ItemsType
<1>2. CallShape /\ IdShape /\ HistoryShape
  BY DEF StoreInv
<1>3. IdShape' /\ HistoryShape'
  BY <1>1, <1>2, AppendedShape
<1>4. CallShape'
  <2>1. ~c.deleted /\ items' # <<>>
    BY <1>1 DEF Appending
  <2>2. CASE old = 0
    BY <1>0, <1>1, <2>1, <2>2 DEF CallShape
  <2>3. CASE old # 0
    <3>1. old \in Live /\ old \in DOMAIN items /\ items'[old] = items[old]
          /\ c.disc /\ SameAccount(items[old], c) /\ ~items[old].deleted
      BY <1>1, <2>3 DEF Live
    <3>2. old \in 1..(Len(items') - 1)
      BY <1>1, <3>1
    <3>3. call' = [pc |-> "delete", op |-> "make", old |-> old]
      BY <2>3
    <3>. QED  BY <1>0, <1>1, <2>1, <2>3, <3>1, <3>2, <3>3 DEF CallShape, SameAccount
  <2>. QED  BY <2>2, <2>3
<1>5. HandedInv'
  <2> SUFFICES ASSUME NEW id \in handed
               PROVE  \/ WithId(id)' # {}
                      \/ (interruptions > 0 \/ counter_full) /\ Succeeded(id)'
    BY DEF HandedInv
  <2>1. \A n : WithId(n) # {} => WithId(n)' # {}
    BY <1>1 DEF WithId
  <2>2. \A n \in DOMAIN items : Succeeded(n) => Succeeded(n)'
    BY <1>1, <2>1, SuccessionKept
  <2>3. id \in DOMAIN items
    BY <1>2 DEF HistoryShape
  <2>. QED  BY <2>1, <2>2, <2>3 DEF StoreInv, HandedInv
<1>. QED  BY <1>3, <1>4, <1>5 DEF StoreInv

LEMMA StoreUpdate ==
    ASSUME TypeOK, StoreInv, NEW old \in Live, Appending(items[old]), call.pc = "idle",
           call' = [pc |-> "delete", op |-> "update", old |-> old],
           UNCHANGED <<gone, handed, interruptions, counter_full>>
    PROVE  StoreInv'
<1>0. PICK N \in Nat : N = Len(items) + 1
  BY ItemsType
<1>1. /\ N \notin DOMAIN items /\ Len(items') = N
      /\ DOMAIN items' = DOMAIN items \cup {N} /\ DOMAIN items = 1..Len(items)
      /\ \A h \in DOMAIN items : items'[h] = items[h]
      /\ items'[N] = items[old]
      /\ Live' = Live \cup {N} /\ Live \subseteq DOMAIN items
      /\ items[old] \in Item /\ ~items[old].deleted
  <2>1. /\ N \notin DOMAIN items /\ Len(items') = N
        /\ DOMAIN items' = DOMAIN items \cup {N}
        /\ \A h \in DOMAIN items : items'[h] = items[h]
        /\ items'[N] = items[old]
        /\ Live' = Live \cup {N}
    BY <1>0, AppendingFacts
  <2>. QED  BY <2>1, ItemsType DEF Live
<1>2. CallShape /\ IdShape /\ HistoryShape
  BY DEF StoreInv
<1>3. IdShape' /\ HistoryShape'
  BY <1>1, <1>2, AppendedShape
<1>4. CallShape'
  <2>1. old \in 1..(Len(items') - 1) /\ items' # <<>> /\ old # 0
    BY <1>1
  <2>. QED  BY <1>1, <2>1 DEF CallShape, SameAccount
<1>5. HandedInv'
  <2> SUFFICES ASSUME NEW id \in handed
               PROVE  \/ WithId(id)' # {}
                      \/ (interruptions > 0 \/ counter_full) /\ Succeeded(id)'
    BY DEF HandedInv
  <2>1. \A n : WithId(n) # {} => WithId(n)' # {}
    BY <1>1 DEF WithId
  <2>2. \A n \in DOMAIN items : Succeeded(n) => Succeeded(n)'
    BY <1>1, <2>1, SuccessionKept
  <2>3. id \in DOMAIN items
    BY <1>2 DEF HistoryShape
  <2>. QED  BY <2>1, <2>2, <2>3 DEF StoreInv, HandedInv
<1>. QED  BY <1>3, <1>4, <1>5 DEF StoreInv

\* An item is marked as deleted: what does not depend on which one.
LEMMA MarkedShape ==
    ASSUME TypeOK, StoreInv, NEW k, Marking(k)
    PROVE  /\ IdShape'
           /\ \A h, g \in DOMAIN items :
                 SameAccount(items'[h], items'[g]) <=> SameAccount(items[h], items[g])
<1>1. /\ DOMAIN items' = DOMAIN items
      /\ \A g \in DOMAIN items :
            /\ items'[g].id = items[g].id /\ items'[g].rp = items[g].rp
            /\ items'[g].user = items[g].user /\ items'[g].disc = items[g].disc
  BY MarkingFacts
<1>2. \A h, g \in DOMAIN items :
         SameAccount(items'[h], items'[g]) <=> SameAccount(items[h], items[g])
  BY <1>1 DEF SameAccount
<1>3. ASSUME NEW h \in DOMAIN items
      PROVE  /\ items'[h].id \in 1..h /\ SameAccount(items'[items'[h].id], items'[h])
             /\ items'[items'[h].id].disc = items'[h].disc
             /\ items'[items'[h].id].id = items'[h].id
  <2>1. items[h].id \in DOMAIN items
    BY IdType DEF StoreInv
  <2>. QED  BY <1>1, <1>2, <2>1 DEF StoreInv, IdShape
<1>. QED  BY <1>1, <1>2, <1>3 DEF IdShape

LEMMA StoreDeleteOld ==
    ASSUME TypeOK, StoreInv, DeleteOld
    PROVE  StoreInv'
<1>. DEFINE k == call.old
            n == Len(items)
<1>1. Marking(k) /\ UNCHANGED <<counter_full, handed, gone, interruptions>>
  BY DeleteOldMarks DEF StoreInv, DeleteOld, history
<1>2. /\ call.pc = "delete" /\ k # 0 /\ k \in Live /\ k \in 1..(n - 1) /\ n \in Live /\ n # k
      /\ SameAccount(items[k], items[n])
      /\ call.op \in {"make", "update"}
      /\ call.op = "make" => items[n].disc /\ items[n].id = n
      /\ call.op = "update" => items[n].id = items[k].id
  BY <1>1, ItemsType DEF DeleteOld, StoreInv, CallShape, TypeOK, Marking, Live
<1>3. /\ Len(items') = n /\ DOMAIN items' = DOMAIN items
      /\ Live' = Live \ {k} /\ Live \subseteq DOMAIN items
      /\ \A g \in DOMAIN items :
            /\ items'[g].id = items[g].id /\ items'[g].disc = items[g].disc
            /\ g # k => items'[g] = items[g]
  BY <1>1, MarkingFacts, ItemsType
<1>4. /\ call.op = "make" => call'.pc = "reply" /\ call'.op = "make" /\ call'.old = k
      /\ call.op = "update" => call' = NoCall
  BY <1>2 DEF DeleteOld, TypeOK
<1>. HIDE DEF k
<1>5. CallShape'
  <2>1. CASE call.op = "update"
    BY <1>4, <2>1 DEF CallShape, NoCall
  <2>2. CASE call.op = "make"
    <3>1. SameAccount(items'[k], items'[n])
      BY <1>1, <1>2, <1>3, MarkedShape
    <3>2. items' # <<>> /\ ~items'[n].deleted
      BY <1>2, <1>3 DEF Live
    <3>. QED  BY <1>2, <1>3, <1>4, <2>2, <3>1, <3>2 DEF CallShape
  <2>. QED  BY <1>2, <2>1, <2>2
<1>6. IdShape'
  BY <1>1, MarkedShape DEF k
<1>7. HistoryShape'
  BY <1>1, <1>3 DEF StoreInv, HistoryShape
<1>8. ASSUME NEW m, WithId(m) # {}
      PROVE  \/ WithId(m)' # {}
             \/ call.op = "make" /\ items[k].id = m
  <2>1. PICK h \in Live : items[h].id = m
    BY <1>8 DEF WithId
  <2>2. CASE h # k
    BY <1>3, <2>1, <2>2 DEF WithId
  <2>3. CASE h = k /\ call.op = "update"
    BY <1>2, <1>3, <2>1, <2>3 DEF WithId
  <2>. QED  BY <1>2, <2>1, <2>2, <2>3
<1>9. ASSUME NEW id \in DOMAIN items, Succeeded(id)
      PROVE  Succeeded(id)'
  <2>1. PICK m \in DOMAIN items :
           /\ m > id /\ SameAccount(items[m], items[id])
           /\ WithId(m) # {} \/ m \in gone
    BY <1>9 DEF Succeeded
  <2>2. SameAccount(items'[m], items'[id])
    BY <1>1, <2>1, MarkedShape DEF k
  <2>3. CASE WithId(m)' # {} \/ m \in gone
    BY <1>1, <1>3, <2>1, <2>2, <2>3 DEF Succeeded
  <2>4. CASE call.op = "make" /\ items[k].id = m
    <3>1. n > id /\ n \in DOMAIN items
      <4>1. k \in DOMAIN items /\ m <= k /\ m \in Nat /\ id \in Nat /\ n \in Nat
        BY <1>2, <1>3, <2>1, <2>4, IdType, ItemsType DEF StoreInv
      <4>. QED  BY <1>2, <1>3, <2>1, <4>1
    <3>2. SameAccount(items[n], items[id])
      <4>1. SameAccount(items[m], items[k])
        BY <1>2, <1>3, <2>4 DEF StoreInv, IdShape
      <4>. QED  BY <1>2, <2>1, <4>1 DEF SameAccount
    <3>3. SameAccount(items'[n], items'[id])
      BY <1>1, <3>1, <3>2, MarkedShape DEF k
    <3>4. WithId(n)' # {}
      BY <1>2, <1>3, <2>4 DEF WithId
    <3>. QED  BY <1>3, <3>1, <3>3, <3>4 DEF Succeeded
  <2>. QED  BY <1>8, <2>1, <2>3, <2>4
<1>10. HandedInv'
  <2> SUFFICES ASSUME NEW id \in handed
               PROVE  \/ WithId(id)' # {}
                      \/ call'.pc = "reply" /\ call'.old # 0 /\ items'[call'.old].id = id
                      \/ (interruptions > 0 \/ counter_full) /\ Succeeded(id)'
    BY <1>1 DEF HandedInv
  <2>1. WithId(id) # {} \/ ((interruptions > 0 \/ counter_full) /\ Succeeded(id))
    BY <1>2 DEF StoreInv, HandedInv
  <2>2. CASE WithId(id) # {}
    <3>1. CASE call.op = "make" /\ items[k].id = id
      BY <1>2, <1>3, <1>4, <3>1
    <3>. QED  BY <1>8, <2>2, <3>1
  <2>3. id \in DOMAIN items
    BY DEF StoreInv, HistoryShape
  <2>. QED  BY <1>9, <2>1, <2>2, <2>3
<1>. QED  BY <1>5, <1>6, <1>7, <1>10 DEF StoreInv

LEMMA StoreDeleteCredential ==
    ASSUME TypeOK, StoreInv, NEW k \in Live, Marking(k), call.pc = "idle",
           gone' = gone \cup {items[k].id}, handed' = handed \ {items[k].id},
           UNCHANGED <<counter_full, call, interruptions>>
    PROVE  StoreInv'
<1>1. /\ DOMAIN items' = DOMAIN items
      /\ Live' = Live \ {k} /\ Live \subseteq DOMAIN items
      /\ \A g \in DOMAIN items : items'[g].id = items[g].id
  BY MarkingFacts, ItemsType
<1>2. items[k].id \in DOMAIN items
  BY <1>1, IdType DEF StoreInv
<1>3. IdShape'
  BY MarkedShape
<1>4. CallShape'
  BY DEF StoreInv, CallShape
<1>5. HistoryShape'
  BY <1>1, <1>2 DEF StoreInv, HistoryShape
<1>6. \A n : WithId(n) # {} => WithId(n)' # {} \/ n = items[k].id
  BY <1>1 DEF WithId
<1>7. HandedInv'
  <2> SUFFICES ASSUME NEW id \in handed, id # items[k].id
               PROVE  \/ WithId(id)' # {}
                      \/ (interruptions > 0 \/ counter_full) /\ Succeeded(id)'
    BY DEF HandedInv
  <2>1. \A n \in DOMAIN items : Succeeded(n) => Succeeded(n)'
    BY <1>1, <1>6, MarkingFacts, SuccessionKept
  <2>2. id \in DOMAIN items
    BY DEF StoreInv, HistoryShape
  <2>. QED  BY <1>6, <2>1, <2>2 DEF StoreInv, HandedInv
<1>. QED  BY <1>3, <1>4, <1>5, <1>7 DEF StoreInv

\* The credential that a makeCredential has overwritten has a later one in its place.
LEMMA ReplySucceeds ==
    ASSUME TypeOK, StoreInv, call.pc = "reply", NEW id, call.old # 0, items[call.old].id = id
    PROVE  /\ items[Len(items)].disc /\ SameAccount(items[id], items[Len(items)])
           /\ Succeeded(id)
<1>. DEFINE new == items[Len(items)]
<1>1. /\ call.old \in 1..(Len(items) - 1) /\ SameAccount(items[call.old], new) /\ new.disc
      /\ call.op = "make" /\ new.id = Len(items) /\ ~new.deleted
  BY DEF StoreInv, CallShape
<1>. HIDE DEF new
<1>2. call.old \in DOMAIN items /\ Len(items) \in DOMAIN items
  BY <1>1, ItemsType
<1>3. SameAccount(items[id], new)
  BY <1>1, <1>2 DEF StoreInv, IdShape, SameAccount
<1>4. id \in DOMAIN items /\ Len(items) > id
  <2>1. id \in DOMAIN items /\ id <= call.old
    BY <1>2, IdType DEF StoreInv
  <2>2. id \in Nat /\ Len(items) \in Nat
    BY <2>1, ItemsType
  <2>. QED  BY <1>1, <2>1, <2>2
<1>5. WithId(Len(items)) # {}
  BY <1>1, <1>2 DEF WithId, Live, new
<1>. QED  BY <1>1, <1>2, <1>3, <1>4, <1>5 DEF Succeeded, SameAccount, new

LEMMA StoreReplies ==
    ASSUME TypeOK, StoreInv, MakeCredentialReplies
    PROVE  StoreInv'
<1>. DEFINE new == items[Len(items)]
<1>1. /\ call.pc = "reply" /\ call' = NoCall /\ items' = items
      /\ UNCHANGED <<gone, interruptions>>
      /\ \/ ~counter_full /\ handed' = HandedWith(new)
         \/ counter_full /\ UNCHANGED <<counter_full, handed>>
  BY DEF MakeCredentialReplies, Counts
<1>2. Len(items) \in Live /\ Live \subseteq DOMAIN items /\ new.id = Len(items)
  BY <1>1, ItemsType DEF StoreInv, CallShape, Live
<1>. HIDE DEF new
<1>3. CallShape'
  BY <1>1 DEF CallShape, NoCall
<1>4. IdShape'
  BY <1>1 DEF StoreInv, IdShape, SameAccount
<1>5. HistoryShape'
  BY <1>1, <1>2 DEF StoreInv, HistoryShape, HandedWith
<1>6. /\ \A id \in DOMAIN items : Succeeded(id) => Succeeded(id)'
      /\ \A id : WithId(id) # {} => WithId(id)' # {}
  BY <1>1 DEF Succeeded, WithId, Live, SameAccount
<1>7. ASSUME NEW id, call.old # 0, items[call.old].id = id
      PROVE  new.disc /\ SameAccount(items[id], new) /\ Succeeded(id)
  BY <1>1, <1>7, ReplySucceeds DEF new
<1>8. HandedInv'
  <2> SUFFICES ASSUME NEW id \in handed'
               PROVE  \/ WithId(id)' # {}
                      \/ (interruptions > 0 \/ counter_full') /\ Succeeded(id)'
    BY <1>1 DEF HandedInv
  <2>1. CASE id = new.id
    BY <1>1, <1>2, <2>1 DEF WithId, Live, new
  <2>2. CASE id \in handed
    <3>1. id \in DOMAIN items
      BY <2>2 DEF StoreInv, HistoryShape
    <3>2. \/ WithId(id) # {}
          \/ call.old # 0 /\ items[call.old].id = id
          \/ (interruptions > 0 \/ counter_full) /\ Succeeded(id)
      BY <2>2 DEF StoreInv, HandedInv
    <3>3. counter_full => counter_full'
      BY <1>1
    <3>4. CASE call.old # 0 /\ items[call.old].id = id
      <4>1. id = new.id \/ counter_full'
        BY <1>1, <1>7, <3>4 DEF HandedWith
      <4>. QED  BY <1>6, <1>7, <2>1, <3>1, <3>4, <4>1
    <3>. QED  BY <1>6, <3>1, <3>2, <3>3, <3>4
  <2>. QED  BY <1>1, <2>1, <2>2 DEF HandedWith
<1>. QED  BY <1>3, <1>4, <1>5, <1>8 DEF StoreInv

\* A call that ends with an error or a power loss.
LEMMA StoreInterrupted ==
    ASSUME TypeOK, StoreInv, call.pc # "idle", call' = NoCall,
           interruptions' = interruptions + 1,
           UNCHANGED <<items, gone, handed>>
    PROVE  StoreInv'
<1>1. interruptions' > 0
  BY DEF TypeOK
<1>2. CallShape'
  BY DEF CallShape, NoCall
<1>3. IdShape' /\ HistoryShape'
  BY DEF StoreInv, IdShape, HistoryShape, SameAccount
<1>4. /\ \A id \in DOMAIN items : Succeeded(id) => Succeeded(id)'
      /\ \A id : WithId(id) # {} => WithId(id)' # {}
  BY DEF Succeeded, WithId, Live, SameAccount
<1>5. ASSUME NEW id \in handed, call.pc = "reply", call.old # 0, items[call.old].id = id
      PROVE  Succeeded(id)
  BY <1>5, ReplySucceeds
<1>6. HandedInv'
  BY <1>1, <1>4, <1>5 DEF StoreInv, HandedInv, HistoryShape
<1>. QED  BY <1>2, <1>3, <1>6 DEF StoreInv

LEMMA StoreUnchanged ==
    ASSUME TypeOK, StoreInv, counter_full => counter_full',
           UNCHANGED <<items, call, gone, handed, interruptions>>
    PROVE  StoreInv'
  BY DEF StoreInv, CallShape, IdShape, HistoryShape, HandedInv, Live, SameAccount, WithId,
         Succeeded

LEMMA StoreErased ==
    ASSUME items' = <<>>, gone' = {}, handed' = {}, call.pc = "idle", call' = call, StoreInv
    PROVE  StoreInv'
<1>1. Live' = {} /\ DOMAIN items' = {}
  BY DEF Live
<1>. QED  BY <1>1 DEF StoreInv, CallShape, IdShape, HistoryShape, HandedInv

LEMMA StoreStep ==
    ASSUME IInv, [Next]_vars
    PROVE  StoreInv'
<1>. TypeOK /\ StoreInv
  BY DEF IInv
<1>1. CASE StatefulExpires
  BY <1>1, StoreUnchanged DEF StatefulExpires, KeepStore
<1>2. CASE SetPin
  BY <1>2, StoreUnchanged DEF SetPin, history
<1>3. ASSUME NEW rp \in Rps, NEW user \in Users, NEW kind \in Kinds, NEW sig \in BOOLEAN,
             NEW exclude \in IdLists, MakeCredential(rp, user, kind[1], kind[2], sig, exclude)
      PROVE  StoreInv'
  <2>1. UNCHANGED <<gone, handed, interruptions, counter_full>>
    BY <1>3 DEF MakeCredential, history
  <2>. QED  BY <1>3, <2>1, MakeAppends, StoreMake
<1>4. CASE DeleteOld
  BY <1>4, StoreDeleteOld
<1>5. CASE DeleteOldFails
  BY <1>5, StoreInterrupted DEF DeleteOldFails
<1>6. CASE MakeCredentialReplies
  BY <1>6, StoreReplies
<1>7. ASSUME NEW rp \in Rps, NEW sig \in BOOLEAN,
             \/ GetAssertion(rp, sig)
             \/ \E allow \in IdLists : GetAssertionAllowed(rp, sig, allow)
             \/ EnumerateCredentialsBegin(rp, sig)
      PROVE  StoreInv'
  <2>1. counter_full => counter_full'
    BY <1>7 DEF GetAssertion, GetAssertionAllowed, EnumerateCredentialsBegin, KeepStore, Counts
  <2>2. UNCHANGED <<items, call, gone, handed, interruptions>>
    BY <1>7 DEF GetAssertion, GetAssertionAllowed, EnumerateCredentialsBegin, KeepStore,
                Began, Discard
  <2>. QED  BY <2>1, <2>2, StoreUnchanged
<1>8. CASE GetNextAssertion \/ EnumerateRpsGetNextRp \/ EnumerateCredentialsGetNextCredential
  BY <1>8, StoreUnchanged
     DEF GetNextAssertion, EnumerateRpsGetNextRp, EnumerateCredentialsGetNextCredential,
         Advances, Counts
<1>9. ASSUME NEW sig \in BOOLEAN, EnumerateRpsBegin(sig)
      PROVE  StoreInv'
  BY <1>9, StoreUnchanged DEF EnumerateRpsBegin, KeepStore
<1>10. ASSUME NEW id \in Ids, NEW tokenRp \in Rps \cup {NoRp}, NEW sig \in BOOLEAN,
              DeleteCredential(id, tokenRp, sig)
       PROVE  StoreInv'
  <2>1. UNCHANGED <<counter_full, call, interruptions>>
    BY <1>10 DEF DeleteCredential
  <2>2. CASE UNCHANGED <<items, gone, handed>>
    BY <2>1, <2>2, StoreUnchanged
  <2>3. ASSUME NEW h \in Live, Marking(h), items[h].id = id,
               gone' = gone \cup {id}, handed' = handed \ {id}
        PROVE  StoreInv'
    BY <1>10, <2>1, <2>3, DeleteCredentialMarks, StoreDeleteCredential
  <2>. QED  BY <1>10, <2>2, <2>3, DeleteCredentialMarks
<1>11. ASSUME NEW id \in Ids, NEW tokenRp \in Rps \cup {NoRp}, NEW sig \in BOOLEAN,
              UpdateUserInformation(id, tokenRp, sig)
       PROVE  StoreInv'
  <2>1. UNCHANGED <<counter_full, handed, gone, interruptions>>
    BY <1>11 DEF UpdateUserInformation
  <2>2. CASE UNCHANGED <<items, call>>
    BY <2>1, <2>2, StoreUnchanged
  <2>3. ASSUME NEW old \in Live, Appending(items[old]),
               call' = [pc |-> "delete", op |-> "update", old |-> old]
        PROVE  StoreInv'
    BY <1>11, <2>1, <2>3, UpdateAppends, StoreUpdate
  <2>. QED  BY <1>11, <2>2, <2>3, UpdateAppends
<1>12. CASE Reset
  BY <1>12, StoreErased DEF Reset, Idle
<1>13. CASE PowerCycle
  <2>1. CASE Idle
    <3>1. UNCHANGED <<items, gone, handed, interruptions, counter_full>> /\ call' = NoCall
      BY <1>13, <2>1 DEF PowerCycle
    <3>2. CallShape'
      BY <3>1 DEF CallShape, NoCall
    <3>. QED  BY <2>1, <3>1, <3>2
              DEF Idle, StoreInv, IdShape, HistoryShape, HandedInv, Live, SameAccount, WithId,
                  Succeeded, NoCall
  <2>2. CASE ~Idle
    BY <1>13, <2>2, StoreInterrupted DEF PowerCycle, Idle
  <2>. QED  BY <2>1, <2>2
<1>14. CASE UNCHANGED vars
  BY <1>14, StoreUnchanged DEF vars, history
<1>. QED  BY <1>1, <1>2, <1>3, <1>4, <1>5, <1>6, <1>7, <1>8, <1>9, <1>10, <1>11, <1>12,
             <1>13, <1>14
          DEF Next

-----------------------------------------------------------------------------
(* What there may be too much of: an item for each interrupted call.       *)

\* One element more at most.
LEMMA OneMore ==
    ASSUME NEW S, IsFiniteSet(S), NEW x, NEW M, M \subseteq S \cup {x}
    PROVE  /\ IsFiniteSet(M) /\ Cardinality(M) \in Nat /\ Cardinality(S) \in Nat
           /\ Cardinality(M) <= Cardinality(S) + 1
<1>1. /\ IsFiniteSet(S \cup {x})
      /\ \/ Cardinality(S \cup {x}) = Cardinality(S)
         \/ Cardinality(S \cup {x}) = Cardinality(S) + 1
  BY FS_AddElement
<1>2. Cardinality(S) \in Nat
  BY FS_CardinalityType
<1>3. IsFiniteSet(M) /\ Cardinality(M) <= Cardinality(S \cup {x})
  BY <1>1, FS_Subset
<1>4. Cardinality(M) \in Nat
  BY <1>3, FS_CardinalityType
<1>. QED  BY <1>1, <1>2, <1>3, <1>4

\* No more elements.
LEMMA NoMore ==
    ASSUME NEW S, IsFiniteSet(S), NEW M, M \subseteq S
    PROVE  /\ IsFiniteSet(M) /\ Cardinality(M) \in Nat /\ Cardinality(S) \in Nat
           /\ Cardinality(M) <= Cardinality(S)
BY FS_Subset, FS_CardinalityType

\* One element for another.
LEMMA OneForAnother ==
    ASSUME NEW S, IsFiniteSet(S), NEW x \in S, NEW y, NEW M, M \subseteq (S \ {x}) \cup {y}
    PROVE  /\ IsFiniteSet(M) /\ Cardinality(M) \in Nat /\ Cardinality(S) \in Nat
           /\ Cardinality(M) <= Cardinality(S)
<1>1. IsFiniteSet(S \ {x}) /\ Cardinality(S \ {x}) = Cardinality(S) - 1
  BY FS_RemoveElement
<1>2. /\ IsFiniteSet(M) /\ Cardinality(M) \in Nat
      /\ Cardinality(M) <= Cardinality(S \ {x}) + 1
  BY <1>1, OneMore
<1>3. Cardinality(S) \in Nat
  BY FS_CardinalityType
<1>. QED  BY <1>1, <1>2, <1>3

\* An element is new.
LEMMA OneNew ==
    ASSUME NEW S, IsFiniteSet(S), NEW M, IsFiniteSet(M), S \subseteq M, NEW x \in M, x \notin S
    PROVE  /\ Cardinality(M) \in Nat /\ Cardinality(S) \in Nat
           /\ Cardinality(S) + 1 <= Cardinality(M)
<1>1. IsFiniteSet(S \cup {x}) /\ Cardinality(S \cup {x}) = Cardinality(S) + 1
  BY FS_AddElement
<1>2. Cardinality(S \cup {x}) <= Cardinality(M)
  <2>1. S \cup {x} \subseteq M
    OBVIOUS
  <2>. QED  BY <2>1, FS_Subset
<1>. QED  BY <1>1, <1>2, FS_CardinalityType

\* The sets that are counted consist of handles.
CountedAreFinite ==
    /\ Kept \subseteq DOMAIN items /\ IsFiniteSet(Surplus)
    /\ \A a : IsFiniteSet(ExcessOf(a)) /\ IsFiniteSet(OverwrittenOf(a))

LEMMA CountedFinite == TypeOK => CountedAreFinite
<1> SUFFICES ASSUME TypeOK PROVE CountedAreFinite
  OBVIOUS
<1>1. IsFiniteSet(1..Len(items)) /\ DOMAIN items = 1..Len(items)
  BY ItemsType, FS_Interval
<1>2. Kept \subseteq DOMAIN items
  BY ItemsType DEF Kept
<1>. QED  BY <1>1, <1>2, FS_Subset DEF CountedAreFinite, Surplus, ExcessOf, OverwrittenOf

LEMMA CountedFiniteNext == TypeOK' => CountedAreFinite'
BY CountedFinite, PTL

\* What a step may do to one account.
AccountStep(a) ==
    \/ ExcessOf(a)' \subseteq ExcessOf(a) /\ OverwrittenOf(a) \subseteq OverwrittenOf(a)'
    \/ /\ \E x \in ExcessOf(a) : \E y : ExcessOf(a)' \subseteq (ExcessOf(a) \ {x}) \cup {y}
       /\ OverwrittenOf(a) \subseteq OverwrittenOf(a)'
    \/ /\ \E y : ExcessOf(a)' \subseteq ExcessOf(a) \cup {y}
       /\ OverwrittenOf(a) \subseteq OverwrittenOf(a)'
       /\ OverwrittenOf(a)' \ OverwrittenOf(a) # {}
    \/ \E y : ExcessOf(a)' \subseteq {y}

\* What an interrupted call may do to it.
AccountInterrupted(a) ==
    \/ /\ \E y : ExcessOf(a)' \subseteq ExcessOf(a) \cup {y}
       /\ OverwrittenOf(a) \subseteq OverwrittenOf(a)'
    \/ /\ ExcessOf(a)' \subseteq ExcessOf(a)
       /\ \E y : OverwrittenOf(a) \subseteq OverwrittenOf(a)' \cup {y}

\* P and Q: what an account has before and after the step; M and N: what is overwritten.
LEMMA AccountSum ==
    ASSUME NEW P, NEW Q, NEW M, NEW N, NEW i \in Nat, NEW j \in Nat,
           IsFiniteSet(P), IsFiniteSet(Q), IsFiniteSet(M), IsFiniteSet(N),
           Cardinality(P) <= 1 + i + Cardinality(M),
           \/ /\ j = i
              /\ \/ Q \subseteq P /\ M \subseteq N
                 \/ (\E x \in P : \E y : Q \subseteq (P \ {x}) \cup {y}) /\ M \subseteq N
                 \/ (\E y : Q \subseteq P \cup {y}) /\ M \subseteq N /\ N \ M # {}
                 \/ \E y : Q \subseteq {y}
           \/ /\ j = i + 1
              /\ \/ (\E y : Q \subseteq P \cup {y}) /\ M \subseteq N
                 \/ Q \subseteq P /\ \E y : M \subseteq N \cup {y}
    PROVE  Cardinality(Q) <= 1 + j + Cardinality(N)
<1>. /\ Cardinality(P) \in Nat /\ Cardinality(Q) \in Nat
     /\ Cardinality(M) \in Nat /\ Cardinality(N) \in Nat
  BY FS_CardinalityType
<1>1. M \subseteq N => Cardinality(M) <= Cardinality(N)
  BY NoMore
<1>2. Q \subseteq P => Cardinality(Q) <= Cardinality(P)
  BY NoMore
<1>3. (\E y : Q \subseteq P \cup {y}) => Cardinality(Q) <= Cardinality(P) + 1
  BY OneMore
<1>4. (\E x \in P : \E y : Q \subseteq (P \ {x}) \cup {y}) => Cardinality(Q) <= Cardinality(P)
  BY OneForAnother
<1>5. M \subseteq N /\ N \ M # {} => Cardinality(M) + 1 <= Cardinality(N)
  BY OneNew
<1>6. (\E y : Q \subseteq {y}) => Cardinality(Q) <= 1
  <2>1. ASSUME NEW y, Q \subseteq {y} PROVE Cardinality(Q) <= 1
    <3>1. IsFiniteSet({y}) /\ Cardinality({y}) = 1
      BY FS_Singleton
    <3>. QED  BY <2>1, <3>1, FS_Subset
  <2>. QED  BY <2>1
<1>7. (\E y : M \subseteq N \cup {y}) => Cardinality(M) <= Cardinality(N) + 1
  BY OneMore
<1>8. CASE j = i /\ Q \subseteq P /\ M \subseteq N
  BY <1>8, <1>1, <1>2
<1>9. CASE j = i /\ (\E x \in P : \E y : Q \subseteq (P \ {x}) \cup {y}) /\ M \subseteq N
  BY <1>9, <1>1, <1>4
<1>10. CASE j = i /\ (\E y : Q \subseteq P \cup {y}) /\ M \subseteq N /\ N \ M # {}
  BY <1>10, <1>3, <1>5
<1>11. CASE j = i /\ \E y : Q \subseteq {y}
  BY <1>11, <1>6
<1>12. CASE j = i + 1 /\ (\E y : Q \subseteq P \cup {y}) /\ M \subseteq N
  BY <1>12, <1>1, <1>3
<1>13. CASE j = i + 1 /\ Q \subseteq P /\ \E y : M \subseteq N \cup {y}
  BY <1>13, <1>2, <1>7
<1>. QED  BY <1>8, <1>9, <1>10, <1>11, <1>12, <1>13

\* The same for the items that should not be there at all.
LEMMA SurplusSum ==
    ASSUME NEW P, NEW Q, NEW i \in Nat, NEW j \in Nat, IsFiniteSet(P), IsFiniteSet(Q),
           Cardinality(P) <= i,
           \/ /\ j = i
              /\ \/ Q \subseteq P
                 \/ \E x \in P : \E y : Q \subseteq (P \ {x}) \cup {y}
           \/ j = i + 1 /\ \E y : Q \subseteq P \cup {y}
    PROVE  Cardinality(Q) <= j
<1>. Cardinality(P) \in Nat /\ Cardinality(Q) \in Nat
  BY FS_CardinalityType
<1>1. Q \subseteq P => Cardinality(Q) <= Cardinality(P)
  BY NoMore
<1>2. (\E x \in P : \E y : Q \subseteq (P \ {x}) \cup {y}) => Cardinality(Q) <= Cardinality(P)
  BY OneForAnother
<1>3. (\E y : Q \subseteq P \cup {y}) => Cardinality(Q) <= Cardinality(P) + 1
  BY OneMore
<1>4. CASE /\ j = i
           /\ Q \subseteq P \/ \E x \in P : \E y : Q \subseteq (P \ {x}) \cup {y}
  <2>1. Cardinality(Q) <= Cardinality(P)
    BY <1>1, <1>2, <1>4
  <2>. QED  BY <1>4, <2>1
<1>5. CASE j = i + 1 /\ \E y : Q \subseteq P \cup {y}
  BY <1>3, <1>5
<1>. QED  BY <1>4, <1>5

\* What the steps do to the counted items keeps the counts.
LEMMA CountKept ==
    ASSUME TypeOK, TypeOK', CountInv,
           \/ /\ interruptions' = interruptions
              /\ \/ Surplus' \subseteq Surplus
                 \/ \E x \in Surplus : \E y : Surplus' \subseteq (Surplus \ {x}) \cup {y}
              /\ \A a \in Accounts : AccountStep(a)
           \/ /\ interruptions' = interruptions + 1
              /\ \E y : Surplus' \subseteq Surplus \cup {y}
              /\ \A a \in Accounts : AccountInterrupted(a)
    PROVE  CountInv'
<1>1. interruptions \in Nat /\ interruptions' \in Nat
  BY CredentialsAssumption DEF TypeOK
<1>2. CountedAreFinite /\ CountedAreFinite'
  BY CountedFinite, CountedFiniteNext
<1>3. Cardinality(Surplus') <= interruptions'
  <2>1. IsFiniteSet(Surplus) /\ IsFiniteSet(Surplus') /\ Cardinality(Surplus) <= interruptions
    BY <1>2 DEF CountedAreFinite, CountInv
  <2>. QED  BY <1>1, <2>1, SurplusSum
<1>4. ASSUME NEW a \in Accounts
      PROVE  Cardinality(ExcessOf(a)') <= 1 + interruptions' + Cardinality(OverwrittenOf(a)')
  <2>. DEFINE P == ExcessOf(a)
              Q == ExcessOf(a)'
              M == OverwrittenOf(a)
              N == OverwrittenOf(a)'
  <2>1. IsFiniteSet(P) /\ IsFiniteSet(Q) /\ IsFiniteSet(M) /\ IsFiniteSet(N)
    BY <1>2 DEF CountedAreFinite
  <2>2. Cardinality(P) <= 1 + interruptions + Cardinality(M)
    BY DEF CountInv
  <2>3. \/ /\ interruptions' = interruptions
           /\ \/ Q \subseteq P /\ M \subseteq N
              \/ (\E x \in P : \E y : Q \subseteq (P \ {x}) \cup {y}) /\ M \subseteq N
              \/ (\E y : Q \subseteq P \cup {y}) /\ M \subseteq N /\ N \ M # {}
              \/ \E y : Q \subseteq {y}
        \/ /\ interruptions' = interruptions + 1
           /\ \/ (\E y : Q \subseteq P \cup {y}) /\ M \subseteq N
              \/ Q \subseteq P /\ \E y : M \subseteq N \cup {y}
    BY DEF AccountStep, AccountInterrupted
  <2>. HIDE DEF P, Q, M, N
  <2>4. Cardinality(Q) <= 1 + interruptions' + Cardinality(N)
    BY <1>1, <2>1, <2>2, <2>3, AccountSum
  <2>. QED  BY <2>4 DEF Q, N
<1>. QED  BY <1>3, <1>4 DEF CountInv, Accounts

\* Nothing that is counted changes.
LEMMA CountUnchanged ==
    ASSUME TypeOK, TypeOK', CountInv, Kept' = Kept, UNCHANGED gone,
           DOMAIN items' = DOMAIN items,
           \A h \in DOMAIN items :
              /\ items'[h].id = items[h].id /\ items'[h].rp = items[h].rp
              /\ items'[h].user = items[h].user /\ items'[h].disc = items[h].disc,
           interruptions' \in {interruptions, interruptions + 1}
    PROVE  CountInv'
<1>1. Kept \subseteq DOMAIN items /\ DOMAIN items \subseteq Nat
  BY CountedFinite, ItemsType DEF CountedAreFinite
<1>2. Surplus' = Surplus
  BY <1>1 DEF Surplus
<1>3. ASSUME NEW a PROVE ExcessOf(a)' = ExcessOf(a) /\ OverwrittenOf(a)' = OverwrittenOf(a)
  BY <1>1, <1>2 DEF ExcessOf, OverwrittenOf, SameAccount
<1>4. ASSUME NEW a PROVE AccountStep(a) /\ AccountInterrupted(a)
  <2>1. ExcessOf(a)' \subseteq ExcessOf(a) /\ OverwrittenOf(a) \subseteq OverwrittenOf(a)'
    BY <1>3
  <2>2. ExcessOf(a)' \subseteq ExcessOf(a) \cup {a}
    BY <2>1
  <2>. QED  BY <2>1, <2>2 DEF AccountStep, AccountInterrupted
<1>. QED  BY <1>2, <1>4, CountKept

\* A credential is stored in place of another one of the account: as a new one, or as
\* a copy of it.
LEMMA CountReplaced ==
    ASSUME TypeOK, TypeOK', StoreInv, CountInv, NEW c, Appending(c),
           NEW old \in Kept, SameAccount(items[old], c),
           Kept' = (Kept \ {old}) \cup {Len(items) + 1},
           \/ c.id = Len(items) + 1 /\ c.disc
           \/ c.id = items[old].id /\ c.disc = items[old].disc,
           UNCHANGED <<gone, interruptions>>
    PROVE  CountInv'
<1>. DEFINE N == Len(items) + 1
            id0 == items[old].id
            Others == {g \in Kept \ {old} : items[g].id = id0}
<1>1. /\ Kept \subseteq DOMAIN items /\ DOMAIN items \subseteq Nat
      /\ \A h \in DOMAIN items : items'[h] = items[h] /\ h < N
      /\ N \in Nat /\ N \notin DOMAIN items /\ DOMAIN items' = DOMAIN items \cup {N}
      /\ items'[N] = c
  <2>1. Kept \subseteq DOMAIN items /\ DOMAIN items \subseteq Nat /\ Len(items) \in Nat
        /\ DOMAIN items = 1..Len(items)
    BY CountedFinite, ItemsType DEF CountedAreFinite
  <2>2. \A h \in DOMAIN items : h < N
    BY <2>1
  <2>3. /\ \A h \in DOMAIN items : items'[h] = items[h]
        /\ N \notin DOMAIN items /\ DOMAIN items' = DOMAIN items \cup {N} /\ items'[N] = c
    BY AppendingFacts
  <2>4. Kept \subseteq DOMAIN items /\ DOMAIN items \subseteq Nat /\ N \in Nat
    BY <2>1
  <2>. QED  BY <2>2, <2>3, <2>4
<1>2. \A h \in DOMAIN items :
         /\ items[h].id \in DOMAIN items /\ items[items[h].id].id = items[h].id
         /\ SameAccount(items[items[h].id], items[h])
         /\ items[items[h].id].disc = items[h].disc
  BY IdType DEF StoreInv, IdShape
<1>3. gone \subseteq DOMAIN items /\ gone' = gone /\ interruptions' = interruptions
  BY DEF StoreInv, HistoryShape
<1>4. old \in DOMAIN items /\ id0 \in DOMAIN items
  BY <1>1, <1>2
<1>. HIDE DEF N
<1>5. Surplus' \subseteq (Surplus \ {old}) \cup {N}
  BY <1>1, <1>3 DEF Surplus, N
<1>6. c.id = N => N \notin Surplus'
  BY <1>1, <1>2, <1>3 DEF Surplus, N
<1>7. \A a : ExcessOf(a)' \subseteq (ExcessOf(a) \ {old}) \cup {N}
  <2>1. ASSUME NEW a, NEW h \in ExcessOf(a)', h # N PROVE h \in ExcessOf(a) /\ h # old
    <3>1. h \in Kept /\ h # old /\ items'[h] = items[h]
      BY <2>1, <1>1 DEF ExcessOf, N
    <3>2. SameAccount(items[h], a) /\ (items[h].disc \/ h \in Surplus')
      BY <2>1, <3>1 DEF ExcessOf, SameAccount
    <3>. QED  BY <2>1, <3>1, <3>2, <1>5 DEF ExcessOf
  <2>. QED  BY <2>1
<1>8. \A a : OverwrittenOf(a) \subseteq OverwrittenOf(a)'
  BY <1>1, <1>3 DEF OverwrittenOf, SameAccount, N
<1>9. \A a : ~SameAccount(c, a) => ExcessOf(a)' \subseteq ExcessOf(a)
  BY <1>1, <1>7 DEF ExcessOf, SameAccount
<1>10. CASE old \in Surplus
  <2>1. \E x \in Surplus : \E y : Surplus' \subseteq (Surplus \ {x}) \cup {y}
    BY <1>5, <1>10
  <2>2. ASSUME NEW a \in Accounts, SameAccount(c, a) PROVE AccountStep(a)
    <3>1. old \in ExcessOf(a)
      BY <1>10, <2>2 DEF ExcessOf, SameAccount
    <3>. QED  BY <3>1, <1>7, <1>8 DEF AccountStep
  <2>3. \A a \in Accounts : AccountStep(a)
    BY <2>2, <1>8, <1>9 DEF AccountStep
  <2>. QED  BY <2>1, <2>3, <1>3, CountKept
<1>11. CASE old \notin Surplus /\ Others # {}
  <2>1. Others \subseteq Nat
    BY <1>1
  <2>2. PICK g \in Others : \A h \in Others : g <= h
    BY <2>1, <1>11, FirstIsLeast
  <2>3. id0 \notin gone /\ old < g
    BY <1>1, <1>11, <2>2 DEF Surplus
  <2>4. g \in Surplus
    BY <2>2, <2>3 DEF Surplus
  <2>5. g \notin Surplus'
    BY <1>1, <1>3, <1>4, <2>2, <2>3 DEF Surplus, N
  <2>6. Surplus' \subseteq (Surplus \ {g}) \cup {N}
    BY <1>5, <2>5
  <2>7. ASSUME NEW a \in Accounts, SameAccount(c, a) PROVE AccountStep(a)
    <3>1. CASE items[old].disc
      <4>1. old \in ExcessOf(a)
        BY <2>7, <3>1 DEF ExcessOf, SameAccount
      <4>. QED  BY <4>1, <1>7, <1>8 DEF AccountStep
    <3>2. CASE ~items[old].disc
      <4>1. SameAccount(items[g], a) /\ items[g].disc = items[old].disc
        BY <1>1, <1>2, <1>4, <2>2, <2>7 DEF SameAccount
      <4>2. g \in ExcessOf(a)
        BY <4>1, <2>2, <2>4 DEF ExcessOf
      <4>3. g \notin ExcessOf(a)'
        BY <4>1, <3>2, <1>1, <2>2, <2>5 DEF ExcessOf
      <4>4. ExcessOf(a)' \subseteq (ExcessOf(a) \ {g}) \cup {N}
        BY <4>3, <1>7
      <4>. QED  BY <4>2, <4>4, <1>8 DEF AccountStep
    <3>. QED  BY <3>1, <3>2
  <2>8. \A a \in Accounts : AccountStep(a)
    BY <2>7, <1>8, <1>9 DEF AccountStep
  <2>. QED  BY <2>4, <2>6, <2>8, <1>3, CountKept
<1>12. CASE old \notin Surplus /\ Others = {}
  <2>1. id0 \notin gone
    BY <1>12 DEF Surplus
  <2>2. N \notin Surplus'
    <3>1. CASE c.id = N
      BY <3>1, <1>6
    <3>2. CASE c.id = id0
      BY <3>2, <2>1, <1>1, <1>3, <1>12 DEF Surplus, N
    <3>. QED  BY <3>1, <3>2 DEF N
  <2>3. Surplus' \subseteq Surplus
    BY <1>5, <2>2
  <2>4. ASSUME NEW a \in Accounts, SameAccount(c, a) PROVE AccountStep(a)
    <3>1. CASE items[old].disc
      <4>1. old \in ExcessOf(a)
        BY <2>4, <3>1 DEF ExcessOf, SameAccount
      <4>. QED  BY <4>1, <1>7, <1>8 DEF AccountStep
    <3>2. CASE ~items[old].disc /\ ~(c.id = N /\ c.disc)
      <4>1. ~c.disc
        BY <3>2 DEF N
      <4>2. N \notin ExcessOf(a)'
        BY <4>1, <1>1, <2>2 DEF ExcessOf
      <4>. QED  BY <4>2, <1>7, <1>8 DEF AccountStep
    <3>3. CASE ~items[old].disc /\ c.id = N /\ c.disc
      <4>1. id0 \notin OverwrittenOf(a)
        BY DEF OverwrittenOf
      <4>2. SameAccount(items[id0], a) /\ ~items[id0].disc /\ items[id0].id = id0
        BY <1>2, <1>4, <2>4, <3>3 DEF SameAccount
      <4>3. \A h \in Kept' : items'[h].id # id0
        BY <1>1, <1>4, <1>12, <3>3 DEF N
      <4>4. id0 \in OverwrittenOf(a)'
        BY <1>1, <1>3, <1>4, <2>1, <4>2, <4>3 DEF OverwrittenOf, SameAccount
      <4>5. ExcessOf(a)' \subseteq ExcessOf(a) \cup {N}
        BY <1>7
      <4>. QED  BY <4>1, <4>4, <4>5, <1>8 DEF AccountStep
    <3>. QED  BY <3>1, <3>2, <3>3
  <2>5. \A a \in Accounts : AccountStep(a)
    BY <2>4, <1>8, <1>9 DEF AccountStep
  <2>. QED  BY <2>3, <2>5, <1>3, CountKept
<1>. QED  BY <1>10, <1>11, <1>12

\* A credential is stored next to the others: if it is discoverable, the account had none.
LEMMA CountAdded ==
    ASSUME TypeOK, TypeOK', StoreInv, CountInv, NEW c, Appending(c),
           Kept' = Kept \cup {Len(items) + 1}, c.id = Len(items) + 1,
           c.disc => Existing(c) = {}, UNCHANGED <<gone, interruptions>>
    PROVE  CountInv'
<1>. DEFINE N == Len(items) + 1
<1>1. /\ Kept \subseteq DOMAIN items /\ DOMAIN items \subseteq Nat
      /\ \A h \in DOMAIN items : items'[h] = items[h] /\ h < N
      /\ N \in Nat /\ N \notin DOMAIN items /\ DOMAIN items' = DOMAIN items \cup {N}
      /\ items'[N] = c
  <2>1. Kept \subseteq DOMAIN items /\ DOMAIN items \subseteq Nat /\ Len(items) \in Nat
        /\ DOMAIN items = 1..Len(items)
    BY CountedFinite, ItemsType DEF CountedAreFinite
  <2>2. \A h \in DOMAIN items : h < N
    BY <2>1
  <2>3. /\ \A h \in DOMAIN items : items'[h] = items[h]
        /\ N \notin DOMAIN items /\ DOMAIN items' = DOMAIN items \cup {N} /\ items'[N] = c
    BY AppendingFacts
  <2>4. Kept \subseteq DOMAIN items /\ DOMAIN items \subseteq Nat /\ N \in Nat
    BY <2>1
  <2>. QED  BY <2>2, <2>3, <2>4
<1>2. \A h \in DOMAIN items : items[h].id \in DOMAIN items
  BY IdType DEF StoreInv, IdShape
<1>3. gone \subseteq DOMAIN items /\ gone' = gone /\ interruptions' = interruptions
  BY DEF StoreInv, HistoryShape
<1>. HIDE DEF N
<1>4. Surplus' \subseteq Surplus
  BY <1>1, <1>2, <1>3 DEF Surplus, N
<1>5. \A a : ExcessOf(a)' \subseteq ExcessOf(a) \cup {N}
  BY <1>1, <1>4 DEF ExcessOf, SameAccount, N
<1>6. N \notin Surplus'
  BY <1>1, <1>4 DEF Surplus
<1>7. \A a : OverwrittenOf(a) \subseteq OverwrittenOf(a)'
  BY <1>1, <1>3 DEF OverwrittenOf, SameAccount, N
<1>8. ASSUME NEW a \in Accounts PROVE AccountStep(a)
  <2>1. CASE c.disc /\ SameAccount(c, a)
    <3>1. ExcessOf(a) = {}
      BY <2>1 DEF ExcessOf, SameAccount, Existing, Kept
    <3>. QED  BY <3>1, <1>5 DEF AccountStep
  <2>2. CASE ~(c.disc /\ SameAccount(c, a))
    <3>1. N \notin ExcessOf(a)'
      BY <2>2, <1>1, <1>6 DEF ExcessOf, SameAccount
    <3>. QED  BY <3>1, <1>5, <1>7 DEF AccountStep
  <2>. QED  BY <2>1, <2>2
<1>. QED  BY <1>3, <1>4, <1>8, CountKept

\* deleteCredential: the other copies of the deleted one were too much before.
LEMMA CountDeleted ==
    ASSUME TypeOK, TypeOK', StoreInv, CountInv, NEW h0 \in Kept, Marking(h0),
           Kept' = Kept \ {h0}, gone' = gone \cup {items[h0].id},
           \A g \in Kept : items[g].id = items[h0].id => h0 <= g,
           UNCHANGED interruptions
    PROVE  CountInv'
<1>1. /\ Kept \subseteq DOMAIN items /\ DOMAIN items \subseteq Nat
      /\ DOMAIN items' = DOMAIN items
      /\ \A h \in DOMAIN items :
            /\ items'[h].id = items[h].id /\ items'[h].rp = items[h].rp
            /\ items'[h].user = items[h].user /\ items'[h].disc = items[h].disc
  BY CountedFinite, ItemsType, MarkingFacts DEF CountedAreFinite
<1>2. Surplus' \subseteq Surplus
  <2>1. ASSUME NEW h \in Surplus' PROVE h \in Surplus
    <3>1. h \in Kept /\ h # h0
      BY DEF Surplus
    <3>2. CASE items[h].id = items[h0].id
      <4>1. h0 < h
        BY <3>1, <3>2, <1>1
      <4>. QED  BY <4>1, <3>1, <3>2 DEF Surplus
    <3>3. CASE items[h].id # items[h0].id
      BY <3>1, <3>3, <1>1 DEF Surplus
    <3>. QED  BY <3>2, <3>3
  <2>. QED  BY <2>1
<1>3. \A a : ExcessOf(a)' \subseteq ExcessOf(a)
  BY <1>1, <1>2 DEF ExcessOf, SameAccount
<1>4. \A a : OverwrittenOf(a) \subseteq OverwrittenOf(a)'
  BY <1>1 DEF OverwrittenOf, SameAccount
<1>. QED  BY <1>2, <1>3, <1>4, CountKept DEF AccountStep

\* A call ends before it has deleted the old item: one more item than there should be.
LEMMA CountInterrupted ==
    ASSUME TypeOK, TypeOK', StoreInv, CountInv, UNCHANGED <<items, gone>>,
           call.pc = "delete", call' = NoCall, interruptions' = interruptions + 1
    PROVE  CountInv'
<1>. DEFINE old == call.old
            id0 == items[old].id
            Others == {g \in Kept : items[g].id = id0}
<1>1. old \in Live /\ Live \subseteq DOMAIN items /\ DOMAIN items \subseteq Nat
  BY ItemsType DEF StoreInv, CallShape, Live
<1>2. Kept' = Kept \cup {old} /\ old \notin Kept /\ Kept \subseteq DOMAIN items
  BY <1>1 DEF Kept, Live, NoCall
<1>3. \A h \in DOMAIN items :
         /\ items[h].id \in DOMAIN items /\ items[items[h].id].id = items[h].id
         /\ SameAccount(items[items[h].id], items[h])
         /\ items[items[h].id].disc = items[h].disc
  BY IdType DEF StoreInv, IdShape
<1>. HIDE DEF old
<1>4. old \notin Surplus /\ \A a : old \notin ExcessOf(a)
  BY <1>2 DEF Surplus, ExcessOf
<1>5. \A h \in Surplus' : h \notin Surplus => h \in Kept' /\ items[h].id = id0
  BY <1>1, <1>2 DEF Surplus
<1>6. \E y : Surplus' \subseteq Surplus \cup {y}
  <2>1. CASE id0 \in gone \/ \E g \in Others : g < old
    <3>1. Surplus' \subseteq Surplus \cup {old}
      <4>1. ASSUME NEW h \in Surplus', h # old PROVE h \in Surplus
        <5>1. h \in Kept /\ h \in Nat
          BY <4>1, <1>1, <1>2 DEF Surplus
        <5>2. CASE items[h].id # id0
          BY <5>2, <1>5
        <5>3. CASE items[h].id = id0 /\ id0 \in gone
          BY <5>1, <5>3 DEF Surplus
        <5>4. ASSUME items[h].id = id0, NEW g \in Others, g < old PROVE h \in Surplus
          <6>1. g \in Nat /\ old \in Nat /\ g \in Kept
            BY <1>1, <1>2
          <6>2. CASE id0 \in gone \/ g < h
            BY <6>1, <6>2, <5>1, <5>4 DEF Surplus
          <6>3. CASE id0 \notin gone /\ h <= g
            <7>1. PICK f \in Kept' : f < h /\ items[f].id = id0
              BY <4>1, <5>4, <6>3 DEF Surplus
            <7>2. f # old
              BY <7>1, <6>1, <6>3, <5>1, <5>4
            <7>. QED  BY <7>1, <7>2, <5>1, <5>4, <1>2 DEF Surplus
          <6>. QED  BY <6>1, <6>2, <6>3, <5>1
        <5>. QED  BY <2>1, <5>2, <5>3, <5>4
      <4>. QED  BY <4>1
    <3>. QED  BY <3>1
  <2>2. CASE /\ id0 \notin gone /\ ~\E g \in Others : g < old
             /\ Others # {}
    <3>1. PICK f \in Others : \A g \in Others : f <= g
      <4>1. Others \subseteq Nat
        BY <1>1, <1>2
      <4>. QED  BY <4>1, <2>2, FirstIsLeast
    <3>2. Surplus' \subseteq Surplus \cup {f}
      <4>1. ASSUME NEW h \in Surplus', h # f, h \notin Surplus PROVE FALSE
        <5>1. h \in Kept' /\ items[h].id = id0 /\ h \in Nat /\ f \in Nat /\ f \in Kept
          BY <4>1, <1>1, <1>2, <1>5, <3>1
        <5>2. h # old
          BY <4>1, <5>1, <2>2, <1>1, <1>2 DEF Surplus
        <5>3. h \in Others /\ f < h
          BY <5>1, <5>2, <4>1, <3>1, <1>2
        <5>. QED  BY <5>1, <5>3, <4>1, <3>1 DEF Surplus
      <4>. QED  BY <4>1
    <3>. QED  BY <3>2
  <2>3. CASE id0 \notin gone /\ Others = {}
    <3>1. Surplus' \subseteq Surplus
      BY <2>3, <1>1, <1>2, <1>5 DEF Surplus
    <3>. QED  BY <3>1
  <2>. QED  BY <2>1, <2>2, <2>3
<1>7. ASSUME NEW a \in Accounts PROVE AccountInterrupted(a)
  <2>1. OverwrittenOf(a) \subseteq OverwrittenOf(a)' \cup {id0}
    BY <1>2 DEF OverwrittenOf, SameAccount
  <2>2. CASE items[old].disc
    <3>1. ExcessOf(a)' \subseteq ExcessOf(a) \cup {old}
      <4>1. ASSUME NEW h \in ExcessOf(a)', h # old PROVE h \in ExcessOf(a)
        <5>1. h \in Kept /\ SameAccount(items[h], a)
          BY <4>1, <1>2 DEF ExcessOf, SameAccount
        <5>2. CASE items[h].disc
          BY <5>1, <5>2 DEF ExcessOf
        <5>3. CASE ~items[h].disc
          <6>1. h \in Surplus'
            BY <4>1, <5>3 DEF ExcessOf
          <6>2. items[h].id # id0
            BY <5>1, <5>3, <2>2, <1>1, <1>2, <1>3
          <6>3. h \in Surplus
            BY <6>1, <6>2, <1>5
          <6>. QED  BY <5>1, <6>3 DEF ExcessOf
        <5>. QED  BY <5>2, <5>3
      <4>. QED  BY <4>1
    <3>2. id0 \notin OverwrittenOf(a)
      BY <2>2, <1>1, <1>3 DEF OverwrittenOf
    <3>. QED  BY <2>1, <3>1, <3>2 DEF AccountInterrupted
  <2>3. CASE ~items[old].disc /\ (id0 \in gone \/ Others # {})
    <3>1. PICK y : Surplus' \subseteq Surplus \cup {y}
      BY <1>6
    <3>2. ExcessOf(a)' \subseteq ExcessOf(a) \cup {y}
      <4>1. ASSUME NEW h \in ExcessOf(a)', h # y PROVE h \in ExcessOf(a)
        <5>1. h \in Kept' /\ SameAccount(items[h], a) /\ (items[h].disc \/ h \in Surplus)
          BY <4>1, <3>1 DEF ExcessOf, SameAccount
        <5>2. h # old
          BY <5>1, <2>3, <1>4
        <5>. QED  BY <5>1, <5>2, <1>2 DEF ExcessOf
      <4>. QED  BY <4>1
    <3>3. id0 \notin OverwrittenOf(a)
      BY <2>3 DEF OverwrittenOf
    <3>. QED  BY <2>1, <3>2, <3>3 DEF AccountInterrupted
  <2>4. CASE ~items[old].disc /\ id0 \notin gone /\ Others = {}
    <3>1. Surplus' \subseteq Surplus
      BY <2>4, <1>1, <1>2, <1>5 DEF Surplus
    <3>2. ExcessOf(a)' \subseteq ExcessOf(a)
      <4>1. ASSUME NEW h \in ExcessOf(a)' PROVE h \in ExcessOf(a)
        <5>1. h \in Kept' /\ SameAccount(items[h], a) /\ (items[h].disc \/ h \in Surplus)
          BY <4>1, <3>1 DEF ExcessOf, SameAccount
        <5>2. h # old
          BY <5>1, <2>4, <1>4
        <5>. QED  BY <5>1, <5>2, <1>2 DEF ExcessOf
      <4>. QED  BY <4>1
    <3>. QED  BY <2>1, <3>2 DEF AccountInterrupted
  <2>. QED  BY <2>2, <2>3, <2>4
<1>. QED  BY <1>6, <1>7, CountKept

\* Without an item there is nothing to count.
NoneCounted == items = <<>> /\ interruptions = 0

LEMMA CountEmpty == NoneCounted => CountInv
<1> SUFFICES ASSUME NoneCounted PROVE CountInv
  OBVIOUS
<1>1. Surplus = {} /\ \A a : ExcessOf(a) = {} /\ OverwrittenOf(a) = {}
  BY DEF NoneCounted, Surplus, ExcessOf, OverwrittenOf, Kept, Live
<1>2. Cardinality({}) = 0
  BY FS_EmptySet
<1>3. Cardinality(Surplus) <= interruptions
  BY <1>1, <1>2 DEF NoneCounted
<1>4. ASSUME NEW a
      PROVE  Cardinality(ExcessOf(a)) <= 1 + interruptions + Cardinality(OverwrittenOf(a))
  <2>1. Cardinality(ExcessOf(a)) = 0 /\ Cardinality(OverwrittenOf(a)) = 0 /\ interruptions = 0
    BY <1>1, <1>2 DEF NoneCounted
  <2>. QED  BY <2>1
<1>. QED  BY <1>3, <1>4 DEF CountInv

LEMMA CountErased == NoneCounted' => CountInv'
BY CountEmpty, PTL

LEMMA CountStep ==
    ASSUME IInv, [Next]_vars, TypeOK'
    PROVE  CountInv'
<1>. TypeOK /\ StoreInv /\ CountInv
  BY DEF IInv
<1>1. ASSUME UNCHANGED <<items, call, gone>>, interruptions' = interruptions
      PROVE  CountInv'
  BY <1>1, CountUnchanged DEF Kept, Live
<1>2. CASE StatefulExpires
  BY <1>1, <1>2 DEF StatefulExpires, KeepStore
<1>3. CASE SetPin
  BY <1>1, <1>3 DEF SetPin, history
<1>4. ASSUME NEW rp \in Rps, NEW user \in Users, NEW kind \in Kinds, NEW sig \in BOOLEAN,
             NEW exclude \in IdLists, MakeCredential(rp, user, kind[1], kind[2], sig, exclude)
      PROVE  CountInv'
  <2>1. UNCHANGED <<gone, interruptions>>
    BY <1>4 DEF MakeCredential, history
  <2>2. PICK c \in Item, old \in 0..Len(items) :
           /\ Appending(c) /\ call.pc = "idle"
           /\ c.id = Len(items) + 1
           /\ call' = [pc |-> IF old = 0 THEN "reply" ELSE "delete", op |-> "make", old |-> old]
           /\ IF old = 0 THEN c.disc => Existing(c) = {}
              ELSE c.disc /\ old \in Live /\ SameAccount(items[old], c)
    BY <1>4, MakeAppends
  <2>3. Live' = Live \cup {Len(items) + 1} /\ Len(items) + 1 \notin DOMAIN items
    BY <2>2, AppendingFacts
  <2>4. Kept = Live
    BY <2>2 DEF Kept
  <2>5. CASE old = 0
    <3>1. Kept' = Kept \cup {Len(items) + 1}
      BY <2>2, <2>3, <2>4, <2>5 DEF Kept
    <3>. QED  BY <2>1, <2>2, <2>5, <3>1, CountAdded
  <2>6. CASE old # 0
    <3>1. old \in Live /\ old \in DOMAIN items /\ c.disc /\ SameAccount(items[old], c)
      BY <2>2, <2>6, ItemsType
    <3>2. Kept' = (Kept \ {old}) \cup {Len(items) + 1}
      BY <2>2, <2>3, <2>4, <2>6, <3>1 DEF Kept
    <3>. QED  BY <2>1, <2>2, <2>4, <3>1, <3>2, CountReplaced
  <2>. QED  BY <2>5, <2>6
<1>5. CASE DeleteOld
  <2>1. Marking(call.old) /\ call.pc = "delete" /\ call'.pc # "delete"
    BY <1>5, DeleteOldMarks DEF StoreInv, DeleteOld, NoCall, TypeOK
  <2>2. Kept' = Kept
    BY <2>1, MarkingFacts DEF Kept
  <2>3. UNCHANGED <<gone, interruptions>>
    BY <1>5 DEF DeleteOld, history
  <2>. QED  BY <2>1, <2>2, <2>3, MarkingFacts, CountUnchanged
<1>6. CASE DeleteOldFails
  BY <1>6, CountInterrupted DEF DeleteOldFails
<1>7. CASE MakeCredentialReplies
  <2>1. Kept' = Kept /\ UNCHANGED <<items, gone, interruptions>>
    BY <1>7 DEF MakeCredentialReplies, Kept, Live, NoCall
  <2>. QED  BY <2>1, CountUnchanged
<1>8. ASSUME NEW rp \in Rps, NEW sig \in BOOLEAN,
             \/ GetAssertion(rp, sig)
             \/ \E allow \in IdLists : GetAssertionAllowed(rp, sig, allow)
             \/ EnumerateCredentialsBegin(rp, sig)
      PROVE  CountInv'
  <2>1. UNCHANGED <<items, call, gone>> /\ interruptions' = interruptions
    BY <1>8 DEF GetAssertion, GetAssertionAllowed, EnumerateCredentialsBegin, KeepStore,
                Began, Discard
  <2>. QED  BY <1>1, <2>1
<1>9. CASE GetNextAssertion \/ EnumerateRpsGetNextRp \/ EnumerateCredentialsGetNextCredential
  BY <1>1, <1>9
     DEF GetNextAssertion, EnumerateRpsGetNextRp, EnumerateCredentialsGetNextCredential, Advances
<1>10. ASSUME NEW sig \in BOOLEAN, EnumerateRpsBegin(sig)
       PROVE  CountInv'
  BY <1>1, <1>10 DEF EnumerateRpsBegin, KeepStore
<1>11. ASSUME NEW id \in Ids, NEW tokenRp \in Rps \cup {NoRp}, NEW sig \in BOOLEAN,
              DeleteCredential(id, tokenRp, sig)
       PROVE  CountInv'
  <2>1. UNCHANGED <<call, interruptions>> /\ call.pc = "idle"
    BY <1>11 DEF DeleteCredential, Idle
  <2>2. CASE UNCHANGED <<items, gone, handed>>
    BY <1>1, <2>1, <2>2
  <2>3. ASSUME NEW h \in Live, Marking(h), items[h].id = id,
               \A g \in Live : items[g].id = id => h <= g, gone' = gone \cup {id}
        PROVE  CountInv'
    <3>1. Kept = Live /\ Kept' = Kept \ {h}
      BY <2>1, <2>3, MarkingFacts DEF Kept
    <3>. QED  BY <2>1, <2>3, <3>1, CountDeleted
  <2>. QED  BY <1>11, <2>2, <2>3, DeleteCredentialMarks
<1>12. ASSUME NEW id \in Ids, NEW tokenRp \in Rps \cup {NoRp}, NEW sig \in BOOLEAN,
              UpdateUserInformation(id, tokenRp, sig)
       PROVE  CountInv'
  <2>1. UNCHANGED <<gone, interruptions>> /\ call.pc = "idle"
    BY <1>12 DEF UpdateUserInformation, Idle
  <2>2. CASE UNCHANGED <<items, call>>
    BY <1>1, <2>1, <2>2
  <2>3. ASSUME NEW old \in Live, Appending(items[old]),
               call' = [pc |-> "delete", op |-> "update", old |-> old]
        PROVE  CountInv'
    <3>1. /\ Live' = Live \cup {Len(items) + 1} /\ Len(items) + 1 \notin DOMAIN items
          /\ old \in DOMAIN items
      BY <2>3, AppendingFacts, ItemsType
    <3>2. Kept = Live /\ Kept' = (Kept \ {old}) \cup {Len(items) + 1}
      BY <2>1, <2>3, <3>1 DEF Kept
    <3>3. SameAccount(items[old], items[old])
      BY DEF SameAccount
    <3>. QED  BY <2>1, <2>3, <3>2, <3>3, CountReplaced
  <2>. QED  BY <1>12, <2>2, <2>3, UpdateAppends
<1>13. CASE Reset
  <2>1. items' = <<>> /\ interruptions' = 0
    BY <1>13 DEF Reset
  <2>. QED  BY <2>1, CountErased DEF NoneCounted
<1>14. CASE PowerCycle
  <2>1. UNCHANGED <<items, gone>> /\ call' = NoCall
    BY <1>14 DEF PowerCycle
  <2>2. CASE call.pc = "delete"
    BY <1>14, <2>1, <2>2, CountInterrupted DEF PowerCycle, Idle
  <2>3. CASE call.pc # "delete"
    <3>1. Kept' = Kept
      BY <2>1, <2>3 DEF Kept, Live, NoCall
    <3>2. interruptions' \in {interruptions, interruptions + 1}
      BY <1>14 DEF PowerCycle
    <3>. QED  BY <2>1, <3>1, <3>2, CountUnchanged
  <2>. QED  BY <2>2, <2>3
<1>15. CASE UNCHANGED vars
  BY <1>1, <1>15 DEF vars, history
<1>. QED  BY <1>2, <1>3, <1>4, <1>5, <1>6, <1>7, <1>8, <1>9, <1>10, <1>11, <1>12, <1>13,
             <1>14, <1>15
          DEF Next

-----------------------------------------------------------------------------
(* The stateful command.                                                   *)

LEMMA StatefulDiscarded ==
    ASSUME TypeOK', Discard
    PROVE  StatefulInv'
<1>1. 0 <= Len(items')
  BY DEF TypeOK
<1>. QED  BY <1>1 DEF Discard, NoStateful, StatefulInv, StatefulShape, PendingAccountLives,
                      PendingEligible, NothingOmitted, Pending

\* What is listed stays where it is.
LEMMA ListedInside ==
    ASSUME TypeOK, StatefulShape
    PROVE  /\ Pending \subseteq DOMAIN items /\ Pending \subseteq stateful.todo
           /\ ~orphaned => stateful.listed \subseteq DOMAIN items /\ begun <= Len(items)
  BY DEF StatefulShape, Pending

LEMMA StatefulAppended ==
    ASSUME TypeOK, StatefulInv, NEW c, Appending(c), UNCHANGED <<stateful, begun, orphaned>>
    PROVE  StatefulInv'
<1>0. PICK N \in Nat : N = Len(items) + 1
  BY ItemsType
<1>1. /\ Len(items') = N /\ DOMAIN items' = DOMAIN items \cup {N}
      /\ \A h \in DOMAIN items : items'[h] = items[h]
      /\ Live' = Live \cup {N} /\ Live \subseteq DOMAIN items
  <2>1. /\ Len(items') = N /\ DOMAIN items' = DOMAIN items \cup {N}
        /\ \A h \in DOMAIN items : items'[h] = items[h]
        /\ Live' = Live \cup {N}
    BY <1>0, AppendingFacts
  <2>. QED  BY <2>1, ItemsType
<1>2. /\ Pending' = Pending /\ Pending \subseteq DOMAIN items
      /\ ~orphaned => stateful.listed \subseteq DOMAIN items /\ begun <= Len(items)
  BY ListedInside DEF StatefulInv, Pending
<1>3. StatefulShape'
  <2>1. ~orphaned => begun <= Len(items')
    BY <1>0, <1>1, <1>2 DEF TypeOK
  <2>. QED  BY <1>1, <2>1 DEF StatefulInv, StatefulShape
<1>4. PendingAccountLives'
  BY <1>1, <1>2 DEF StatefulInv, PendingAccountLives
<1>5. PendingEligible'
  BY <1>1, <1>2 DEF StatefulInv, PendingEligible
<1>6. NothingOmitted'
  <2>1. ~orphaned => ~(N <= begun)
    BY <1>0, <1>2, ItemsType DEF TypeOK
  <2>2. ASSUME NEW h \in Live', stateful.cmd # "none", ~orphaned, h <= begun,
               items'[h].disc, stateful.uv \/ items'[h].protect = 1
        PROVE  IF stateful.cmd = "rps"
               THEN \E g \in stateful.listed : items'[g].rp = items'[h].rp
               ELSE items'[h].rp = stateful.rp => h \in stateful.listed
    <3>1. h \in Live /\ items'[h] = items[h]
      BY <1>1, <2>1, <2>2
    <3>. QED  BY <1>1, <1>2, <2>2, <3>1 DEF StatefulInv, NothingOmitted
  <2>. QED  BY <2>2 DEF NothingOmitted
<1>. QED  BY <1>3, <1>4, <1>5, <1>6 DEF StatefulInv

\* The item that is deleted has a successor of the same account, which is last.
LEMMA StatefulDeleteOld ==
    ASSUME TypeOK, CallShape, StatefulInv, DeleteOld
    PROVE  StatefulInv'
<1>. DEFINE k == call.old
            n == Len(items)
<1>1. Marking(k) /\ UNCHANGED <<stateful, begun, orphaned>>
  BY DeleteOldMarks DEF DeleteOld, history
<1>2. /\ k \in DOMAIN items /\ n \in Live /\ n # k /\ SameAccount(items[k], items[n])
      /\ items[k] \in Item /\ items[n] \in Item
      /\ items[k].disc => items[n].disc
  BY <1>1, ItemsType DEF DeleteOld, CallShape, TypeOK, Marking, Live, Item
<1>3. /\ Len(items') = n /\ DOMAIN items' = DOMAIN items
      /\ Live' = Live \ {k} /\ Live \subseteq DOMAIN items
      /\ \A g \in DOMAIN items :
            /\ items'[g].rp = items[g].rp /\ items'[g].user = items[g].user
            /\ items'[g].disc = items[g].disc /\ items'[g].protect = items[g].protect
  BY <1>1, MarkingFacts, ItemsType
<1>. HIDE DEF k, n
<1>4. /\ Pending' = Pending /\ Pending \subseteq DOMAIN items
      /\ ~orphaned => stateful.listed \subseteq DOMAIN items
  BY <1>1, ListedInside DEF StatefulInv, Pending
<1>5. StatefulShape'
  BY <1>1, <1>3 DEF StatefulInv, StatefulShape, n
<1>6. PendingAccountLives'
  <2> SUFFICES ASSUME NEW h \in Pending
               PROVE  \E g \in Live' : /\ items'[g].disc /\ items'[g].rp = items'[h].rp
                                       /\ stateful.cmd # "rps" => items'[g].user = items'[h].user
    BY <1>1, <1>3, <1>4 DEF PendingAccountLives
  <2>1. PICK g \in Live : /\ items[g].disc /\ items[g].rp = items[h].rp
                          /\ stateful.cmd # "rps" => items[g].user = items[h].user
    BY DEF StatefulInv, PendingAccountLives
  <2>2. CASE g # k
    BY <1>3, <1>4, <2>1, <2>2
  <2>3. CASE g = k
    BY <1>2, <1>3, <1>4, <2>1, <2>3 DEF SameAccount
  <2>. QED  BY <2>2, <2>3
<1>7. PendingEligible'
  BY <1>1, <1>3, <1>4 DEF StatefulInv, PendingEligible
<1>8. NothingOmitted'
  <2> SUFFICES ASSUME NEW h \in Live', stateful.cmd # "none", ~orphaned, h <= begun,
                      items'[h].disc, stateful.uv \/ items'[h].protect = 1
               PROVE  IF stateful.cmd = "rps"
                      THEN \E g \in stateful.listed : items'[g].rp = items'[h].rp
                      ELSE items'[h].rp = stateful.rp => h \in stateful.listed
    BY <1>1 DEF NothingOmitted
  <2>. QED  BY <1>3, <1>4 DEF StatefulInv, NothingOmitted
<1>. QED  BY <1>5, <1>6, <1>7, <1>8 DEF StatefulInv

\* A list of handles that are all discoverable, of the relying party and eligible, and
\* complete.
LEMMA StatefulBegan ==
    ASSUME TypeOK, TypeOK', UNCHANGED items,
           NEW cmd \in {"assertion", "rps", "credentials"}, NEW rp, NEW uv \in BOOLEAN, NEW S,
           Began(cmd, rp, uv, S), S \subseteq Live, cmd = "rps" => uv,
           \A h \in S : items[h].disc /\ (uv \/ items[h].protect = 1)
                        /\ (cmd # "rps" => items[h].rp = rp),
           \A h \in Live : items[h].disc /\ (uv \/ items[h].protect = 1) =>
               IF cmd = "rps" THEN \E g \in S : items[g].rp = items[h].rp
                              ELSE items[h].rp = rp => h \in S
    PROVE  StatefulInv'
<1>1. CASE Discard
  BY <1>1, StatefulDiscarded
<1>2. CASE /\ stateful' = [cmd |-> cmd, rp |-> rp, uv |-> uv,
                           listed |-> S, todo |-> S \ {First(S)}]
           /\ begun' = Len(items) /\ orphaned' = FALSE
  <2>1. Live' = Live /\ Live \subseteq DOMAIN items /\ DOMAIN items' = DOMAIN items
        /\ Len(items) \in Nat
    BY ItemsType DEF Live
  <2>2. /\ stateful'.cmd = cmd /\ stateful'.rp = rp /\ stateful'.uv = uv
        /\ stateful'.listed = S /\ stateful'.todo = S \ {First(S)}
    BY <1>2
  <2>3. StatefulShape'
    BY <1>2, <2>1, <2>2 DEF StatefulShape
  <2>4. Pending' \subseteq S
    BY <2>2 DEF Pending
  <2>5. PendingAccountLives'
    BY <2>1, <2>4 DEF PendingAccountLives
  <2>6. PendingEligible'
    BY <2>2, <2>4 DEF PendingEligible
  <2>7. NothingOmitted'
    BY <2>1, <2>2 DEF NothingOmitted
  <2>. QED  BY <2>3, <2>5, <2>6, <2>7 DEF StatefulInv
<1>. QED  BY <1>1, <1>2 DEF Began

LEMMA StatefulAdvances ==
    ASSUME TypeOK, TypeOK', StatefulInv, NEW cmd, Advances(cmd)
    PROVE  StatefulInv'
<1>1. CASE Discard
  BY <1>1, StatefulDiscarded
<1>2. CASE /\ stateful' = [stateful EXCEPT !.todo = stateful.todo \ {First(stateful.todo)}]
           /\ UNCHANGED <<begun, orphaned>>
  <2>1. Live' = Live /\ items' = items
    BY DEF Live, Advances
  <2>2. /\ stateful'.cmd = stateful.cmd /\ stateful'.rp = stateful.rp
        /\ stateful'.uv = stateful.uv /\ stateful'.listed = stateful.listed
        /\ stateful'.todo \subseteq stateful.todo /\ stateful'.todo \subseteq stateful.listed
        /\ stateful.todo = {} => stateful'.todo = {}
    BY <1>2 DEF TypeOK, StatefulInv, StatefulShape
  <2>3. StatefulShape'
    BY <1>2, <2>1, <2>2 DEF StatefulInv, StatefulShape
  <2>4. Pending' \subseteq Pending
    BY <1>2, <2>2 DEF Pending
  <2>5. PendingAccountLives'
    BY <2>1, <2>2, <2>4 DEF StatefulInv, PendingAccountLives
  <2>6. PendingEligible'
    BY <2>1, <2>2, <2>4 DEF StatefulInv, PendingEligible
  <2>7. NothingOmitted'
    BY <1>2, <2>1, <2>2 DEF StatefulInv, NothingOmitted
  <2>. QED  BY <2>3, <2>5, <2>6, <2>7 DEF StatefulInv
<1>. QED  BY <1>1, <1>2 DEF Advances

LEMMA StatefulUnchanged ==
    ASSUME StatefulInv, UNCHANGED <<items, stateful, begun, orphaned>>
    PROVE  StatefulInv'
  BY DEF StatefulInv, StatefulShape, PendingAccountLives, PendingEligible, NothingOmitted,
         Pending, Live

\* A reset erases what is listed.
LEMMA StatefulErased ==
    ASSUME StatefulInv, items' = <<>>, orphaned' = (stateful.cmd # "none"),
           UNCHANGED <<stateful, begun>>
    PROVE  StatefulInv'
<1>1. Live' = {} /\ DOMAIN items' = {} /\ Len(items') = 0
  BY DEF Live
<1>2. Pending' = {}
  BY DEF Pending, StatefulInv, StatefulShape
<1>3. ~orphaned' => stateful.listed = {} /\ begun = 0
  BY DEF StatefulInv, StatefulShape
<1>4. StatefulShape'
  BY <1>1, <1>3 DEF StatefulInv, StatefulShape
<1>5. PendingAccountLives' /\ PendingEligible' /\ NothingOmitted'
  BY <1>1, <1>2 DEF PendingAccountLives, PendingEligible, NothingOmitted
<1>. QED  BY <1>4, <1>5 DEF StatefulInv

\* The list of the credentials of a relying party is what it should be.
LEMMA FoundCredentials ==
    ASSUME TypeOK, NEW rp \in Rps, NEW uv \in BOOLEAN
    PROVE  LET S == FindDiscoverable(rp, uv)
           IN  /\ S \subseteq Live
               /\ \A h \in S : items[h].disc /\ (uv \/ items[h].protect = 1) /\ items[h].rp = rp
               /\ \A h \in Live : /\ items[h].disc /\ (uv \/ items[h].protect = 1)
                                  /\ items[h].rp = rp
                                  => h \in S
<1>1. \A h \in Live : items[h].protect \in 1..3
  BY ItemsType DEF Item
<1>2. \A h \in Live : ShouldAdd(items[h], FALSE, uv) <=> uv \/ items[h].protect = 1
  BY <1>1 DEF ShouldAdd
<1>. QED  BY <1>2 DEF FindDiscoverable

LEMMA BeganCredentials ==
    ASSUME TypeOK, TypeOK', UNCHANGED items, NEW cmd \in {"assertion", "credentials"},
           NEW rp \in Rps, NEW uv \in BOOLEAN, Began(cmd, rp, uv, FindDiscoverable(rp, uv))
    PROVE  StatefulInv'
<1>1. PICK S : S = FindDiscoverable(rp, uv)
  OBVIOUS
<1>2. /\ S \subseteq Live
      /\ \A h \in S : items[h].disc /\ (uv \/ items[h].protect = 1) /\ items[h].rp = rp
      /\ \A h \in Live : /\ items[h].disc /\ (uv \/ items[h].protect = 1)
                         /\ items[h].rp = rp
                         => h \in S
  BY <1>1, FoundCredentials
<1>3. Began(cmd, rp, uv, S) /\ cmd # "rps"
  BY <1>1
<1>. QED  BY <1>2, <1>3, StatefulBegan

\* Every relying party with a discoverable credential has a first one.
LEMMA FoundRps ==
    ASSUME TypeOK, NEW h \in Live, items[h].disc
    PROVE  \E g \in DiscoverableRps : items[g].rp = items[h].rp
<1>. DEFINE S == {g \in Live : items[g].disc /\ items[g].rp = items[h].rp}
<1>1. S \subseteq Nat /\ S # {}
  BY FoundAreLive
<1>2. First(S) \in S /\ \A g \in S : First(S) <= g
  BY <1>1, FirstIsLeast
<1>. QED  BY <1>2 DEF DiscoverableRps

LEMMA BeganRps ==
    ASSUME TypeOK, TypeOK', UNCHANGED items, Began("rps", NoRp, TRUE, DiscoverableRps)
    PROVE  StatefulInv'
<1>1. PICK S : S = DiscoverableRps
  OBVIOUS
<1>2. S \subseteq Live /\ \A h \in S : items[h].disc
  BY <1>1 DEF DiscoverableRps
<1>3. \A h \in Live : items[h].disc => \E g \in S : items[g].rp = items[h].rp
  BY <1>1, FoundRps
<1>4. PICK cmd \in {"assertion", "rps", "credentials"}, uv \in BOOLEAN : cmd = "rps" /\ uv = TRUE
  OBVIOUS
<1>5. Began(cmd, NoRp, uv, S)
  BY <1>1, <1>4
<1>6. \A h \in S : items[h].disc /\ (uv \/ items[h].protect = 1)
                  /\ (cmd # "rps" => items[h].rp = NoRp)
  BY <1>2, <1>4
<1>7. \A h \in Live : items[h].disc /\ (uv \/ items[h].protect = 1) =>
         IF cmd = "rps" THEN \E g \in S : items[g].rp = items[h].rp
                        ELSE items[h].rp = NoRp => h \in S
  BY <1>3, <1>4
<1>8. cmd = "rps" => uv
  BY <1>4
<1>. QED  BY <1>2, <1>5, <1>6, <1>7, <1>8, StatefulBegan

LEMMA StatefulStep ==
    ASSUME IInv, [Next]_vars
    PROVE  StatefulInv'
<1>. TypeOK /\ TypeOK' /\ CallShape /\ StatefulInv
  BY TypeStep DEF IInv, StoreInv
<1>1. CASE StatefulExpires \/ PowerCycle
  BY <1>1, StatefulDiscarded DEF StatefulExpires, PowerCycle
<1>2. CASE SetPin
  BY <1>2, StatefulUnchanged DEF SetPin, history
<1>3. ASSUME NEW rp \in Rps, NEW user \in Users, NEW kind \in Kinds, NEW sig \in BOOLEAN,
             NEW exclude \in IdLists, MakeCredential(rp, user, kind[1], kind[2], sig, exclude)
      PROVE  StatefulInv'
  <2>1. UNCHANGED <<stateful, begun, orphaned>>
    BY <1>3 DEF MakeCredential, history
  <2>. QED  BY <1>3, <2>1, MakeAppends, StatefulAppended
<1>4. CASE DeleteOld
  BY <1>4, StatefulDeleteOld
<1>5. CASE DeleteOldFails
  BY <1>5, StatefulUnchanged DEF DeleteOldFails
<1>6. CASE MakeCredentialReplies
  BY <1>6, StatefulUnchanged DEF MakeCredentialReplies
<1>7. ASSUME NEW rp \in Rps, NEW sig \in BOOLEAN, GetAssertion(rp, sig)
      PROVE  StatefulInv'
  <2>1. CASE Discard
    BY <2>1, StatefulDiscarded
  <2>2. CASE Began("assertion", rp, pin_set /\ sig, FindDiscoverable(rp, pin_set /\ sig))
    <3>1. PICK uv \in BOOLEAN : uv = (pin_set /\ sig)
      BY DEF TypeOK
    <3>2. items' = items
      BY <1>7 DEF GetAssertion
    <3>. QED  BY <2>2, <3>1, <3>2, BeganCredentials
  <2>. QED  BY <1>7, <2>1, <2>2 DEF GetAssertion
<1>8. ASSUME NEW rp \in Rps, NEW sig \in BOOLEAN, NEW allow \in IdLists,
             GetAssertionAllowed(rp, sig, allow)
      PROVE  StatefulInv'
  BY <1>8, StatefulDiscarded DEF GetAssertionAllowed
<1>9. ASSUME NEW rp \in Rps, NEW sig \in BOOLEAN, EnumerateCredentialsBegin(rp, sig)
      PROVE  StatefulInv'
  <2>1. CASE Discard
    BY <2>1, StatefulDiscarded
  <2>2. CASE Began("credentials", rp, TRUE, FindDiscoverable(rp, TRUE))
    <3>1. items' = items
      BY <1>9 DEF EnumerateCredentialsBegin, KeepStore
    <3>. QED  BY <2>2, <3>1, BeganCredentials
  <2>. QED  BY <1>9, <2>1, <2>2 DEF EnumerateCredentialsBegin
<1>10. CASE GetNextAssertion \/ EnumerateRpsGetNextRp \/ EnumerateCredentialsGetNextCredential
  BY <1>10, StatefulAdvances
     DEF GetNextAssertion, EnumerateRpsGetNextRp, EnumerateCredentialsGetNextCredential
<1>11. ASSUME NEW sig \in BOOLEAN, EnumerateRpsBegin(sig)
       PROVE  StatefulInv'
  <2>1. CASE Discard
    BY <2>1, StatefulDiscarded
  <2>2. CASE Began("rps", NoRp, TRUE, DiscoverableRps)
    <3>1. items' = items
      BY <1>11 DEF EnumerateRpsBegin, KeepStore
    <3>. QED  BY <2>2, <3>1, BeganRps
  <2>. QED  BY <1>11, <2>1, <2>2 DEF EnumerateRpsBegin
<1>12. ASSUME NEW id \in Ids, NEW tokenRp \in Rps \cup {NoRp}, NEW sig \in BOOLEAN,
              DeleteCredential(id, tokenRp, sig) \/ UpdateUserInformation(id, tokenRp, sig)
       PROVE  StatefulInv'
  BY <1>12, StatefulDiscarded DEF DeleteCredential, UpdateUserInformation
<1>13. CASE Reset
  BY <1>13, StatefulErased DEF Reset
<1>14. CASE UNCHANGED vars
  BY <1>14, StatefulUnchanged DEF vars, history
<1>. QED  BY <1>1, <1>2, <1>3, <1>4, <1>5, <1>6, <1>7, <1>8, <1>9, <1>10, <1>11, <1>12,
             <1>13, <1>14
          DEF Next

-----------------------------------------------------------------------------
(* The theorems.                                                           *)

LEMMA InitInv == Init => IInv
<1> SUFFICES ASSUME Init PROVE IInv
  OBVIOUS
<1>1. TypeOK
  <2>1. /\ 0 \in 0..MaxItems /\ 0 \in 0..MaxInterruptions /\ 0 <= MaxItems
    BY CredentialsAssumption
  <2>2. NoStateful \in [cmd : {"none", "assertion", "rps", "credentials"},
                       rp : Rps \cup {NoRp}, uv : BOOLEAN,
                       listed : SUBSET Handles, todo : SUBSET Handles]
    BY DEF NoStateful
  <2>3. NoCall \in [pc : {"idle", "delete", "reply"}, op : {"none", "make", "update"},
                    old : 0..MaxItems]
    BY <2>1 DEF NoCall
  <2>4. items \in Seq(Item) /\ Len(items) = 0
    BY DEF Init
  <2>. QED  BY <2>1, <2>2, <2>3, <2>4 DEF Init, TypeOK
<1>2. Live = {} /\ DOMAIN items = {} /\ Len(items) = 0
  BY DEF Init, Live
<1>3. StoreInv
  BY <1>2 DEF Init, NoCall, StoreInv, CallShape, IdShape, HistoryShape, HandedInv
<1>4. CountInv
  BY CountEmpty DEF Init, NoneCounted
<1>5. StatefulInv
  BY <1>2 DEF Init, NoStateful, StatefulInv, StatefulShape, PendingAccountLives,
              PendingEligible, NothingOmitted, Pending
<1>. QED  BY <1>1, <1>3, <1>4, <1>5 DEF IInv

\* The invariant: what is proved below follows from it.
THEOREM Invariant == Spec => []IInv
<1>1. Init => IInv
  BY InitInv
<1>2. IInv /\ [Next]_vars => IInv'
  BY TypeStep, StoreStep, CountStep, StatefulStep DEF IInv
<1>. QED  BY <1>1, <1>2, PTL DEF Spec

\* The store, the running call and the stateful command have their types.
THEOREM TypeCorrect == Spec => []TypeOK
<1>1. IInv => TypeOK
  BY DEF IInv
<1>. QED  BY <1>1, Invariant, PTL

\* However credentials are made, changed and deleted, an account has at most one that is
\* discoverable, but for one for each interrupted call and one for each credential that
\* is not discoverable and was overwritten (create_or_update_item, ctap_create_credential).
THEOREM OneDiscoverable == Spec => []OnePerAccountOfDiscoverables
<1>1. ASSUME IInv PROVE OnePerAccountOfDiscoverables
  <2>1. ASSUME NEW a \in Accounts
        PROVE  Cardinality(DiscoverableOf(a)) <= 1 + interruptions + Cardinality(OverwrittenOf(a))
    <3>1. DiscoverableOf(a) \subseteq ExcessOf(a)
      BY DEF DiscoverableOf, ExcessOf
    <3>2. TypeOK /\ Cardinality(ExcessOf(a)) <= 1 + interruptions + Cardinality(OverwrittenOf(a))
      BY <1>1 DEF IInv, CountInv
    <3>3. IsFiniteSet(ExcessOf(a)) /\ IsFiniteSet(OverwrittenOf(a)) /\ interruptions \in Nat
      BY <3>2, CountedFinite, CredentialsAssumption DEF CountedAreFinite, TypeOK
    <3>4. /\ Cardinality(DiscoverableOf(a)) <= Cardinality(ExcessOf(a))
          /\ Cardinality(DiscoverableOf(a)) \in Nat /\ Cardinality(ExcessOf(a)) \in Nat
      BY <3>1, <3>3, NoMore
    <3>5. Cardinality(OverwrittenOf(a)) \in Nat
      BY <3>3, FS_CardinalityType
    <3>. QED  BY <3>2, <3>3, <3>4, <3>5
  <2>. QED  BY <2>1 DEF OnePerAccountOfDiscoverables
<1>. QED  BY <1>1, Invariant, PTL

\* What a getNextAssertion or an enumeration still has to return belongs to an account
\* that has a discoverable credential.
THEOREM PendingLives == Spec => []PendingAccountLives
<1>1. IInv => PendingAccountLives
  BY DEF IInv, StatefulInv
<1>. QED  BY <1>1, Invariant, PTL

\* What it still has to return could be returned to the first request, too.
THEOREM PendingIsEligible == Spec => []PendingEligible
<1>1. IInv => PendingEligible
  BY DEF IInv, StatefulInv
<1>. QED  BY <1>1, Invariant, PTL

\* No list of a stateful command lacks a credential that belongs on it.
THEOREM ListsComplete == Spec => []NothingOmitted
<1>1. IInv => NothingOmitted
  BY DEF IInv, StatefulInv
<1>. QED  BY <1>1, Invariant, PTL

\* However many calls were interrupted, each of them is the reason for at most one item
\* that is there although deleteCredential has deleted its credential.
THEOREM DeletedStaysGone == Spec => []DeletedGone
<1>1. ASSUME IInv PROVE DeletedGone
  <2>. DEFINE Back == {h \in Kept : items[h].id \in gone}
  <2>1. Back \subseteq Surplus
    BY DEF Surplus
  <2>2. IsFiniteSet(Surplus) /\ Cardinality(Surplus) <= interruptions /\ interruptions \in Nat
    BY <1>1, CountedFinite, CredentialsAssumption DEF IInv, CountInv, CountedAreFinite, TypeOK
  <2>. HIDE DEF Back
  <2>3. /\ Cardinality(Back) <= Cardinality(Surplus)
        /\ Cardinality(Back) \in Nat /\ Cardinality(Surplus) \in Nat
    BY <2>1, <2>2, NoMore
  <2>4. Cardinality(Back) <= interruptions
    BY <2>2, <2>3
  <2>. QED  BY <2>4 DEF Back, DeletedGone
<1>. QED  BY <1>1, Invariant, PTL

\* A credential the platforms count on is there, or a makeCredential that was interrupted
\* or found the counter full has put a later one of the account in its place.
THEOREM HandedStays == Spec => []HandedKept
<1>1. IInv => HandedKept
  BY DEF IInv, StoreInv, HandedInv, HandedKept, Idle
<1>. QED  BY <1>1, Invariant, PTL
=============================================================================
