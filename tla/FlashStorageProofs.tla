------------------------- MODULE FlashStorageProofs -------------------------
(***************************************************************************)
(* Theorems about FlashStorage, for every size of the sector and of the    *)
(* items: its invariants, and that it implements ItemStore, whatever       *)
(* programming operation fails and wherever the power is lost.             *)
(*                                                                         *)
(* IInv is inductive.  Most steps touch a part of the state only; the      *)
(* lemma on replacing an item (ReplaceShape) serves the steps that program *)
(* a word of an item or its delete marker.                                 *)
(***************************************************************************)
EXTENDS FlashStorage, SequenceTheorems, FiniteSetTheorems, TLAPS

\* An item takes at least a header, a marker and a checksum.
LEMMA SizeType ==
    /\ \A k \in Keys : Size[k] \in Nat /\ Total(k) \in Nat /\ Total(k) >= 3
    /\ MinAddress = 2 /\ MinAddress \in Addresses
    /\ Addresses \subseteq Nat
  BY SizeAssumption DEF Total, MinAddress, Addresses

\* The fields of an item in the flash.
LEMMA FlashType ==
    ASSUME TypeOK, NEW x \in flash
    PROVE  /\ x \in FlashItem
           /\ x.at \in Nat /\ x.key \in Keys /\ x.value \in Values
           /\ x.done \in Nat /\ x.deleted \in BOOLEAN
           /\ After(x) \in Nat /\ x.at + 3 <= After(x)
           /\ Size[x.key] \in Nat
<1>1. x \in FlashItem
  BY DEF TypeOK
<1>2. x.at \in Nat /\ x.key \in Keys
  BY <1>1, SizeType DEF FlashItem
<1>. QED  BY <1>1, <1>2, SizeType DEF FlashItem, After

\* What is read of an item.
LEMMA ReadType ==
    ASSUME TypeOK, NEW x \in flash
    PROVE  /\ Read(x).at = x.at /\ Read(x).key = x.key
           /\ Read(x).value \in Values \cup {Torn}
           /\ Read(x) \in [at : Addresses, key : Keys, value : Values \cup {Torn}]
  BY FlashType DEF Read, FlashItem

\* Different items are read as different.
LEMMA ReadUnique ==
    ASSUME TypeOK, FlashShape, NEW x \in flash, NEW y \in flash, Read(x) = Read(y)
    PROVE  x = y
  BY ReadType DEF FlashShape

\* All other items end before the one a call creates.
LEMMA NewIsLast ==
    ASSUME IInv, pc \in {"program", "mark"}
    PROVE  \A x \in flash : x.at # item.at => x.at < item.at /\ After(x) <= item.at
<1> SUFFICES ASSUME NEW x \in flash, x.at # item.at
             PROVE  x.at < item.at /\ After(x) <= item.at
  OBVIOUS
<1>1. PICK n \in flash : n.at = item.at /\ After(n) = end
  BY DEF IInv, CallShape, IsNew, After
<1>2. x.at \in Nat /\ n.at \in Nat /\ After(x) \in Nat /\ x.at + 3 <= After(x) /\ After(x) <= end
  BY FlashType DEF IInv, FlashShape, ItemsInside
<1>3. ~(n.at < x.at)
  <2>1. end \in Nat
    BY SizeType DEF IInv, TypeOK
  <2>2. n.at < x.at => After(n) <= x.at
    BY DEF IInv, FlashShape, ItemsInside
  <2>. QED  BY <1>1, <1>2, <2>1, <2>2
<1>4. x.at < n.at
  BY <1>1, <1>2, <1>3 DEF IInv
<1>. QED  BY <1>1, <1>4 DEF IInv, FlashShape, ItemsInside

-----------------------------------------------------------------------------
(* Replacing an item by one that differs in what is programmed of it.      *)

\* The items keep their places.
LEMMA ReplaceShape ==
    ASSUME TypeOK, FlashShape, NEW x \in flash, NEW z \in FlashItem,
           z.at = x.at, z.key = x.key, z.done <= Size[x.key] + 1,
           flash' = (flash \ {x}) \cup {z}, end' = end
    PROVE  flash' \subseteq FlashItem /\ FlashShape'
<1>1. flash' \subseteq FlashItem
  BY DEF TypeOK
<1>2. After(z) = After(x)
  BY DEF After
<1>3. \A y \in flash' : \E o \in flash : o.at = y.at /\ o.key = y.key /\ After(o) = After(y)
                                         /\ (y = z => o = x) /\ (y # z => o = y)
  BY <1>2
<1>4. ItemsInside'
  <2>1. \A y \in flash' : y.at >= MinAddress /\ After(y) <= end'
    BY <1>3 DEF FlashShape, ItemsInside
  <2>2. \A y, w \in flash' : y.at < w.at => After(y) <= w.at
    <3> SUFFICES ASSUME NEW y \in flash', NEW w \in flash', y.at < w.at
                 PROVE  After(y) <= w.at
      OBVIOUS
    <3>1. PICK o \in flash : o.at = y.at /\ After(o) = After(y)
      BY <1>3
    <3>2. PICK p \in flash : p.at = w.at
      BY <1>3
    <3>. QED  BY <3>1, <3>2 DEF FlashShape, ItemsInside
  <2>. QED  BY <2>1, <2>2 DEF FlashShape, ItemsInside
<1>5. \A y, w \in flash' : y.at = w.at => y = w
  BY DEF FlashShape
<1>6. \A y \in flash' : y.done <= Size[y.key] + 1
  BY DEF FlashShape
<1>7. \E y \in flash' : After(y) = end'
  BY <1>2 DEF FlashShape
<1>. QED  BY <1>1, <1>4, <1>5, <1>6, <1>7 DEF FlashShape

-----------------------------------------------------------------------------
(* The invariant, step by step.                                            *)

\* Before the first initialization nothing is there.
LEMMA InitIInv == Init => IInv
<1>. SUFFICES ASSUME Init
              PROVE  IInv
  OBVIOUS
<1>1. (CHOOSE k \in Keys : TRUE) \in Keys
  BY SizeAssumption
<1>2. TypeOK
  <2>1. 0 \in Addresses /\ MinAddress \in Addresses /\ 0 \in 0..MaxInterruptions
    BY SizeType, SizeAssumption DEF Addresses
  <2>2. item \in [at : Addresses, key : Keys, value : Values \cup {Torn}]
    BY <1>1, <2>1 DEF Init
  <2>3. counters \in Seq(Nat)
    BY DEF Init
  <2>. QED  BY <2>1, <2>2, <2>3 DEF Init, TypeOK
<1>3. SectorShape /\ CallShape /\ KeptShape /\ AddressShape /\ CounterNeverRepeats
  BY DEF Init, SectorShape, CallShape, KeptShape, AddressShape, CounterNeverRepeats,
         OverwriteCauses
<1>4. FlashShape
  BY SizeAssumption DEF Init, FlashShape, ItemsInside, MinAddress
<1>. QED  BY <1>2, <1>3, <1>4 DEF IInv

\* A step that leaves the flash alone keeps its shape.
LEMMA SameFlash ==
    ASSUME TypeOK, FlashShape, flash' = flash, end' = end
    PROVE  flash' \subseteq FlashItem /\ end' \in Addresses /\ FlashShape'
  BY DEF TypeOK, FlashShape, ItemsInside

\* What stays readable under the same name stays stored.
LEMMA KeptStays ==
    ASSUME IInv, sector = "valid", kept' \subseteq kept,
           \A y \in Visible : Read(y) \in kept' => y \in Visible'
    PROVE  KeptShape'
<1> SUFFICES ASSUME NEW i \in kept'
             PROVE  i \in {Read(y) : y \in Visible'}
  BY DEF KeptShape
<1>1. PICK y \in Visible : i = Read(y)
  BY DEF IInv, KeptShape
<1>. QED  BY <1>1

\* create_or_update_item as far as the header.
LEMMA CreateIInv ==
    ASSUME IInv, NEW k \in Keys, NEW v \in Values, NEW o \in Addresses,
           CreateOrUpdate(k, v, o)
    PROVE  IInv'
<1> USE DEF IInv
<1>1. pc = "idle" /\ ~overwritten /\ sector = "valid"
  BY DEF CreateOrUpdate, Ready, SectorShape
<1>2. CASE write_address # end
  <2>1. /\ overwritten' = TRUE
        /\ UNCHANGED <<sector, flash, end, counters, write_address, pc, item, old, history>>
    BY <1>2 DEF CreateOrUpdate
  <2>2. causes # {}
    BY <1>1, <1>2 DEF AddressShape
  <2>3. TypeOK' /\ FlashShape'
    BY <2>1, SameFlash DEF TypeOK, history
  <2>4. SectorShape' /\ CallShape' /\ CounterNeverRepeats'
    BY <1>1, <2>1 DEF SectorShape, CallShape, CounterNeverRepeats, Counter, history
  <2>5. KeptShape' /\ AddressShape'
    BY <1>1, <1>2, <2>1, <2>2
       DEF KeptShape, Visible, Live, AddressShape, OverwriteCauses, history
  <2>. QED  BY <2>3, <2>4, <2>5
<1>3. CASE write_address = end
  <2>0. PICK x : x = [at |-> write_address, key |-> k, value |-> v, done |-> 0, deleted |-> FALSE]
    OBVIOUS
  <2>1. /\ flash' = flash \cup {x} /\ end' = write_address + Total(k)
        /\ item' = NewItem(k, v) /\ old' = o /\ pc' = "program"
        /\ UNCHANGED <<sector, counters, write_address, overwritten, history>>
    BY <1>3, <2>0 DEF CreateOrUpdate, WithHeader
  <2>2. /\ end \in Nat /\ MaxAddress \in Nat /\ end' \in Nat /\ end' <= MaxAddress
        /\ Total(k) \in Nat /\ Total(k) >= 3 /\ end \in Addresses
    BY <1>3, <2>1, SizeType, SizeAssumption DEF TypeOK, CreateOrUpdate, HasRoom
  <2>3. \A y \in flash : y.at \in Nat /\ After(y) \in Nat /\ y.at + 3 <= After(y) /\ After(y) <= end
    BY FlashType DEF FlashShape, ItemsInside
  <2>4. \A y \in flash : y.at < x.at /\ After(y) <= x.at
    BY <1>3, <2>0, <2>2, <2>3
  <2>5. /\ x.at = end /\ x.key = k /\ x.value = v /\ x.done = 0 /\ ~x.deleted
        /\ After(x) = end' /\ x \in FlashItem
    BY <1>3, <2>0, <2>1, <2>2 DEF After, FlashItem
  <2>6. TypeOK'
    <3>1. end' \in Addresses /\ flash' \subseteq FlashItem
      BY <2>1, <2>2, <2>5 DEF TypeOK, Addresses
    <3>2. item' \in [at : Addresses, key : Keys, value : Values \cup {Torn}]
      BY <1>3, <2>1, <2>2 DEF NewItem
    <3>. QED  BY <2>1, <3>1, <3>2 DEF TypeOK, history
  <2>7. FlashShape'
    <3>1. \A y \in flash' : y.at >= MinAddress /\ After(y) <= end'
      <4>1. end <= end' /\ MinAddress <= end
        BY <1>3, <2>1, <2>2 DEF FlashShape, ItemsInside
      <4>2. \A y \in flash : After(y) <= end'
        BY <2>2, <2>3, <4>1
      <4>. QED  BY <2>1, <2>2, <2>5, <4>1, <4>2 DEF FlashShape, ItemsInside
    <3>2. MinAddress <= end' /\ end' <= MaxAddress
      BY <1>3, <2>1, <2>2, SizeType DEF FlashShape, ItemsInside
    <3>3. \A y, w \in flash' : y.at < w.at => After(y) <= w.at
      <4> SUFFICES ASSUME NEW y \in flash', NEW w \in flash', y.at < w.at
                   PROVE  After(y) <= w.at
        OBVIOUS
      <4>1. CASE y \in flash /\ w \in flash
        BY <4>1 DEF FlashShape, ItemsInside
      <4>2. CASE w = x
        BY <2>1, <2>4, <4>2, <2>2, <2>5
      <4>3. CASE y = x /\ w \in flash
        BY <2>2, <2>3, <2>4, <2>5, <4>3
      <4>. QED  BY <2>1, <4>1, <4>2, <4>3
    <3>4. \A y, w \in flash' : y.at = w.at => y = w
      BY <2>1, <2>2, <2>3, <2>4, <2>5 DEF FlashShape
    <3>5. \A y \in flash' : y.done <= Size[y.key] + 1
      BY <2>1, <2>5, SizeType DEF FlashShape
    <3>6. \E y \in flash' : After(y) = end'
      BY <2>1, <2>5
    <3>. QED  BY <3>1, <3>2, <3>3, <3>4, <3>5, <3>6 DEF FlashShape, ItemsInside
  <2>8. \A y \in Live : y \in Visible'
    BY <1>3, <2>1, <2>2, <2>3, <2>4, <2>5 DEF Live, Visible, NewItem
  <2>9. CallShape'
    <3>1. v # Torn /\ After(item') = end'
      BY <2>1, SizeAssumption DEF NewItem, After
    <3>2. IsNew(x)' /\ x \in flash' /\ x.done <= Size[x.key]
      BY <1>3, <2>1, <2>5, SizeType DEF IsNew, NewItem, Live
    <3>3. o # 0 => \E y \in Visible' : y.at = o
      BY <2>1, <2>8 DEF CreateOrUpdate, NewItem
    <3>. QED  BY <1>1, <2>1, <3>1, <3>2, <3>3 DEF CallShape, NewItem
  <2>10. KeptShape'
    BY <1>1, <2>1, <2>8, KeptStays DEF history, Visible
  <2>11. SectorShape' /\ AddressShape' /\ CounterNeverRepeats'
    BY <1>1, <2>1 DEF SectorShape, AddressShape, OverwriteCauses, CounterNeverRepeats, Counter, history
  <2>. QED  BY <2>6, <2>7, <2>9, <2>10, <2>11
<1>. QED  BY <1>2, <1>3

\* The item a call creates, with one more word of it programmed.
LEMMA ProgrammedFacts ==
    ASSUME IInv, pc = "program", NEW x \in flash, x.at = item.at, x.done <= Size[x.key],
           flash' = Programmed(x), end' = end
    PROVE  /\ flash' \subseteq FlashItem /\ FlashShape'
           /\ IsNew(x)
           /\ \E z \in flash' : /\ z = [x EXCEPT !.done = @ + 1]
                               /\ z.at = x.at /\ z.key = x.key /\ z.value = x.value
                               /\ z.done = x.done + 1 /\ z.deleted = x.deleted
           /\ \A y \in flash : y.at # item.at => y \in flash'
           /\ \A y \in flash' : y.at # item.at => y \in flash
<1> USE DEF IInv
<1>1. IsNew(x)
  BY DEF CallShape, IsNew, FlashShape
<1>2. PICK z : z = [x EXCEPT !.done = @ + 1]
  OBVIOUS
<1>3. /\ z.at = x.at /\ z.key = x.key /\ z.value = x.value
      /\ z.done = x.done + 1 /\ z.deleted = x.deleted /\ z \in FlashItem
  BY <1>2, FlashType DEF FlashItem
<1>4. flash' = (flash \ {x}) \cup {z}
  BY <1>2 DEF Programmed
<1>5. x.done \in Nat /\ Size[x.key] \in Nat
  BY FlashType
<1>6. flash' \subseteq FlashItem /\ FlashShape'
  BY <1>3, <1>4, <1>5, ReplaceShape
<1>7. \A y \in flash : y.at # item.at => y \in flash'
  BY <1>4
<1>8. \A y \in flash' : y.at # item.at => y \in flash
  BY <1>3, <1>4
<1>. QED  BY <1>1, <1>2, <1>3, <1>4, <1>6, <1>7, <1>8

\* A word of the data.
LEMMA ProgramDataIInv == IInv /\ ProgramData => IInv'
<1> SUFFICES ASSUME IInv, ProgramData
             PROVE  IInv'
  OBVIOUS
<1> USE DEF IInv
<1>1. PICK x \in flash : x.at = item.at /\ x.done < Size[x.key] /\ flash' = Programmed(x)
  BY DEF ProgramData
<1>2. /\ pc = "program" /\ sector = "valid"
      /\ UNCHANGED <<sector, end, counters, write_address, pc, item, old, overwritten, history>>
  BY DEF ProgramData, SectorShape
<1>3. x.done \in Nat /\ Size[x.key] \in Nat /\ x.done <= Size[x.key]
  BY <1>1, FlashType
<1>4. PICK z \in flash' : /\ z.at = x.at /\ z.key = x.key /\ z.value = x.value
                         /\ z.done = x.done + 1 /\ z.deleted = x.deleted
  BY <1>1, <1>2, <1>3, ProgrammedFacts
<1>5. /\ flash' \subseteq FlashItem /\ FlashShape' /\ IsNew(x)
      /\ \A y \in flash : y.at # item.at => y \in flash'
  BY <1>1, <1>2, <1>3, ProgrammedFacts
<1>6. TypeOK'
  BY <1>2, <1>5 DEF TypeOK, history
<1>7. \A y \in Visible : y \in Visible'
  BY <1>2, <1>5 DEF Visible, Live
<1>8. KeptShape'
  BY <1>2, <1>7, KeptStays DEF history
<1>9. CallShape'
  <2>1. IsNew(z)' /\ z.done <= Size[z.key]
    BY <1>1, <1>2, <1>3, <1>4, <1>5 DEF IsNew, Live
  <2>2. old' # 0 => \E y \in Visible' : y.at = old'
    BY <1>2, <1>7 DEF CallShape
  <2>. QED  BY <1>2, <1>4, <2>1, <2>2 DEF CallShape, After
<1>10. SectorShape' /\ AddressShape' /\ CounterNeverRepeats'
  BY <1>2 DEF SectorShape, AddressShape, OverwriteCauses, CounterNeverRepeats, Counter, history
<1>. QED  BY <1>5, <1>6, <1>8, <1>9, <1>10

\* The checksum: the item is stored, unless an old one is still to be deleted.
LEMMA ProgramChecksumIInv == IInv /\ ProgramChecksum => IInv'
<1> SUFFICES ASSUME IInv, ProgramChecksum
             PROVE  IInv'
  OBVIOUS
<1> USE DEF IInv
<1>1. PICK x \in flash : x.at = item.at /\ x.done = Size[x.key] /\ flash' = Programmed(x)
  BY DEF ProgramChecksum
<1>2. /\ pc = "program" /\ sector = "valid" /\ write_address' = After(item)
      /\ UNCHANGED <<sector, end, counters, item, old, overwritten,
                     interruptions, causes, returned>>
      /\ \/ old = 0 /\ pc' = "idle" /\ kept' = kept \cup {item}
         \/ old # 0 /\ pc' = "mark" /\ kept' = kept
  BY DEF ProgramChecksum, SectorShape
<1>3. x.done \in Nat /\ Size[x.key] \in Nat /\ x.done <= Size[x.key]
  BY <1>1, FlashType
<1>4. PICK z \in flash' : /\ z.at = x.at /\ z.key = x.key /\ z.value = x.value
                         /\ z.done = x.done + 1 /\ z.deleted = x.deleted
  BY <1>1, <1>2, <1>3, ProgrammedFacts
<1>5. /\ flash' \subseteq FlashItem /\ FlashShape' /\ IsNew(x)
      /\ \A y \in flash : y.at # item.at => y \in flash'
  BY <1>1, <1>2, <1>3, ProgrammedFacts
<1>6. write_address' = end /\ end \in Addresses
  BY <1>2 DEF CallShape, TypeOK
<1>7. TypeOK'
  BY <1>2, <1>5, <1>6 DEF TypeOK
<1>8. \A y \in Visible : y \in Visible' /\ y.at # item.at
  BY <1>2, <1>5 DEF Visible, Live
<1>9. IsNew(z)' /\ ~(z.done <= Size[z.key]) /\ z \in Live'
  BY <1>1, <1>2, <1>3, <1>4, <1>5 DEF IsNew, Live
<1>10. CallShape'
  <2>1. old' # 0 => \E y \in Visible' : y.at = old'
    BY <1>2, <1>8 DEF CallShape
  <2>. QED  BY <1>2, <1>4, <1>6, <1>9, <2>1 DEF CallShape, After
<1>11. Read(z) = item
  <2>1. Read(z) = [at |-> item.at, key |-> item.key, value |-> item.value]
    BY <1>1, <1>3, <1>4, <1>5 DEF Read, IsNew
  <2>. QED  BY <2>1 DEF TypeOK
<1>12. KeptShape'
  <2>1. CASE pc' = "mark"
    BY <1>2, <1>8, <2>1, KeptStays
  <2>2. CASE pc' = "idle"
    <3>1. z \in Visible'
      BY <1>9, <2>2 DEF Visible
    <3>2. \A i \in kept : i \in {Read(y) : y \in Visible'}
      BY <1>2, <1>8 DEF KeptShape
    <3>. QED  BY <1>2, <1>11, <2>2, <3>1, <3>2 DEF KeptShape
  <2>. QED  BY <1>2, <2>1, <2>2
<1>13. SectorShape' /\ AddressShape' /\ CounterNeverRepeats'
  BY <1>2, <1>6 DEF SectorShape, AddressShape, OverwriteCauses, CounterNeverRepeats, Counter
<1>. QED  BY <1>5, <1>7, <1>10, <1>12, <1>13

\* Programming a delete marker.
LEMMA MarkedFacts ==
    ASSUME IInv, NEW x \in flash, flash' = Marked(x), end' = end
    PROVE  /\ flash' \subseteq FlashItem /\ FlashShape'
           /\ \A y \in flash : y # x => y \in flash'
           /\ \A y \in Live' : y \in flash /\ y # x
<1> USE DEF IInv
<1>1. PICK z : z = [x EXCEPT !.deleted = TRUE]
  OBVIOUS
<1>2. /\ z.at = x.at /\ z.key = x.key /\ z.done = x.done /\ z.deleted = TRUE
      /\ z \in FlashItem
  BY <1>1, FlashType DEF FlashItem
<1>3. flash' = (flash \ {x}) \cup {z}
  BY <1>1 DEF Marked
<1>4. flash' \subseteq FlashItem /\ FlashShape'
  BY <1>2, <1>3, ReplaceShape DEF FlashShape
<1>5. \A y \in Live' : y \in flash /\ y # x
  BY <1>2, <1>3 DEF Live
<1>. QED  BY <1>3, <1>4, <1>5

\* The old item of an update is deleted: the new one is stored.
LEMMA MarkOldIInv == IInv /\ MarkOld => IInv'
<1> SUFFICES ASSUME IInv, MarkOld
             PROVE  IInv'
  OBVIOUS
<1> USE DEF IInv
<1>1. PICK x \in flash : x.at = old /\ flash' = Marked(x) /\ kept' = (kept \ {Read(x)}) \cup {item}
  BY DEF MarkOld
<1>2. /\ pc = "mark" /\ sector = "valid" /\ pc' = "idle"
      /\ UNCHANGED <<sector, end, counters, write_address, item, old, overwritten,
                     interruptions, causes, returned>>
  BY DEF MarkOld, SectorShape
<1>3. /\ flash' \subseteq FlashItem /\ FlashShape'
      /\ \A y \in flash : y # x => y \in flash'
  BY <1>1, <1>2, MarkedFacts
<1>4. TypeOK'
  BY <1>2, <1>3 DEF TypeOK
<1>5. PICK n \in flash : IsNew(n) /\ ~(n.done <= Size[n.key])
  BY <1>2 DEF CallShape
<1>6. n \in Visible' /\ Read(n) = item
  <2>1. n # x
    BY <1>1, <1>2, <1>5 DEF CallShape, IsNew, Visible
  <2>2. n.done >= Size[n.key]
    BY <1>5, FlashType
  <2>3. Read(n) = [at |-> item.at, key |-> item.key, value |-> item.value]
    BY <1>5, <2>2 DEF Read, IsNew
  <2>. QED  BY <1>2, <1>3, <1>5, <2>1, <2>3 DEF TypeOK, IsNew, Visible, Live
<1>7. KeptShape'
  <2> SUFFICES ASSUME NEW i \in kept'
               PROVE  i \in {Read(y) : y \in Visible'}
    BY DEF KeptShape
  <2>1. CASE i = item
    BY <1>6, <2>1
  <2>2. CASE i \in kept /\ i # Read(x)
    <3>1. PICK y \in Visible : i = Read(y)
      BY <1>2, <2>2 DEF KeptShape
    <3>2. y \in Visible'
      BY <1>2, <1>3, <2>2, <3>1 DEF Visible, Live
    <3>. QED  BY <3>1, <3>2
  <2>. QED  BY <1>1, <2>1, <2>2
<1>8. SectorShape' /\ CallShape' /\ AddressShape' /\ CounterNeverRepeats'
  BY <1>2 DEF SectorShape, CallShape, AddressShape, OverwriteCauses, CounterNeverRepeats, Counter
<1>. QED  BY <1>3, <1>4, <1>7, <1>8

\* delete_item.
LEMMA DeleteIInv == IInv /\ Delete => IInv'
<1> SUFFICES ASSUME IInv, Delete
             PROVE  IInv'
  OBVIOUS
<1> USE DEF IInv
<1>1. PICK x \in Live : flash' = Marked(x) /\ kept' = kept \ {Read(x)}
  BY DEF Delete
<1>2. /\ pc = "idle" /\ sector = "valid"
      /\ UNCHANGED <<sector, end, counters, write_address, pc, item, old, overwritten,
                     interruptions, causes, returned>>
  BY DEF Delete, Ready, SectorShape
<1>3. /\ flash' \subseteq FlashItem /\ FlashShape'
      /\ \A y \in flash : y # x => y \in flash'
  BY <1>1, <1>2, MarkedFacts DEF Live
<1>4. TypeOK'
  BY <1>2, <1>3 DEF TypeOK
<1>5. \A y \in Visible : Read(y) \in kept' => y \in Visible'
  BY <1>1, <1>2, <1>3 DEF Visible, Live
<1>6. KeptShape'
  BY <1>1, <1>2, <1>5, KeptStays
<1>7. SectorShape' /\ CallShape' /\ AddressShape' /\ CounterNeverRepeats'
  BY <1>2 DEF SectorShape, CallShape, AddressShape, OverwriteCauses, CounterNeverRepeats, Counter
<1>. QED  BY <1>3, <1>4, <1>6, <1>7

\* A call that fails half way leaves what it has programmed.
LEMMA CallFailsIInv == IInv /\ CallFails => IInv'
<1> SUFFICES ASSUME IInv, CallFails
             PROVE  IInv'
  OBVIOUS
<1> USE DEF IInv
<1>1. /\ pc \in {"program", "mark"} /\ sector = "valid" /\ pc' = "idle"
      /\ interruptions < MaxInterruptions /\ interruptions' = interruptions + 1
      /\ causes' = IF pc = "program" THEN causes \cup {"failed_create"} ELSE causes
      /\ UNCHANGED <<sector, flash, end, counters, write_address, item, old, overwritten,
                     kept, returned>>
  BY DEF CallFails, SectorShape
<1>2. interruptions' \in 0..MaxInterruptions
  BY <1>1, SizeAssumption DEF TypeOK
<1>3. TypeOK' /\ FlashShape'
  BY <1>1, <1>2, SameFlash DEF TypeOK
<1>4. KeptShape'
  BY <1>1, KeptStays DEF Visible, Live
<1>5. AddressShape'
  BY <1>1 DEF CallShape, AddressShape, OverwriteCauses
<1>6. SectorShape' /\ CallShape' /\ CounterNeverRepeats'
  BY <1>1 DEF SectorShape, CallShape, CounterNeverRepeats, Counter
<1>. QED  BY <1>3, <1>4, <1>5, <1>6

-----------------------------------------------------------------------------
(* The counter, erasing and powering up leave the items or remove them all. *)

\* The counter is a number.
LEMMA CounterType == TypeOK => Counter \in Nat
<1> SUFFICES ASSUME TypeOK
             PROVE  Counter \in Nat
  OBVIOUS
<1>1. counters \in Seq(Nat)
  BY DEF TypeOK
<1>2. counters # <<>> => Len(counters) \in 1..Len(counters)
  BY <1>1, EmptySeq, LenProperties
<1>. QED  BY <1>1, <1>2, ElementOfSeq DEF Counter

\* The counter's next word.
LEMMA IncrementIInv ==
    ASSUME IInv, NEW n \in Increments, IncrementCounter(n)
    PROVE  IInv'
<1> USE DEF IInv
<1>1. /\ pc = "idle" /\ sector = "valid" /\ pc' = "count"
      /\ counters' = Append(counters, Counter + n)
      /\ UNCHANGED <<sector, flash, end, write_address, item, old, overwritten, history>>
  BY DEF IncrementCounter, Ready, SectorShape
<1>2. Counter \in Nat /\ n \in Nat /\ counters \in Seq(Nat)
  BY CounterType, SizeAssumption DEF TypeOK
<1>3. Counter' = Counter + n /\ counters' \in Seq(Nat)
  <2>1. /\ counters' # <<>> /\ counters' \in Seq(Nat)
        /\ counters'[Len(counters')] = Counter + n
    BY <1>1, <1>2, AppendProperties
  <2>. QED  BY <2>1 DEF Counter
<1>4. TypeOK' /\ FlashShape'
  BY <1>1, <1>3, SameFlash DEF TypeOK, history
<1>5. KeptShape'
  BY <1>1, KeptStays DEF Visible, Live, history
<1>6. CounterNeverRepeats'
  BY <1>1, <1>2, <1>3 DEF CounterNeverRepeats, TypeOK, history
<1>7. SectorShape' /\ CallShape' /\ AddressShape'
  BY <1>1 DEF SectorShape, CallShape, AddressShape, OverwriteCauses, history
<1>. QED  BY <1>4, <1>5, <1>6, <1>7

\* The value is returned.
LEMMA ReturnCounterIInv == IInv /\ ReturnCounter => IInv'
<1> SUFFICES ASSUME IInv, ReturnCounter
             PROVE  IInv'
  OBVIOUS
<1> USE DEF IInv
<1>1. /\ pc = "count" /\ sector = "valid" /\ pc' = "idle" /\ returned' = Counter
      /\ UNCHANGED <<sector, flash, end, counters, write_address, item, old, overwritten,
                     kept, interruptions, causes>>
  BY DEF ReturnCounter, SectorShape
<1>2. Counter \in Nat /\ Counter' = Counter
  BY <1>1, CounterType DEF Counter
<1>3. TypeOK' /\ FlashShape'
  BY <1>1, <1>2, SameFlash DEF TypeOK
<1>4. KeptShape'
  BY <1>1, KeptStays DEF Visible, Live
<1>5. SectorShape' /\ CallShape' /\ AddressShape' /\ CounterNeverRepeats'
  BY <1>1, <1>2 DEF SectorShape, CallShape, AddressShape, OverwriteCauses, CounterNeverRepeats
<1>. QED  BY <1>3, <1>4, <1>5

\* The four steps of erasing.
LEMMA ErasingIInv ==
    IInv /\ (Erase \/ EraseCounter \/ EraseSector \/ WriteHeader) => IInv'
<1> SUFFICES ASSUME IInv, Erase \/ EraseCounter \/ EraseSector \/ WriteHeader
             PROVE  IInv'
  OBVIOUS
<1> USE DEF IInv
<1>1. 0 \in 0..MaxInterruptions /\ MinAddress \in Addresses /\ 0 \in Nat
  BY SizeType, SizeAssumption
<1>2. CASE Erase
  <2>1. TypeOK' /\ FlashShape'
    BY <1>1, <1>2, SameFlash DEF Erase, TypeOK
  <2>. QED
    BY <1>2, <2>1 DEF Erase, SectorShape, CallShape, KeptShape, AddressShape, OverwriteCauses,
                      CounterNeverRepeats
<1>3. CASE EraseCounter
  <2>1. TypeOK' /\ FlashShape'
    BY <1>3, SameFlash DEF EraseCounter, TypeOK, history
  <2>. QED
    BY <1>3, <2>1 DEF EraseCounter, SectorShape, CallShape, KeptShape, AddressShape,
                      OverwriteCauses, CounterNeverRepeats, history
<1>4. CASE EraseSector
  <2>1. TypeOK'
    BY <1>1, <1>4 DEF EraseSector, TypeOK, history
  <2>2. FlashShape'
    BY <1>4, SizeAssumption DEF EraseSector, FlashShape, ItemsInside, MinAddress
  <2>. QED
    BY <1>4, <2>1, <2>2 DEF EraseSector, SectorShape, CallShape, KeptShape, AddressShape,
                      OverwriteCauses, CounterNeverRepeats, history
<1>5. CASE WriteHeader
  <2>1. TypeOK' /\ FlashShape'
    BY <1>1, <1>5, SameFlash DEF WriteHeader, TypeOK
  <2>2. CounterNeverRepeats'
    BY <1>5 DEF WriteHeader, SectorShape, CounterNeverRepeats, Counter
  <2>. QED
    BY <1>5, <2>1, <2>2 DEF WriteHeader, SectorShape, CallShape, KeptShape, AddressShape,
                      OverwriteCauses
<1>. QED  BY <1>2, <1>3, <1>4, <1>5

\* find_write_address finds the end of the items, unless the last one is deleted.
LEMMA FoundIsEnd ==
    ASSUME TypeOK, FlashShape, NEW a, FoundWriteAddress(a), ~EndsDeleted
    PROVE  a = end
<1>1. CASE flash = {}
  BY <1>1 DEF FoundWriteAddress, Live, FlashShape
<1>2. CASE flash # {}
  <2>1. PICK n \in flash : After(n) = end /\ n \in Live
    BY <1>2, FlashType DEF FlashShape, EndsDeleted, Live
  <2>2. PICK x \in Live : a = After(x) /\ n.at <= x.at
    BY <2>1 DEF FoundWriteAddress
  <2>3. /\ x.at \in Nat /\ n.at \in Nat /\ After(x) \in Nat /\ x.at + 3 <= After(x)
        /\ After(x) <= end /\ end \in Nat
    BY <2>2, FlashType, SizeType DEF Live, FlashShape, ItemsInside, TypeOK
  <2>4. n.at < x.at => After(n) <= x.at
    BY <2>2 DEF Live, FlashShape, ItemsInside
  <2>5. n.at = x.at => n = x
    BY <2>2 DEF Live, FlashShape
  <2>. QED  BY <2>1, <2>2, <2>3, <2>4, <2>5
<1>. QED  BY <1>1, <1>2

\* A power cycle at any point.
LEMMA PowerCycleIInv == IInv /\ PowerCycle => IInv'
<1> SUFFICES ASSUME IInv, PowerCycle
             PROVE  IInv'
  OBVIOUS
<1> USE DEF IInv
<1>1. UNCHANGED <<sector, flash, end, counters, item, old, overwritten, kept, returned>>
      /\ ~overwritten
  BY DEF PowerCycle
<1>2. interruptions' \in 0..MaxInterruptions
  BY SizeAssumption DEF PowerCycle, TypeOK
<1>3. CASE sector = "valid"
  <2>1. PICK a \in Addresses : FoundWriteAddress(a) /\ write_address' = a
    BY <1>3 DEF PowerCycle
  <2>2. pc' = "idle" /\ causes' = IF EndsDeleted THEN {"deleted_tail"} ELSE {}
    BY <1>3 DEF PowerCycle
  <2>6. ~EndsDeleted => a = end
    BY <2>1, FoundIsEnd
  <2>3. TypeOK' /\ FlashShape'
    BY <1>1, <1>2, <2>1, <2>2, SameFlash DEF TypeOK
  <2>4. KeptShape'
    BY <1>1, <1>3, <2>2, KeptStays DEF Visible, Live
  <2>5. SectorShape' /\ CallShape' /\ AddressShape' /\ CounterNeverRepeats'
    BY <1>1, <1>3, <2>1, <2>2, <2>6 DEF SectorShape, CallShape, AddressShape, OverwriteCauses,
                                        CounterNeverRepeats, Counter
  <2>. QED  BY <2>3, <2>4, <2>5
<1>4. CASE sector # "valid"
  <2>1. pc' = "erase_counter" /\ write_address' = write_address /\ causes' = causes
    BY <1>4 DEF PowerCycle
  <2>2. TypeOK' /\ FlashShape'
    BY <1>1, <1>2, <2>1, SameFlash DEF TypeOK
  <2>. QED
    BY <1>1, <1>4, <2>1, <2>2 DEF SectorShape, CallShape, KeptShape, AddressShape,
                                  OverwriteCauses, CounterNeverRepeats
<1>. QED  BY <1>3, <1>4

\* Every step keeps IInv.
LEMMA NextIInv == IInv /\ [Next]_vars => IInv'
<1> SUFFICES ASSUME IInv, [Next]_vars
             PROVE  IInv'
  OBVIOUS
<1>1. CASE \E k \in Keys, v \in Values, o \in Addresses : CreateOrUpdate(k, v, o)
  BY <1>1, CreateIInv
<1>2. CASE ProgramData
  BY <1>2, ProgramDataIInv
<1>3. CASE ProgramChecksum
  BY <1>3, ProgramChecksumIInv
<1>4. CASE MarkOld
  BY <1>4, MarkOldIInv
<1>5. CASE CallFails
  BY <1>5, CallFailsIInv
<1>6. CASE Delete
  BY <1>6, DeleteIInv
<1>7. CASE \E n \in Increments : IncrementCounter(n)
  BY <1>7, IncrementIInv
<1>8. CASE ReturnCounter
  BY <1>8, ReturnCounterIInv
<1>9. CASE Erase \/ EraseCounter \/ EraseSector \/ WriteHeader
  BY <1>9, ErasingIInv
<1>10. CASE PowerCycle
  BY <1>10, PowerCycleIInv
<1>11. CASE UNCHANGED vars
  <2>1. TypeOK' /\ FlashShape'
    BY <1>11, SameFlash DEF vars, history, TypeOK, IInv
  <2>2. SectorShape' /\ CallShape' /\ AddressShape' /\ CounterNeverRepeats'
    BY <1>11 DEF vars, history, IInv, SectorShape, CallShape, AddressShape, OverwriteCauses,
                 CounterNeverRepeats, Counter, IsNew, Visible, Live
  <2>3. KeptShape'
    BY <1>11 DEF vars, history, IInv, KeptShape, Visible, Live
  <2>. QED  BY <2>1, <2>2, <2>3 DEF IInv
<1>. QED  BY <1>1, <1>2, <1>3, <1>4, <1>5, <1>6, <1>7, <1>8, <1>9, <1>10, <1>11 DEF Next

\* IInv holds in every reachable state.
THEOREM Invariance == Spec => []IInv
<1>. QED  BY InitIInv, NextIInv, PTL DEF Spec

\* All variables keep their types; in particular no address leaves the sector.
THEOREM TypeCorrect == Spec => []TypeOK
<1>1. IInv => TypeOK
  BY DEF IInv
<1>. QED  BY <1>1, Invariance, PTL

\* An item whose call has returned stays readable and whole until a later call for it
\* returns, wherever the power is lost: update creates first and deletes then.
THEOREM StoredItemsStay == Spec => []NothingLost
<1>1. IInv => NothingLost
  BY DEF IInv, SectorShape, KeptShape, NothingLost, Visible
<1>. QED  BY <1>1, Invariance, PTL

\* Items never reach beyond the sector nor into one another: the room is checked with
\* the total size, and a new item starts after the last one.
THEOREM ItemsStayInside == Spec => []ItemsInside
<1>1. IInv => ItemsInside
  BY DEF IInv, FlashShape
<1>. QED  BY <1>1, Invariance, PTL

\* A word that is not virgin is programmed only after a failed call or a power up with a
\* deleted item at the end.
THEOREM OverwritesHaveCauses == Spec => []OverwriteCauses
<1>1. IInv => OverwriteCauses
  BY DEF IInv, AddressShape
<1>. QED  BY <1>1, Invariance, PTL

\* While the items are there the counter never falls back: erase and init erase sector 0 last.
THEOREM CounterMonotonic == Spec => []CounterNeverRepeats
<1>1. IInv => CounterNeverRepeats
  BY DEF IInv
<1>. QED  BY <1>1, Invariance, PTL

-----------------------------------------------------------------------------
(* FlashStorage implements ItemStore: which step of a call is the one that *)
(* its callers see.                                                        *)

\* A step that leaves the visible items alone is a stutter.
LEMMA SameItems ==
    ASSUME sector' = sector, kept' = kept, sector = "valid" => Visible' = Visible
    PROVE  UNCHANGED <<Items, kept>>
  BY DEF Items

\* While a call goes on, the item it creates is live, not visible, and the last one.
LEMMA NewVisible ==
    ASSUME IInv, pc \in {"program", "mark"}
    PROVE  \E n \in flash :
              /\ IsNew(n) /\ (pc = "program" <=> n.done <= Size[n.key])
              /\ Live = Visible \cup {n} /\ n \notin Visible
              /\ \A y \in Visible : Read(y).at < n.at
<1>1. PICK n \in flash : IsNew(n) /\ (pc = "program" <=> n.done <= Size[n.key])
  BY DEF IInv, CallShape
<1>2. Live = Visible \cup {n} /\ n \notin Visible
  BY <1>1 DEF Visible, Live, IsNew, IInv, FlashShape
<1>3. \A y \in Visible : Read(y).at < n.at
  BY <1>1, NewIsLast, ReadType DEF Visible, Live, IsNew, IInv
<1>. QED  BY <1>1, <1>2, <1>3

\* Once the call is over, however it ends, the new item is visible.
LEMMA CallEnds ==
    ASSUME IInv, pc \in {"program", "mark"}, sector' = "valid", pc' = "idle",
           flash' = flash, kept' = kept
    PROVE  \E i \in Store!Item : Store!Interrupted(i)
<1>1. PICK n \in flash : /\ Live = Visible \cup {n}
                         /\ \A y \in Visible : Read(y).at < n.at
  BY NewVisible
<1>2. Visible' = Visible \cup {n} /\ sector = "valid"
  BY <1>1 DEF Visible, Live, IInv, SectorShape
<1>3. Items' = Items \cup {Read(n)}
  BY <1>2 DEF Items
<1>4. Read(n) \in Store!Item /\ Read(n).at = n.at
  BY ReadType DEF Store!Item, IInv
<1>5. Store!Interrupted(Read(n))
  BY <1>1, <1>2, <1>3, <1>4 DEF Items, Store!Interrupted, Store!Last
<1>. QED  BY <1>4, <1>5

\* The items are visible after a step that programs a delete marker, but for the one.
LEMMA MarkedVisible ==
    ASSUME IInv, sector = "valid", NEW x \in Visible, flash' = Marked(x), end' = end,
           pc' = "idle"
    PROVE  {Read(y) : y \in Visible'} = {Read(y) : y \in Live} \ {Read(x)}
<1> USE DEF IInv
<1>1. x \in flash
  BY DEF Visible, Live
<1>2. Live' = Live \ {x}
  BY <1>1, MarkedFacts DEF Live
<1>3. Visible' = Live \ {x}
  BY <1>2 DEF Visible
<1>4. \A y \in Live : y # x => Read(y) # Read(x)
  BY <1>1, ReadUnique DEF Live
<1>. QED  BY <1>3, <1>4

\* A header: the new item is not looked for yet.
LEMMA CreateRefines ==
    ASSUME IInv, NEW k \in Keys, NEW v \in Values, NEW o \in Addresses,
           CreateOrUpdate(k, v, o)
    PROVE  UNCHANGED <<Items, kept>>
<1> USE DEF IInv
<1>1. pc = "idle" /\ sector' = sector /\ kept' = kept
  BY DEF CreateOrUpdate, Ready, history
<1>2. CASE write_address # end
  <2>1. flash' = flash /\ pc' = pc /\ item' = item
    BY <1>2 DEF CreateOrUpdate
  <2>. QED  BY <1>1, <2>1, SameItems DEF Visible, Live
<1>3. CASE write_address = end
  <2>0. PICK x : x = [at |-> write_address, key |-> k, value |-> v, done |-> 0, deleted |-> FALSE]
    OBVIOUS
  <2>1. flash' = flash \cup {x} /\ item'.at = x.at /\ pc' = "program" /\ x.at = end
    BY <1>3, <2>0 DEF CreateOrUpdate, WithHeader, NewItem
  <2>2. \A y \in flash : y.at # end
    <3>1. \A y \in flash : y.at \in Nat /\ After(y) \in Nat /\ y.at + 3 <= After(y) /\ After(y) <= end
      BY FlashType DEF FlashShape, ItemsInside
    <3>2. end \in Nat
      BY SizeType DEF TypeOK
    <3>. QED  BY <3>1, <3>2
  <2>3. Visible' = Visible
    BY <1>1, <2>1, <2>2 DEF Visible, Live
  <2>. QED  BY <1>1, <2>3, SameItems
<1>. QED  BY <1>2, <1>3

\* A word of the data is not looked at before the call is over.
LEMMA ProgramDataRefines == IInv /\ ProgramData => UNCHANGED <<Items, kept>>
<1> SUFFICES ASSUME IInv, ProgramData
             PROVE  UNCHANGED <<Items, kept>>
  OBVIOUS
<1> USE DEF IInv
<1>1. PICK x \in flash : x.at = item.at /\ x.done < Size[x.key] /\ flash' = Programmed(x)
  BY DEF ProgramData
<1>2. pc = "program" /\ UNCHANGED <<sector, end, pc, item, kept>>
  BY DEF ProgramData, history
<1>3. x.done <= Size[x.key]
  BY <1>1, FlashType
<1>4. /\ \A y \in flash : y.at # item.at => y \in flash'
      /\ \A y \in flash' : y.at # item.at => y \in flash
  BY <1>1, <1>2, <1>3, ProgrammedFacts
<1>5. Visible' = Visible
  BY <1>2, <1>4 DEF Visible, Live
<1>. QED  BY <1>2, <1>5, SameItems

\* The checksum is what creates an item; of an update it is a stutter.
LEMMA ProgramChecksumRefines ==
    IInv /\ ProgramChecksum =>
        (\E i \in Store!Item : Store!Create(i)) \/ UNCHANGED <<Items, kept>>
<1> SUFFICES ASSUME IInv, ProgramChecksum
             PROVE  (\E i \in Store!Item : Store!Create(i)) \/ UNCHANGED <<Items, kept>>
  OBVIOUS
<1> USE DEF IInv
<1>1. PICK x \in flash : x.at = item.at /\ x.done = Size[x.key] /\ flash' = Programmed(x)
  BY DEF ProgramChecksum
<1>2. /\ pc = "program" /\ sector = "valid" /\ UNCHANGED <<sector, end, item>>
      /\ \/ old = 0 /\ pc' = "idle" /\ kept' = kept \cup {item}
         \/ old # 0 /\ pc' = "mark" /\ kept' = kept
  BY DEF ProgramChecksum, SectorShape
<1>3. x.done \in Nat /\ Size[x.key] \in Nat /\ x.done <= Size[x.key]
  BY <1>1, FlashType
<1>4. PICK z \in flash' : /\ z.at = x.at /\ z.key = x.key /\ z.value = x.value
                         /\ z.done = x.done + 1 /\ z.deleted = x.deleted
  BY <1>1, <1>2, <1>3, ProgrammedFacts
<1>5. /\ FlashShape' /\ IsNew(x)
      /\ \A y \in flash : y.at # item.at => y \in flash'
      /\ \A y \in flash' : y.at # item.at => y \in flash
  BY <1>1, <1>2, <1>3, ProgrammedFacts
<1>6. CASE pc' = "mark"
  <2>1. Visible' = Visible
    BY <1>2, <1>5, <1>6 DEF Visible, Live
  <2>. QED  BY <1>2, <1>6, <2>1, SameItems
<1>7. CASE pc' = "idle"
  <2>1. Visible' = Visible \cup {z}
    BY <1>1, <1>2, <1>4, <1>5, <1>7 DEF Visible, Live, IsNew, FlashShape
  <2>2. Read(z) = item
    <3>1. Read(z) = [at |-> item.at, key |-> item.key, value |-> item.value]
      BY <1>1, <1>3, <1>4, <1>5 DEF Read, IsNew
    <3>. QED  BY <3>1 DEF TypeOK
  <2>3. Items' = Items \cup {item} /\ kept' = kept \cup {item}
    BY <1>2, <1>7, <2>1, <2>2 DEF Items
  <2>4. Store!Last(item)
    BY <1>2, NewVisible DEF Items, Store!Last, IsNew
  <2>5. item \in Store!Item /\ item.value # Torn
    BY <1>2 DEF TypeOK, CallShape, Store!Item
  <2>. QED  BY <2>3, <2>4, <2>5 DEF Store!Create
<1>. QED  BY <1>2, <1>6, <1>7

\* The delete marker of the old item is what updates it.
LEMMA MarkOldRefines ==
    IInv /\ MarkOld => \E o \in Items, i \in Store!Item : Store!Update(o, i)
<1> SUFFICES ASSUME IInv, MarkOld
             PROVE  \E o \in Items, i \in Store!Item : Store!Update(o, i)
  OBVIOUS
<1> USE DEF IInv
<1>1. PICK x \in flash : x.at = old /\ flash' = Marked(x) /\ kept' = (kept \ {Read(x)}) \cup {item}
  BY DEF MarkOld
<1>2. pc = "mark" /\ sector = "valid" /\ pc' = "idle" /\ UNCHANGED <<sector, end, item>>
  BY DEF MarkOld, SectorShape
<1>3. x \in Visible
  BY <1>1, <1>2 DEF CallShape, FlashShape, Visible, Live
<1>4. {Read(y) : y \in Visible'} = {Read(y) : y \in Live} \ {Read(x)}
  BY <1>1, <1>2, <1>3, MarkedVisible
<1>5. PICK n \in flash : /\ IsNew(n) /\ ~(n.done <= Size[n.key])
                         /\ Live = Visible \cup {n} /\ n \notin Visible
                         /\ \A y \in Visible : Read(y).at < n.at
  BY <1>2, NewVisible
<1>6. Read(n) = item
  <2>1. n.done >= Size[n.key]
    BY <1>5, FlashType
  <2>2. Read(n) = [at |-> item.at, key |-> item.key, value |-> item.value]
    BY <1>5, <2>1 DEF Read, IsNew
  <2>. QED  BY <2>2 DEF TypeOK
<1>7. item # Read(x)
  BY <1>3, <1>5, <1>6, ReadUnique DEF Visible, Live
<1>8. Items' = (Items \ {Read(x)}) \cup {item}
  BY <1>2, <1>4, <1>5, <1>6, <1>7 DEF Items
<1>9. Read(x) \in Items
  BY <1>2, <1>3 DEF Items
<1>10. Store!Last(item)
  BY <1>2, <1>5 DEF Items, Store!Last, IsNew
<1>11. item \in Store!Item /\ item.value # Torn
  BY <1>2 DEF TypeOK, CallShape, Store!Item
<1>12. Store!Update(Read(x), item)
  BY <1>1, <1>8, <1>9, <1>10, <1>11 DEF Store!Update
<1>. QED  BY <1>9, <1>11, <1>12

\* delete_item.
LEMMA DeleteRefines == IInv /\ Delete => \E o \in Items : Store!Delete(o)
<1> SUFFICES ASSUME IInv, Delete
             PROVE  \E o \in Items : Store!Delete(o)
  OBVIOUS
<1> USE DEF IInv
<1>1. PICK x \in Live : flash' = Marked(x) /\ kept' = kept \ {Read(x)}
  BY DEF Delete
<1>2. pc = "idle" /\ sector = "valid" /\ pc' = "idle" /\ UNCHANGED <<sector, end, item>>
  BY DEF Delete, Ready, SectorShape
<1>3. Visible = Live
  BY <1>2 DEF Visible
<1>4. {Read(y) : y \in Visible'} = {Read(y) : y \in Live} \ {Read(x)}
  BY <1>1, <1>2, <1>3, MarkedVisible
<1>5. Items' = Items \ {Read(x)} /\ Read(x) \in Items
  BY <1>2, <1>3, <1>4 DEF Items
<1>. QED  BY <1>1, <1>5 DEF Store!Delete

\* Erasing takes place with the delete marker of the sector; the rest are stutters.
LEMMA ErasingRefines ==
    IInv /\ (Erase \/ EraseCounter \/ EraseSector \/ WriteHeader)
        => \/ Store!Erase /\ interruptions' = 0
           \/ UNCHANGED <<Items, kept, interruptions>>
<1> SUFFICES ASSUME IInv, Erase \/ EraseCounter \/ EraseSector \/ WriteHeader
             PROVE  \/ Store!Erase /\ interruptions' = 0
                    \/ UNCHANGED <<Items, kept, interruptions>>
  OBVIOUS
<1> USE DEF IInv
<1>1. CASE Erase
  BY <1>1 DEF Erase, Items, Store!Erase
<1>2. CASE EraseCounter
  BY <1>2, SameItems DEF EraseCounter, history, Items, SectorShape
<1>3. CASE EraseSector
  BY <1>3 DEF EraseSector, history, Items, SectorShape
<1>4. CASE WriteHeader
  <2>1. flash' = {} /\ kept' = kept /\ interruptions' = interruptions /\ Items = {}
    BY <1>4 DEF WriteHeader, SectorShape, Items
  <2>2. Items' = {}
    BY <2>1 DEF Items, Visible, Live
  <2>. QED  BY <2>1, <2>2
<1>. QED  BY <1>1, <1>2, <1>3, <1>4

\* A power cycle or a failure ends the call that is going on.
LEMMA InterruptionRefines ==
    IInv /\ (PowerCycle \/ CallFails) =>
        \/ (\E i \in Store!Item : Store!Interrupted(i)) /\ interruptions' = interruptions + 1
        \/ UNCHANGED <<Items, kept, interruptions>>
<1> SUFFICES ASSUME IInv, PowerCycle \/ CallFails
             PROVE  \/ /\ \E i \in Store!Item : Store!Interrupted(i)
                       /\ interruptions' = interruptions + 1
                    \/ UNCHANGED <<Items, kept, interruptions>>
  OBVIOUS
<1>1. UNCHANGED <<sector, flash, item, kept>>
  BY DEF PowerCycle, CallFails
<1>2. CASE sector = "valid"
  <2>1. pc' = "idle"
    BY <1>2 DEF PowerCycle, CallFails
  <2>2. CASE pc \in {"program", "mark"}
    <3>1. interruptions' = interruptions + 1
      BY <2>2 DEF PowerCycle, CallFails
    <3>2. \E i \in Store!Item : Store!Interrupted(i)
      BY <1>1, <1>2, <2>1, <2>2, CallEnds
    <3>. QED  BY <3>1, <3>2
  <2>3. CASE pc \notin {"program", "mark"}
    <3>1. interruptions' = interruptions
      BY <2>3 DEF PowerCycle, CallFails
    <3>. QED  BY <1>1, <2>1, <2>3, <3>1, SameItems DEF Visible, Live
  <2>. QED  BY <2>2, <2>3
<1>3. CASE sector # "valid"
  <2>1. pc \notin {"program", "mark"}
    BY <1>3 DEF IInv, SectorShape
  <2>2. interruptions' = interruptions
    BY <2>1 DEF PowerCycle, CallFails
  <2>. QED  BY <1>1, <1>3, <2>2, SameItems
<1>. QED  BY <1>2, <1>3

\* The flash storage implements the item store its callers rely on: every call has
\* happened or not, or has added one item, whatever programming operation fails and
\* wherever the power is lost.
THEOREM Refinement == Spec => StoreSpec
<1>1. Init => Store!Init
  BY DEF Init, Items, Store!Init
<1>2. IInv /\ [Next]_vars => [Store!Next]_<<Items, kept>>
  <2> SUFFICES ASSUME IInv, [Next]_vars
               PROVE  Store!Next \/ UNCHANGED <<Items, kept>>
    OBVIOUS
  <2>1. CASE \E k \in Keys, v \in Values, o \in Addresses : CreateOrUpdate(k, v, o)
    BY <2>1, CreateRefines
  <2>2. CASE ProgramData
    BY <2>2, ProgramDataRefines
  <2>3. CASE ProgramChecksum
    BY <2>3, ProgramChecksumRefines DEF Store!Next
  <2>4. CASE MarkOld
    BY <2>4, MarkOldRefines DEF Store!Next
  <2>5. CASE Delete
    BY <2>5, DeleteRefines DEF Store!Next
  <2>6. CASE (\E n \in Increments : IncrementCounter(n)) \/ ReturnCounter
    <3>1. /\ UNCHANGED <<sector, flash, item, kept>>
          /\ pc \notin {"program", "mark"} /\ pc' \notin {"program", "mark"}
      BY <2>6 DEF IncrementCounter, ReturnCounter, Ready, history
    <3>. QED  BY <3>1, SameItems DEF Visible, Live
  <2>7. CASE Erase \/ EraseCounter \/ EraseSector \/ WriteHeader
    BY <2>7, ErasingRefines DEF Store!Next
  <2>8. CASE PowerCycle \/ CallFails
    BY <2>8, InterruptionRefines DEF Store!Next
  <2>9. CASE UNCHANGED vars
    BY <2>9, SameItems DEF vars, history, Visible, Live
  <2>. QED  BY <2>1, <2>2, <2>3, <2>4, <2>5, <2>6, <2>7, <2>8, <2>9 DEF Next
<1>. QED  BY <1>1, <1>2, Invariance, PTL DEF Spec, StoreSpec, Store!Spec
-----------------------------------------------------------------------------
(* What interrupted calls leave. *)

\* A call that returns leaves nothing behind; one that is interrupted, one item at most.
LEMMA JunkOfCalls ==
    ASSUME JunkInv, interruptions \in Nat,
           \/ /\ \/ UNCHANGED <<Items, kept>>
                 \/ \E i \in Store!Item : Store!Create(i)
                 \/ \E o \in Items, i \in Store!Item : Store!Update(o, i)
                 \/ \E o \in Items : Store!Delete(o)
              /\ interruptions' = interruptions
           \/ (\E i \in Store!Item : Store!Interrupted(i)) /\ interruptions' = interruptions + 1
           \/ Store!Erase /\ interruptions' = 0
    PROVE  JunkInv'
<1>1. IsFiniteSet(Junk) /\ Cardinality(Junk) \in Nat /\ Cardinality(Junk) <= interruptions
  BY FS_CardinalityType DEF JunkInv
<1>2. CASE Junk' \subseteq Junk /\ interruptions' = interruptions
  <2>1. IsFiniteSet(Junk') /\ Cardinality(Junk') <= Cardinality(Junk)
    BY <1>1, <1>2, FS_Subset
  <2>2. Cardinality(Junk') \in Nat
    BY <2>1, FS_CardinalityType
  <2>. QED  BY <1>1, <1>2, <2>1, <2>2 DEF JunkInv
<1>3. CASE \E i \in Store!Item : Junk' \subseteq Junk \cup {i} /\ interruptions' = interruptions + 1
  <2>1. PICK i : Junk' \subseteq Junk \cup {i} /\ interruptions' = interruptions + 1
    BY <1>3
  <2>2. IsFiniteSet(Junk \cup {i})
        /\ \/ Cardinality(Junk \cup {i}) = Cardinality(Junk)
           \/ Cardinality(Junk \cup {i}) = Cardinality(Junk) + 1
    BY <1>1, FS_AddElement
  <2>3. IsFiniteSet(Junk') /\ Cardinality(Junk') <= Cardinality(Junk \cup {i})
    BY <2>1, <2>2, FS_Subset
  <2>4. Cardinality(Junk') \in Nat
    BY <2>3, FS_CardinalityType
  <2>. QED  BY <1>1, <2>1, <2>2, <2>3, <2>4 DEF JunkInv
<1>4. CASE Junk' = {} /\ interruptions' = 0
  <2>1. IsFiniteSet(Junk') /\ Cardinality(Junk') = 0
    BY <1>4, FS_EmptySet
  <2>. QED  BY <1>4, <2>1 DEF JunkInv
<1>5. CASE UNCHANGED <<Items, kept>> /\ interruptions' = interruptions
  BY <1>2, <1>5 DEF Junk
<1>6. CASE (\E i \in Store!Item : Store!Create(i)) /\ interruptions' = interruptions
  BY <1>2, <1>6 DEF Junk, Store!Create
<1>7. CASE (\E o \in Items, i \in Store!Item : Store!Update(o, i)) /\ interruptions' = interruptions
  BY <1>2, <1>7 DEF Junk, Store!Update
<1>8. CASE (\E o \in Items : Store!Delete(o)) /\ interruptions' = interruptions
  BY <1>2, <1>8 DEF Junk, Store!Delete
<1>9. CASE (\E i \in Store!Item : Store!Interrupted(i)) /\ interruptions' = interruptions + 1
  BY <1>3, <1>9 DEF Junk, Store!Interrupted
<1>10. CASE Store!Erase /\ interruptions' = 0
  BY <1>4, <1>10 DEF Junk, Store!Erase
<1>. QED  BY <1>5, <1>6, <1>7, <1>8, <1>9, <1>10

\* JunkBounded: apart from what interrupted calls have left, at most one item each,
\* find_item yields what was stored; an item that was updated is there once.
THEOREM JunkIsBounded == Spec => []JunkBounded
<1>1. Init => JunkInv
  <2>. SUFFICES ASSUME Init PROVE JunkInv
    OBVIOUS
  <2>1. Junk = {} /\ interruptions = 0
    BY DEF Init, Junk, Items
  <2>. QED  BY <2>1, FS_EmptySet DEF JunkInv
<1>2. IInv /\ JunkInv /\ [Next]_vars => JunkInv'
  <2> SUFFICES ASSUME IInv, JunkInv, [Next]_vars
               PROVE  JunkInv'
    OBVIOUS
  <2>0. interruptions \in Nat
    BY SizeAssumption DEF IInv, TypeOK
  <2>1. CASE \E k \in Keys, v \in Values, o \in Addresses : CreateOrUpdate(k, v, o)
    <3>1. interruptions' = interruptions
      BY <2>1 DEF CreateOrUpdate, history
    <3>. QED  BY <2>0, <2>1, <3>1, CreateRefines, JunkOfCalls
  <2>2. CASE ProgramData
    <3>1. interruptions' = interruptions
      BY <2>2 DEF ProgramData, history
    <3>. QED  BY <2>0, <2>2, <3>1, ProgramDataRefines, JunkOfCalls
  <2>3. CASE ProgramChecksum
    <3>1. interruptions' = interruptions
      BY <2>3 DEF ProgramChecksum
    <3>. QED  BY <2>0, <2>3, <3>1, ProgramChecksumRefines, JunkOfCalls
  <2>4. CASE MarkOld
    <3>1. interruptions' = interruptions
      BY <2>4 DEF MarkOld
    <3>. QED  BY <2>0, <2>4, <3>1, MarkOldRefines, JunkOfCalls
  <2>5. CASE Delete
    <3>1. interruptions' = interruptions
      BY <2>5 DEF Delete
    <3>. QED  BY <2>0, <2>5, <3>1, DeleteRefines, JunkOfCalls
  <2>6. CASE (\E n \in Increments : IncrementCounter(n)) \/ ReturnCounter
    <3>1. /\ UNCHANGED <<sector, flash, item, kept, interruptions>>
          /\ pc \notin {"program", "mark"} /\ pc' \notin {"program", "mark"}
      BY <2>6 DEF IncrementCounter, ReturnCounter, Ready, history
    <3>2. UNCHANGED <<Items, kept>>
      BY <3>1, SameItems DEF Visible, Live
    <3>. QED  BY <2>0, <3>1, <3>2, JunkOfCalls
  <2>7. CASE Erase \/ EraseCounter \/ EraseSector \/ WriteHeader
    BY <2>0, <2>7, ErasingRefines, JunkOfCalls
  <2>8. CASE PowerCycle \/ CallFails
    BY <2>0, <2>8, InterruptionRefines, JunkOfCalls
  <2>9. CASE UNCHANGED vars
    <3>1. UNCHANGED <<Items, kept, interruptions>>
      BY <2>9, SameItems DEF vars, history, Visible, Live
    <3>. QED  BY <2>0, <3>1, JunkOfCalls
  <2>. QED  BY <2>1, <2>2, <2>3, <2>4, <2>5, <2>6, <2>7, <2>8, <2>9 DEF Next
<1>3. JunkInv => JunkBounded
  BY DEF JunkInv, Junk, JunkBounded
<1>. QED  BY <1>1, <1>2, <1>3, Invariance, PTL DEF Spec
-----------------------------------------------------------------------------
(* The callers of one kind of items.                                       *)

\* A call for an item of one kind is that call to who knows this kind, and does not show
\* to the others; an update from one kind to another is a deletion to the one and a
\* creation to the other.
LEMMA StepOfKind ==
    ASSUME NEW k \in Keys, Store!Next
    PROVE  [OfKind(k)!Next]_<<Own(Items, k), Own(kept, k)>>
<1> DEFINE Same == UNCHANGED <<Own(Items, k), Own(kept, k)>>
<1>1. ASSUME NEW i \in Store!Item, i.key = k
      PROVE  i \in OfKind(k)!Item
  BY <1>1 DEF Store!Item, OfKind!Item
<1>2. ASSUME NEW i, Store!Last(i)
      PROVE  OfKind(k)!Last(i)
  BY <1>2 DEF Store!Last, OfKind!Last, Own
<1>3. ASSUME NEW i \in Store!Item, Store!Create(i)
      PROVE  Same \/ OfKind(k)!Next
  <2>1. CASE i.key = k
    <3>1. OfKind(k)!Create(i)
      BY <1>2, <1>3, <2>1 DEF Store!Create, OfKind!Create, Own
    <3>. QED  BY <1>1, <2>1, <3>1 DEF OfKind!Next
  <2>2. CASE i.key # k
    BY <1>3, <2>2 DEF Store!Create, Own
  <2>. QED  BY <2>1, <2>2
<1>4. ASSUME NEW i \in Store!Item, Store!Interrupted(i)
      PROVE  Same \/ OfKind(k)!Next
  <2>1. CASE i.key = k
    <3>1. OfKind(k)!Interrupted(i)
      BY <1>2, <1>4, <2>1 DEF Store!Interrupted, OfKind!Interrupted, Own
    <3>. QED  BY <1>1, <2>1, <3>1 DEF OfKind!Next
  <2>2. CASE i.key # k
    BY <1>4, <2>2 DEF Store!Interrupted, Own
  <2>. QED  BY <2>1, <2>2
<1>5. ASSUME NEW o \in Items, Store!Delete(o)
      PROVE  Same \/ OfKind(k)!Next
  <2>1. CASE o.key = k
    <3>1. o \in Own(Items, k) /\ OfKind(k)!Delete(o)
      BY <1>5, <2>1 DEF Store!Delete, OfKind!Delete, Own
    <3>. QED  BY <3>1 DEF OfKind!Next
  <2>2. CASE o.key # k
    BY <1>5, <2>2 DEF Store!Delete, Own
  <2>. QED  BY <2>1, <2>2
<1>6. ASSUME NEW o \in Items, NEW i \in Store!Item, Store!Update(o, i)
      PROVE  Same \/ OfKind(k)!Next
  <2>1. CASE o.key = k /\ i.key = k
    <3>1. o \in Own(Items, k) /\ OfKind(k)!Update(o, i)
      BY <1>2, <1>6, <2>1 DEF Store!Update, OfKind!Update, Own
    <3>. QED  BY <1>1, <2>1, <3>1 DEF OfKind!Next
  <2>2. CASE o.key # k /\ i.key = k
    <3>1. OfKind(k)!Create(i)
      BY <1>2, <1>6, <2>2 DEF Store!Update, OfKind!Create, Own
    <3>. QED  BY <1>1, <2>2, <3>1 DEF OfKind!Next
  <2>3. CASE o.key = k /\ i.key # k
    <3>1. o \in Own(Items, k) /\ OfKind(k)!Delete(o)
      BY <1>6, <2>3 DEF Store!Update, OfKind!Delete, Own
    <3>. QED  BY <3>1 DEF OfKind!Next
  <2>4. CASE o.key # k /\ i.key # k
    BY <1>6, <2>4 DEF Store!Update, Own
  <2>. QED  BY <2>1, <2>2, <2>3, <2>4
<1>7. ASSUME Store!Erase
      PROVE  OfKind(k)!Erase
  BY <1>7 DEF Store!Erase, OfKind!Erase, Own
<1>. QED  BY <1>3, <1>4, <1>5, <1>6, <1>7 DEF Store!Next, OfKind!Next

\* To the code that stores one kind of items, as ctap_pin.c does and
\* ctap_credential_store.c, the flash storage is an item store of its own, whatever the
\* others store, delete or leave behind when the power is lost.
THEOREM KindsAreApart ==
    ASSUME NEW k \in Keys
    PROVE  Spec => OfKind(k)!Spec
<1>1. Store!Init => OfKind(k)!Init
  BY DEF Store!Init, OfKind!Init, Own
<1>2. [Store!Next]_<<Items, kept>> => [OfKind(k)!Next]_<<Own(Items, k), Own(kept, k)>>
  <2>1. CASE Store!Next
    BY <2>1, StepOfKind
  <2>2. CASE UNCHANGED <<Items, kept>>
    BY <2>2 DEF Own
  <2>. QED  BY <2>1, <2>2
<1>. QED  BY <1>1, <1>2, Refinement, PTL DEF StoreSpec, Store!Spec, OfKind!Spec
=============================================================================
