--------------------------- MODULE PinItemsProofs ---------------------------
(***************************************************************************)
(* Proofs about PinItems: the item that the next write replaces is one of  *)
(* the storage's, and the guesses at a PIN are bounded by the attempts and *)
(* the interruptions, for any number of either.                            *)
(*                                                                         *)
(* The argument is a count of places: each item is one, the RAM is at the  *)
(* place of the item it is written over, and each interruption adds one at *)
(* most.  A guess takes one of the guesses left at the place of the RAM,   *)
(* and a power up only chooses among the places.                           *)
(***************************************************************************)
EXTENDS PinItems, TLAPS, FiniteSetTheorems

-----------------------------------------------------------------------------
(* Counting. *)

\* The guesses left at one place.
LEMMA RowCounted ==
    ASSUME NEW at, NEW n \in Nat
    PROVE  IsFiniteSet({at} \X (1..n)) /\ Cardinality({at} \X (1..n)) = n
<1>1. IsFiniteSet(1..n) /\ Cardinality(1..n) = n
  <2>1. /\ IsFiniteSet(1..n)
        /\ Cardinality(1..n) = IF 1 > n THEN 0 ELSE n - 1 + 1
    BY FS_Interval
  <2>. QED  BY <2>1
<1>2. IsFiniteSet({at}) /\ Cardinality({at}) = 1
  BY FS_Singleton
<1>3. /\ IsFiniteSet({at} \X (1..n))
      /\ Cardinality({at} \X (1..n)) = Cardinality({at}) * Cardinality(1..n)
  BY <1>1, <1>2, FS_Product
<1>. QED  BY <1>1, <1>2, <1>3

\* The guesses left at some places.
LEMMA PlacesCounted ==
    ASSUME NEW S, IsFiniteSet(S), NEW n \in Nat, Cardinality(S) <= 1 + n,
           NEW L, L \subseteq S \X (1..Attempts)
    PROVE  IsFiniteSet(L) /\ Cardinality(L) \in Nat /\ Cardinality(L) <= Attempts * (1 + n)
<1>1. Attempts \in Nat
  BY PinItemsAssumption
<1>2. IsFiniteSet(1..Attempts) /\ Cardinality(1..Attempts) = Attempts
  <2>1. /\ IsFiniteSet(1..Attempts)
        /\ Cardinality(1..Attempts) = IF 1 > Attempts THEN 0 ELSE Attempts - 1 + 1
    BY <1>1, FS_Interval
  <2>. QED  BY <1>1, <2>1
<1>3. /\ IsFiniteSet(S \X (1..Attempts))
      /\ Cardinality(S \X (1..Attempts)) = Cardinality(S) * Attempts
  BY <1>2, FS_Product
<1>4. /\ IsFiniteSet(L) /\ Cardinality(L) \in Nat
      /\ Cardinality(L) <= Cardinality(S) * Attempts
  BY <1>3, FS_Subset, FS_CardinalityType
<1>5. Cardinality(S) \in Nat
  BY FS_CardinalityType
<1>6. ASSUME NEW a \in Nat, NEW b \in Nat, NEW c \in Nat, a <= b PROVE a * c <= c * b
  BY <1>6
<1>7. Cardinality(S) * Attempts <= Attempts * (1 + n) /\ Cardinality(S) * Attempts \in Nat
      /\ Attempts * (1 + n) \in Nat
  BY <1>1, <1>5, <1>6
<1>. QED  BY <1>4, <1>7

LEMMA OneAtLeast == \A n \in Nat : 1 <= 1 + n
OBVIOUS

\* A guess is taken from one place, or all of them are, and the rest is at a new one.
LEMMA MovedCounted ==
    ASSUME NEW L, IsFiniteSet(L), NEW from, NEW w \in Nat, {from} \X (1..w) \subseteq L,
           NEW to, NEW v \in Nat, NEW M, M \subseteq (L \ ({from} \X (1..w))) \cup ({to} \X (1..v))
    PROVE  Cardinality(M) <= Cardinality(L) - w + v
<1> DEFINE taken == {from} \X (1..w)
           put == {to} \X (1..v)
           left == L \ taken
<1>1. /\ IsFiniteSet(taken) /\ Cardinality(taken) = w
      /\ IsFiniteSet(put) /\ Cardinality(put) = v
  BY RowCounted
<1>2. L \cap taken = taken
  OBVIOUS
<1>. HIDE DEF taken, put
<1>3. IsFiniteSet(left) /\ Cardinality(left) = Cardinality(L) - w
  BY <1>1, <1>2, FS_Difference
<1>4. M \subseteq left \cup put
  BY DEF taken, put
<1>. HIDE DEF left
<1>5. /\ IsFiniteSet(left \cup put)
      /\ Cardinality(left \cup put) = Cardinality(left) + Cardinality(put) - Cardinality(left \cap put)
  BY <1>1, <1>3, FS_Union
<1>6. Cardinality(left \cap put) \in Nat /\ Cardinality(left) \in Nat /\ Cardinality(left \cup put) \in Nat
  <2>1. IsFiniteSet(left \cap put)
    BY <1>3, FS_Intersection
  <2>. QED  BY <1>3, <1>5, <2>1, FS_CardinalityType
<1>7. Cardinality(M) <= Cardinality(left \cup put) /\ Cardinality(M) \in Nat
  <2>1. IsFiniteSet(M) /\ Cardinality(M) <= Cardinality(left \cup put)
    BY <1>4, <1>5, FS_Subset
  <2>. QED  BY <2>1, FS_CardinalityType
<1>8. Cardinality(L) \in Nat
  BY FS_CardinalityType
<1>. QED  BY <1>1, <1>3, <1>5, <1>6, <1>7, <1>8

\* Something is added at a new place.
LEMMA AddedCounted ==
    ASSUME NEW L, IsFiniteSet(L), NEW to, NEW v \in Nat, NEW M, M \subseteq L \cup ({to} \X (1..v))
    PROVE  Cardinality(M) <= Cardinality(L) + v
<1>1. {to} \X (1..0) \subseteq L /\ M \subseteq (L \ ({to} \X (1..0))) \cup ({to} \X (1..v))
  <2>1. {to} \X (1..0) = {}
    OBVIOUS
  <2>. QED  BY <2>1
<1>2. Cardinality(M) <= Cardinality(L) - 0 + v
  BY <1>1, MovedCounted
<1>3. Cardinality(L) \in Nat
  BY FS_CardinalityType
<1>. QED  BY <1>2, <1>3

-----------------------------------------------------------------------------
(* The states of the PIN. *)

LEMMA SoundWeight ==
    ASSUME NEW s, Sound(s)
    PROVE  Weight(s) \in 0..Attempts
BY PinItemsAssumption DEF Sound, Weight

\* What a write can leave in the storage gives no more guesses than what is written.
LEMMA WrittenOrTorn ==
    ASSUME NEW s, Sound(s), s.pin # NoPin,
           NEW i \in NewItem(s) \cup NewItem(Torn) \cup NewItem([s EXCEPT !.pin = NobodysPin])
    PROVE  /\ i \in Storage!Item
           /\ Sound(Loaded(i)) /\ Weight(Loaded(i)) <= Weight(s)
           /\ i.value = s => Loaded(i) = s
<1>1. i \in Storage!Item /\ i.value \in {s, Torn, [s EXCEPT !.pin = NobodysPin]}
  BY DEF NewItem
<1>2. s \in [pin : Pins \cup {NobodysPin}, attempts : 0..VirginAttempts] /\ s # Torn
  <2>1. s \in [pin : Pins \cup {NobodysPin}, attempts : 0..VirginAttempts]
    BY DEF Sound
  <2>. QED  BY <2>1, TornAssumption DEF PinState
<1>3. Weight(s) \in Nat
  BY SoundWeight, PinItemsAssumption
<1>4. CASE i.value = s
  <2>1. Loaded(i) = s
    BY <1>2, <1>4 DEF Loaded
  <2>. QED  BY <1>1, <1>3, <1>4, <2>1
<1>5. CASE i.value = Torn
  <2>1. Loaded(i) = TornState
    BY <1>5 DEF Loaded
  <2>2. Sound(TornState) /\ Weight(TornState) = 0
    BY PinItemsAssumption DEF Sound, Weight, TornState
  <2>. QED  BY <1>1, <1>2, <1>3, <1>5, <2>1, <2>2
<1>6. CASE i.value = [s EXCEPT !.pin = NobodysPin] /\ i.value # Torn
  <2> DEFINE t == [s EXCEPT !.pin = NobodysPin]
  <2>1. Loaded(i) = t
    BY <1>6 DEF Loaded
  <2>2. t.pin = NobodysPin /\ t \in [pin : Pins \cup {NoPin, NobodysPin}, attempts : 0..VirginAttempts]
    BY <1>2
  <2>3. Sound(t) /\ Weight(t) = 0
    <3>. HIDE DEF t
    <3>. QED  BY <2>2, PinItemsAssumption DEF Sound, Weight
  <2>4. i.value = s => Loaded(i) = s
    BY <1>2 DEF Loaded
  <2>. QED  BY <1>1, <1>3, <2>1, <2>3, <2>4
<1>. QED  BY <1>1, <1>4, <1>5, <1>6
-----------------------------------------------------------------------------
(* The storage calls. *)

\* A power up takes the place of one of the items.
LEMMA LoadedPlaces ==
    ASSUME items' \subseteq Storage!Item,
           \A i, j \in items' : i.at = j.at => i = j,
           \A i \in items' : Sound(Loaded(i)),
           wrong' \in Nat, interruptions' \in Nat,
           NEW S, IsFiniteSet(S), Cardinality(S) <= 1 + interruptions',
           \A i \in items' : i.at \in S,
           PowerUp
    PROVE  /\ PlacesInv'
           /\ Left' \subseteq S \X (1..Attempts)
           /\ \A guess \in Left' :
                 \E i \in items' : i.at = guess[1] /\ guess[2] <= Weight(Loaded(i))
<1>0. failed' = FALSE /\ Load
  BY DEF PowerUp
<1>1. CASE items' = {} /\ pin_state' = DefaultState /\ handle' = 0
  <2>1. Slots' = {0}
    BY <1>1 DEF Slots
  <2>2. Weight(pin_state') = 0 /\ Sound(pin_state')
    BY <1>1, PinItemsAssumption DEF DefaultState, Weight, Sound
  <2>3. Left' = {}
    <3>1. \A guess \in Left' : guess[2] \in 1..Attempts /\ guess[2] <= Weight(pin_state')
      BY <1>1 DEF Left
    <3>. QED  BY <2>2, <3>1, PinItemsAssumption
  <2>4. IsFiniteSet(Slots') /\ Cardinality(Slots') <= 1 + interruptions'
    <3>1. IsFiniteSet({0}) /\ Cardinality({0}) = 1
      BY FS_Singleton
    <3>2. 1 <= 1 + interruptions'
      BY OneAtLeast, Zenon
    <3>. QED  BY <2>1, <3>1, <3>2
  <2>5. HandleLive'
    BY <1>1, <1>0 DEF HandleLive
  <2>. QED  BY <1>0, <1>1, <2>2, <2>3, <2>4, <2>5 DEF PlacesInv
<1>2. CASE \E first \in items' : pin_state' = Loaded(first) /\ handle' = first.at
  <2>1. PICK first \in items' : pin_state' = Loaded(first) /\ handle' = first.at
    BY <1>2
  <2>2. Slots' \subseteq S
    BY <2>1 DEF Slots
  <2>3. IsFiniteSet(Slots') /\ Cardinality(Slots') <= 1 + interruptions'
    <3>1. IsFiniteSet(Slots') /\ Cardinality(Slots') <= Cardinality(S)
      BY <2>2, FS_Subset
    <3>2. Cardinality(Slots') \in Nat /\ Cardinality(S) \in Nat
      BY <3>1, FS_CardinalityType
    <3>. QED  BY <3>1, <3>2
  <2>4. handle' # 0
    BY <2>1, PinItemsAssumption DEF Storage!Item
  <2>8. HandleLive'
    BY <2>1, <2>4 DEF HandleLive
  <2>5. Sound(pin_state') /\ handle' \in Handles \cup {0}
    BY <2>1 DEF Storage!Item
  <2>6. Left' \subseteq S \X (1..Attempts)
    BY <2>2 DEF Left
  <2>7. \A guess \in Left' :
           \E i \in items' : i.at = guess[1] /\ guess[2] <= Weight(Loaded(i))
    BY <2>1 DEF Left
  <2>. QED  BY <1>0, <2>3, <2>5, <2>6, <2>7, <2>8 DEF PlacesInv
<1>. QED  BY <1>0, <1>1, <1>2 DEF Load

\* A write moves the place of the RAM, with the guesses that it writes.
LEMMA WrittenPlaces ==
    ASSUME PlacesInv, NEW state, Sound(state), state.pin # NoPin, Written(state), wrong' \in Nat
    PROVE  /\ PlacesInv'
           /\ Cardinality(Left') <= Cardinality(Left) - Weight(pin_state) + Weight(state)
<1>1. PICK i \in NewItem(state) :
         /\ IF handle = 0 THEN Storage!Create(i)
            ELSE \E old \in items : old.at = handle /\ Storage!Update(old, i)
         /\ handle' = i.at
  BY DEF Written
<1>2. i \in Storage!Item /\ i.value = state /\ Loaded(i) = state /\ pin_state' = state
      /\ interruptions' = interruptions /\ failed' = FALSE
  BY <1>1, WrittenOrTorn DEF NewItem, Written
<1>3. PICK rest \in SUBSET items :
         /\ items' = rest \cup {i}
         /\ \A j \in rest : j.at # handle
         /\ \A j \in items : j.at < i.at
  <2>1. CASE handle = 0
    <3>1. items' = items \cup {i} /\ \A j \in items : j.at < i.at
      BY <1>1, <2>1 DEF Storage!Create, Storage!Last
    <3>2. \A j \in items : j.at # handle
      BY <2>1, PinItemsAssumption DEF PlacesInv, Storage!Item
    <3>. QED  BY <3>1, <3>2
  <2>2. CASE handle # 0
    <3>1. PICK old \in items : old.at = handle /\ Storage!Update(old, i)
      BY <1>1, <2>2
    <3>2. items' = (items \ {old}) \cup {i} /\ \A j \in items : j.at < i.at
      BY <3>1 DEF Storage!Update, Storage!Last
    <3>3. \A j \in items \ {old} : j.at # handle
      BY <3>1 DEF PlacesInv
    <3>. QED  BY <3>2, <3>3
  <2>. QED  BY <2>1, <2>2
<1>4. i.at \in Handles /\ i.at \in Nat /\ i.at # 0
  BY <1>2, PinItemsAssumption DEF Storage!Item
<1>5. \A j \in items : j.at # i.at
  <2>1. \A j \in items : j.at \in Nat
    BY PinItemsAssumption DEF PlacesInv, Storage!Item
  <2>. QED  BY <1>3, <1>4, <2>1
<1>6. /\ items' \subseteq Storage!Item
      /\ \A j, k \in items' : j.at = k.at => j = k
      /\ \A j \in items' : Sound(Loaded(j))
  BY <1>2, <1>3, <1>5 DEF PlacesInv
<1>7. HandleLive'
  BY <1>1, <1>2, <1>3, <1>4 DEF HandleLive
<1>8. IsFiniteSet(Slots') /\ Cardinality(Slots') <= 1 + interruptions'
  <2>1. Slots' \subseteq (Slots \ {handle}) \cup {i.at}
    BY <1>1, <1>3 DEF Slots
  <2>2. handle \in Slots
    BY DEF Slots
  <2>3. /\ IsFiniteSet(Slots \ {handle})
        /\ Cardinality(Slots \ {handle}) = Cardinality(Slots) - 1
    BY <2>2, FS_RemoveElement DEF PlacesInv
  <2>4. /\ IsFiniteSet((Slots \ {handle}) \cup {i.at})
        /\ \/ Cardinality((Slots \ {handle}) \cup {i.at}) = Cardinality(Slots) - 1
           \/ Cardinality((Slots \ {handle}) \cup {i.at}) = Cardinality(Slots) - 1 + 1
    BY <2>3, FS_AddElement
  <2>5. /\ IsFiniteSet(Slots')
        /\ Cardinality(Slots') <= Cardinality((Slots \ {handle}) \cup {i.at})
    BY <2>1, <2>4, FS_Subset
  <2>6. Cardinality(Slots') \in Nat /\ Cardinality(Slots) \in Nat
    BY <2>5, FS_CardinalityType DEF PlacesInv
  <2>. QED  BY <1>2, <2>4, <2>5, <2>6 DEF PlacesInv
<1>9. PlacesInv'
  BY <1>1, <1>2, <1>4, <1>6, <1>7, <1>8 DEF PlacesInv
<1>10. Cardinality(Left') <= Cardinality(Left) - Weight(pin_state) + Weight(state)
  <2> DEFINE w == Weight(pin_state)
             v == Weight(state)
  <2>1. w \in 0..Attempts /\ v \in 0..Attempts /\ Attempts \in Nat
    BY SoundWeight, PinItemsAssumption DEF PlacesInv
  <2>2. IsFiniteSet(Left)
    BY PlacesCounted DEF PlacesInv, Left
  <2>3. {handle} \X (1..w) \subseteq Left
    BY <2>1 DEF Left, Slots
  <2>4. Left' \subseteq (Left \ ({handle} \X (1..w))) \cup ({i.at} \X (1..v))
    <3>. SUFFICES ASSUME NEW guess \in Left'
                  PROVE  \/ guess \in Left /\ guess[1] # handle
                         \/ guess \in {i.at} \X (1..v)
      OBVIOUS
    <3>1. guess \in Slots' \X (1..Attempts)
      BY DEF Left
    <3>2. \/ guess[1] = i.at /\ guess[2] <= v
          \/ \E j \in items' : j.at = guess[1] /\ guess[2] <= Weight(Loaded(j))
      BY <1>1, <1>2 DEF Left
    <3>3. CASE guess[1] = i.at /\ guess[2] <= v
      BY <2>1, <3>1, <3>3
    <3>4. CASE \E j \in rest : j.at = guess[1] /\ guess[2] <= Weight(Loaded(j))
      <4>1. PICK j \in rest : j.at = guess[1] /\ guess[2] <= Weight(Loaded(j))
        BY <3>4
      <4>2. j \in items /\ j.at # handle
        BY <1>3
      <4>3. guess \in Slots \X (1..Attempts)
        BY <3>1, <4>1, <4>2 DEF Slots
      <4>. QED  BY <4>1, <4>2, <4>3 DEF Left
    <3>. QED  BY <1>2, <1>3, <3>2, <3>3, <3>4
  <2>5. w \in Nat /\ v \in Nat
    BY <2>1
  <2>. HIDE DEF w, v
  <2>6. Cardinality(Left') <= Cardinality(Left) - w + v
    BY <2>2, <2>3, <2>4, <2>5, MovedCounted
  <2>. QED  BY <2>6 DEF w, v
<1>. QED  BY <1>9, <1>10
\* A write that is interrupted leaves the items as they are, but perhaps one more, with no
\* more guesses than it was to write.
LEMMA PartlyDoneItems ==
    ASSUME PlacesInv, NEW state, Sound(state), state.pin # NoPin, PartlyDone(state)
    PROVE  /\ interruptions' = interruptions + 1 /\ items \subseteq items'
           /\ items' \subseteq Storage!Item
           /\ \A j, k \in items' : j.at = k.at => j = k
           /\ \A j \in items' : Sound(Loaded(j))
           /\ \E at : \A j \in items' \ items :
                 j.at = at /\ Weight(Loaded(j)) <= Weight(state)
<1>1. CASE UNCHANGED <<items, kept>>
  BY <1>1 DEF PlacesInv, PartlyDone
<1>2. ASSUME NEW i \in NewItem(state) \cup NewItem(Torn) \cup NewItem([state EXCEPT !.pin = NobodysPin]),
             Storage!Interrupted(i)
      PROVE  /\ items \subseteq items'
             /\ items' \subseteq Storage!Item
             /\ \A j, k \in items' : j.at = k.at => j = k
             /\ \A j \in items' : Sound(Loaded(j))
             /\ \E at : \A j \in items' \ items :
                   j.at = at /\ Weight(Loaded(j)) <= Weight(state)
  <2>1. i \in Storage!Item /\ Sound(Loaded(i)) /\ Weight(Loaded(i)) <= Weight(state)
    BY WrittenOrTorn
  <2>2. items' = items \cup {i} /\ \A j \in items : j.at < i.at
    BY <1>2 DEF Storage!Interrupted, Storage!Last
  <2>3. \A j \in items : j.at # i.at
    <3>1. i.at \in Nat /\ \A j \in items : j.at \in Nat
      BY <2>1, PinItemsAssumption DEF PlacesInv, Storage!Item
    <3>. QED  BY <2>2, <3>1
  <2>4. \A j \in items' \ items : j.at = i.at /\ Weight(Loaded(j)) <= Weight(state)
    BY <2>1, <2>2
  <2>. QED  BY <2>1, <2>2, <2>3, <2>4 DEF PlacesInv
<1>. QED  BY <1>1, <1>2 DEF PartlyDone

\* The places of these items.
LEMMA PartlyDonePlaces ==
    ASSUME PlacesInv, NEW state, Sound(state), state.pin # NoPin, PartlyDone(state), NEW at,
           \A j \in items' \ items : j.at = at
    PROVE  /\ interruptions' \in Nat
           /\ IsFiniteSet(Slots \cup {at}) /\ Cardinality(Slots \cup {at}) <= 1 + interruptions'
           /\ \A j \in items' : j.at \in Slots \cup {at}
<1>1. interruptions' = interruptions + 1 /\ interruptions \in Nat
  BY PartlyDoneItems DEF PlacesInv
<1>2. /\ IsFiniteSet(Slots \cup {at})
      /\ \/ Cardinality(Slots \cup {at}) = Cardinality(Slots)
         \/ Cardinality(Slots \cup {at}) = Cardinality(Slots) + 1
  BY FS_AddElement DEF PlacesInv
<1>3. Cardinality(Slots) \in Nat /\ Cardinality(Slots) <= 1 + interruptions
  BY FS_CardinalityType DEF PlacesInv
<1>. QED  BY <1>1, <1>2, <1>3 DEF Slots

\* A power loss adds no more guesses than were to be written.
LEMMA LostPlaces ==
    ASSUME PlacesInv, NEW state, Sound(state), state.pin # NoPin, Lost(state)
    PROVE  /\ PlacesInv' /\ interruptions' = interruptions + 1 /\ wrong' = wrong
           /\ Cardinality(Left') <= Cardinality(Left) + Weight(state)
<1>1. PartlyDone(state) /\ PowerUp /\ wrong' = wrong
  BY DEF Lost
<1>2. PICK at : \A j \in items' \ items : j.at = at /\ Weight(Loaded(j)) <= Weight(state)
  BY <1>1, PartlyDoneItems
<1>3. /\ interruptions' = interruptions + 1
      /\ items' \subseteq Storage!Item
      /\ \A j, k \in items' : j.at = k.at => j = k
      /\ \A j \in items' : Sound(Loaded(j))
  BY <1>1, PartlyDoneItems
<1>4. /\ interruptions' \in Nat
      /\ IsFiniteSet(Slots \cup {at}) /\ Cardinality(Slots \cup {at}) <= 1 + interruptions'
      /\ \A j \in items' : j.at \in Slots \cup {at}
  BY <1>1, <1>2, PartlyDonePlaces
<1>5. wrong' \in Nat
  BY <1>1 DEF PlacesInv
<1>6. /\ PlacesInv'
      /\ Left' \subseteq (Slots \cup {at}) \X (1..Attempts)
      /\ \A guess \in Left' :
            \E i \in items' : i.at = guess[1] /\ guess[2] <= Weight(Loaded(i))
  <2> DEFINE S == Slots \cup {at}
  <2>1. IsFiniteSet(S) /\ Cardinality(S) <= 1 + interruptions' /\ \A i \in items' : i.at \in S
    BY <1>4
  <2>. HIDE DEF S
  <2>2. /\ PlacesInv'
        /\ Left' \subseteq S \X (1..Attempts)
        /\ \A guess \in Left' :
              \E i \in items' : i.at = guess[1] /\ guess[2] <= Weight(Loaded(i))
    BY <1>1, <1>3, <1>4, <1>5, <2>1, LoadedPlaces
  <2>. QED  BY <2>2 DEF S
<1> DEFINE v == Weight(state)
<1>7. v \in 0..Attempts /\ Attempts \in Nat
  BY SoundWeight, PinItemsAssumption
<1>8. Left' \subseteq Left \cup ({at} \X (1..v))
  <2>. SUFFICES ASSUME NEW guess \in Left'
                PROVE  guess \in Left \/ guess \in {at} \X (1..v)
    OBVIOUS
  <2>1. PICK i \in items' : i.at = guess[1] /\ guess[2] <= Weight(Loaded(i))
    BY <1>6
  <2>2. guess \in (Slots \cup {at}) \X (1..Attempts)
    BY <1>6
  <2>3. CASE i \in items
    <3>1. guess \in Slots \X (1..Attempts)
      BY <2>1, <2>2, <2>3 DEF Slots
    <3>. QED  BY <2>1, <2>3, <3>1 DEF Left
  <2>4. CASE i \notin items
    <3>1. guess[1] = at /\ Weight(Loaded(i)) <= v
      BY <1>2, <2>1, <2>4
    <3>2. Weight(Loaded(i)) \in 0..Attempts
      BY <1>3, <2>1, SoundWeight
    <3>3. guess[2] <= v
      BY <1>7, <2>1, <2>2, <3>1, <3>2
    <3>. QED  BY <1>7, <2>2, <3>1, <3>3
  <2>. QED  BY <2>3, <2>4
<1>9. IsFiniteSet(Left)
  BY PlacesCounted DEF PlacesInv, Left
<1>10. v \in Nat
  BY <1>7
<1>. HIDE DEF v
<1>11. Cardinality(Left') <= Cardinality(Left) + v
  BY <1>8, <1>9, <1>10, AddedCounted
<1>. QED  BY <1>1, <1>3, <1>6, <1>11 DEF v

\* A write that fails adds no more guesses than were to be written, if these are no more
\* than the RAM had.
LEMMA FailedPlaces ==
    ASSUME PlacesInv, NEW state, Sound(state), state.pin # NoPin, Failed(state), wrong' \in Nat
    PROVE  /\ PlacesInv' /\ interruptions' = interruptions + 1
           /\ Weight(state) <= Weight(pin_state) =>
                 Cardinality(Left') <= Cardinality(Left) + Weight(state)
<1>1. PartlyDone(state) /\ pin_state' = state /\ handle' = handle /\ failed' = TRUE
  BY DEF Failed
<1>2. PICK at : \A j \in items' \ items : j.at = at /\ Weight(Loaded(j)) <= Weight(state)
  BY <1>1, PartlyDoneItems
<1>3. /\ interruptions' = interruptions + 1 /\ items \subseteq items'
      /\ items' \subseteq Storage!Item
      /\ \A j, k \in items' : j.at = k.at => j = k
      /\ \A j \in items' : Sound(Loaded(j))
  BY <1>1, PartlyDoneItems
<1>4. /\ interruptions' \in Nat
      /\ IsFiniteSet(Slots \cup {at}) /\ Cardinality(Slots \cup {at}) <= 1 + interruptions'
      /\ \A j \in items' : j.at \in Slots \cup {at}
  BY <1>1, <1>2, PartlyDonePlaces
<1>5. Slots' \subseteq Slots \cup {at}
  BY <1>1, <1>4 DEF Slots
<1>6. IsFiniteSet(Slots') /\ Cardinality(Slots') <= 1 + interruptions'
  <2>1. IsFiniteSet(Slots') /\ Cardinality(Slots') <= Cardinality(Slots \cup {at})
    BY <1>4, <1>5, FS_Subset
  <2>2. Cardinality(Slots') \in Nat /\ Cardinality(Slots \cup {at}) \in Nat
    BY <1>4, <2>1, FS_CardinalityType
  <2>. QED  BY <1>4, <2>1, <2>2
<1>7. HandleLive'
  BY <1>1, <1>3 DEF HandleLive, PlacesInv
<1>8. PlacesInv'
  BY <1>1, <1>3, <1>4, <1>6, <1>7 DEF PlacesInv
<1> DEFINE v == Weight(state)
<1>9. ASSUME v <= Weight(pin_state)
      PROVE  Cardinality(Left') <= Cardinality(Left) + v
  <2>1. v \in 0..Attempts /\ Attempts \in Nat /\ Weight(pin_state) \in 0..Attempts
    BY SoundWeight, PinItemsAssumption DEF PlacesInv
  <2>2. Left' \subseteq Left \cup ({at} \X (1..v))
    <3>. SUFFICES ASSUME NEW guess \in Left'
                  PROVE  guess \in Left \/ guess \in {at} \X (1..v)
      OBVIOUS
    <3>1. guess \in (Slots \cup {at}) \X (1..Attempts)
      BY <1>5 DEF Left
    <3>2. \/ guess[1] = handle /\ guess[2] <= v
          \/ \E j \in items' : j.at = guess[1] /\ guess[2] <= Weight(Loaded(j))
      BY <1>1 DEF Left
    <3>3. CASE guess[1] = handle /\ guess[2] <= v
      <4>1. guess[2] <= Weight(pin_state)
        <5>1. guess[2] \in 1..Attempts
          BY <3>1
        <5>. QED  BY <1>9, <2>1, <3>3, <5>1
      <4>2. guess \in Slots \X (1..Attempts)
        BY <3>1, <3>3 DEF Slots
      <4>. QED  BY <3>3, <4>1, <4>2 DEF Left
    <3>4. CASE \E j \in items' : j.at = guess[1] /\ guess[2] <= Weight(Loaded(j))
      <4>1. PICK i \in items' : i.at = guess[1] /\ guess[2] <= Weight(Loaded(i))
        BY <3>4
      <4>2. CASE i \in items
        <5>1. guess \in Slots \X (1..Attempts)
          BY <3>1, <4>1, <4>2 DEF Slots
        <5>. QED  BY <4>1, <4>2, <5>1 DEF Left
      <4>3. CASE i \notin items
        <5>1. guess[1] = at /\ Weight(Loaded(i)) <= v
          BY <1>2, <4>1, <4>3
        <5>2. Weight(Loaded(i)) \in 0..Attempts
          BY <1>3, <4>1, SoundWeight
        <5>3. guess[2] <= v
          BY <2>1, <3>1, <4>1, <5>1, <5>2
        <5>. QED  BY <2>1, <3>1, <5>1, <5>3
      <4>. QED  BY <4>2, <4>3
    <3>. QED  BY <3>2, <3>3, <3>4
  <2>3. IsFiniteSet(Left)
    BY PlacesCounted DEF PlacesInv, Left
  <2>4. v \in Nat
    BY <2>1
  <2>. HIDE DEF v
  <2>. QED  BY <2>2, <2>3, <2>4, AddedCounted
<1>. QED  BY <1>3, <1>8, <1>9
-----------------------------------------------------------------------------
(* The inductive invariant. *)

LEMMA Budget ==
    ASSUME NEW n \in Nat
    PROVE  /\ Attempts * (1 + n) \in Nat
           /\ Attempts * (1 + (n + 1)) = Attempts * (1 + n) + Attempts
BY PinItemsAssumption

\* When the count of wrong PINs is cleared, what is left at the places is in the bound.
LEMMA Cleared ==
    ASSUME PlacesInv', wrong' = 0
    PROVE  IInv'
<1>1. interruptions' \in Nat /\ IsFiniteSet(Slots') /\ Cardinality(Slots') <= 1 + interruptions'
  BY DEF PlacesInv
<1>2. Left' \subseteq Slots' \X (1..Attempts)
  BY DEF Left
<1>3. Cardinality(Left') \in Nat /\ Cardinality(Left') <= Attempts * (1 + interruptions')
  BY <1>1, <1>2, PlacesCounted
<1>4. wrong' + Cardinality(Left') = Cardinality(Left')
  BY <1>3
<1>. QED  BY <1>3, <1>4 DEF IInv

\* An interruption pays for what it may add.
LEMMA Paid ==
    ASSUME IInv, PlacesInv', interruptions' = interruptions + 1,
           NEW v \in 0..Attempts, NEW made \in Nat, made + v <= Attempts, wrong' = wrong + made,
           Cardinality(Left') <= Cardinality(Left) + v
    PROVE  IInv'
<1>1. interruptions \in Nat /\ wrong \in Nat /\ interruptions' \in Nat
  BY DEF IInv, PlacesInv
<1>2. /\ Attempts * (1 + interruptions) \in Nat
      /\ Attempts * (1 + interruptions') = Attempts * (1 + interruptions) + Attempts
  BY <1>1, Budget
<1>3. Cardinality(Left) \in Nat /\ Cardinality(Left') \in Nat
  <2>1. /\ IsFiniteSet(Slots) /\ Cardinality(Slots) <= 1 + interruptions
        /\ IsFiniteSet(Slots') /\ Cardinality(Slots') <= 1 + interruptions'
    BY DEF IInv, PlacesInv
  <2>2. Left \subseteq Slots \X (1..Attempts) /\ Left' \subseteq Slots' \X (1..Attempts)
    BY DEF Left
  <2>. QED  BY <1>1, <2>1, <2>2, PlacesCounted
<1>4. wrong + Cardinality(Left) <= Attempts * (1 + interruptions)
  BY DEF IInv
<1>5. Attempts \in Nat
  BY PinItemsAssumption
<1>6. wrong' + Cardinality(Left') <= Attempts * (1 + interruptions')
  <2> DEFINE b == Attempts * (1 + interruptions)
  <2>1. b \in Nat /\ Attempts * (1 + interruptions') = b + Attempts
        /\ wrong + Cardinality(Left) <= b
    BY <1>2, <1>4
  <2>. HIDE DEF b
  <2>2. wrong + made + (Cardinality(Left) + v) <= b + Attempts
    BY <1>1, <1>3, <1>5, <2>1
  <2>3. wrong' + Cardinality(Left') <= b + Attempts
    BY <1>1, <1>3, <1>5, <2>1, <2>2
  <2>. QED  BY <2>1, <2>3
<1>. QED  BY <1>6 DEF IInv

\* handle_invalid_pin: a guess is made, and one less is left where the RAM is.
LEMMA WrongPinCounted ==
    ASSUME IInv, WrongPin
    PROVE  IInv'
<1> DEFINE state == [pin_state EXCEPT !.attempts = @ - 1]
           made == IF pin_state.pin \in Pins THEN 1 ELSE 0
<1>1. PlacesInv /\ Sound(pin_state) /\ pin_state.pin # NoPin /\ pin_state.attempts > 0
  BY DEF IInv, PlacesInv, WrongPin, PinIsSet
<1>2. /\ state.pin = pin_state.pin /\ state.attempts = pin_state.attempts - 1
      /\ pin_state.attempts \in 1..VirginAttempts
      /\ state \in [pin : Pins \cup {NoPin, NobodysPin}, attempts : 0..VirginAttempts]
  BY <1>1, PinItemsAssumption DEF Sound
<1>3. \/ (Written(state) \/ Failed(state)) /\ wrong' = wrong + made
      \/ Lost(state)
  BY DEF WrongPin, Answers
<1>. HIDE DEF state
<1>4. Sound(state) /\ state.pin # NoPin
  BY <1>1, <1>2, PinItemsAssumption DEF Sound
<1>5. /\ Weight(pin_state) \in 0..Attempts /\ Weight(state) \in 0..Attempts /\ Attempts \in Nat
      /\ Weight(pin_state) = Weight(state) + made
  <2>1. Weight(pin_state) \in 0..Attempts /\ Weight(state) \in 0..Attempts /\ Attempts \in Nat
    BY <1>1, <1>4, SoundWeight, PinItemsAssumption
  <2>. QED  BY <1>2, <2>1 DEF Weight
<1>6. made \in Nat /\ wrong \in Nat
  BY DEF IInv, PlacesInv
<1>. HIDE DEF made
<1>7. CASE Lost(state)
  <2>1. /\ PlacesInv' /\ interruptions' = interruptions + 1 /\ wrong' = wrong
        /\ Cardinality(Left') <= Cardinality(Left) + Weight(state)
    BY <1>1, <1>4, <1>7, LostPlaces
  <2>2. wrong' = wrong + 0 /\ 0 + Weight(state) <= Attempts
    BY <1>5, <1>6, <2>1
  <2>. QED  BY <1>5, <2>1, <2>2, Paid
<1>8. CASE Failed(state) /\ wrong' = wrong + made
  <2>1. wrong' \in Nat
    BY <1>6, <1>8
  <2>2. /\ PlacesInv' /\ interruptions' = interruptions + 1
        /\ Weight(state) <= Weight(pin_state) =>
              Cardinality(Left') <= Cardinality(Left) + Weight(state)
    BY <1>1, <1>4, <1>8, <2>1, FailedPlaces
  <2>3. Weight(state) <= Weight(pin_state) /\ made + Weight(state) <= Attempts
    BY <1>5, <1>6
  <2>. QED  BY <1>5, <1>6, <1>8, <2>2, <2>3, Paid
<1>9. CASE Written(state) /\ wrong' = wrong + made
  <2>1. wrong' \in Nat
    BY <1>6, <1>9
  <2>2. /\ PlacesInv'
        /\ Cardinality(Left') <= Cardinality(Left) - Weight(pin_state) + Weight(state)
    BY <1>1, <1>4, <1>9, <2>1, WrittenPlaces
  <2>3. interruptions' = interruptions
    BY <1>9 DEF Written
  <2>4. wrong + Cardinality(Left) <= Attempts * (1 + interruptions)
    BY DEF IInv
  <2>5. Cardinality(Left) \in Nat /\ Cardinality(Left') \in Nat
    <3>1. /\ interruptions \in Nat /\ interruptions' \in Nat
          /\ IsFiniteSet(Slots) /\ Cardinality(Slots) <= 1 + interruptions
          /\ IsFiniteSet(Slots') /\ Cardinality(Slots') <= 1 + interruptions'
      BY <1>1, <2>2 DEF PlacesInv
    <3>2. Left \subseteq Slots \X (1..Attempts) /\ Left' \subseteq Slots' \X (1..Attempts)
      BY DEF Left
    <3>. QED  BY <3>1, <3>2, PlacesCounted
  <2>6. wrong' + Cardinality(Left') <= wrong + Cardinality(Left)
    BY <1>5, <1>6, <1>9, <2>2, <2>5
  <2>7. Attempts * (1 + interruptions) \in Nat
    BY <1>1, Budget DEF PlacesInv
  <2>8. wrong' + Cardinality(Left') <= Attempts * (1 + interruptions)
    <3> DEFINE b == Attempts * (1 + interruptions)
    <3>1. b \in Nat /\ wrong + Cardinality(Left) <= b
      BY <2>4, <2>7
    <3>. HIDE DEF b
    <3>2. wrong' + Cardinality(Left') <= b
      BY <1>6, <2>1, <2>5, <2>6, <3>1
    <3>. QED  BY <3>2 DEF b
  <2>. QED  BY <2>2, <2>3, <2>8 DEF IInv
<1>. QED  BY <1>3, <1>7, <1>8, <1>9

\* The attempts are all given back, when the count is cleared, or the power is lost.
LEMMA FreshCounted ==
    ASSUME IInv, NEW pin \in Pins,
           \/ Answers(Fresh(pin)) /\ wrong' = 0
           \/ Lost(Fresh(pin))
    PROVE  IInv'
<1> DEFINE state == Fresh(pin)
<1>1. Sound(state) /\ state.pin # NoPin
  BY PinItemsAssumption DEF Fresh, Sound
<1>2. PlacesInv /\ wrong \in Nat
  BY DEF IInv, PlacesInv
<1>3. ((Written(state) \/ Failed(state)) /\ wrong' = 0) \/ Lost(state)
  BY DEF Answers
<1>. HIDE DEF state
<1>4. CASE Written(state) /\ wrong' = 0
  <2>1. PlacesInv'
    BY <1>1, <1>2, <1>4, WrittenPlaces
  <2>. QED  BY <1>4, <2>1, Cleared
<1>5. CASE Failed(state) /\ wrong' = 0
  <2>1. PlacesInv'
    BY <1>1, <1>2, <1>5, FailedPlaces
  <2>. QED  BY <1>5, <2>1, Cleared
<1>6. CASE Lost(state)
  <2>1. /\ PlacesInv' /\ interruptions' = interruptions + 1 /\ wrong' = wrong
        /\ Cardinality(Left') <= Cardinality(Left) + Weight(state)
    BY <1>1, <1>2, <1>6, LostPlaces
  <2>2. Weight(state) \in 0..Attempts /\ Attempts \in Nat
    BY <1>1, SoundWeight, PinItemsAssumption
  <2>3. wrong' = wrong + 0 /\ 0 + Weight(state) <= Attempts
    BY <1>2, <2>1, <2>2
  <2>. QED  BY <2>1, <2>2, <2>3, Paid
<1>. QED  BY <1>3, <1>4, <1>5, <1>6

\* A power up without a write.
LEMMA PowerCycleCounted ==
    ASSUME IInv, PowerCycle
    PROVE  IInv'
<1>1. /\ items' = items /\ PowerUp
      /\ wrong' = wrong /\ interruptions' = interruptions
  BY DEF PowerCycle, history
<1>2. PlacesInv
  BY DEF IInv
<1>3. /\ items' \subseteq Storage!Item
      /\ \A i, j \in items' : i.at = j.at => i = j
      /\ \A i \in items' : Sound(Loaded(i))
      /\ wrong' \in Nat /\ interruptions' \in Nat
      /\ IsFiniteSet(Slots) /\ Cardinality(Slots) <= 1 + interruptions'
      /\ \A i \in items' : i.at \in Slots
  BY <1>1, <1>2 DEF PlacesInv, Slots
<1>4. /\ PlacesInv'
      /\ Left' \subseteq Slots \X (1..Attempts)
      /\ \A guess \in Left' :
            \E i \in items' : i.at = guess[1] /\ guess[2] <= Weight(Loaded(i))
  BY <1>1, <1>3, LoadedPlaces
<1>5. Left' \subseteq Left
  BY <1>1, <1>4 DEF Left
<1>6. IsFiniteSet(Left) /\ Cardinality(Left) \in Nat
  BY <1>2, PlacesCounted DEF PlacesInv, Left
<1>7. Cardinality(Left') <= Cardinality(Left) /\ Cardinality(Left') \in Nat
  BY <1>5, <1>6, FS_Subset, FS_CardinalityType
<1>8. wrong + Cardinality(Left) <= Attempts * (1 + interruptions)
      /\ Attempts * (1 + interruptions) \in Nat /\ wrong \in Nat
  BY <1>2, Budget DEF IInv, PlacesInv
<1>9. wrong' + Cardinality(Left') <= Attempts * (1 + interruptions')
  <2> DEFINE b == Attempts * (1 + interruptions)
  <2>1. b \in Nat /\ wrong + Cardinality(Left) <= b
    BY <1>8
  <2>2. Attempts * (1 + interruptions') = b
    BY <1>1
  <2>. HIDE DEF b
  <2>3. wrong' + Cardinality(Left') <= b
    BY <1>1, <1>6, <1>7, <1>8, <2>1
  <2>. QED  BY <2>2, <2>3
<1>. QED  BY <1>4, <1>9 DEF IInv

LEMMA ResetCounted ==
    ASSUME IInv, Reset
    PROVE  IInv'
<1>1. items' = {} /\ PowerUp /\ wrong' = 0 /\ interruptions' = 0
  BY DEF Reset, Storage!Erase
<1>2. PlacesInv'
  <2>1. IsFiniteSet({}) /\ Cardinality({}) <= 1 + interruptions'
    <3>1. IsFiniteSet({}) /\ Cardinality({}) = 0
      BY FS_EmptySet
    <3>. QED  BY <1>1, <3>1
  <2>2. /\ items' \subseteq Storage!Item
        /\ \A i, j \in items' : i.at = j.at => i = j
        /\ \A i \in items' : Sound(Loaded(i))
        /\ wrong' \in Nat /\ interruptions' \in Nat
        /\ \A i \in items' : i.at \in {}
    BY <1>1
  <2>. QED  BY <1>1, <2>1, <2>2, LoadedPlaces
<1>. QED  BY <1>1, <1>2, Cleared

\* IInv is inductive.
THEOREM Invariance == Spec => []IInv
<1>1. Init => IInv
  <2>. SUFFICES ASSUME Init PROVE IInv
    OBVIOUS
  <2>1. items = {} /\ pin_state = DefaultState /\ handle = 0 /\ failed = FALSE
        /\ wrong = 0 /\ interruptions = 0
    BY DEF Init, Storage!Init
  <2>2. Sound(pin_state)
    BY <2>1, PinItemsAssumption DEF DefaultState, Sound
  <2>3. IsFiniteSet(Slots) /\ Cardinality(Slots) <= 1 + interruptions
    <3>1. Slots = {0}
      BY <2>1 DEF Slots
    <3>2. IsFiniteSet({0}) /\ Cardinality({0}) = 1
      BY FS_Singleton
    <3>. QED  BY <2>1, <3>1, <3>2
  <2>4. PlacesInv
    BY <2>1, <2>2, <2>3 DEF PlacesInv, HandleLive
  <2>5. Left = {}
    <3>1. Weight(pin_state) = 0
      BY <2>1, PinItemsAssumption DEF DefaultState, Weight
    <3>2. \A guess \in Left : guess[2] \in 1..Attempts /\ guess[2] <= 0
      BY <2>1, <3>1 DEF Left
    <3>. QED  BY <3>2, PinItemsAssumption
  <2>6. wrong + Cardinality(Left) = 0 /\ Attempts * (1 + interruptions) \in Nat
    <3>1. Cardinality(Left) = 0 /\ 0 + 0 = 0
      BY <2>5, FS_EmptySet
    <3>2. interruptions \in Nat
      BY <2>4 DEF PlacesInv
    <3>. QED  BY <2>1, <3>1, <3>2, Budget
  <2>. QED  BY <2>4, <2>6 DEF IInv
<1>2. IInv /\ [Next]_vars => IInv'
  <2>. SUFFICES ASSUME IInv, [Next]_vars PROVE IInv'
    OBVIOUS
  <2>1. CASE PowerCycle
    BY <2>1, PowerCycleCounted
  <2>2. CASE WrongPin
    BY <2>2, WrongPinCounted
  <2>3. CASE RightPin
    <3>1. CASE pin_state.attempts = Attempts
      <4>1. /\ items' = items /\ pin_state' = pin_state /\ handle' = handle
            /\ failed' = failed /\ interruptions' = interruptions /\ wrong' = 0
        BY <2>3, <3>1 DEF RightPin
      <4>2. PlacesInv'
        <5>1. PlacesInv
          BY DEF IInv
        <5>2. Slots' = Slots /\ HandleLive'
          BY <4>1, <5>1 DEF Slots, HandleLive, PlacesInv
        <5>. QED  BY <4>1, <5>1, <5>2 DEF PlacesInv
      <4>. QED  BY <4>1, <4>2, Cleared
    <3>2. CASE pin_state.attempts # Attempts
      <4> DEFINE pin == pin_state.pin
      <4>1. pin \in Pins
        BY <2>3 DEF RightPin
      <4>2. (Answers(Fresh(pin)) /\ wrong' = 0) \/ Lost(Fresh(pin))
        BY <2>3, <3>2 DEF RightPin
      <4>. HIDE DEF pin
      <4>. QED  BY <4>1, <4>2, FreshCounted
    <3>. QED  BY <3>1, <3>2
  <2>4. ASSUME NEW pin \in Pins, StorePin(pin) PROVE IInv'
    <3>1. (Answers(Fresh(pin)) /\ wrong' = 0) \/ Lost(Fresh(pin))
      BY <2>4 DEF StorePin
    <3>. QED  BY <3>1, FreshCounted
  <2>5. CASE Reset
    BY <2>5, ResetCounted
  <2>6. CASE UNCHANGED vars
    BY <2>6 DEF vars, history, IInv, PlacesInv, HandleLive, Slots, Left
  <2>. QED  BY <2>1, <2>2, <2>3, <2>4, <2>5, <2>6 DEF Next
<1>. QED  BY <1>1, <1>2, PTL DEF Spec

\* HandleLive: however many writes were cut off or failed, state->pin_state_item_handle is
\* the handle of an item of the storage, and the RAM differs from that item only as long
\* as the last write is one that returned an error.
THEOREM HandleIsLive == Spec => []HandleLive
<1>1. IInv => HandleLive
  BY DEF IInv, PlacesInv
<1>. QED  BY <1>1, Invariance, PTL

\* GuessesBounded: wrong PINs are answered at most as often as there are attempts, once
\* more for each write that failed or was cut off, for any number of attempts.
THEOREM GuessesAreBounded == Spec => []GuessesBounded
<1>1. IInv => GuessesBounded
  <2>. SUFFICES ASSUME IInv PROVE GuessesBounded
    OBVIOUS
  <2>1. wrong \in Nat /\ interruptions \in Nat
        /\ wrong + Cardinality(Left) <= Attempts * (1 + interruptions)
    BY DEF IInv, PlacesInv
  <2>2. Cardinality(Left) \in Nat
    BY PlacesCounted DEF IInv, PlacesInv, Left
  <2>3. Attempts * (1 + interruptions) \in Nat
    BY <2>1, Budget
  <2> DEFINE b == Attempts * (1 + interruptions)
  <2>4. b \in Nat /\ wrong + Cardinality(Left) <= b
    BY <2>1, <2>3
  <2>. HIDE DEF b
  <2>5. wrong <= b
    BY <2>1, <2>2, <2>4
  <2>. QED  BY <2>5 DEF b, GuessesBounded
<1>. QED  BY <1>1, Invariance, PTL
-----------------------------------------------------------------------------
(* Without interruptions.                                                  *)

\* Two members make two elements.
LEMMA AtMostOne ==
    ASSUME NEW S, IsFiniteSet(S), Cardinality(S) <= 1, NEW x \in S, NEW y \in S
    PROVE  x = y
<1>. SUFFICES ASSUME x # y PROVE FALSE
  OBVIOUS
<1>1. IsFiniteSet({x}) /\ Cardinality({x}) = 1
  BY FS_Singleton
<1>2. IsFiniteSet({x} \cup {y}) /\ Cardinality({x} \cup {y}) = Cardinality({x}) + 1
  BY <1>1, FS_AddElement
<1>3. Cardinality({x} \cup {y}) <= Cardinality(S) /\ Cardinality(S) \in Nat
  <2>1. {x} \cup {y} \subseteq S
    OBVIOUS
  <2>. QED  BY <2>1, FS_Subset, FS_CardinalityType
<1>. QED  BY <1>1, <1>2, <1>3

\* A power up without an interruption before finds the one item at the handle.
LEMMA FindsState ==
    ASSUME IInv, PowerCycle, interruptions = 0
    PROVE  UNCHANGED <<pin_state, handle>>
<1>1. items' = items /\ Load /\ ~failed
  BY DEF PowerCycle, PowerUp, IInv, PlacesInv
<1>2. IsFiniteSet(Slots) /\ Cardinality(Slots) <= 1
  BY DEF IInv, PlacesInv
<1>3. ASSUME NEW i \in items
      PROVE  i.at = handle /\ i.at # 0
  <2>1. i.at \in Slots /\ handle \in Slots
    BY DEF Slots
  <2>2. i.at # 0
    BY PinItemsAssumption DEF IInv, PlacesInv, Storage!Item
  <2>. QED  BY <1>2, <2>1, <2>2, AtMostOne
<1>4. CASE items = {}
  <2>1. handle = 0 /\ pin_state = DefaultState
    BY <1>1, <1>4 DEF IInv, PlacesInv, HandleLive
  <2>. QED  BY <1>1, <1>4, <2>1 DEF Load
<1>5. ASSUME NEW first \in items, pin_state' = Loaded(first), handle' = first.at
      PROVE  UNCHANGED <<pin_state, handle>>
  <2>1. PICK i \in items : i.at = handle /\ Loaded(i) = pin_state
    BY <1>1, <1>3, <1>5 DEF IInv, PlacesInv, HandleLive
  <2>2. i = first
    BY <1>3, <2>1 DEF IInv, PlacesInv
  <2>. QED  BY <1>5, <2>1, <2>2
<1>. QED  BY <1>1, <1>4, <1>5 DEF Load

\* PowerUpFindsState: without interrupted writes the storage holds the PIN state as if each
\* write were one step, which is how ClientPin takes it.
THEOREM PowerUpFindsTheState == Spec => PowerUpFindsState
<1>1. IInv /\ [Next]_vars =>
          [PowerCycle /\ interruptions = 0 => UNCHANGED <<pin_state, handle>>]_vars
  BY FindsState
<1>. QED  BY <1>1, Invariance, PTL DEF Spec, PowerUpFindsState
=============================================================================
