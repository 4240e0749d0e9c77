------------------------- MODULE ObjectHeaderProofs -------------------------
(***************************************************************************)
(* What interpret_header reads is what h_alloc_struct wrote, for every     *)
(* layout that fits the header, and it stays within its array for every    *)
(* layout.  The invariant says where each loop is: the bits of the fields  *)
(* follow each other downwards from the start bit as their bytes do        *)
(* upwards from the start of the object, so that the reading loop, field   *)
(* by field, is at the byte where the field begins.                        *)
(***************************************************************************)
EXTENDS ObjectHeader, FiniteSetTheorems, TLAPS

\* A layout is a sequence of types, and its fields are numbered.
LEMMA LayoutFacts ==
  ASSUME layout \in Seq(FieldTypes)
  PROVE  /\ len_layout \in Nat
         /\ \A f \in 1 .. len_layout :
              /\ layout[f] \in FieldTypes
              /\ FieldSize(layout[f]) \in {4, 8} /\ Width(layout[f]) \in {1, 2}
              /\ layout[f] = "*" =>
                   FieldSize(layout[f]) = 8 /\ Width(layout[f]) = 1
              /\ Width(layout[f]) = 2 <=> layout[f] \in Wide
              /\ layout[f] \in Wide => FieldSize(layout[f]) = 8
              /\ layout[f] \notin Wide /\ layout[f] # "*" =>
                   FieldSize(layout[f]) = 4
         /\ WideFields \subseteq 1 .. len_layout
         /\ IsFiniteSet(WideFields) /\ Cardinality(WideFields) \in Nat
<1>1. len_layout \in Nat /\ \A f \in 1 .. len_layout : layout[f] \in FieldTypes
  BY DEF len_layout
<1>2. \A t \in FieldTypes :
        /\ FieldSize(t) \in {4, 8} /\ Width(t) \in {1, 2}
        /\ t = "*" => FieldSize(t) = 8 /\ Width(t) = 1
        /\ Width(t) = 2 <=> t \in Wide
        /\ t \in Wide => FieldSize(t) = 8
        /\ t \notin Wide /\ t # "*" => FieldSize(t) = 4
  BY DEF FieldTypes, FieldSize, Width, Wide
<1>3. WideFields \subseteq 1 .. len_layout
  BY DEF WideFields
<1>4. IsFiniteSet(1 .. len_layout)
  BY <1>1, FS_Interval
<1>5. IsFiniteSet(WideFields)
  BY <1>3, <1>4, FS_Subset
<1> QED
  BY <1>1, <1>2, <1>3, <1>5, FS_CardinalityType

\* There are fewer bits than sizes.
LEMMA BitsFinite ==
  ASSUME NEW B \in SUBSET (3 .. HEADER_BITS - 1)
  PROVE  /\ IsFiniteSet(B) /\ Cardinality(B) \in 0 .. SIZE_LIMIT - 1
         /\ Cardinality(B) = 0 <=> B = {}
<1>1. /\ IsFiniteSet(3 .. HEADER_BITS - 1)
      /\ Cardinality(3 .. HEADER_BITS - 1) < HEADER_BITS
  BY FS_Interval, ObjectHeaderAssumption
<1>2. IsFiniteSet(B) /\ Cardinality(B) <= Cardinality(3 .. HEADER_BITS - 1)
  BY <1>1, FS_Subset
<1>3. Cardinality(B) \in Nat /\ Cardinality(3 .. HEADER_BITS - 1) \in Nat
  BY <1>1, <1>2, FS_CardinalityType
<1>4. Cardinality(B) = 0 <=> B = {}
  BY <1>2, FS_EmptySet
<1>5. Cardinality(B) < SIZE_LIMIT
  BY <1>1, <1>2, <1>3, ObjectHeaderAssumption
<1> QED
  BY <1>2, <1>3, <1>4, <1>5, ObjectHeaderAssumption

LEMMA TotalSizeType == \A n \in Nat : TotalSize(n) \in Int
<1> TAKE n \in Nat
<1> DEFINE pad == (16 - (ToSize(n + 8) % 16)) % 16
<1>1. /\ SIZE_LIMIT \in Nat /\ SIZE_LIMIT > 0 /\ INT_LIMIT \in Nat
      /\ INT_LIMIT > 0
  BY ObjectHeaderAssumption
<1>2. \A m \in Int : ToSize(m) \in Int
  BY <1>1 DEF ToSize
<1>3. \A m \in Int : ToInt(m) \in Int
  BY <1>1 DEF ToInt
<1>4. pad \in Int
  <2>1. ToSize(n + 8) \in Int
    BY <1>2
  <2> QED
    BY <2>1
<1>5. TotalSize(n) = ToInt(ToSize(n + 8 + pad))
  BY DEF TotalSize, HEADER_SIZE
<1> HIDE DEF pad
<1>6. ToSize(n + 8 + pad) \in Int
  BY <1>2, <1>4
<1> QED
  BY <1>3, <1>5, <1>6

\* What refused means: a request is granted in whole slots, or it wrapped
\* around an int twice.
LEMMA GrantedSize ==
  ASSUME NEW n \in Nat, ~Refused(n), n < 2 * INT_LIMIT - 24
  PROVE  /\ n + HEADER_SIZE <= TotalSize(n) /\ TotalSize(n) <= PAGE_SIZE
         /\ TotalSize(n) % 16 = 0
<1> DEFINE pad == (16 - ((n + 8) % 16)) % 16
           total == n + 8 + pad
<1>1. /\ INT_LIMIT \in Nat /\ PAGE_SIZE \in Nat /\ PAGE_SIZE < INT_LIMIT
      /\ SIZE_LIMIT \in Nat /\ SIZE_LIMIT >= 4 * INT_LIMIT
  BY ObjectHeaderAssumption
<1>2. /\ pad \in 0 .. 15 /\ total \in Nat /\ total % 16 = 0
      /\ n + 8 <= total /\ total < 2 * INT_LIMIT
  BY <1>1
<1>3. ToSize(n + 8) = n + 8 /\ ToSize(total) = total
  BY <1>1, <1>2 DEF ToSize
<1>4. TotalSize(n) = ToInt(total)
  BY <1>3 DEF TotalSize, HEADER_SIZE
<1> HIDE DEF pad, total
<1>5. CASE total < INT_LIMIT
  <2>1. ToInt(total) = total
    BY <1>1, <1>2, <1>5 DEF ToInt
  <2>2. ToSize(total) = total
    BY <1>3
  <2>3. total <= PAGE_SIZE
    BY <1>1, <1>2, <1>4, <2>1, <2>2 DEF Refused
  <2> QED
    BY <1>2, <1>4, <2>1, <2>3 DEF HEADER_SIZE
<1>6. CASE total >= INT_LIMIT
  <2>1. ToInt(total) = total - 2 * INT_LIMIT
    BY <1>1, <1>2, <1>6 DEF ToInt
  <2>2. ToSize(total - 2 * INT_LIMIT) = SIZE_LIMIT + total - 2 * INT_LIMIT
    BY <1>1, <1>2, <1>6 DEF ToSize
  <2> QED
    BY <1>1, <1>2, <1>4, <1>6, <2>1, <2>2 DEF Refused
<1> QED
  BY <1>1, <1>2, <1>5, <1>6

LEMMA GrantedHonoured == HeaderIInv => RequestHonoured
<1> SUFFICES ASSUME HeaderIInv, pc \in {"object", "raw"},
                    request < 2 * INT_LIMIT - 24
             PROVE  /\ request + HEADER_SIZE <= reserved
                    /\ reserved <= PAGE_SIZE /\ reserved % 16 = 0
  BY DEF RequestHonoured
<1>1. reserved = TotalSize(request) /\ ~Refused(request) /\ request \in Nat
  BY DEF HeaderIInv, Reserves, HeaderTypeOK, WrittenStages
<1> QED
  BY <1>1, GrantedSize

LEMMA HeaderInitInv == Init => HeaderIInv
<1> SUFFICES ASSUME Init PROVE HeaderIInv
  OBVIOUS
<1> USE DEF Init
<1>1. len_layout = 0 /\ layout \in Seq(FieldTypes)
  BY DEF len_layout
<1>2. HeaderTypeOK
  <2>1. filled \subseteq 1 .. len_layout /\ bits \subseteq 3 .. HEADER_BITS - 1
    OBVIOUS
  <2>2. i \in 0 .. HEADER_BITS - 1 /\ count \in 0 .. SIZE_LIMIT - 1
        /\ index \in 0 .. len_layout
    BY <1>1, ObjectHeaderAssumption
  <2>3. pointer_array \in Seq(Nat) /\ padding_cleared \in BOOLEAN
    OBVIOUS
  <2> QED
    BY <1>1, <2>1, <2>2, <2>3 DEF HeaderTypeOK, Stages
<1>3. Reserves
  BY DEF Reserves, WrittenStages
<1>4. Sized
  <2>1. endAt \in [0 .. 0 -> Nat] /\ endAt[0] = 0
    <3>1. 0 .. 0 = {0}
      OBVIOUS
    <3> QED
      BY <3>1
  <2> QED
    BY <1>1, <2>1 DEF Sized, Ends, WrittenStages
<1>5. Written /\ Counted /\ ReadSoFar /\ InterpretsLayout
  BY DEF Written, Counted, ReadSoFar, InterpretsLayout, WrittenStages
<1> QED
  BY <1>2, <1>3, <1>4, <1>5 DEF HeaderIInv

\* Before the header is written, and where there is none, nothing is claimed
\* of it.
LEMMA NoHeaderYet ==
  ASSUME HeaderIInv, pc' \notin WrittenStages, UNCHANGED readVars
  PROVE  Written' /\ Counted' /\ ReadSoFar' /\ InterpretsLayout'
  BY DEF HeaderIInv, Written, Counted, ReadSoFar, InterpretsLayout,
         WrittenStages, readVars

LEMMA AllocStructInv ==
  ASSUME HeaderIInv, NEW l \in Layouts, AllocStruct(l)
  PROVE  HeaderIInv'
<1> USE DEF AllocStruct
<1>1. /\ pc = "start" /\ pc' = "object_size" /\ layout' = l
      /\ UNCHANGED <<request, reserved, index, offset, bits, endAt, bitAt>>
      /\ UNCHANGED readVars /\ filled' = 1 .. Len(l)
      /\ l \in Seq(FieldTypes) /\ Len(l) \in Nat
  BY ObjectHeaderAssumption DEF writeVars, historyVars
<1>2. /\ index = 0 /\ request = 0 /\ layout = <<>> /\ len_layout = 0
  BY <1>1 DEF HeaderIInv, Reserves, len_layout
<1>3. HeaderTypeOK'
  BY <1>1, <1>2 DEF HeaderIInv, HeaderTypeOK, Stages, readVars, len_layout
<1>4. Reserves'
  BY <1>1, <1>2 DEF Reserves, WrittenStages, len_layout
<1>5. Sized'
  BY <1>1, <1>2 DEF HeaderIInv, Sized, Ends
<1> QED
  BY <1>1, <1>3, <1>4, <1>5, NoHeaderYet DEF HeaderIInv, WrittenStages

\* A field is laid after those before it.
LEMMA SizeFieldInv ==
  ASSUME HeaderIInv, SizeField
  PROVE  HeaderIInv'
<1>1. /\ pc = "object_size" /\ pc' = pc /\ layout' = layout
      /\ index < len_layout /\ index' = index + 1
      /\ request' = request + FieldSize(layout[index + 1])
      /\ endAt' = [f \in 0 .. index + 1 |->
                     IF f <= index THEN endAt[f] ELSE request']
      /\ UNCHANGED <<reserved, filled, offset, bits, bitAt>>
      /\ UNCHANGED readVars
      /\ len_layout' = len_layout
  BY DEF SizeField, len_layout
<1>2. /\ index \in Nat /\ request \in Nat /\ len_layout \in Nat
      /\ FieldSize(layout[index + 1]) \in {4, 8}
      /\ index + 1 \in 1 .. len_layout
  BY <1>1, LayoutFacts DEF HeaderIInv, HeaderTypeOK
<1>3. /\ endAt \in [0 .. index -> Nat] /\ endAt[0] = 0
      /\ \A f \in 1 .. index : endAt[f] = endAt[f - 1] + FieldSize(layout[f])
      /\ \A f, g \in 0 .. index : f < g => endAt[f] < endAt[g]
      /\ request = endAt[index]
  BY <1>1 DEF HeaderIInv, Sized, Ends
<1>4. HeaderTypeOK'
  BY <1>1, <1>2 DEF HeaderIInv, HeaderTypeOK, readVars
<1>5. Reserves'
  BY <1>1, <1>2 DEF Reserves, WrittenStages
<1>6. /\ endAt' \in [0 .. index + 1 -> Nat]
      /\ \A f \in 0 .. index : endAt'[f] = endAt[f]
      /\ endAt'[index + 1] = request'
  BY <1>1, <1>2, <1>3
<1>7. \A f, g \in 0 .. index + 1 : f < g => endAt'[f] < endAt'[g]
  <2> SUFFICES ASSUME NEW f \in 0 .. index + 1, NEW g \in 0 .. index + 1, f < g
               PROVE  endAt'[f] < endAt'[g]
    OBVIOUS
  <2>1. f \in 0 .. index
    BY <1>2
  <2>2. endAt[f] <= endAt[index]
    <3>1. index \in 0 .. index /\ (f = index \/ f < index)
      BY <1>2, <2>1
    <3>2. endAt[f] \in Nat /\ endAt[index] \in Nat
      BY <1>3, <2>1, <3>1
    <3> QED
      BY <1>3, <2>1, <3>1, <3>2
  <2>3. CASE g = index + 1
    BY <1>1, <1>2, <1>3, <1>6, <2>1, <2>2, <2>3
  <2>4. CASE g \in 0 .. index
    BY <1>3, <1>6, <2>1, <2>4
  <2> QED
    BY <1>2, <2>3, <2>4
<1>8. \A f \in 1 .. index + 1 : endAt'[f] = endAt'[f - 1] + FieldSize(layout[f])
  <2> TAKE f \in 1 .. index + 1
  <2>1. CASE f = index + 1
    BY <1>1, <1>2, <1>3, <1>6, <2>1
  <2>2. CASE f \in 1 .. index
    <3>1. f \in 0 .. index /\ f - 1 \in 0 .. index
      BY <1>2, <2>2
    <3> QED
      BY <1>3, <1>6, <2>2, <3>1
  <2> QED
    BY <1>2, <2>1, <2>2
<1>9. Sized'
  <2>1. endAt'[0] = 0
    BY <1>2, <1>3, <1>6
  <2> QED
    BY <1>1, <1>2, <1>6, <1>7, <1>8, <2>1 DEF Sized, Ends
<1> QED
  BY <1>1, <1>4, <1>5, <1>9, NoHeaderYet DEF HeaderIInv, WrittenStages

\* The loop of set_layout_header begins with no field written, or the program
\* stops.
LEMMA SizeEndsInv ==
  ASSUME HeaderIInv, SizeEnds
  PROVE  HeaderIInv'
<1>1. /\ pc = "object_size" /\ index = len_layout /\ reserved' = TotalSize(request)
      /\ pc' \in {"stopped", "set_layout_header"}
      /\ pc' = "set_layout_header" => ~Refused(request)
      /\ index' = 0 /\ offset' = 3 /\ bits' = {}
      /\ bitAt' = [f \in len_layout + 1 .. len_layout |-> 0]
      /\ layout' = layout /\ request' = request /\ filled' = filled
      /\ endAt' = endAt /\ UNCHANGED readVars /\ len_layout' = len_layout
  BY DEF SizeEnds, historyVars, len_layout
<1>2. len_layout \in Nat /\ layout \in Seq(FieldTypes)
  BY LayoutFacts DEF HeaderIInv, HeaderTypeOK
<1>t. reserved' \in Int
  BY <1>1, TotalSizeType DEF HeaderIInv, HeaderTypeOK
<1>3. HeaderTypeOK'
  BY <1>1, <1>2, <1>t DEF HeaderIInv, HeaderTypeOK, readVars, Stages
<1>4. Reserves'
  BY <1>1 DEF Reserves, WrittenStages
<1>5. Sized'
  BY <1>1 DEF HeaderIInv, Sized, Ends
<1>6. CASE pc' = "stopped"
  BY <1>1, <1>3, <1>4, <1>5, <1>6, NoHeaderYet DEF HeaderIInv, WrittenStages
<1>7. CASE pc' = "set_layout_header"
  <2>1. Unwritten' = len_layout
    BY <1>1, <1>2 DEF Unwritten
  <2>2. Bits' /\ bits' = PointerBits'
    <3>1. Unwritten + 1 \notin 1 .. 0 /\ len_layout + 1 .. len_layout = {}
      BY <1>2
    <3>2. {f \in WideFields' : f > Unwritten'} = {}
      BY <1>1, <1>2, <2>1 DEF WideFields
    <3>3. PointerBits' = {}
      BY <1>1, <2>1, <3>1 DEF PointerBits
    <3>4. offset' = 3 + Cardinality({f \in WideFields' : f > Unwritten'})
      BY <1>1, <3>2, FS_EmptySet
    <3>5. /\ bitAt' \in [Unwritten' + 1 .. len_layout' -> Nat]
          /\ index' = 0 /\ offset' = 3
          /\ Unwritten' + 1 .. len_layout' = {}
      BY <1>1, <2>1, <3>1
    <3>6. Bits'
      BY <1>7, <3>4, <3>5 DEF Bits
    <3> QED
      BY <1>1, <3>3, <3>6
  <2>3. Written'
    BY <1>7, <2>2 DEF Written
  <2>4. Counted' /\ ReadSoFar' /\ InterpretsLayout'
    BY <1>1, <1>7 DEF HeaderIInv, Counted, ReadSoFar, InterpretsLayout, readVars
  <2> QED
    BY <1>3, <1>4, <1>5, <2>3, <2>4 DEF HeaderIInv
<1> QED
  BY <1>1, <1>6, <1>7

\* A field gets the next bits.
LEMMA SetFieldInv ==
  ASSUME HeaderIInv, SetField
  PROVE  HeaderIInv'
<1> DEFINE U == Unwritten
           type == layout[U]
           B == index + offset
           more == IF type \in Wide THEN 1 ELSE 0
<1>1. /\ pc = "set_layout_header" /\ pc' = pc
      /\ index < len_layout /\ B < HEADER_BITS
      /\ bits' = IF type = "*" THEN WithBit(B) ELSE bits
      /\ offset' = IF type \in Wide THEN offset + 1 ELSE offset
      /\ bitAt' = [f \in U .. len_layout |-> IF f = U THEN B ELSE bitAt[f]]
      /\ index' = index + 1 /\ layout' = layout /\ len_layout' = len_layout
      /\ UNCHANGED <<request, reserved, filled, endAt>> /\ UNCHANGED readVars
  <2>1. index \in Nat /\ offset \in Nat /\ HEADER_BITS \in Nat
    BY LayoutFacts, ObjectHeaderAssumption DEF HeaderIInv, HeaderTypeOK
  <2> QED
    BY <2>1 DEF SetField, requestVars, len_layout, Unwritten
<1>2. /\ len_layout \in Nat /\ layout \in Seq(FieldTypes)
      /\ index \in Nat /\ offset \in Nat /\ HEADER_BITS \in Nat
      /\ U = len_layout - index /\ U \in 1 .. len_layout
      /\ bits \subseteq 3 .. HEADER_BITS - 1
      /\ WideFields \subseteq 1 .. len_layout
      /\ IsFiniteSet(WideFields)
      /\ Width(type) = 1 + more /\ more \in {0, 1}
      /\ offset' = offset + more
  BY <1>1, LayoutFacts, ObjectHeaderAssumption
     DEF HeaderIInv, HeaderTypeOK, Unwritten
<1>3. Bits /\ bits = PointerBits
  BY <1>1 DEF HeaderIInv, Written
<1>4. Unwritten' = U - 1 /\ WideFields' = WideFields
  BY <1>1, <1>2 DEF Unwritten, WideFields
<1> HIDE DEF U, type, more, B
<1>b. B = index + offset
  BY DEF B
<1>5. offset >= 3
  <2>1. {f \in WideFields : f > U} \subseteq WideFields
    OBVIOUS
  <2>2. Cardinality({f \in WideFields : f > U}) \in Nat
    BY <1>2, <2>1, FS_Subset, FS_CardinalityType
  <2> QED
    BY <1>3, <2>2 DEF Bits, U
<1>6. B \in 3 .. HEADER_BITS - 1
  BY <1>1, <1>2, <1>5, <1>b
<1>7. /\ bitAt' \in [U .. len_layout -> Nat] /\ bitAt'[U] = B
      /\ \A f \in U + 1 .. len_layout : bitAt'[f] = bitAt[f]
  <2>1. bitAt \in [U + 1 .. len_layout -> Nat]
    BY <1>1, <1>3 DEF Bits, U
  <2>2. \A f \in U .. len_layout : f = U \/ f \in U + 1 .. len_layout
    BY <1>2
  <2>3. U \in U .. len_layout /\ \A f \in U + 1 .. len_layout :
                                    f \in U .. len_layout /\ f # U
    BY <1>2
  <2>4. B \in Nat
    BY <1>2, <1>b
  <2> QED
    BY <1>1, <2>1, <2>2, <2>3, <2>4
<1>8. offset' = 3 + Cardinality({f \in WideFields : f > U - 1})
  <2> DEFINE S == {f \in WideFields : f > U}
             T == {f \in WideFields : f > U - 1}
  <2>1. IsFiniteSet(S) /\ Cardinality(S) \in Nat
    BY <1>2, FS_Subset, FS_CardinalityType
  <2>2. offset = 3 + Cardinality(S) /\ U \notin S
    BY <1>2, <1>3 DEF Bits, U
  <2>0. \A f \in WideFields : f > U - 1 <=> f > U \/ f = U
    BY <1>2
  <2>3. CASE type \in Wide
    <3>1. U \in WideFields
      BY <1>2, <2>3 DEF WideFields, type
    <3>2. T = S \cup {U}
      BY <2>0, <3>1, ZenonT(30)
    <3>3. Cardinality(T) = Cardinality(S) + 1
      BY <2>1, <2>2, <3>2, FS_AddElement
    <3> QED
      BY <1>1, <2>1, <2>2, <2>3, <3>3
  <2>4. CASE type \notin Wide
    <3>1. U \notin WideFields
      BY <1>2, <2>4 DEF WideFields, type
    <3>2. T = S
      BY <2>0, <3>1, ZenonT(30)
    <3> QED
      BY <1>1, <2>2, <2>4, <3>2
  <2> QED
    BY <2>3, <2>4
<1>9. \A f \in U + 1 .. len_layout :
        /\ bitAt[f] \in 3 .. HEADER_BITS - 1
        /\ Width(layout[f]) \in {1, 2}
        /\ bitAt[f] + Width(layout[f]) =
             IF f = U + 1 THEN B ELSE bitAt[f - 1]
        /\ \A g \in U + 1 .. len_layout :
             f < g => bitAt[g] + Width(layout[g]) <= bitAt[f]
  <2>1. \A f \in U + 1 .. len_layout :
          /\ bitAt[f] \in 3 .. HEADER_BITS - 1
          /\ bitAt[f] + Width(layout[f]) =
               IF f = U + 1 THEN B ELSE bitAt[f - 1]
          /\ \A g \in U + 1 .. len_layout :
               f < g => bitAt[g] + Width(layout[g]) <= bitAt[f]
    BY <1>3, <1>b DEF Bits, U
  <2>2. \A f \in U + 1 .. len_layout : Width(layout[f]) \in {1, 2}
    BY <1>2, LayoutFacts
  <2> QED
    BY <2>1, <2>2
<1>10. \A g \in U + 1 .. len_layout : bitAt[g] + Width(layout[g]) <= B
  <2> TAKE g \in U + 1 .. len_layout
  <2>1. CASE g = U + 1
    BY <1>2, <1>6, <1>9, <2>1
  <2>2. CASE g > U + 1
    <3>1. U + 1 \in U + 1 .. len_layout /\ U + 1 < g
      BY <1>2, <2>2
    <3>2. /\ bitAt[g] + Width(layout[g]) <= bitAt[U + 1]
          /\ bitAt[U + 1] + Width(layout[U + 1]) = B
          /\ bitAt[U + 1] \in Nat /\ Width(layout[U + 1]) \in {1, 2}
          /\ bitAt[g] \in Nat /\ Width(layout[g]) \in {1, 2}
      BY <1>2, <1>9, <3>1
    <3> QED
      BY <1>6, <3>2
  <2> QED
    BY <1>2, <2>1, <2>2
<1>11. \A f \in U .. len_layout :
        /\ bitAt'[f] \in 3 .. HEADER_BITS - 1
        /\ bitAt'[f] + Width(layout[f]) =
             IF f = U THEN index' + offset' ELSE bitAt'[f - 1]
        /\ \A g \in U .. len_layout :
             f < g => bitAt'[g] + Width(layout[g]) <= bitAt'[f]
  <2> TAKE f \in U .. len_layout
  <2>1. CASE f = U
    <3>1. bitAt'[f] + Width(layout[f]) = index' + offset'
      BY <1>1, <1>2, <1>6, <1>7, <1>b, <2>1 DEF type
    <3>2. \A g \in U .. len_layout : f < g => g \in U + 1 .. len_layout
      BY <1>2, <2>1
    <3>3. \A g \in U .. len_layout :
            f < g => bitAt'[g] + Width(layout[g]) <= bitAt'[f]
      BY <1>7, <1>10, <2>1, <3>2
    <3> QED
      BY <1>6, <1>7, <2>1, <3>1, <3>3
  <2>2. CASE f > U
    <3>1. f \in U + 1 .. len_layout /\ f # U
      BY <1>2, <2>2
    <3>2. f = U + 1 \/ f - 1 \in U + 1 .. len_layout
      BY <1>2, <3>1
    <3>3. bitAt'[f] + Width(layout[f]) = bitAt'[f - 1]
      <4>1. CASE f = U + 1
        <5>1. f - 1 = U
          BY <1>2, <4>1
        <5> QED
          BY <1>7, <1>9, <3>1, <4>1, <5>1
      <4>2. CASE f # U + 1
        BY <1>7, <1>9, <3>1, <3>2, <4>2
      <4> QED
        BY <4>1, <4>2
    <3>4. \A g \in U .. len_layout : f < g => g \in U + 1 .. len_layout
      BY <1>2, <2>2
    <3>5. \A g \in U .. len_layout :
            f < g => bitAt'[g] + Width(layout[g]) <= bitAt'[f]
      BY <1>7, <1>9, <3>1, <3>4
    <3> QED
      BY <1>7, <1>9, <3>1, <3>3, <3>5
  <2> QED
    BY <1>2, <2>1, <2>2
<1>12. bitAt'[len_layout] = 3
  <2>1. CASE index = 0
    <3>1. U = len_layout /\ offset = 3
      BY <1>2, <1>3, <2>1 DEF Bits
    <3> QED
      BY <1>7, <1>b, <2>1, <3>1
  <2>2. CASE index > 0
    <3>1. len_layout \in U + 1 .. len_layout /\ bitAt[len_layout] = 3
      BY <1>2, <1>3, <2>2 DEF Bits
    <3> QED
      BY <1>7, <3>1
  <2> QED
    BY <1>2, <2>1, <2>2
<1>13. Bits'
  <2>1. Unwritten' + 1 = U
    BY <1>2, <1>4
  <2>2. offset' = 3 + Cardinality({f \in WideFields' : f > Unwritten'})
    BY <1>4, <1>8
  <2>3. index' > 0 /\ index' # 0
    BY <1>1, <1>2
  <2>4. \A f \in Unwritten' + 1 .. len_layout' :
          /\ bitAt'[f] \in 3 .. HEADER_BITS - 1
          /\ bitAt'[f] + Width(layout'[f]) =
               IF f = Unwritten' + 1 THEN index' + offset' ELSE bitAt'[f - 1]
          /\ \A g \in Unwritten' + 1 .. len_layout' :
               f < g => bitAt'[g] + Width(layout'[g]) <= bitAt'[f]
    BY <1>1, <1>11, <2>1
  <2>5. bitAt' \in [Unwritten' + 1 .. len_layout' -> Nat]
    BY <1>1, <1>7, <2>1
  <2> QED
    BY <1>1, <1>12, <2>2, <2>3, <2>4, <2>5 DEF Bits
<1>14. bits' = PointerBits' /\ bits' \subseteq 3 .. HEADER_BITS - 1
  <2>1. bits = {bitAt[f] : f \in {g \in U + 1 .. len_layout : layout[g] = "*"}}
    BY <1>3 DEF PointerBits, U
  <2>2. PointerBits' =
          {bitAt'[f] : f \in {g \in U .. len_layout : layout[g] = "*"}}
    <3>1. Unwritten' + 1 = U
      BY <1>2, <1>4
    <3> QED
      BY <1>1, <3>1 DEF PointerBits
  <2>3. bits = {bitAt'[f] : f \in {g \in U + 1 .. len_layout : layout[g] = "*"}}
    BY <1>7, <2>1
  <2>4. U .. len_layout = {U} \cup (U + 1 .. len_layout)
    BY <1>2
  <2>5. CASE type = "*"
    <3>1. bits' = bits \cup {B}
      BY <1>1, <1>2, <1>6, <2>5 DEF WithBit
    <3>2. {g \in U .. len_layout : layout[g] = "*"} =
            {U} \cup {g \in U + 1 .. len_layout : layout[g] = "*"}
      BY <2>4, <2>5 DEF type
    <3>3. PointerBits' = {bitAt'[U]} \cup bits
      BY <2>2, <2>3, <3>2
    <3> QED
      BY <1>2, <1>6, <1>7, <3>1, <3>3
  <2>6. CASE type # "*"
    <3>1. bits' = bits
      BY <1>1, <2>6
    <3>2. {g \in U .. len_layout : layout[g] = "*"} =
            {g \in U + 1 .. len_layout : layout[g] = "*"}
      BY <2>4, <2>6 DEF type
    <3> QED
      BY <1>2, <2>2, <2>3, <3>1, <3>2
  <2> QED
    BY <2>5, <2>6
<1>15. HeaderTypeOK'
  BY <1>1, <1>2, <1>14 DEF HeaderIInv, HeaderTypeOK, readVars
<1>16. Reserves' /\ Sized'
  BY <1>1 DEF HeaderIInv, Reserves, Sized, Ends
<1>17. Written'
  BY <1>1, <1>13, <1>14 DEF Written
<1>18. Counted' /\ ReadSoFar' /\ InterpretsLayout'
  BY <1>1 DEF HeaderIInv, Counted, ReadSoFar, InterpretsLayout, readVars
<1> QED
  BY <1>15, <1>16, <1>17, <1>18 DEF HeaderIInv

\* The start bit is set where the loop ended, and the object is cleared.
LEMMA SetStartInv ==
  ASSUME HeaderIInv, SetStart
  PROVE  HeaderIInv'
<1> DEFINE U == Unwritten
           B == index + offset
<1>1. /\ pc = "set_layout_header" /\ pc' = "object"
      /\ ~(index < len_layout /\ index < HEADER_BITS - offset)
      /\ bits' = WithBit(B)
      /\ bitAt' = [f \in U .. len_layout |-> IF f = U THEN B ELSE bitAt[f]]
      /\ filled' \subseteq filled
      /\ layout' = layout /\ len_layout' = len_layout
      /\ UNCHANGED <<request, reserved, index, offset, endAt>>
      /\ UNCHANGED readVars
  BY DEF SetStart, requestVars, len_layout, Unwritten
<1>2. /\ len_layout \in Nat /\ index \in 0 .. len_layout /\ offset \in Nat
      /\ HEADER_BITS \in Nat /\ U = len_layout - index /\ U \in 0 .. len_layout
      /\ bits \subseteq 3 .. HEADER_BITS - 1 /\ WideFields' = WideFields
      /\ WideFields \subseteq 1 .. len_layout
      /\ IsFiniteSet(WideFields)
  BY <1>1, LayoutFacts, ObjectHeaderAssumption
     DEF HeaderIInv, HeaderTypeOK, Unwritten, WideFields
<1>3. Bits /\ bits = PointerBits
  BY <1>1 DEF HeaderIInv, Written
<1>4. Unwritten' = U
  BY <1>1 DEF Unwritten
<1> HIDE DEF U, B
<1>b. B = index + offset
  BY DEF B
<1>5. B >= 3 /\ B \in Nat
  <2>1. {f \in WideFields : f > U} \subseteq WideFields
    OBVIOUS
  <2>2. Cardinality({f \in WideFields : f > U}) \in Nat
    BY <1>2, <2>1, FS_Subset, FS_CardinalityType
  <2> QED
    BY <1>2, <1>3, <1>b, <2>2 DEF Bits, U
<1>7. /\ bitAt' \in [U .. len_layout -> Nat] /\ bitAt'[U] = B
      /\ \A f \in U + 1 .. len_layout : bitAt'[f] = bitAt[f]
  <2>1. bitAt \in [U + 1 .. len_layout -> Nat]
    BY <1>1, <1>3 DEF Bits, U
  <2>2. \A f \in U .. len_layout : f = U \/ f \in U + 1 .. len_layout
    BY <1>2
  <2>3. U \in U .. len_layout /\ \A f \in U + 1 .. len_layout :
                                    f \in U .. len_layout /\ f # U
    BY <1>2
  <2> QED
    BY <1>1, <1>5, <2>1, <2>2, <2>3
<1>8. Bits'
  <2>1. offset' = 3 + Cardinality({f \in WideFields' : f > Unwritten'})
    BY <1>1, <1>2, <1>3, <1>4 DEF Bits, U
  <2>2. \A f \in U + 1 .. len_layout :
          /\ bitAt'[f] \in 3 .. HEADER_BITS - 1
          /\ bitAt'[f] + Width(layout[f]) =
               IF f = U + 1 THEN index + offset ELSE bitAt'[f - 1]
          /\ \A g \in U + 1 .. len_layout :
               f < g => bitAt'[g] + Width(layout[g]) <= bitAt'[f]
    <3> TAKE f \in U + 1 .. len_layout
    <3>1. f = U + 1 \/ f - 1 \in U + 1 .. len_layout
      BY <1>2
    <3>2. /\ bitAt[f] \in 3 .. HEADER_BITS - 1
          /\ bitAt[f] + Width(layout[f]) =
               IF f = U + 1 THEN index + offset ELSE bitAt[f - 1]
          /\ \A g \in U + 1 .. len_layout :
               f < g => bitAt[g] + Width(layout[g]) <= bitAt[f]
      BY <1>3 DEF Bits, U
    <3> QED
      BY <1>7, <3>1, <3>2
  <2>3. /\ index = 0 => offset = 3
        /\ index > 0 => bitAt'[len_layout] = 3
    <3>1. index > 0 => len_layout \in U + 1 .. len_layout
      BY <1>2
    <3> QED
      BY <1>3, <1>7, <3>1 DEF Bits
  <2>4. /\ bitAt' \in [Unwritten' .. len_layout' -> Nat]
        /\ pc' # "set_layout_header"
    BY <1>1, <1>4, <1>7
  <2>5. \A f \in Unwritten' + 1 .. len_layout' :
          /\ bitAt'[f] \in 3 .. HEADER_BITS - 1
          /\ bitAt'[f] + Width(layout'[f]) =
               IF f = Unwritten' + 1 THEN index' + offset' ELSE bitAt'[f - 1]
          /\ \A g \in Unwritten' + 1 .. len_layout' :
               f < g => bitAt'[g] + Width(layout'[g]) <= bitAt'[f]
    <3>1. /\ layout' = layout /\ len_layout' = len_layout
          /\ index' = index /\ offset' = offset /\ Unwritten' = U
      BY <1>1, <1>4
    <3> QED
      BY <2>2, <3>1, Zenon
  <2>6. /\ index' = 0 => offset' = 3
        /\ index' > 0 => bitAt'[len_layout'] = 3
    BY <1>1, <2>3
  <2> QED
    BY <2>1, <2>4, <2>5, <2>6 DEF Bits
<1>9. /\ bits' = PointerBits' \cup ({B} \cap 0 .. HEADER_BITS - 1)
      /\ bits' \subseteq 3 .. HEADER_BITS - 1
  <2>1. PointerBits' = PointerBits
    <3>1. PointerBits =
            {bitAt[f] : f \in {g \in U + 1 .. len_layout : layout[g] = "*"}}
      BY DEF PointerBits, U
    <3>2. PointerBits' =
            {bitAt'[f] : f \in {g \in U + 1 .. len_layout : layout[g] = "*"}}
      BY <1>1, <1>4 DEF PointerBits
    <3> QED
      BY <1>7, <3>1, <3>2
  <2>2. {B} \cap 0 .. HEADER_BITS - 1 \subseteq 3 .. HEADER_BITS - 1
    BY <1>2, <1>5
  <2> QED
    BY <1>1, <1>2, <1>3, <2>1, <2>2 DEF WithBit
<1>10. Unwritten > 0 => B >= HEADER_BITS
  BY <1>1, <1>2, <1>b DEF U
<1>11. HeaderTypeOK'
  BY <1>1, <1>2, <1>9 DEF HeaderIInv, HeaderTypeOK, Stages, readVars
<1>12. Reserves' /\ Sized'
  BY <1>1 DEF HeaderIInv, Reserves, Sized, Ends, WrittenStages
<1>13. Written'
  BY <1>1, <1>4, <1>7, <1>8, <1>9, <1>10, <1>b DEF Written, U
<1>14. Counted' /\ ReadSoFar' /\ InterpretsLayout'
  BY <1>1 DEF HeaderIInv, Counted, ReadSoFar, InterpretsLayout, readVars
<1> QED
  BY <1>11, <1>12, <1>13, <1>14 DEF HeaderIInv

\* What has been written stays while the header is read or the object used.
LEMMA WrittenStays ==
  ASSUME HeaderIInv, UNCHANGED <<requestVars, writeVars, historyVars>>,
         pc \in WrittenStages \ {"set_layout_header"},
         pc' \in WrittenStages \ {"set_layout_header"}
  PROVE  Reserves' /\ Sized' /\ Written'
<1> USE DEF requestVars, writeVars, historyVars
<1>1. /\ len_layout' = len_layout /\ Unwritten' = Unwritten
      /\ WideFields' = WideFields /\ PointerBits' = PointerBits
  BY DEF len_layout, Unwritten, WideFields, PointerBits
<1>2. Reserves' /\ Sized'
  BY <1>1 DEF HeaderIInv, Reserves, Sized, Ends, WrittenStages
<1>3. Bits'
  BY <1>1 DEF HeaderIInv, Written, Bits, WrittenStages
<1>4. Written'
  BY <1>1, <1>3 DEF HeaderIInv, Written, WrittenStages
<1> QED
  BY <1>2, <1>4

LEMMA StoreInv ==
  ASSUME HeaderIInv, NEW f \in 1 .. len_layout, Store(f)
  PROVE  HeaderIInv'
<1>1. /\ pc \in {"object", "interpreted"} /\ pc' = "object"
      /\ filled' \subseteq filled \cup {f}
      /\ UNCHANGED <<requestVars, writeVars, historyVars>>
      /\ UNCHANGED readVars
  BY DEF Store
<1>2. Reserves' /\ Sized' /\ Written'
  BY <1>1, WrittenStays DEF WrittenStages
<1>3. HeaderTypeOK'
  BY <1>1 DEF HeaderIInv, HeaderTypeOK, Stages, requestVars, writeVars,
              readVars, len_layout
<1>4. Counted' /\ ReadSoFar' /\ InterpretsLayout'
  BY <1>1 DEF HeaderIInv, Counted, ReadSoFar, InterpretsLayout, readVars
<1> QED
  BY <1>2, <1>3, <1>4 DEF HeaderIInv

LEMMA AllocRawInv ==
  ASSUME HeaderIInv, NEW n \in RawSizes, AllocRaw(n)
  PROVE  HeaderIInv'
<1>1. /\ pc = "start" /\ pc' \in {"stopped", "raw"}
      /\ request' = n /\ reserved' = TotalSize(n)
      /\ pc' = "raw" => ~Refused(n)
      /\ UNCHANGED <<layout, filled, index, offset, bits, endAt, bitAt>>
      /\ UNCHANGED readVars /\ n \in Nat
  BY ObjectHeaderAssumption DEF AllocRaw, writeVars, historyVars
<1>2. HeaderTypeOK'
  BY <1>1, TotalSizeType
     DEF HeaderIInv, HeaderTypeOK, Stages, readVars, len_layout
<1>3. Reserves' /\ Sized'
  BY <1>1 DEF HeaderIInv, Reserves, Sized, Ends, WrittenStages, len_layout,
              Refused
<1> QED
  BY <1>1, <1>2, <1>3, NoHeaderYet DEF HeaderIInv, WrittenStages

LEMMA InterpretRawInv ==
  ASSUME HeaderIInv, InterpretRaw
  PROVE  HeaderIInv'
<1>1. /\ pc = "raw" /\ pc' = "raw_interpreted"
      /\ current_offset' = request % (SIZE_LIMIT \div 8)
      /\ count' = 0 /\ capacity' = 0 /\ pointer_array' = <<>>
      /\ UNCHANGED <<layout, request, reserved, filled, index, offset, bits,
                     endAt, bitAt, i, padding_cleared>>
  BY DEF InterpretRaw, requestVars, writeVars, historyVars
<1>2. current_offset' \in Nat
  <2>1. SIZE_LIMIT \in Nat /\ SIZE_LIMIT >= 8 /\ request \in Nat
    BY ObjectHeaderAssumption DEF HeaderIInv, HeaderTypeOK
  <2>2. SIZE_LIMIT \div 8 \in Nat /\ SIZE_LIMIT \div 8 > 0
    BY <2>1
  <2> QED
    BY <1>1, <2>1, <2>2
<1>3. HeaderTypeOK'
  <2>1. 0 \in 0 .. SIZE_LIMIT - 1 /\ <<>> \in Seq(Nat)
    BY ObjectHeaderAssumption
  <2> QED
    BY <1>1, <1>2, <2>1 DEF HeaderIInv, HeaderTypeOK, Stages, len_layout
<1>4. Reserves' /\ Sized'
  BY <1>1 DEF HeaderIInv, Reserves, Sized, Ends, WrittenStages, len_layout,
              Refused
<1>5. Written' /\ Counted' /\ ReadSoFar' /\ InterpretsLayout'
  BY <1>1 DEF Written, Counted, ReadSoFar, InterpretsLayout, WrittenStages
<1> QED
  BY <1>3, <1>4, <1>5 DEF HeaderIInv

\* In a header that the layout fits in, the bits of the fields follow each
\* other, from the start bit down to the last field at bit 3, and only those
\* of pointers are ones.
LEMMA Laid ==
  ASSUME HeaderIInv, pc \in WrittenStages \ {"set_layout_header"}, Fits
  PROVE  /\ len_layout \in Nat
         /\ \A f \in 0 .. len_layout : bitAt[f] \in 3 .. HEADER_BITS - 1
         /\ bitAt[len_layout] = 3
         /\ \A f \in 1 .. len_layout :
              bitAt[f - 1] = bitAt[f] + Width(layout[f])
         /\ \A f, g \in 0 .. len_layout : f < g => bitAt[g] < bitAt[f]
         /\ bits = {bitAt[0]} \cup
                     {bitAt[f] : f \in {g \in 1 .. len_layout :
                                          layout[g] = "*"}}
<1> DEFINE U == Unwritten
           B == index + offset
           above == Cardinality({f \in WideFields : f > U})
<1>1. /\ len_layout \in Nat /\ index \in 0 .. len_layout /\ offset \in Nat
      /\ HEADER_BITS \in Nat /\ U = len_layout - index /\ U \in 0 .. len_layout
      /\ bits \subseteq 3 .. HEADER_BITS - 1
      /\ IsFiniteSet(WideFields) /\ Cardinality(WideFields) \in Nat
      /\ WideFields \subseteq 1 .. len_layout
      /\ \A f \in 1 .. len_layout : Width(layout[f]) \in {1, 2}
  BY LayoutFacts, ObjectHeaderAssumption DEF HeaderIInv, HeaderTypeOK, Unwritten
<1>2. /\ Bits /\ bitAt[U] = B /\ (U > 0 => B >= HEADER_BITS)
      /\ bits = PointerBits \cup ({B} \cap 0 .. HEADER_BITS - 1)
  BY DEF HeaderIInv, Written, WrittenStages
<1> HIDE DEF U, B
<1>b. B = index + offset
  BY DEF B
<1>3. above \in Nat /\ above <= Cardinality(WideFields)
  <2>1. {f \in WideFields : f > U} \subseteq WideFields
    OBVIOUS
  <2> QED
    BY <1>1, <2>1, FS_Subset, FS_CardinalityType
<1>4. offset = 3 + above
  BY <1>2 DEF Bits, U
<1> HIDE DEF above
<1>5. B < HEADER_BITS /\ B >= 3 /\ B \in Nat
  BY <1>1, <1>3, <1>4, <1>b DEF Fits
<1>6. U = 0 /\ index = len_layout
  BY <1>1, <1>2, <1>5
<1>7. /\ bitAt[0] = B
      /\ \A f \in 1 .. len_layout :
           /\ bitAt[f] \in 3 .. HEADER_BITS - 1
           /\ bitAt[f] + Width(layout[f]) =
                IF f = 1 THEN B ELSE bitAt[f - 1]
           /\ \A g \in 1 .. len_layout :
                f < g => bitAt[g] + Width(layout[g]) <= bitAt[f]
      /\ index = 0 => offset = 3
      /\ index > 0 => bitAt[len_layout] = 3
  <2>1. Unwritten + 1 = 1 /\ bitAt[0] = B
    BY <1>2, <1>6 DEF U
  <2> QED
    BY <1>2, <1>b, <2>1 DEF Bits
<1>8. \A f \in 1 .. len_layout : bitAt[f - 1] = bitAt[f] + Width(layout[f])
  BY <1>7
<1>9. \A f \in 0 .. len_layout : bitAt[f] \in 3 .. HEADER_BITS - 1
  <2> TAKE f \in 0 .. len_layout
  <2>1. f = 0 \/ f \in 1 .. len_layout
    BY <1>1
  <2> QED
    BY <1>1, <1>5, <1>7, <2>1
<1>10. bitAt[len_layout] = 3
  BY <1>1, <1>6, <1>7, <1>b
<1>11. \A f, g \in 0 .. len_layout : f < g => bitAt[g] < bitAt[f]
  <2> SUFFICES ASSUME NEW f \in 0 .. len_layout, NEW g \in 0 .. len_layout,
                      f < g
               PROVE  bitAt[g] < bitAt[f]
    OBVIOUS
  <2>1. g \in 1 .. len_layout /\ bitAt[g] \in Nat /\ Width(layout[g]) \in {1, 2}
    BY <1>1, <1>9
  <2>2. CASE f \in 1 .. len_layout
    <3>1. bitAt[g] + Width(layout[g]) <= bitAt[f] /\ bitAt[f] \in Nat
      BY <1>7, <1>9, <2>1, <2>2
    <3> QED
      BY <2>1, <3>1
  <2>3. CASE f = 0
    <3>1. 1 \in 1 .. len_layout
      BY <1>1, <2>1
    <3>2. bitAt[0] = bitAt[1] + Width(layout[1]) /\ bitAt[1] \in Nat
          /\ Width(layout[1]) \in {1, 2}
      BY <1>1, <1>7, <3>1
    <3>3. g = 1 \/ bitAt[g] + Width(layout[g]) <= bitAt[1]
      BY <1>7, <2>1, <3>1
    <3> QED
      BY <2>1, <2>3, <3>2, <3>3
  <2> QED
    BY <1>1, <2>2, <2>3
<1>12. bits = {bitAt[0]} \cup
                {bitAt[f] : f \in {g \in 1 .. len_layout : layout[g] = "*"}}
  <2>1. Unwritten + 1 = 1
    BY <1>6 DEF U
  <2>2. {B} \cap 0 .. HEADER_BITS - 1 = {bitAt[0]}
    BY <1>1, <1>5, <1>7
  <2> QED
    BY <1>2, <2>1, <2>2 DEF PointerBits
<1> QED
  BY <1>1, <1>8, <1>9, <1>10, <1>11, <1>12

\* Where the fields of an object end
LEMMA Ending ==
  ASSUME HeaderIInv, pc \in WrittenStages
  PROVE  /\ endAt[0] = 0 /\ request = endAt[len_layout]
         /\ \A f \in 0 .. len_layout : endAt[f] \in Nat
         /\ \A f \in 1 .. len_layout : 
              endAt[f] = endAt[f - 1] + FieldSize(layout[f])
         /\ \A f, g \in 0 .. len_layout : f < g => endAt[f] < endAt[g]
BY DEF HeaderIInv, Sized, Ends, WrittenStages

LEMMA InterpretInv ==
  ASSUME HeaderIInv, Interpret
  PROVE  HeaderIInv'
<1>1. /\ pc \in {"object", "interpreted"} /\ pc' = "interpret_header"
      /\ capacity' = IF Ones = 0 THEN SIZE_LIMIT - 1 ELSE Ones - 1
      /\ count' = capacity' /\ i' = HEADER_BITS - 1
      /\ current_offset' = 0 /\ padding_cleared' = FALSE
      /\ pointer_array' = <<>> /\ filled' = filled
      /\ UNCHANGED <<requestVars, writeVars, historyVars>>
  BY DEF Interpret
<1>2. /\ layout' = layout /\ len_layout' = len_layout /\ bits' = bits
      /\ bitAt' = bitAt /\ bits \subseteq 3 .. HEADER_BITS - 1
      /\ HEADER_BITS \in Nat /\ HEADER_BITS >= 8 /\ SIZE_LIMIT \in Nat
      /\ SIZE_LIMIT > 0
  BY <1>1, ObjectHeaderAssumption
     DEF requestVars, writeVars, historyVars, len_layout, HeaderIInv,
         HeaderTypeOK
<1>3. Reserves' /\ Sized' /\ Written'
  BY <1>1, WrittenStays DEF WrittenStages
<1>4. /\ Ones \in 0 .. SIZE_LIMIT - 1 /\ (Ones = 0 <=> bits = {})
      /\ Ones = Cardinality(bits)
  BY <1>2, BitsFinite DEF Ones
<1>5. capacity' \in 0 .. SIZE_LIMIT - 1
  BY <1>1, <1>2, <1>4
<1>6. HeaderTypeOK'
  <2>1. i' \in 0 .. HEADER_BITS - 1 /\ current_offset' \in Nat
    BY <1>1, <1>2
  <2>2. pointer_array' \in Seq(Nat)
    <3>1. <<>> \in Seq(Nat)
      OBVIOUS
    <3> QED
      BY <1>1, <3>1, Zenon
  <2>3. padding_cleared' \in BOOLEAN
    BY <1>1, Zenon
  <2> QED
    BY <1>1, <1>2, <1>5, <2>1, <2>2, <2>3
       DEF HeaderIInv, HeaderTypeOK, Stages, requestVars, writeVars
<1>7. Counted'
  <2>1. Len(pointer_array') = 0
    BY <1>1
  <2>2. \A b \in bits' : b <= i'
    BY <1>1, <1>2
  <2>3. bits' # {} => count' = Cardinality(bits') - 1
    BY <1>1, <1>2, <1>4
  <2>4. i' >= 2 /\ count' <= capacity'
    BY <1>1, <1>2, <1>5
  <2> QED
    BY <1>1, <1>5, <2>1, <2>2, <2>3, <2>4 DEF Counted
<1>8. ReadSoFar'
  <2> SUFFICES ASSUME Fits'
               PROVE  i' >= bitAt'[0]
    BY <1>1 DEF ReadSoFar
  <2>1. Fits
    BY <1>2 DEF Fits, WideFields
  <2>2. 0 \in 0 .. len_layout /\ bitAt[0] \in 3 .. HEADER_BITS - 1
    BY <1>1, <2>1, Laid DEF WrittenStages
  <2> QED
    BY <1>1, <1>2, <2>2
<1>9. InterpretsLayout'
  BY <1>1 DEF InterpretsLayout
<1> QED
  BY <1>3, <1>6, <1>7, <1>8, <1>9 DEF HeaderIInv

\* How many ones are left, below a bit and with it
LEMMA OnesBelow ==
  ASSUME NEW B \in SUBSET (3 .. HEADER_BITS - 1), NEW k \in Nat
  PROVE  /\ Cardinality({b \in B : b <= k}) \in Nat
         /\ Cardinality({b \in B : b <= k - 1}) \in Nat
         /\ k \in B => Cardinality({b \in B : b <= k}) =
                         Cardinality({b \in B : b <= k - 1}) + 1
         /\ k \notin B => Cardinality({b \in B : b <= k}) =
                            Cardinality({b \in B : b <= k - 1})
<1> DEFINE S == {b \in B : b <= k - 1}
           T == {b \in B : b <= k}
<1>1. IsFiniteSet(B)
  BY BitsFinite
<1>2. IsFiniteSet(S) /\ IsFiniteSet(T)
  BY <1>1, FS_Subset
<1>3. Cardinality(T) \in Nat /\ Cardinality(S) \in Nat
  BY <1>2, FS_CardinalityType
<1>4. \A b \in B : b <= k <=> b <= k - 1 \/ b = k
  OBVIOUS
<1>5. ASSUME k \in B PROVE Cardinality(T) = Cardinality(S) + 1
  <2>1. k \notin S
    OBVIOUS
  <2>2. T = S \cup {k}
    BY <1>4, <1>5, ZenonT(30)
  <2> QED
    BY <1>2, <2>1, <2>2, FS_AddElement
<1>6. ASSUME k \notin B PROVE Cardinality(T) = Cardinality(S)
  <2>1. T = S
    BY <1>4, <1>6, ZenonT(30)
  <2> QED
    BY <2>1
<1> QED
  BY <1>3, <1>5, <1>6

LEMMA SkipPaddingInv ==
  ASSUME HeaderIInv, SkipPadding
  PROVE  HeaderIInv'
<1>1. /\ pc = "interpret_header" /\ pc' = pc /\ i > 2 /\ i \notin bits
      /\ padding_cleared = FALSE /\ padding_cleared' = FALSE /\ i' = i - 1
      /\ filled' = filled /\ current_offset' = current_offset
      /\ count' = count /\ capacity' = capacity
      /\ pointer_array' = pointer_array
      /\ UNCHANGED <<requestVars, writeVars, historyVars>>
  BY DEF SkipPadding, HeaderIInv, HeaderTypeOK
<1>2. /\ layout' = layout /\ len_layout' = len_layout /\ bits' = bits
      /\ bitAt' = bitAt /\ bits \subseteq 3 .. HEADER_BITS - 1
      /\ i \in 0 .. HEADER_BITS - 1
  BY <1>1 DEF requestVars, writeVars, historyVars, len_layout, HeaderIInv,
              HeaderTypeOK
<1>3. Reserves' /\ Sized' /\ Written'
  BY <1>1, WrittenStays DEF WrittenStages
<1>4. HeaderTypeOK'
  <2>1. i' \in 0 .. HEADER_BITS - 1
    BY <1>1, <1>2, ObjectHeaderAssumption
  <2> QED
    BY <1>1, <1>2, <2>1 DEF HeaderIInv, HeaderTypeOK, requestVars, writeVars
<1>5. Counted'
  <2>1. /\ Len(pointer_array) <= capacity /\ count <= capacity
        /\ pointer_array = <<>> /\ \A b \in bits : b <= i
        /\ bits # {} => count = Cardinality(bits) - 1
    BY <1>1 DEF HeaderIInv, Counted
  <2>2. \A b \in bits : b <= i'
    BY <1>1, <1>2, <2>1
  <2>3. i' >= 2
    BY <1>1, <1>2
  <2> QED
    BY <1>1, <1>2, <2>1, <2>2, <2>3 DEF Counted
<1>6. ReadSoFar'
  <2> SUFFICES ASSUME Fits'
               PROVE  i' >= bitAt'[0] /\ current_offset' = 0
                        /\ pointer_array' = <<>>
    BY <1>1 DEF ReadSoFar
  <2>1. Fits
    BY <1>2 DEF Fits, WideFields
  <2>2. i >= bitAt[0] /\ current_offset = 0 /\ pointer_array = <<>>
    BY <1>1, <2>1 DEF HeaderIInv, ReadSoFar
  <2>3. bitAt[0] \in bits /\ bitAt[0] \in Nat
    BY <1>1, <1>2, <2>1, Laid DEF WrittenStages
  <2> QED
    BY <1>1, <1>2, <2>2, <2>3
<1>7. InterpretsLayout'
  BY <1>1 DEF InterpretsLayout
<1> QED
  BY <1>3, <1>4, <1>5, <1>6, <1>7 DEF HeaderIInv

LEMMA ReadStartInv ==
  ASSUME HeaderIInv, ReadStart
  PROVE  HeaderIInv'
<1>1. /\ pc = "interpret_header" /\ pc' = pc /\ i > 2 /\ i \in bits
      /\ padding_cleared = FALSE /\ padding_cleared' = TRUE /\ i' = i - 1
      /\ filled' = filled /\ current_offset' = current_offset
      /\ count' = count /\ capacity' = capacity
      /\ pointer_array' = pointer_array
      /\ UNCHANGED <<requestVars, writeVars, historyVars>>
  BY DEF ReadStart, HeaderIInv, HeaderTypeOK
<1>2. /\ layout' = layout /\ len_layout' = len_layout /\ bits' = bits
      /\ bitAt' = bitAt /\ endAt' = endAt
      /\ bits \in SUBSET (3 .. HEADER_BITS - 1)
      /\ i \in 0 .. HEADER_BITS - 1 /\ i \in Nat
  BY <1>1 DEF requestVars, writeVars, historyVars, len_layout, HeaderIInv,
              HeaderTypeOK
<1>3. Reserves' /\ Sized' /\ Written'
  BY <1>1, WrittenStays DEF WrittenStages
<1>4. HeaderTypeOK'
  <2>1. i' \in 0 .. HEADER_BITS - 1
    BY <1>1, <1>2, ObjectHeaderAssumption
  <2> QED
    BY <1>1, <1>2, <2>1 DEF HeaderIInv, HeaderTypeOK, requestVars, writeVars
<1>5. Counted'
  <2>1. /\ Len(pointer_array) <= capacity /\ count <= capacity
        /\ pointer_array = <<>> /\ \A b \in bits : b <= i
        /\ count = Cardinality(bits) - 1
    BY <1>1 DEF HeaderIInv, Counted
  <2>2. bits = {b \in bits : b <= i}
    BY <2>1
  <2>3. Cardinality(bits) = Cardinality({b \in bits : b <= i - 1}) + 1
        /\ Cardinality(bits) \in Nat
    BY <1>1, <1>2, <2>2, OnesBelow
  <2>4. OnesLeft' = Cardinality(bits) - 1
    <3>1. OnesLeft' = Cardinality({b \in bits : b <= i - 1})
      BY <1>1, <1>2 DEF OnesLeft
    <3>2. Cardinality({b \in bits : b <= i - 1}) \in Nat
      BY <1>1, <1>2, OnesBelow
    <3> QED
      BY <2>3, <3>1, <3>2
  <2>5. Len(pointer_array') = 0 /\ i' >= 2
    BY <1>1, <1>2, <2>1
  <2>6. count' = Len(pointer_array') + OnesLeft'
    BY <1>1, <2>1, <2>3, <2>4, <2>5
  <2> QED
    BY <1>1, <1>2, <2>1, <2>5, <2>6 DEF Counted
<1>6. ReadSoFar'
  <2> SUFFICES ASSUME Fits'
               PROVE  \E p \in 0 .. len_layout' : ReadUpTo(p)'
    BY <1>1 DEF ReadSoFar
  <2>1. Fits
    BY <1>2 DEF Fits, WideFields
  <2>2. i >= bitAt[0] /\ current_offset = 0 /\ pointer_array = <<>>
    BY <1>1, <2>1 DEF HeaderIInv, ReadSoFar
  <2>3. /\ len_layout \in Nat /\ bitAt[0] \in Nat
        /\ \A f \in 1 .. len_layout : bitAt[f] < bitAt[0] /\ bitAt[f] \in Nat
        /\ bits = {bitAt[0]} \cup
                    {bitAt[f] : f \in {g \in 1 .. len_layout :
                                         layout[g] = "*"}}
    BY <1>1, <2>1, Laid DEF WrittenStages
  <2>4. i = bitAt[0]
    <3>1. CASE \E f \in 1 .. len_layout : i = bitAt[f]
      BY <1>2, <2>2, <2>3, <3>1
    <3> QED
      BY <1>1, <2>3, <3>1
  <2>5. endAt[0] = 0
    BY <1>1, Ending DEF WrittenStages
  <2>6. ReadUpTo(0)'
    <3>1. {g \in Pointers' : g <= 0} = {}
      <4>1. Pointers' \subseteq 1 .. len_layout
        BY <1>1, <1>2 DEF Pointers, HeaderIInv, HeaderTypeOK
      <4>2. \A g \in 1 .. len_layout : ~(g <= 0)
        BY <2>3
      <4> QED
        BY <4>1, <4>2, Zenon
    <3>2. Len(pointer_array') = 0
      BY <1>1, <2>2
    <3>3. {pointer_array'[k] : k \in 1 .. Len(pointer_array')} = {}
      BY <3>2
    <3>4. i' = bitAt'[0] - 1 /\ current_offset' = endAt'[0]
      BY <1>1, <1>2, <2>2, <2>4, <2>5
    <3> QED
      BY <3>1, <3>2, <3>3, <3>4 DEF ReadUpTo
  <2> QED
    BY <1>2, <2>3, <2>6
<1>7. InterpretsLayout'
  BY <1>1 DEF InterpretsLayout
<1> QED
  BY <1>3, <1>4, <1>5, <1>6, <1>7 DEF HeaderIInv

\* A bit that is read after the start bit is of the field after the last one
\* that was read; a one is a pointer, which is at the current offset.
LEMMA NextField ==
  ASSUME HeaderIInv, pc = "interpret_header", i > 2, Fits,
         NEW p \in 0 .. len_layout, ReadUpTo(p)
  PROVE  /\ p + 1 \in 1 .. len_layout
         /\ i \in bits =>
              /\ layout[p + 1] = "*" /\ i - 1 = bitAt[p + 1] - 1
              /\ current_offset = endAt[p] /\ current_offset + 8 = endAt[p + 1]
              /\ PointersAt(current_offset) = {p + 1}
         /\ i \notin bits =>
              \/ /\ layout[p + 1] # "*" /\ i - 1 = bitAt[p + 1] - 1
                 /\ current_offset + 4 = endAt[p + 1]
              \/ /\ layout[p + 1] \in Wide /\ i - 1 = bitAt[p + 1]
                 /\ current_offset = endAt[p]
<1> DEFINE q == p + 1
<1>1. /\ len_layout \in Nat
      /\ \A f \in 0 .. len_layout : bitAt[f] \in Nat /\ bitAt[f] >= 3
      /\ bitAt[len_layout] = 3
      /\ \A f \in 1 .. len_layout :
           bitAt[f - 1] = bitAt[f] + Width(layout[f])
      /\ \A f, g \in 0 .. len_layout : f < g => bitAt[g] < bitAt[f]
      /\ bits = {bitAt[0]} \cup
                  {bitAt[f] : f \in {g \in 1 .. len_layout : layout[g] = "*"}}
  <2>1. \A f \in 0 .. len_layout : bitAt[f] \in 3 .. HEADER_BITS - 1
    BY Laid DEF WrittenStages
  <2>2. \A b \in 3 .. HEADER_BITS - 1 : b \in Nat /\ b >= 3
    BY ObjectHeaderAssumption
  <2> QED
    BY <2>1, <2>2, Laid DEF WrittenStages
<1>2. /\ i \in Nat
      /\ \A f \in 0 .. len_layout : endAt[f] \in Nat
      /\ \A f \in 1 .. len_layout :
           endAt[f] = endAt[f - 1] + FieldSize(layout[f])
      /\ \A f, g \in 0 .. len_layout : f < g => endAt[f] < endAt[g]
  BY Ending DEF WrittenStages, HeaderIInv, HeaderTypeOK
<1>3. \A f \in 1 .. len_layout :
        /\ Width(layout[f]) \in {1, 2} /\ FieldSize(layout[f]) \in {4, 8}
        /\ layout[f] = "*" => FieldSize(layout[f]) = 8 /\ Width(layout[f]) = 1
        /\ Width(layout[f]) = 2 <=> layout[f] \in Wide
        /\ layout[f] \in Wide => FieldSize(layout[f]) = 8
        /\ layout[f] \notin Wide /\ layout[f] # "*" => FieldSize(layout[f]) = 4
  BY LayoutFacts DEF HeaderIInv, HeaderTypeOK
<1>4. \/ i = bitAt[p] - 1 /\ current_offset = endAt[p]
      \/ /\ q \in 1 .. len_layout /\ layout[q] \in Wide
         /\ i = bitAt[q] /\ current_offset = endAt[p] + 4
  BY <1>1 DEF ReadUpTo
<1>5. q \in 1 .. len_layout
  <2>1. CASE p = len_layout
    BY <1>1, <1>2, <1>4, <2>1
  <2>2. CASE p < len_layout
    BY <1>1, <2>2
  <2> QED
    BY <1>1, <2>1, <2>2
<1>6. /\ bitAt[p] = bitAt[q] + Width(layout[q])
      /\ endAt[q] = endAt[p] + FieldSize(layout[q])
      /\ bitAt[p] \in Nat /\ bitAt[q] \in Nat /\ endAt[p] \in Nat
      /\ q \in 0 .. len_layout
  <2>1. q - 1 = p
    OBVIOUS
  <2> QED
    BY <1>1, <1>2, <1>5, <2>1
<1>w. layout[q] = "*" => layout[q] \notin Wide
  BY DEF Wide
\* No other field has a bit between those of p and of q.
<1>7. ASSUME i \in bits PROVE i = bitAt[q] /\ layout[q] = "*"
  <2>1. i < bitAt[p] /\ i >= bitAt[q]
    BY <1>2, <1>3, <1>4, <1>5, <1>6
  <2>2. i # bitAt[0]
    <3>1. 0 \in 0 .. len_layout /\ (p = 0 \/ 0 < p)
      BY <1>1
    <3> QED
      BY <1>1, <1>2, <2>1, <3>1
  <2>3. PICK f \in 1 .. len_layout : i = bitAt[f] /\ layout[f] = "*"
    BY <1>1, <1>7, <2>2
  <2>4. f \in 0 .. len_layout
    BY <1>1
  <2>5. ~(f < p) /\ f # p
    BY <1>1, <1>6, <2>1, <2>3, <2>4
  <2>6. ~(q < f)
    BY <1>1, <1>6, <2>1, <2>3, <2>4
  <2>7. f = q
    BY <2>4, <2>5, <2>6
  <2> QED
    BY <2>3, <2>7
<1>8. ASSUME layout[q] = "*", i = bitAt[q] PROVE i \in bits
  BY <1>1, <1>5, <1>8
<1>9. ASSUME i \in bits
      PROVE  /\ layout[q] = "*" /\ i - 1 = bitAt[q] - 1
             /\ current_offset = endAt[p] /\ current_offset + 8 = endAt[q]
             /\ PointersAt(current_offset) = {q}
  <2>1. layout[q] = "*" /\ i = bitAt[q] /\ layout[q] \notin Wide
    BY <1>7, <1>9, <1>w
  <2>2. current_offset = endAt[p] /\ current_offset + 8 = endAt[q]
    BY <1>3, <1>4, <1>5, <1>6, <2>1
  <2>3. \A f \in 1 .. len_layout : endAt[f - 1] = endAt[p] <=> f = q
    <3> TAKE f \in 1 .. len_layout
    <3>1. f - 1 \in 0 .. len_layout /\ (f - 1 < p \/ f = q \/ p < f - 1)
      BY <1>1
    <3>2. endAt[f - 1] \in Nat
      BY <1>2, <3>1
    <3> QED
      BY <1>2, <1>6, <3>1, <3>2
  <2>4. PointersAt(current_offset) = {q}
    BY <1>5, <2>1, <2>2, <2>3 DEF PointersAt
  <2> QED
    BY <2>1, <2>2, <2>4
<1>10. ASSUME i \notin bits
       PROVE  \/ /\ layout[q] # "*" /\ i - 1 = bitAt[q] - 1
                 /\ current_offset + 4 = endAt[q]
              \/ /\ layout[q] \in Wide /\ i - 1 = bitAt[q]
                 /\ current_offset = endAt[p]
  <2>1. CASE layout[q] = "*"
    <3>1. i = bitAt[q]
      BY <1>2, <1>3, <1>4, <1>5, <1>6, <1>w, <2>1
    <3> QED
      BY <1>8, <1>10, <2>1, <3>1
  <2>2. CASE layout[q] \in Wide
    <3>1. Width(layout[q]) = 2 /\ FieldSize(layout[q]) = 8
      BY <1>3, <1>5, <2>2
    <3> QED
      BY <1>2, <1>4, <1>6, <1>w, <2>2, <3>1
  <2>3. CASE layout[q] # "*" /\ layout[q] \notin Wide
    <3>1. Width(layout[q]) = 1 /\ FieldSize(layout[q]) = 4
      BY <1>3, <1>5, <2>3
    <3> QED
      BY <1>2, <1>4, <1>6, <2>3, <3>1
  <2> QED
    BY <2>1, <2>2, <2>3
<1> QED
  BY <1>5, <1>9, <1>10

\* A round of the loop after the start bit: the array has room for as many
\* pointers as there are ones left, each of which is found or taken off count.
LEMMA ReadingRound ==
  ASSUME HeaderIInv, pc = "interpret_header", pc' = pc, i > 2, i' = i - 1,
         padding_cleared, padding_cleared' = padding_cleared,
         capacity' = capacity, filled' = filled,
         UNCHANGED <<requestVars, writeVars, historyVars>>,
         NEW found \in {0, 1}, NEW null \in {0, 1},
         found + null = (IF i \in bits THEN 1 ELSE 0),
         count' = count - null,
         Len(pointer_array') = Len(pointer_array) + found,
         pointer_array' \in Seq(Nat), current_offset' \in Nat
  PROVE  /\ HeaderTypeOK' /\ Reserves' /\ Sized' /\ Written' /\ Counted'
         /\ InterpretsLayout'
         /\ layout' = layout /\ len_layout' = len_layout /\ bitAt' = bitAt
         /\ endAt' = endAt /\ Fits' = Fits /\ Pointers' = Pointers
<1>2. /\ layout' = layout /\ len_layout' = len_layout /\ bits' = bits
      /\ bitAt' = bitAt /\ endAt' = endAt /\ request' = request
      /\ reserved' = reserved /\ index' = index /\ offset' = offset
      /\ Fits' = Fits /\ Pointers' = Pointers
  BY DEF requestVars, writeVars, historyVars, len_layout, Fits, WideFields,
         Pointers
<1>3. /\ bits \in SUBSET (3 .. HEADER_BITS - 1) /\ i \in Nat
      /\ i \in 0 .. HEADER_BITS - 1 /\ count \in 0 .. SIZE_LIMIT - 1
      /\ capacity \in 0 .. SIZE_LIMIT - 1 /\ pointer_array \in Seq(Nat)
  BY DEF HeaderIInv, HeaderTypeOK
<1>4. /\ Len(pointer_array) <= capacity /\ count <= capacity
      /\ bits # {} /\ count = Len(pointer_array) + OnesLeft
  BY DEF HeaderIInv, Counted
<1>5. /\ OnesLeft \in Nat /\ OnesLeft' \in Nat
      /\ OnesLeft = OnesLeft' + found + null
  <2>1. OnesLeft' = Cardinality({b \in bits : b <= i - 1})
    BY <1>2 DEF OnesLeft
  <2>2. Cardinality({b \in bits : b <= i - 1}) \in Nat
        /\ OnesLeft \in Nat
    BY <1>3, OnesBelow DEF OnesLeft
  <2>3. CASE i \in bits
    <3>1. OnesLeft = Cardinality({b \in bits : b <= i - 1}) + 1
      BY <1>3, <2>3, OnesBelow DEF OnesLeft
    <3> QED
      BY <2>1, <2>2, <2>3, <3>1
  <2>4. CASE i \notin bits
    <3>1. OnesLeft = Cardinality({b \in bits : b <= i - 1})
      BY <1>3, <2>4, OnesBelow DEF OnesLeft
    <3> QED
      BY <2>1, <2>2, <2>4, <3>1
  <2> QED
    BY <2>3, <2>4
<1>6. Len(pointer_array) \in Nat
  BY <1>3
<1>7. /\ count' \in 0 .. SIZE_LIMIT - 1 /\ count' <= capacity
      /\ count' = Len(pointer_array') + OnesLeft'
      /\ Len(pointer_array') <= capacity
  <2>1. /\ SIZE_LIMIT \in Nat /\ count \in Nat /\ capacity \in Nat
        /\ capacity <= SIZE_LIMIT - 1
    BY <1>3, ObjectHeaderAssumption
  <2> DEFINE l == Len(pointer_array)
             m == Len(pointer_array')
             o == OnesLeft'
  <2>2. /\ l \in Nat /\ m = l + found /\ o \in Nat /\ m \in Nat
        /\ count = l + (o + found + null) /\ count' = count - null
    BY <1>4, <1>5, <1>6
  <2> HIDE DEF l, m, o
  <2>3. count' = m + o /\ count' <= count /\ count' \in Nat
    <3>1. CASE null = 0
      BY <2>1, <2>2, <3>1
    <3>2. CASE null = 1
      BY <2>1, <2>2, <3>2
    <3> QED
      BY <3>1, <3>2
  <2>5. count' <= capacity /\ m <= capacity
    BY <1>4, <2>1, <2>2, <2>3
  <2> QED
    BY <2>1, <2>3, <2>5 DEF m, o
<1>8. i' \in 0 .. HEADER_BITS - 1 /\ i' >= 2
  BY <1>3, ObjectHeaderAssumption
<1>9. HeaderTypeOK'
  BY <1>2, <1>7, <1>8 DEF HeaderIInv, HeaderTypeOK
<1>10. Reserves' /\ Sized' /\ Written'
  BY WrittenStays DEF WrittenStages
<1>11. Counted'
  BY <1>2, <1>4, <1>7, <1>8 DEF Counted
<1>12. InterpretsLayout'
  BY DEF InterpretsLayout
<1> QED
  BY <1>2, <1>9, <1>10, <1>11, <1>12

\* The pointers up to the next field
LEMMA PointersUpTo ==
  ASSUME HeaderIInv, NEW p \in Nat
  PROVE  {g \in Pointers : g <= p + 1} =
           IF p + 1 \in Pointers THEN {g \in Pointers : g <= p} \cup {p + 1}
           ELSE {g \in Pointers : g <= p}
<1>1. Pointers \subseteq Nat
  <2>1. filled \subseteq 1 .. len_layout
    BY DEF HeaderIInv, HeaderTypeOK
  <2>2. 1 .. len_layout \subseteq Nat
    OBVIOUS
  <2> QED
    BY <2>1, <2>2, Zenon DEF Pointers
<1>2. \A g \in Pointers : g <= p + 1 <=> g <= p \/ g = p + 1
  BY <1>1
<1>3. CASE p + 1 \in Pointers
  <2>1. {g \in Pointers : g <= p + 1} = {g \in Pointers : g <= p} \cup {p + 1}
    BY <1>2, <1>3, ZenonT(30)
  <2> QED
    BY <1>3, <2>1
<1>4. CASE p + 1 \notin Pointers
  <2>1. {g \in Pointers : g <= p + 1} = {g \in Pointers : g <= p}
    BY <1>2, <1>4, ZenonT(30)
  <2> QED
    BY <1>4, <2>1
<1> QED
  BY <1>3, <1>4

LEMMA ReadNullInv ==
  ASSUME HeaderIInv, ReadNull
  PROVE  HeaderIInv'
<1>1. /\ pc = "interpret_header" /\ pc' = pc /\ i > 2 /\ i \in bits
      /\ padding_cleared /\ padding_cleared' = padding_cleared /\ i' = i - 1
      /\ PointersAt(current_offset) \cap filled = {}
      /\ count' = count - 1 /\ current_offset' = current_offset + 8
      /\ filled' = filled /\ capacity' = capacity
      /\ pointer_array' = pointer_array
      /\ UNCHANGED <<requestVars, writeVars, historyVars>>
  BY DEF ReadNull
<1>2. /\ pointer_array' \in Seq(Nat) /\ current_offset' \in Nat
      /\ Len(pointer_array') = Len(pointer_array) + 0
  BY <1>1 DEF HeaderIInv, HeaderTypeOK
<1>3. /\ HeaderTypeOK' /\ Reserves' /\ Sized' /\ Written' /\ Counted'
      /\ InterpretsLayout'
      /\ layout' = layout /\ len_layout' = len_layout /\ bitAt' = bitAt
      /\ endAt' = endAt /\ Fits' = Fits /\ Pointers' = Pointers
  <2>1. 0 + 1 = (IF i \in bits THEN 1 ELSE 0) /\ 0 \in {0, 1} /\ 1 \in {0, 1}
    BY <1>1
  <2> QED
    BY <1>1, <1>2, <2>1, ReadingRound
<1>4. ReadSoFar'
  <2> SUFFICES ASSUME Fits'
               PROVE  \E p \in 0 .. len_layout' : ReadUpTo(p)'
    BY <1>1 DEF ReadSoFar
  <2>1. PICK p \in 0 .. len_layout : ReadUpTo(p)
    BY <1>1, <1>3 DEF HeaderIInv, ReadSoFar
  <2>2. /\ p + 1 \in 1 .. len_layout /\ layout[p + 1] = "*"
        /\ i - 1 = bitAt[p + 1] - 1 /\ current_offset + 8 = endAt[p + 1]
        /\ PointersAt(current_offset) = {p + 1}
    BY <1>1, <1>3, <2>1, NextField
  <2>3. p \in Nat /\ p + 1 \in 0 .. len_layout /\ len_layout \in Nat
    BY <2>2, LayoutFacts DEF HeaderIInv, HeaderTypeOK
  <2>4. {g \in Pointers : g <= p + 1} = {g \in Pointers : g <= p}
    <3>1. p + 1 \notin Pointers
      BY <1>1, <2>2 DEF Pointers
    <3> QED
      BY <2>3, <3>1, PointersUpTo
  <2>5. /\ {pointer_array[k] : k \in 1 .. Len(pointer_array)} =
             {endAt[f - 1] : f \in {g \in Pointers : g <= p}}
        /\ \A k \in 1 .. Len(pointer_array) : pointer_array[k] < endAt[p]
        /\ \A k \in 1 .. Len(pointer_array) - 1 :
             pointer_array[k] < pointer_array[k + 1]
    BY <2>1 DEF ReadUpTo
  <2>6. endAt[p] < endAt[p + 1] /\ endAt[p] \in Nat /\ endAt[p + 1] \in Nat
    BY <1>1, <2>3, Ending DEF WrittenStages
  <2>7. \A k \in 1 .. Len(pointer_array) : pointer_array[k] < endAt[p + 1]
    <3>1. \A k \in 1 .. Len(pointer_array) : pointer_array[k] \in Nat
      BY DEF HeaderIInv, HeaderTypeOK
    <3> QED
      BY <2>5, <2>6, <3>1
  <2>8. ReadUpTo(p + 1)'
    BY <1>1, <1>3, <2>2, <2>4, <2>5, <2>7 DEF ReadUpTo
  <2> QED
    BY <1>3, <2>3, <2>8
<1> QED
  BY <1>3, <1>4 DEF HeaderIInv

LEMMA ReadDataInv ==
  ASSUME HeaderIInv, ReadData
  PROVE  HeaderIInv'
<1>1. /\ pc = "interpret_header" /\ pc' = pc /\ i > 2 /\ i \notin bits
      /\ padding_cleared /\ padding_cleared' = padding_cleared /\ i' = i - 1
      /\ count' = count /\ current_offset' = current_offset + 4
      /\ filled' = filled /\ capacity' = capacity
      /\ pointer_array' = pointer_array
      /\ UNCHANGED <<requestVars, writeVars, historyVars>>
  BY DEF ReadData
<1>2. /\ pointer_array' \in Seq(Nat) /\ current_offset' \in Nat
      /\ Len(pointer_array') = Len(pointer_array) + 0
      /\ count' = count - 0
  BY <1>1 DEF HeaderIInv, HeaderTypeOK
<1>3. /\ HeaderTypeOK' /\ Reserves' /\ Sized' /\ Written' /\ Counted'
      /\ InterpretsLayout'
      /\ layout' = layout /\ len_layout' = len_layout /\ bitAt' = bitAt
      /\ endAt' = endAt /\ Fits' = Fits /\ Pointers' = Pointers
  <2>1. 0 + 0 = (IF i \in bits THEN 1 ELSE 0) /\ 0 \in {0, 1}
    BY <1>1
  <2> QED
    BY <1>1, <1>2, <2>1, ReadingRound
<1>4. ReadSoFar'
  <2> SUFFICES ASSUME Fits'
               PROVE  \E p \in 0 .. len_layout' : ReadUpTo(p)'
    BY <1>1 DEF ReadSoFar
  <2>1. PICK p \in 0 .. len_layout : ReadUpTo(p)
    BY <1>1, <1>3 DEF HeaderIInv, ReadSoFar
  <2>2. /\ p + 1 \in 1 .. len_layout
        /\ \/ /\ layout[p + 1] # "*" /\ i - 1 = bitAt[p + 1] - 1
              /\ current_offset + 4 = endAt[p + 1]
           \/ /\ layout[p + 1] \in Wide /\ i - 1 = bitAt[p + 1]
              /\ current_offset = endAt[p]
    BY <1>1, <1>3, <2>1, NextField
  <2>3. p \in Nat /\ p + 1 \in 0 .. len_layout /\ len_layout \in Nat
        /\ p < len_layout
    BY <2>2, LayoutFacts DEF HeaderIInv, HeaderTypeOK
  <2>5. /\ {pointer_array[k] : k \in 1 .. Len(pointer_array)} =
             {endAt[f - 1] : f \in {g \in Pointers : g <= p}}
        /\ \A k \in 1 .. Len(pointer_array) : pointer_array[k] < endAt[p]
        /\ \A k \in 1 .. Len(pointer_array) - 1 :
             pointer_array[k] < pointer_array[k + 1]
    BY <2>1 DEF ReadUpTo
  <2>6. CASE /\ layout[p + 1] # "*" /\ i - 1 = bitAt[p + 1] - 1
             /\ current_offset + 4 = endAt[p + 1]
    <3>1. {g \in Pointers : g <= p + 1} = {g \in Pointers : g <= p}
      <4>1. p + 1 \notin Pointers
        BY <2>6 DEF Pointers
      <4> QED
        BY <2>3, <4>1, PointersUpTo
    <3>2. endAt[p] < endAt[p + 1] /\ endAt[p] \in Nat /\ endAt[p + 1] \in Nat
      BY <1>1, <2>3, Ending DEF WrittenStages
    <3>3. \A k \in 1 .. Len(pointer_array) : pointer_array[k] < endAt[p + 1]
      <4>1. \A k \in 1 .. Len(pointer_array) : pointer_array[k] \in Nat
        BY DEF HeaderIInv, HeaderTypeOK
      <4> QED
        BY <2>5, <3>2, <4>1
    <3>4. ReadUpTo(p + 1)'
      BY <1>1, <1>3, <2>5, <2>6, <3>1, <3>3 DEF ReadUpTo
    <3> QED
      BY <1>3, <2>3, <3>4
  <2>7. CASE /\ layout[p + 1] \in Wide /\ i - 1 = bitAt[p + 1]
             /\ current_offset = endAt[p]
    <3>1. ReadUpTo(p)'
      BY <1>1, <1>3, <2>3, <2>5, <2>7 DEF ReadUpTo
    <3> QED
      BY <1>3, <3>1
  <2> QED
    BY <2>2, <2>6, <2>7
<1> QED
  BY <1>3, <1>4 DEF HeaderIInv

LEMMA ReadPointerInv ==
  ASSUME HeaderIInv, ReadPointer
  PROVE  HeaderIInv'
<1>1. /\ pc = "interpret_header" /\ pc' = pc /\ i > 2 /\ i \in bits
      /\ padding_cleared /\ padding_cleared' = padding_cleared /\ i' = i - 1
      /\ PointersAt(current_offset) \subseteq filled
      /\ count' = count /\ current_offset' = current_offset + 8
      /\ filled' = filled /\ capacity' = capacity
      /\ pointer_array' = Append(pointer_array, current_offset)
      /\ UNCHANGED <<requestVars, writeVars, historyVars>>
  BY DEF ReadPointer
<1> DEFINE n == Len(pointer_array)
<1>2. /\ pointer_array' \in Seq(Nat) /\ current_offset' \in Nat
      /\ Len(pointer_array') = n + 1 /\ n \in Nat
      /\ \A k \in 1 .. n : pointer_array'[k] = pointer_array[k]
      /\ \A k \in 1 .. n : pointer_array[k] \in Nat
      /\ pointer_array'[n + 1] = current_offset
      /\ count' = count - 0
  BY <1>1 DEF HeaderIInv, HeaderTypeOK
<1>3. /\ HeaderTypeOK' /\ Reserves' /\ Sized' /\ Written' /\ Counted'
      /\ InterpretsLayout'
      /\ layout' = layout /\ len_layout' = len_layout /\ bitAt' = bitAt
      /\ endAt' = endAt /\ Fits' = Fits /\ Pointers' = Pointers
  <2>1. 1 + 0 = (IF i \in bits THEN 1 ELSE 0) /\ 0 \in {0, 1} /\ 1 \in {0, 1}
    BY <1>1
  <2> QED
    BY <1>1, <1>2, <2>1, ReadingRound
<1> HIDE DEF n
<1>4. ReadSoFar'
  <2> SUFFICES ASSUME Fits'
               PROVE  \E p \in 0 .. len_layout' : ReadUpTo(p)'
    BY <1>1 DEF ReadSoFar
  <2>1. PICK p \in 0 .. len_layout : ReadUpTo(p)
    BY <1>1, <1>3 DEF HeaderIInv, ReadSoFar
  <2>2. /\ p + 1 \in 1 .. len_layout /\ layout[p + 1] = "*"
        /\ i - 1 = bitAt[p + 1] - 1 /\ current_offset + 8 = endAt[p + 1]
        /\ current_offset = endAt[p]
        /\ PointersAt(current_offset) = {p + 1}
    BY <1>1, <1>3, <2>1, NextField
  <2>3. p \in Nat /\ p + 1 \in 0 .. len_layout /\ len_layout \in Nat
    BY <2>2, LayoutFacts DEF HeaderIInv, HeaderTypeOK
  <2>4. {g \in Pointers : g <= p + 1} = {g \in Pointers : g <= p} \cup {p + 1}
    <3>1. p + 1 \in Pointers
      BY <1>1, <2>2 DEF Pointers
    <3> QED
      BY <2>3, <3>1, PointersUpTo
  <2>5. /\ {pointer_array[k] : k \in 1 .. n} =
             {endAt[f - 1] : f \in {g \in Pointers : g <= p}}
        /\ \A k \in 1 .. n : pointer_array[k] < endAt[p]
        /\ \A k \in 1 .. n - 1 : pointer_array[k] < pointer_array[k + 1]
    BY <2>1 DEF ReadUpTo, n
  <2>6. endAt[p] < endAt[p + 1] /\ endAt[p] \in Nat /\ endAt[p + 1] \in Nat
    BY <1>1, <2>3, Ending DEF WrittenStages
  <2>7. \A k \in 1 .. n + 1 : k \in 1 .. n \/ k = n + 1
    BY <1>2
  <2>8. \A k \in 1 .. n + 1 : pointer_array'[k] < endAt[p + 1]
    BY <1>2, <2>2, <2>5, <2>6, <2>7
  <2>9. \A k \in 1 .. n : pointer_array'[k] < pointer_array'[k + 1]
    <3> TAKE k \in 1 .. n
    <3>1. k = n \/ (k \in 1 .. n - 1 /\ k + 1 \in 1 .. n)
      BY <1>2
    <3> QED
      BY <1>2, <2>2, <2>5, <3>1
  <2>10. {pointer_array'[k] : k \in 1 .. n + 1} =
           {endAt[f - 1] : f \in {g \in Pointers : g <= p + 1}}
    <3>1. 1 .. n + 1 = (1 .. n) \cup {n + 1}
      BY <1>2
    <3>2. {pointer_array'[k] : k \in 1 .. n + 1} =
            {pointer_array[k] : k \in 1 .. n} \cup {endAt[p]}
      BY <1>2, <2>2, <3>1
    <3>3. (p + 1) - 1 = p
      BY <2>3
    <3>4. {endAt[f - 1] : f \in {g \in Pointers : g <= p + 1}} =
            {endAt[f - 1] : f \in {g \in Pointers : g <= p}} \cup {endAt[p]}
      BY <2>4, <3>3
    <3> QED
      BY <2>5, <3>2, <3>4
  <2>11. ReadUpTo(p + 1)'
    <3>1. Len(pointer_array') = n + 1 /\ Len(pointer_array') - 1 = n
      BY <1>2
    <3>2. i' = bitAt'[p + 1] - 1 /\ current_offset' = endAt'[p + 1]
      BY <1>1, <1>3, <2>2
    <3> QED
      BY <1>3, <2>8, <2>9, <2>10, <3>1, <3>2 DEF ReadUpTo
  <2> QED
    BY <1>3, <2>3, <2>11
<1> QED
  BY <1>3, <1>4 DEF HeaderIInv

\* When the bits are read so are the fields.
LEMMA InterpretEndsInv ==
  ASSUME HeaderIInv, InterpretEnds
  PROVE  HeaderIInv'
<1>1. /\ pc = "interpret_header" /\ pc' = "interpreted" /\ i = 2
      /\ filled' = filled
      /\ UNCHANGED <<requestVars, writeVars, historyVars>>
      /\ UNCHANGED readVars
  BY DEF InterpretEnds
<1>2. /\ layout' = layout /\ len_layout' = len_layout /\ bits' = bits
      /\ endAt' = endAt /\ request' = request /\ Fits' = Fits
      /\ Pointers' = Pointers /\ pointer_array' = pointer_array
      /\ current_offset' = current_offset /\ count' = count
      /\ capacity' = capacity
      /\ bits \in SUBSET (3 .. HEADER_BITS - 1)
  BY <1>1 DEF requestVars, writeVars, historyVars, readVars, len_layout, Fits,
         WideFields, Pointers, HeaderIInv, HeaderTypeOK
<1>3. Reserves' /\ Sized' /\ Written'
  BY <1>1, WrittenStays DEF WrittenStages
<1>4. HeaderTypeOK'
  BY <1>1 DEF HeaderIInv, HeaderTypeOK, Stages, requestVars, writeVars,
              readVars, len_layout
<1>5. Counted'
  <2> SUFFICES ASSUME bits # {} PROVE count = Len(pointer_array)
    BY <1>1, <1>2 DEF HeaderIInv, Counted
  <2>1. \A b \in bits : ~(b <= i)
    BY <1>1, <1>2
  <2>2. padding_cleared
    BY <1>1, <2>1 DEF HeaderIInv, Counted
  <2>3. {b \in bits : b <= i} = {}
    BY <2>1
  <2>4. OnesLeft = 0
    BY <2>3, FS_EmptySet DEF OnesLeft
  <2>5. Len(pointer_array) \in Nat
    BY DEF HeaderIInv, HeaderTypeOK
  <2>6. count = Len(pointer_array) + OnesLeft
    BY <1>1, <2>2 DEF HeaderIInv, Counted
  <2> QED
    BY <2>4, <2>5, <2>6
<1>6. ReadSoFar'
  BY <1>1 DEF ReadSoFar
<1>7. InterpretsLayout'
  <2> SUFFICES ASSUME Fits
               PROVE  /\ {pointer_array[k] : k \in 1 .. Len(pointer_array)} =
                           {endAt[f - 1] : f \in Pointers}
                      /\ \A k \in 1 .. Len(pointer_array) - 1 :
                           pointer_array[k] < pointer_array[k + 1]
                      /\ count = Len(pointer_array)
                      /\ current_offset = request
    BY <1>2 DEF InterpretsLayout
  <2>1. /\ len_layout \in Nat
        /\ \A f \in 0 .. len_layout : bitAt[f] \in Nat /\ bitAt[f] >= 3
        /\ bitAt[len_layout] = 3
        /\ \A f, g \in 0 .. len_layout : f < g => bitAt[g] < bitAt[f]
    <3>1. \A f \in 0 .. len_layout : bitAt[f] \in 3 .. HEADER_BITS - 1
      BY <1>1, Laid DEF WrittenStages
    <3>2. \A b \in 3 .. HEADER_BITS - 1 : b \in Nat /\ b >= 3
      BY ObjectHeaderAssumption
    <3> QED
      BY <1>1, <3>1, <3>2, Laid DEF WrittenStages
  <2>2. padding_cleared
    <3>1. 0 \in 0 .. len_layout
      BY <2>1
    <3>2. ~ (i >= bitAt[0])
      BY <1>1, <2>1, <3>1
    <3> QED
      BY <1>1, <3>2 DEF HeaderIInv, ReadSoFar
  <2>3. PICK p \in 0 .. len_layout : ReadUpTo(p)
    BY <1>1, <2>2 DEF HeaderIInv, ReadSoFar
  <2>4. i = bitAt[p] - 1 /\ current_offset = endAt[p]
    <3>1. \/ i = bitAt[p] - 1 /\ current_offset = endAt[p]
          \/ p < len_layout /\ i = bitAt[p + 1]
      BY <2>3 DEF ReadUpTo
    <3>2. p < len_layout => p + 1 \in 0 .. len_layout
      BY <2>1
    <3> QED
      BY <1>1, <2>1, <3>1, <3>2
  <2>5. p = len_layout
    <3>1. ~(p < len_layout)
      <4>1. bitAt[p] = 3 /\ len_layout \in 0 .. len_layout
        BY <1>1, <2>1, <2>4
      <4> QED
        BY <2>1, <4>1
    <3> QED
      BY <2>1, <3>1
  <2>6. {g \in Pointers : g <= p} = Pointers
    <3>1. Pointers \subseteq 1 .. len_layout
      BY DEF Pointers, HeaderIInv, HeaderTypeOK
    <3>2. \A g \in 1 .. len_layout : g <= len_layout
      OBVIOUS
    <3> QED
      BY <2>5, <3>1, <3>2
  <2>7. request = endAt[len_layout]
    BY <1>1, Ending DEF WrittenStages
  <2>8. count = Len(pointer_array)
    <3>1. bits # {}
      BY <1>1, Laid DEF WrittenStages
    <3> QED
      BY <1>1, <1>2, <1>5, <3>1 DEF Counted
  <2> QED
    BY <2>3, <2>4, <2>5, <2>6, <2>7, <2>8 DEF ReadUpTo
<1> QED
  BY <1>3, <1>4, <1>5, <1>6, <1>7 DEF HeaderIInv

LEMMA HeaderStutterInv ==
  ASSUME HeaderIInv, UNCHANGED vars
  PROVE  HeaderIInv'
<1>1. UNCHANGED <<pc, filled, i, current_offset, padding_cleared, count,
                  capacity, pointer_array, layout, request, reserved, index,
                  offset, bits, endAt, bitAt>>
  BY DEF vars, requestVars, writeVars, readVars, historyVars
<1>2. /\ len_layout' = len_layout /\ Unwritten' = Unwritten
      /\ WideFields' = WideFields /\ Fits' = Fits /\ Pointers' = Pointers
      /\ PointerBits' = PointerBits /\ OnesLeft' = OnesLeft
  BY <1>1 DEF len_layout, Unwritten, WideFields, Fits, Pointers, PointerBits,
              OnesLeft
<1>3. HeaderTypeOK' /\ Reserves' /\ InterpretsLayout'
  BY <1>1, <1>2 DEF HeaderIInv, HeaderTypeOK, Reserves, InterpretsLayout
<1>4. Sized'
  BY <1>1, <1>2 DEF HeaderIInv, Sized, Ends
<1>5. Written'
  <2>1. Bits' = Bits
    BY <1>1, <1>2 DEF Bits
  <2> QED
    BY <1>1, <1>2, <2>1 DEF HeaderIInv, Written
<1>6. Counted'
  BY <1>1, <1>2 DEF HeaderIInv, Counted
<1>7. ReadSoFar'
  <2>1. \A p : ReadUpTo(p)' = ReadUpTo(p)
    BY <1>1, <1>2 DEF ReadUpTo
  <2> QED
    BY <1>1, <1>2, <2>1 DEF HeaderIInv, ReadSoFar
<1> QED
  BY <1>3, <1>4, <1>5, <1>6, <1>7 DEF HeaderIInv

LEMMA HeaderNextInv == HeaderIInv /\ [Next]_vars => HeaderIInv'
<1> SUFFICES ASSUME HeaderIInv, [Next]_vars
             PROVE  HeaderIInv'
  OBVIOUS
<1>1. ASSUME NEW l \in Layouts, AllocStruct(l) PROVE HeaderIInv'
  BY <1>1, AllocStructInv
<1>2. ASSUME NEW f \in 1 .. len_layout, Store(f) PROVE HeaderIInv'
  BY <1>2, StoreInv
<1>3. ASSUME NEW n \in RawSizes, AllocRaw(n) PROVE HeaderIInv'
  BY <1>3, AllocRawInv
<1>4. CASE SizeField
  BY <1>4, SizeFieldInv
<1>5. CASE SizeEnds
  BY <1>5, SizeEndsInv
<1>6. CASE SetField
  BY <1>6, SetFieldInv
<1>7. CASE SetStart
  BY <1>7, SetStartInv
<1>8. CASE InterpretRaw
  BY <1>8, InterpretRawInv
<1>9. CASE Interpret
  BY <1>9, InterpretInv
<1>10. CASE SkipPadding
  BY <1>10, SkipPaddingInv
<1>11. CASE ReadStart
  BY <1>11, ReadStartInv
<1>12. CASE ReadNull
  BY <1>12, ReadNullInv
<1>13. CASE ReadPointer
  BY <1>13, ReadPointerInv
<1>14. CASE ReadData
  BY <1>14, ReadDataInv
<1>15. CASE InterpretEnds
  BY <1>15, InterpretEndsInv
<1>16. CASE Stopped \/ UNCHANGED vars
  BY <1>16, HeaderStutterInv DEF Stopped
<1> QED
  BY <1>1, <1>2, <1>3, <1>4, <1>5, <1>6, <1>7, <1>8, <1>9, <1>10, <1>11, <1>12,
     <1>13, <1>14, <1>15, <1>16 DEF Next

\* Every loop is where the fields of the layout say, at every step.
THEOREM HeaderInvariant == Spec => []HeaderIInv
<1>1. Init => HeaderIInv
  BY HeaderInitInv
<1>2. HeaderIInv /\ [Next]_vars => HeaderIInv'
  BY HeaderNextInv
<1> QED
  BY <1>1, <1>2, PTL DEF Spec

\* The bits, the counters and the sizes stay in their ranges: interpret_header
\* neither reads beside the header nor takes count below zero.
THEOREM HeaderTypeCorrect == Spec => []HeaderTypeOK
<1>1. HeaderIInv => HeaderTypeOK
  BY DEF HeaderIInv
<1> QED
  BY <1>1, HeaderInvariant, PTL

\* Of every layout that fits a header, interpret_header finds exactly the
\* pointers that are not NULL, in their order, and the size of the object.
THEOREM InterpretsLayoutHolds == Spec => []InterpretsLayout
<1>1. HeaderIInv => InterpretsLayout
  BY DEF HeaderIInv
<1> QED
  BY <1>1, HeaderInvariant, PTL

\* Of every layout, also one that does not fit, interpret_header finds no more
\* pointers than it made room for.
THEOREM WithinArrayHolds == Spec => []WithinArray
<1>1. HeaderIInv => WithinArray
  BY DEF HeaderIInv, Counted, WithinArray
<1> QED
  BY <1>1, HeaderInvariant, PTL

\* A request of any size short of twice the largest int is refused or gets its
\* bytes, its header and whole slots.
THEOREM RequestHonouredHolds == Spec => []RequestHonoured
BY HeaderInvariant, GrantedHonoured, PTL

=============================================================================
