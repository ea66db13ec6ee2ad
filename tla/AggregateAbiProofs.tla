------------------------- MODULE AggregateAbiProofs -------------------------
(***************************************************************************)
(* What verify! of abi.clj accepts is laid out as C has it, whatever edits *)
(* led to the declaration and however many; and it accepts the source's.   *)
(*                                                                         *)
(* Three things are needed.  Where a declaration puts its fields: a few    *)
(* parts one after the other (IsLaid, MemberByParts, StructByMembers),     *)
(* which keeps the fields of a member near one another.  What memory holds *)
(* after the fields are written (StoredBytes), so that the oracle reads    *)
(* only numbers of fields that start where it reads (WrittenIsRead).  And, *)
(* for each struct, that the offsets verify! compares, the score and what  *)
(* is returned leave one place for every field (VerifiedIsAsInC).          *)
(*                                                                         *)
(* Induction is not needed: no declaration has more than five members and  *)
(* no member more than three parts, and the recursive functions of the     *)
(* model are unfolded that many times.                                     *)
(***************************************************************************)
EXTENDS AggregateAbi, SequenceTheorems, TLAPS

\* The types of the fields, and how many bytes they have.
Types == DOMAIN SizeOf

LEMMA TypesHaveSizes ==
  /\ Types = {"uint8", "short", "int", "uint", "float", "double"}
  /\ \A type \in Types : SizeOf[type] \in {1, 2, 4, 8}
  /\ SizeOf["float"] = 4 /\ SizeOf["uint8"] = 1 /\ SizeOf["int"] = 4 /\ SizeOf["uint"] = 4
BY DEF Types, SizeOf

\* What is laid is a layout: fields of a known type within its size, aligned
\* as C aligns its types.
IsField(f, size) ==
  /\ f = [field |-> f.field, at |-> f.at, type |-> f.type]
  /\ f.at \in Nat /\ f.type \in Types /\ f.at + SizeOf[f.type] <= size

IsLayout(layout) ==
  /\ layout = Laid(layout.size, layout.align, layout.at)
  /\ layout.size \in Nat /\ layout.align \in {1, 2, 4, 8}
  /\ \A f \in layout.at : IsField(f, layout.size)

\* roundUp gives the next multiple.
LEMMA RoundsUp ==
  ASSUME NEW n \in Nat, NEW align \in {1, 2, 4, 8}
  PROVE  /\ roundUp(n, align) \in Nat /\ n <= roundUp(n, align) /\ roundUp(n, align) < n + align
         /\ roundUp(n, align) % align = 0
BY DEF roundUp

\* A field of a part that is placed at start.
Moved(f, start) == [field |-> f.field, at |-> start + f.at, type |-> f.type]

\* A layout put behind a layout is a layout, and so is a padded one.
LEMMA PlacedIsLayout ==
  ASSUME NEW laid, NEW part, IsLayout(laid), IsLayout(part)
  PROVE  IsLayout(place(laid, part))
<1> DEFINE start == roundUp(laid.size, part.align)
<1>1. start \in Nat /\ laid.size <= start
  <2>1. laid.size \in Nat /\ part.align \in {1, 2, 4, 8}
    BY DEF IsLayout
  <2>. QED
    BY <2>1, RoundsUp
<1>2. laid.size \in Nat /\ part.size \in Nat /\ wider(laid.align, part.align) \in {1, 2, 4, 8}
  BY DEF IsLayout, wider
<1>3. ASSUME NEW f \in laid.at PROVE IsField(f, start + part.size)
  BY <1>1, <1>2, <1>3, TypesHaveSizes DEF IsLayout, IsField
<1>4. ASSUME NEW f \in part.at PROVE IsField(Moved(f, start), start + part.size)
  <2>1. IsField(f, part.size)
    BY DEF IsLayout
  <2>. QED
    BY <2>1, <1>1, <1>2, TypesHaveSizes DEF IsField, Moved
<1> HIDE DEF start
<1>5. place(laid, part) = Laid(start + part.size, wider(laid.align, part.align),
                               laid.at \cup {Moved(f, start) : f \in part.at})
  BY DEF place, start, Moved
<1>. QED
  BY <1>1, <1>2, <1>3, <1>4, <1>5 DEF IsLayout, Laid

LEMMA PaddedIsLayout ==
  ASSUME NEW laid, IsLayout(laid)
  PROVE  /\ IsLayout(Padded(laid)) /\ Padded(laid).at = laid.at
         /\ Padded(laid).align = laid.align /\ Padded(laid).size = roundUp(laid.size, laid.align)
         /\ laid.size <= Padded(laid).size
<1>1. roundUp(laid.size, laid.align) \in Nat /\ laid.size <= roundUp(laid.size, laid.align)
  <2>1. laid.size \in Nat /\ laid.align \in {1, 2, 4, 8}
    BY DEF IsLayout
  <2>. QED
    BY <2>1, RoundsUp
<1>2. Padded(laid) = Laid(roundUp(laid.size, laid.align), laid.align, laid.at)
  BY DEF Padded, IsLayout, Laid
<1>3. ASSUME NEW f \in laid.at PROVE IsField(f, roundUp(laid.size, laid.align))
  BY <1>1, TypesHaveSizes DEF IsLayout, IsField
<1>. QED
  BY <1>1, <1>2, <1>3 DEF IsLayout, Laid

-----------------------------------------------------------------------------
\* The layouts of parts, one after the other: up to five of them.
IsLaid(laid, parts) ==
  laid = [n \in 0..Len(parts) |-> IF n = 0 THEN Laid(0, 1, {}) ELSE place(laid[n - 1], parts[n])]

\* What is laid in order here: at most five layouts.
FewLayouts(parts) ==
  /\ Len(parts) \in 0..5 /\ DOMAIN parts = 1..Len(parts)
  /\ \A i \in 1..Len(parts) : IsLayout(parts[i])

\* Induction over the few indices is by cases.
LEMMA SmallNumbers ==
  /\ \A len \in 0..6 : len \in {0, 1, 2, 3, 4, 5, 6}
  /\ \A len \in 0..6 : \A n \in 0..len :
       n \in {0, 1, 2, 3, 4, 5, 6} /\ n <= len /\ (n # 0 => n - 1 \in 0..len)
  /\ \A len \in 0..5 : \A n \in 0..len :
       n \in {0, 1, 2, 3, 4, 5} /\ n <= len /\ (n # 0 => n - 1 \in 0..len)
OBVIOUS

\* The function that inOrder recurses with exists, so inOrder is its last value.
LEMMA LaidExists ==
  ASSUME NEW parts, Len(parts) \in 0..5
  PROVE  \E laid : IsLaid(laid, parts)
<1> DEFINE l0 == Laid(0, 1, {})
           l1 == place(l0, parts[1])
           l2 == place(l1, parts[2])
           l3 == place(l2, parts[3])
           l4 == place(l3, parts[4])
           l5 == place(l4, parts[5])
           laid == [n \in 0..Len(parts) |-> IF n = 0 THEN l0 ELSE IF n = 1 THEN l1 ELSE
                      IF n = 2 THEN l2 ELSE IF n = 3 THEN l3 ELSE IF n = 4 THEN l4 ELSE l5]
<1>1. ASSUME NEW n \in 0..Len(parts), n # 0 PROVE laid[n] = place(laid[n - 1], parts[n])
  <2> HIDE DEF l0
  <2>1. n \in {1, 2, 3, 4, 5} /\ n - 1 \in 0..Len(parts)
    BY <1>1, SmallNumbers
  <2>. QED
    BY <1>1, <2>1
<1> HIDE DEF l1, l2, l3, l4, l5
<1>2. laid[0] = Laid(0, 1, {})
  OBVIOUS
<1>3. DOMAIN laid = 0..Len(parts)
  OBVIOUS
<1> HIDE DEF laid
<1>4. IsLaid(laid, parts)
  <2>1. laid = [n \in 0..Len(parts) |-> laid[n]]
    BY <1>3 DEF laid
  <2>2. \A n \in 0..Len(parts) :
          laid[n] = IF n = 0 THEN Laid(0, 1, {}) ELSE place(laid[n - 1], parts[n])
    BY <1>1, <1>2
  <2>. QED
    BY <2>1, <2>2, Zenon DEF IsLaid
<1>. QED
  BY <1>4

LEMMA InOrderIsLaid ==
  ASSUME NEW parts, Len(parts) \in 0..5
  PROVE  \E laid : IsLaid(laid, parts) /\ inOrder(parts) = Padded(laid[Len(parts)])
<1> DEFINE laid == CHOOSE laid : IsLaid(laid, parts)
<1>1. IsLaid(laid, parts)
  BY LaidExists, Zenon
<1>2. inOrder(parts) = Padded(laid[Len(parts)])
  BY Zenon DEF inOrder, IsLaid
<1>. QED
  BY <1>1, <1>2

\* Where each part starts: the first at zero, the next behind its predecessor.
StartsOf(starts, parts) ==
  /\ starts \in [1..Len(parts) -> Nat]
  /\ Len(parts) > 0 => starts[1] = 0
  /\ \A i \in 2..Len(parts) :
       starts[i] = roundUp(starts[i - 1] + parts[i - 1].size, parts[i].align)

\* The fields of the parts, each at its part's start.
FieldsFrom(starts, parts, fields) ==
  \A f : f \in fields <=>
    \E i \in 1..Len(parts) : \E g \in parts[i].at : f = Moved(g, starts[i])

\* The first n parts have one alignment.
SameAlign(parts, n, align) == \A i \in 1..n : parts[i].align = align

\* What was laid after n parts.
LaidUpTo(laid, starts, parts, n) ==
  /\ IsLayout(laid[n])
  /\ \A f : f \in laid[n].at <=>
       \E i \in 1..n : \E g \in parts[i].at : f = Moved(g, starts[i])
  /\ \A align : SameAlign(parts, n, align) => laid[n].align = IF n = 0 THEN 1 ELSE align
  /\ n > 0 => laid[n].size = starts[n] + parts[n].size

\* What is laid is the fields of the parts, each from its start.
LEMMA LaidByParts ==
  ASSUME NEW parts, FewLayouts(parts), NEW laid, IsLaid(laid, parts)
  PROVE  LET starts == [i \in 1..Len(parts) |-> roundUp(laid[i - 1].size, parts[i].align)]
         IN StartsOf(starts, parts) /\ LaidUpTo(laid, starts, parts, Len(parts))
<1> DEFINE starts == [i \in 1..Len(parts) |-> roundUp(laid[i - 1].size, parts[i].align)]
           P(n) == LaidUpTo(laid, starts, parts, n)
<1>1. Len(parts) \in 0..5
  BY DEF FewLayouts
<1>2. laid[0] = Laid(0, 1, {})
  BY <1>1 DEF IsLaid
<1>3. P(0)
  <2>1. IsLayout(laid[0])
    BY <1>2 DEF IsLayout, Laid
  <2>. QED
    BY <1>2, <2>1 DEF LaidUpTo, Laid
<1>4. ASSUME NEW n \in 1..Len(parts), P(n - 1)
      PROVE  P(n) /\ starts[n] \in Nat /\ starts[n] = roundUp(laid[n - 1].size, parts[n].align)
  <2>1. laid[n] = place(laid[n - 1], parts[n])
    BY <1>1 DEF IsLaid
  <2>2. IsLayout(laid[n - 1]) /\ IsLayout(parts[n])
    BY <1>4 DEF LaidUpTo, FewLayouts
  <2>3. IsLayout(laid[n])
    BY <2>1, <2>2, PlacedIsLayout
  <2>4. starts[n] = roundUp(laid[n - 1].size, parts[n].align)
    OBVIOUS
  <2>5. starts[n] \in Nat
    BY <2>2, <2>4, RoundsUp DEF IsLayout
  <2> HIDE DEF starts
  <2>6. laid[n] = Laid(starts[n] + parts[n].size, wider(laid[n - 1].align, parts[n].align),
                       laid[n - 1].at \cup {Moved(f, starts[n]) : f \in parts[n].at})
    BY <2>1, <2>4 DEF place, Moved
  <2>7. ASSUME NEW f
        PROVE  f \in laid[n].at <=>
                 \E i \in 1..n : \E g \in parts[i].at : f = Moved(g, starts[i])
    <3>1. f \in laid[n].at <=>
            f \in laid[n - 1].at \/ \E g \in parts[n].at : f = Moved(g, starts[n])
      BY <2>6 DEF Laid
    <3>2. f \in laid[n - 1].at <=>
            \E i \in 1..(n - 1) : \E g \in parts[i].at : f = Moved(g, starts[i])
      BY <1>4 DEF LaidUpTo
    <3>3. 1..n = 1..(n - 1) \cup {n}
      BY <1>1
    <3>. QED
      BY <3>1, <3>2, <3>3, Zenon
  <2>8. ASSUME NEW align, SameAlign(parts, n, align) PROVE laid[n].align = align
    <3>1. SameAlign(parts, n - 1, align) /\ parts[n].align = align
      BY <1>1, <2>8 DEF SameAlign
    <3>2. laid[n - 1].align = IF n - 1 = 0 THEN 1 ELSE align
      BY <1>4, <3>1 DEF LaidUpTo
    <3>3. align \in {1, 2, 4, 8} /\ laid[n].align = wider(laid[n - 1].align, align)
      BY <2>2, <2>6, <3>1 DEF IsLayout, Laid
    <3>. QED
      BY <3>2, <3>3 DEF wider
  <2>9. laid[n].size = starts[n] + parts[n].size
    BY <2>6 DEF Laid
  <2>10. n # 0
    BY <1>1
  <2>. QED
    BY <2>3, <2>4, <2>5, <2>7, <2>8, <2>9, <2>10 DEF LaidUpTo
<1> HIDE DEF P, starts
<1>5. \A n \in 0..Len(parts) : P(n)
  <2>1. \A n \in 1..Len(parts) : P(n - 1) => P(n)
    BY <1>4
  <2>2. Len(parts) >= 1 => P(1)
    BY <1>1, <1>3, <2>1
  <2>3. Len(parts) >= 2 => P(2)
    BY <1>1, <2>2, <2>1
  <2>4. Len(parts) >= 3 => P(3)
    BY <1>1, <2>3, <2>1
  <2>5. Len(parts) >= 4 => P(4)
    BY <1>1, <2>4, <2>1
  <2>6. Len(parts) >= 5 => P(5)
    BY <1>1, <2>5, <2>1
  <2>7. ASSUME NEW n \in 0..Len(parts) PROVE P(n)
    <3>1. n \in {0, 1, 2, 3, 4, 5} /\ n <= Len(parts)
      BY <1>1, SmallNumbers
    <3>. QED
      BY <1>1, <1>3, <2>2, <2>3, <2>4, <2>5, <2>6, <3>1
  <2>. QED
    BY <2>7
<1>6. P(Len(parts))
  BY <1>1, <1>5
<1>7. \A n \in 1..Len(parts) :
        starts[n] \in Nat /\ starts[n] = roundUp(laid[n - 1].size, parts[n].align)
  BY <1>1, <1>4, <1>5
<1>8. StartsOf(starts, parts)
  <2>1. starts \in [1..Len(parts) -> Nat]
    BY <1>7 DEF starts
  <2>2. ASSUME Len(parts) > 0 PROVE starts[1] = 0
    <3>1. starts[1] = roundUp(0, parts[1].align) /\ parts[1].align \in {1, 2, 4, 8}
      BY <1>1, <1>2, <1>7, <2>2 DEF Laid, FewLayouts, IsLayout
    <3>. QED
      BY <3>1 DEF roundUp
  <2>3. ASSUME NEW i \in 2..Len(parts)
        PROVE  starts[i] = roundUp(starts[i - 1] + parts[i - 1].size, parts[i].align)
    <3>1. laid[i - 1].size = starts[i - 1] + parts[i - 1].size
      <4>1. P(i - 1) /\ i - 1 > 0
        BY <1>1, <1>5
      <4>. QED
        BY <4>1 DEF P, LaidUpTo
    <3>. QED
      BY <1>1, <1>7, <3>1
  <2>. QED
    BY <2>1, <2>2, <2>3 DEF StartsOf
<1>. QED
  BY <1>6, <1>8 DEF P, starts

\* The same of the finished layout.
LEMMA InOrderByParts ==
  ASSUME NEW parts, FewLayouts(parts)
  PROVE  /\ IsLayout(inOrder(parts))
         /\ \E starts :
              /\ StartsOf(starts, parts) /\ FieldsFrom(starts, parts, inOrder(parts).at)
              /\ \A align : Len(parts) > 0 /\ SameAlign(parts, Len(parts), align) =>
                   /\ inOrder(parts).align = align
                   /\ inOrder(parts).size =
                        roundUp(starts[Len(parts)] + parts[Len(parts)].size, align)
<1>1. Len(parts) \in 0..5
  BY DEF FewLayouts
<1>2. PICK laid : IsLaid(laid, parts) /\ inOrder(parts) = Padded(laid[Len(parts)])
  BY <1>1, InOrderIsLaid
<1>3. PICK starts : StartsOf(starts, parts) /\ LaidUpTo(laid, starts, parts, Len(parts))
  BY <1>2, LaidByParts
<1>4. /\ IsLayout(inOrder(parts)) /\ inOrder(parts).at = laid[Len(parts)].at
      /\ inOrder(parts).align = laid[Len(parts)].align
      /\ inOrder(parts).size = roundUp(laid[Len(parts)].size, laid[Len(parts)].align)
  BY <1>2, <1>3, PaddedIsLayout DEF LaidUpTo
<1>5. FieldsFrom(starts, parts, inOrder(parts).at)
  BY <1>3, <1>4, Zenon DEF LaidUpTo, FieldsFrom
<1>6. ASSUME NEW align, Len(parts) > 0, SameAlign(parts, Len(parts), align)
      PROVE  /\ inOrder(parts).align = align
             /\ inOrder(parts).size = roundUp(starts[Len(parts)] + parts[Len(parts)].size, align)
  BY <1>1, <1>3, <1>4, <1>6 DEF LaidUpTo
<1>. QED
  BY <1>3, <1>4, <1>5, <1>6

\* The names of members and parts.
Names ==
  {"self", "r", "g", "b", "a", "x", "y", "z", "width", "height", "offset", "target", "rotation",
   "zoom", "position", "up", "fovy", "projection", "id", "mipmaps", "format"}

\* The shapes of a declaration.
Part == [name : Names, type : Types]
Member == [name : Names, parts : Seq(Part)]

\* What edits leave of a declaration: few members, each once, of few parts.
IsDeclaration(members, most) ==
  /\ members \in Seq(Member) /\ Len(members) \in 0..5
  /\ \A m \in 1..Len(members) : Len(members[m].parts) \in 0..most
  /\ \A i, j \in 1..Len(members) : members[i].name = members[j].name => i = j

\* What is known of the parts of a member, and of the members.
LEMMA PartsAreTyped ==
  ASSUME NEW member \in Member
  PROVE  /\ Len(member.parts) \in Nat /\ DOMAIN member.parts = 1..Len(member.parts)
         /\ \A k \in 1..Len(member.parts) : member.parts[k].type \in Types
         /\ member = [name |-> member.name, parts |-> member.parts]
<1>1. member.parts \in Seq(Part) /\ member = [name |-> member.name, parts |-> member.parts]
  BY DEF Member
<1>2. Len(member.parts) \in Nat /\ DOMAIN member.parts = 1..Len(member.parts)
  BY <1>1, LenProperties
<1>3. \A k \in 1..Len(member.parts) : member.parts[k] \in Part
  BY <1>1, ElementOfSeq
<1>. QED
  BY <1>1, <1>2, <1>3 DEF Part

LEMMA MembersAreTyped ==
  ASSUME NEW members \in Seq(Member)
  PROVE  /\ DOMAIN members = 1..Len(members)
         /\ \A m \in 1..Len(members) : members[m] \in Member
BY LenProperties, ElementOfSeq

\* The fields of a member, from its start.
PartAt(member, k, start) ==
  [field |-> <<member.name, member.parts[k].name>>, at |-> start, type |-> member.parts[k].type]

\* A field by itself is a layout.
LEMMA ScalarIsLayout ==
  ASSUME NEW path, NEW type \in Types
  PROVE  /\ IsLayout(scalar(path, type))
         /\ scalar(path, type).size = SizeOf[type] /\ scalar(path, type).align = SizeOf[type]
         /\ scalar(path, type).at = {[field |-> path, at |-> 0, type |-> type]}
<1>1. SizeOf[type] \in {1, 2, 4, 8}
  BY TypesHaveSizes
<1>2. scalar(path, type) =
        Laid(SizeOf[type], SizeOf[type], {[field |-> path, at |-> 0, type |-> type]})
  BY DEF scalar
<1>3. IsField([field |-> path, at |-> 0, type |-> type], SizeOf[type])
  BY <1>1 DEF IsField
<1>. QED
  BY <1>1, <1>2, <1>3 DEF IsLayout, Laid

\* All parts of a member have one alignment.
AllAligned(member, align) ==
  Len(member.parts) > 0 /\ \A k \in 1..Len(member.parts) : SizeOf[member.parts[k].type] = align

\* The fields of a member, part by part.
LEMMA MemberByParts ==
  ASSUME NEW member \in Member, Len(member.parts) \in 0..3
  PROVE  /\ IsLayout(memberLayout(member))
         /\ \E starts \in [1..Len(member.parts) -> Nat] :
              /\ Len(member.parts) > 0 => starts[1] = 0
              /\ \A k \in 2..Len(member.parts) :
                   starts[k] = roundUp(starts[k - 1] + SizeOf[member.parts[k - 1].type],
                                       SizeOf[member.parts[k].type])
              /\ \A f : f \in memberLayout(member).at <=>
                   \E k \in 1..Len(member.parts) : f = PartAt(member, k, starts[k])
              /\ \A align : AllAligned(member, align) =>
                   /\ memberLayout(member).align = align
                   /\ memberLayout(member).size = roundUp(starts[Len(member.parts)] + align, align)
<1> DEFINE n == Len(member.parts)
           path(k) == <<member.name, member.parts[k].name>>
           parts == [i \in DOMAIN member.parts |-> scalar(path(i), member.parts[i].type)]
<1>1. /\ n \in 0..3 /\ DOMAIN member.parts = 1..n
      /\ \A k \in 1..n : member.parts[k].type \in Types
  BY PartsAreTyped
<1>2. Len(parts) = n /\ DOMAIN parts = 1..n
  BY <1>1, LenProperties
<1>3. \A k \in 1..n : parts[k] = scalar(path(k), member.parts[k].type)
  BY <1>1
<1>4. memberLayout(member) = inOrder(parts)
  BY DEF memberLayout
<1> HIDE DEF parts
<1>5. \A k \in 1..n :
        /\ IsLayout(parts[k]) /\ parts[k].size = SizeOf[member.parts[k].type]
        /\ parts[k].align = SizeOf[member.parts[k].type]
        /\ parts[k].at = {[field |-> path(k), at |-> 0, type |-> member.parts[k].type]}
  <2>1. TAKE k \in 1..n
  <2>2. member.parts[k].type \in Types /\ parts[k] = scalar(path(k), member.parts[k].type)
    BY <1>1, <1>3
  <2> HIDE DEF path
  <2>. QED
    BY <2>2, ScalarIsLayout
<1>6. FewLayouts(parts)
  BY <1>1, <1>2, <1>5 DEF FewLayouts
<1>7. PICK starts :
        /\ StartsOf(starts, parts) /\ FieldsFrom(starts, parts, inOrder(parts).at)
        /\ \A align : Len(parts) > 0 /\ SameAlign(parts, Len(parts), align) =>
             /\ inOrder(parts).align = align
             /\ inOrder(parts).size = roundUp(starts[Len(parts)] + parts[Len(parts)].size, align)
  BY <1>6, InOrderByParts
<1>8. ASSUME NEW f
      PROVE  f \in memberLayout(member).at <=>
               \E k \in 1..n : f = PartAt(member, k, starts[k])
  <2>1. f \in memberLayout(member).at <=>
          \E k \in 1..n : \E g \in parts[k].at : f = Moved(g, starts[k])
    BY <1>2, <1>4, <1>7 DEF FieldsFrom
  <2>2. ASSUME NEW k \in 1..n
        PROVE  (\E g \in parts[k].at : f = Moved(g, starts[k])) <=>
                 f = PartAt(member, k, starts[k])
    <3>1. starts[k] \in Nat
      BY <1>2, <1>7 DEF StartsOf
    <3>2. Moved([field |-> path(k), at |-> 0, type |-> member.parts[k].type], starts[k]) =
            PartAt(member, k, starts[k])
      BY <3>1 DEF Moved, PartAt
    <3>. QED
      BY <1>5, <3>2
  <2>. QED
    BY <2>1, <2>2
<1>9. /\ starts \in [1..n -> Nat] /\ (n > 0 => starts[1] = 0)
      /\ \A k \in 2..n : starts[k] = roundUp(starts[k - 1] + SizeOf[member.parts[k - 1].type],
                                             SizeOf[member.parts[k].type])
  <2>1. \A k \in 2..n : k \in 1..n /\ k - 1 \in 1..n
    BY <1>1
  <2>. QED
    BY <1>2, <1>5, <1>7, <2>1 DEF StartsOf
<1>10. IsLayout(memberLayout(member))
  BY <1>4, <1>6, InOrderByParts
<1>11. ASSUME NEW align, AllAligned(member, align)
       PROVE  /\ memberLayout(member).align = align
              /\ memberLayout(member).size = roundUp(starts[n] + align, align)
  <2>1. n > 0 /\ n \in 1..n /\ parts[n].size = align
    BY <1>1, <1>5, <1>11 DEF AllAligned
  <2>2. SameAlign(parts, n, align)
    BY <1>5, <1>11 DEF AllAligned, SameAlign
  <2>. QED
    BY <1>2, <1>4, <1>7, <2>1, <2>2
<1>. QED
  BY <1>8, <1>9, <1>10, <1>11

\* How far fields of one member are apart.
LEMMA MemberDistances ==
  ASSUME NEW member \in Member, Len(member.parts) \in 0..3, NEW f \in memberLayout(member).at
  PROVE  /\ f.at \in 0..16 /\ f.field[1] = member.name
         /\ Len(member.parts) \in 0..2 => f.at <= 8
         /\ \A g \in memberLayout(member).at : f.at = 0 /\ f.type = "float" => g.at # 12
<1> DEFINE n == Len(member.parts)
           size(k) == SizeOf[member.parts[k].type]
<1>1. n \in 0..3 /\ \A k \in 1..n : member.parts[k].type \in Types
  BY PartsAreTyped
<1>2. \A k \in 1..n : size(k) \in {1, 2, 4, 8}
  BY <1>1, TypesHaveSizes
<1>3. PICK starts \in [1..n -> Nat] :
        /\ n > 0 => starts[1] = 0
        /\ \A k \in 2..n : starts[k] = roundUp(starts[k - 1] + size(k - 1), size(k))
        /\ \A g : g \in memberLayout(member).at <=>
             \E k \in 1..n : g = PartAt(member, k, starts[k])
  BY MemberByParts
<1> HIDE DEF size
<1>4. ASSUME n >= 2 PROVE starts[2] \in 1..8 /\ (size(1) = 4 => starts[2] \in {4, 8})
  <2>1. /\ starts[2] = roundUp(size(1), size(2))
        /\ size(1) \in {1, 2, 4, 8} /\ size(2) \in {1, 2, 4, 8}
    BY <1>1, <1>2, <1>3, <1>4
  <2>. QED
    BY <2>1 DEF roundUp
<1>5. ASSUME n = 3 PROVE starts[3] \in 1..16 /\ (size(1) = 4 => starts[3] # 12)
  <2>1. /\ starts[3] = roundUp(starts[2] + size(2), size(3))
        /\ starts[2] = roundUp(size(1), size(2))
        /\ size(1) \in {1, 2, 4, 8} /\ size(2) \in {1, 2, 4, 8} /\ size(3) \in {1, 2, 4, 8}
    BY <1>1, <1>2, <1>3, <1>5
  <2>. QED
    BY <2>1 DEF roundUp
<1>6. ASSUME NEW g \in memberLayout(member).at
      PROVE  \E k \in 1..n : g = PartAt(member, k, starts[k])
  BY <1>3
<1>7. PICK k \in 1..n : f = PartAt(member, k, starts[k])
  BY <1>6
<1>8. f.at = starts[k] /\ f.field[1] = member.name /\ f.type = member.parts[k].type
  BY <1>7 DEF PartAt
<1>9. /\ k \in {1, 2, 3} /\ starts[k] \in 0..16
      /\ (k # 1 => starts[k] # 0) /\ (n \in 0..2 => starts[k] <= 8)
  <2>1. k \in {1, 2, 3}
    BY <1>1, <1>7
  <2>2. CASE k = 1
    BY <1>1, <1>3, <2>2
  <2>3. CASE k = 2
    BY <1>1, <1>4, <2>3
  <2>4. CASE k = 3
    BY <1>1, <1>5, <2>4
  <2>. QED
    BY <2>1, <2>2, <2>3, <2>4
<1>10. ASSUME NEW g \in memberLayout(member).at, f.at = 0, f.type = "float" PROVE g.at # 12
  <2>1. k = 1 /\ size(1) = 4
    BY <1>8, <1>9, <1>10, TypesHaveSizes DEF size
  <2>2. PICK l \in 1..n : g = PartAt(member, l, starts[l])
    BY <1>6
  <2>3. g.at = starts[l] /\ l \in {1, 2, 3}
    BY <1>1, <2>2 DEF PartAt
  <2>. QED
    BY <1>1, <1>3, <1>4, <1>5, <2>1, <2>3
<1>. QED
  BY <1>8, <1>9, <1>10

\* The fields of a struct are those of its members, each from its start.
FieldsOfMembers(starts, members) ==
  \A f : f \in layoutOf(members).at <=>
    \E m \in 1..Len(members) :
      \E g \in memberLayout(members[m]).at : f = Moved(g, starts[m])

\* All members have one alignment.
AllMembersAligned(members, align) ==
  Len(members) > 0 /\ \A m \in 1..Len(members) : memberLayout(members[m]).align = align

\* The fields of a struct, member by member.
LEMMA StructByMembers ==
  ASSUME NEW members, IsDeclaration(members, 3)
  PROVE  /\ IsLayout(layoutOf(members))
         /\ \E starts \in [1..Len(members) -> Nat] :
              /\ FieldsOfMembers(starts, members)
              /\ Len(members) > 0 => starts[1] = 0
              /\ \A m \in 2..Len(members) :
                   starts[m] = roundUp(starts[m - 1] + memberLayout(members[m - 1]).size,
                                       memberLayout(members[m]).align)
              /\ \A align : AllMembersAligned(members, align) =>
                   layoutOf(members).size =
                     roundUp(starts[Len(members)] + memberLayout(members[Len(members)]).size, align)
<1> DEFINE parts == [m \in DOMAIN members |-> memberLayout(members[m])]
<1>1. /\ Len(members) \in 0..5 /\ DOMAIN members = 1..Len(members)
      /\ \A m \in 1..Len(members) : members[m] \in Member /\ Len(members[m].parts) \in 0..3
  BY MembersAreTyped DEF IsDeclaration
<1>2. Len(parts) = Len(members) /\ DOMAIN parts = 1..Len(members)
  BY <1>1, LenProperties
<1>3. \A m \in 1..Len(members) : parts[m] = memberLayout(members[m]) /\ IsLayout(parts[m])
  BY <1>1, MemberByParts
<1>4. layoutOf(members) = inOrder(parts)
  BY DEF layoutOf
<1> HIDE DEF parts
<1>5. FewLayouts(parts)
  BY <1>1, <1>2, <1>3 DEF FewLayouts
<1>6. PICK starts :
        /\ StartsOf(starts, parts) /\ FieldsFrom(starts, parts, inOrder(parts).at)
        /\ \A align : Len(parts) > 0 /\ SameAlign(parts, Len(parts), align) =>
             /\ inOrder(parts).align = align
             /\ inOrder(parts).size = roundUp(starts[Len(parts)] + parts[Len(parts)].size, align)
  BY <1>5, InOrderByParts
<1>7. /\ starts \in [1..Len(members) -> Nat] /\ (Len(members) > 0 => starts[1] = 0)
      /\ \A m \in 2..Len(members) :
           starts[m] = roundUp(starts[m - 1] + memberLayout(members[m - 1]).size,
                               memberLayout(members[m]).align)
  <2>1. \A m \in 2..Len(members) : m \in 1..Len(members) /\ m - 1 \in 1..Len(members)
    BY <1>1
  <2>. QED
    BY <1>2, <1>3, <1>6, <2>1 DEF StartsOf
<1>8. ASSUME NEW f
      PROVE  f \in layoutOf(members).at <=>
                \E m \in 1..Len(members) :
                  \E g \in memberLayout(members[m]).at : f = Moved(g, starts[m])
  <2>1. f \in layoutOf(members).at <=>
          \E m \in 1..Len(members) : \E g \in parts[m].at : f = Moved(g, starts[m])
    BY <1>2, <1>4, <1>6 DEF FieldsFrom
  <2>. QED
    BY <2>1, <1>3
<1>9. FieldsOfMembers(starts, members)
  BY <1>8, Zenon DEF FieldsOfMembers
<1>10. ASSUME NEW align, AllMembersAligned(members, align)
       PROVE  layoutOf(members).size =
                roundUp(starts[Len(members)] + memberLayout(members[Len(members)]).size, align)
  <2>1. Len(members) > 0 /\ Len(members) \in 1..Len(members)
    BY <1>1, <1>10 DEF AllMembersAligned
  <2>2. SameAlign(parts, Len(members), align)
    BY <1>3, <1>10 DEF AllMembersAligned, SameAlign
  <2>. QED
    BY <1>2, <1>3, <1>4, <1>6, <2>1, <2>2
<1>11. IsLayout(layoutOf(members))
  BY <1>4, <1>5, InOrderByParts
<1>. QED
  BY <1>7, <1>9, <1>10, <1>11

\* Placing a member moves its fields together.
LEMMA MovedTogether ==
  ASSUME NEW at \in 0..16, NEW other \in 0..16, NEW start \in Nat
  PROVE  /\ start + at \in Nat /\ start + other \in Nat /\ start + at <= start + other + 16
         /\ at <= 8 => start + at <= start + other + 8
         /\ start + at = 0 => at = 0 /\ start + other = other
OBVIOUS

\* Fields of the same member are near one another.
LEMMA FieldsOfOneMember ==
  ASSUME NEW members, NEW most \in {2, 3}, IsDeclaration(members, most),
         NEW f \in layoutOf(members).at, NEW g \in layoutOf(members).at, f.field[1] = g.field[1]
  PROVE  /\ f.at \in Nat /\ g.at \in Nat
         /\ f.at <= g.at + 16 /\ (most = 2 => f.at <= g.at + 8)
         /\ f.at = 0 /\ f.type = "float" => g.at # 12
<1>1. /\ IsDeclaration(members, 3)
      /\ \A m \in 1..Len(members) : members[m] \in Member /\ Len(members[m].parts) \in 0..most
      /\ \A i, j \in 1..Len(members) : members[i].name = members[j].name => i = j
  <2>1. \A n : n \in 0..most => n \in 0..3
    OBVIOUS
  <2>2. members \in Seq(Member) /\ \A m \in 1..Len(members) : members[m] \in Member
    BY MembersAreTyped DEF IsDeclaration
  <2>. QED
    BY <2>1, <2>2, Zenon DEF IsDeclaration
<1>2. PICK starts \in [1..Len(members) -> Nat] :
        \A h : h \in layoutOf(members).at <=>
          \E m \in 1..Len(members) :
            \E k \in memberLayout(members[m]).at : h = Moved(k, starts[m])
  BY <1>1, StructByMembers DEF FieldsOfMembers
<1>3. PICK i \in 1..Len(members) :
        \E k \in memberLayout(members[i]).at : f = Moved(k, starts[i])
  BY <1>2
<1>4. PICK j \in 1..Len(members) :
        \E k \in memberLayout(members[j]).at : g = Moved(k, starts[j])
  BY <1>2
<1>5. PICK k \in memberLayout(members[i]).at : f = Moved(k, starts[i])
  BY <1>3
<1>6. PICK l \in memberLayout(members[j]).at : g = Moved(l, starts[j])
  BY <1>4
<1>7. \A m \in 1..Len(members) :
        /\ Len(members[m].parts) \in 0..3 /\ (most = 2 => Len(members[m].parts) \in 0..2)
        /\ \A h \in memberLayout(members[m]).at :
             /\ h.at \in 0..16 /\ h.field[1] = members[m].name /\ (most = 2 => h.at <= 8)
             /\ \A h2 \in memberLayout(members[m]).at :
                  h.at = 0 /\ h.type = "float" => h2.at # 12
  <2>1. \A n : n \in 0..most => n \in 0..3 /\ (most = 2 => n \in 0..2)
    OBVIOUS
  <2>2. \A m \in 1..Len(members) :
          Len(members[m].parts) \in 0..3 /\ (most = 2 => Len(members[m].parts) \in 0..2)
    BY <1>1, <2>1, Zenon
  <2>. QED
    BY <1>1, <2>2, MemberDistances
<1>8. /\ f.field = k.field /\ f.at = starts[i] + k.at /\ f.type = k.type
      /\ g.field = l.field /\ g.at = starts[j] + l.at /\ g.type = l.type
  BY <1>5, <1>6 DEF Moved
<1>9. i = j
  BY <1>1, <1>7, <1>8
<1>10. l \in memberLayout(members[i]).at /\ starts[i] \in Nat
  BY <1>9
<1>11. k.at \in 0..16 /\ l.at \in 0..16 /\ (most = 2 => k.at <= 8)
  BY <1>7, <1>10
<1>12. k.at = 0 /\ k.type = "float" => l.at # 12
  BY <1>7, <1>10
<1> DEFINE start == starts[i]
<1>13. start \in Nat /\ f.at = start + k.at /\ g.at = start + l.at /\ f.type = k.type
  BY <1>8, <1>9, <1>10
<1> HIDE DEF start
<1>14. /\ start + k.at \in Nat /\ start + l.at \in Nat /\ start + k.at <= start + l.at + 16
       /\ k.at <= 8 => start + k.at <= start + l.at + 8
       /\ start + k.at = 0 => k.at = 0 /\ start + l.at = l.at
  BY <1>11, <1>13, MovedTogether
<1>15. f.at \in Nat /\ g.at \in Nat /\ f.at <= g.at + 16 /\ (most = 2 => f.at <= g.at + 8)
  BY <1>11, <1>13, <1>14, Zenon
<1>16. f.at = 0 /\ f.type = "float" => g.at # 12
  BY <1>12, <1>13, <1>14, Zenon
<1>. QED
  BY <1>15, <1>16

\* Bytes of memory, after fields are written one after the other.
IsStored(memory, fields, values) ==
  memory = [n \in 0..Len(fields) |->
              IF n = 0 THEN Blank
              ELSE write(memory[n - 1], fields[n].at, fields[n].type, values[n])]

\* The memory that stored recurses with exists.
LEMMA StoredExists ==
  ASSUME NEW fields, NEW values, Len(fields) \in 0..6
  PROVE  \E memory : IsStored(memory, fields, values)
<1> DEFINE next(m, n) == write(m, fields[n].at, fields[n].type, values[n])
           m0 == Blank
           m1 == next(m0, 1)
           m2 == next(m1, 2)
           m3 == next(m2, 3)
           m4 == next(m3, 4)
           m5 == next(m4, 5)
           m6 == next(m5, 6)
           memory == [n \in 0..Len(fields) |-> IF n = 0 THEN m0 ELSE IF n = 1 THEN m1 ELSE
                        IF n = 2 THEN m2 ELSE IF n = 3 THEN m3 ELSE IF n = 4 THEN m4 ELSE
                        IF n = 5 THEN m5 ELSE m6]
<1>1. ASSUME NEW n \in 0..Len(fields), n # 0 PROVE memory[n] = next(memory[n - 1], n)
  <2> HIDE DEF m0, next
  <2>1. n \in {1, 2, 3, 4, 5, 6} /\ n - 1 \in 0..Len(fields)
    BY <1>1, SmallNumbers
  <2>. QED
    BY <1>1, <2>1
<1> HIDE DEF m1, m2, m3, m4, m5, m6
<1>2. memory[0] = Blank
  OBVIOUS
<1>3. memory = [n \in 0..Len(fields) |-> memory[n]]
  OBVIOUS
<1> HIDE DEF memory
<1>4. \A n \in 0..Len(fields) :
        memory[n] = IF n = 0 THEN Blank
                    ELSE write(memory[n - 1], fields[n].at, fields[n].type, values[n])
  BY <1>1, <1>2
<1>5. IsStored(memory, fields, values)
  BY <1>3, <1>4, Zenon DEF IsStored
<1>. QED
  BY <1>5

\* stored is its last value.
LEMMA StoredIs ==
  ASSUME NEW fields, NEW values, Len(fields) \in 0..6
  PROVE  \E memory : /\ IsStored(memory, fields, values)
                     /\ stored(fields, values) = memory[Len(fields)]
<1> DEFINE memory == CHOOSE memory : IsStored(memory, fields, values)
<1>1. IsStored(memory, fields, values)
  BY StoredExists, Zenon
<1>2. stored(fields, values) = memory[Len(fields)]
  BY Zenon DEF stored, IsStored
<1>. QED
  BY <1>1, <1>2

\* A field occupies a byte.
Covers(f, b) == b \in f.at..(f.at + SizeOf[f.type] - 1)

\* Fields that can be written: up to six, of known types.
TypedFields(fields) ==
  /\ Len(fields) \in 0..6
  /\ \A i \in 1..Len(fields) : fields[i].at \in Nat /\ fields[i].type \in Types

\* What the first n fields leave in a byte.
ByteOfLast(byte, b, fields, values, n) ==
  \/ /\ byte = Zero
     /\ \A i \in 1..n : ~Covers(fields[i], b)
  \/ \E i \in 1..n :
       /\ Covers(fields[i], b) /\ byte = byteOf(fields[i].type, values[i], b - fields[i].at)
       /\ \A j \in 1..n : Covers(fields[j], b) => j <= i

\* Every byte is as the last field on it left it.
LEMMA StoredBytes ==
  ASSUME NEW fields, NEW values, TypedFields(fields)
  PROVE  \A b \in 0..63 : ByteOfLast(stored(fields, values)[b], b, fields, values, Len(fields))
<1> DEFINE last == Len(fields)
<1>1. last \in 0..6
  BY DEF TypedFields
<1>2. PICK memory : IsStored(memory, fields, values) /\ stored(fields, values) = memory[last]
  BY <1>1, StoredIs
<1> DEFINE P(n) == /\ DOMAIN memory[n] = 0..63
                   /\ \A b \in 0..63 : ByteOfLast(memory[n][b], b, fields, values, n)
<1>3. /\ memory[0] = Blank
      /\ \A n \in 1..last :
           memory[n] = write(memory[n - 1], fields[n].at, fields[n].type, values[n])
  BY <1>1, <1>2 DEF IsStored
<1>4. P(0)
  BY <1>3 DEF Blank, ByteOfLast
<1>5. ASSUME NEW n \in 1..last, P(n - 1) PROVE P(n)
  <2> DEFINE f == fields[n]
  <2>1. memory[n] = [b \in 0..63 |-> IF Covers(f, b) THEN byteOf(f.type, values[n], b - f.at)
                                     ELSE memory[n - 1][b]]
    BY <1>3, <1>5 DEF write, Covers
  <2>2. n \in 1..n /\ 1..n = 1..(n - 1) \cup {n} /\ \A i \in 1..n : i <= n
    BY <1>1
  <2>3. ASSUME NEW b \in 0..63 PROVE ByteOfLast(memory[n][b], b, fields, values, n)
    <3>1. CASE Covers(f, b)
      <4>1. memory[n][b] = byteOf(f.type, values[n], b - f.at)
        BY <2>1, <3>1
      <4>. QED
        BY <2>2, <3>1, <4>1, Zenon DEF ByteOfLast
    <3>2. CASE ~Covers(f, b)
      <4>1. memory[n][b] = memory[n - 1][b]
        BY <2>1, <3>2
      <4>2. ByteOfLast(memory[n - 1][b], b, fields, values, n - 1)
        BY <1>5
      <4>. QED
        BY <2>2, <3>2, <4>1, <4>2, Zenon DEF ByteOfLast
    <3>. QED
      BY <3>1, <3>2
  <2>. QED
    BY <2>1, <2>3
<1> HIDE DEF P
<1>6. P(last)
  <2>1. \A n \in 1..last : P(n - 1) => P(n)
    BY <1>5
  <2>2. last >= 1 => P(1)
    BY <1>1, <1>4, <2>1
  <2>3. last >= 2 => P(2)
    BY <1>1, <2>2, <2>1
  <2>4. last >= 3 => P(3)
    BY <1>1, <2>3, <2>1
  <2>5. last >= 4 => P(4)
    BY <1>1, <2>4, <2>1
  <2>6. last >= 5 => P(5)
    BY <1>1, <2>5, <2>1
  <2>7. last >= 6 => P(6)
    BY <1>1, <2>6, <2>1
  <2>8. last \in {0, 1, 2, 3, 4, 5, 6}
    BY <1>1, SmallNumbers
  <2> HIDE DEF last
  <2>. QED
    BY <1>4, <2>2, <2>3, <2>4, <2>5, <2>6, <2>7, <2>8
<1>. QED
  BY <1>2, <1>6 DEF P

\* Numbers that fit in a byte, as the values verify! writes do.
SmallValues(values, n) == \A i \in 1..n : values[i] \in 1..255

\* A number that is read was written to a field that starts there.
IsWritten(found, fields, values, at, type) ==
  \/ found = 0 \/ found = Garbage
  \/ \E i \in 1..Len(fields) :
       /\ found = values[i] /\ fields[i].at = at
       /\ type \in Floats => fields[i].type = type

\* A read finds nothing, bytes that make no sense, or the number of such a field.
LEMMA ReadFinds ==
  ASSUME NEW fields, NEW values, TypedFields(fields), SmallValues(values, Len(fields)),
         NEW at \in 0..63, NEW type \in Types
  PROVE  IsWritten(read(stored(fields, values), at, type), fields, values, at, type)
<1> DEFINE memory == stored(fields, values)
           first == memory[at]
           found == read(memory, at, type)
           Fits(value) == \A k \in 0..(SizeOf[type] - 1) : memory[at + k] = byteOf(type, value, k)
<1>1. found = 0 \/ found = Garbage \/ (found = first.value /\ Fits(first.value))
  BY Zenon DEF read
<1>2. ASSUME found = first.value, Fits(first.value)
      PROVE  \/ found = 0
             \/ \E i \in 1..Len(fields) :
                  /\ found = values[i] /\ fields[i].at = at
                  /\ type \in Floats => fields[i].type = type
  <2>1. 0 \in 0..(SizeOf[type] - 1) /\ at + 0 = at
    BY TypesHaveSizes
  <2>2. first = byteOf(type, first.value, 0)
    BY <1>2, <2>1
  <2>3. \/ first = Zero
        \/ \E i \in 1..Len(fields) :
             /\ Covers(fields[i], at)
             /\ first = byteOf(fields[i].type, values[i], at - fields[i].at)
    BY StoredBytes DEF ByteOfLast
  <2>4. CASE first = Zero
    BY <1>2, <2>4 DEF Zero
  <2>5. CASE \E i \in 1..Len(fields) :
               /\ Covers(fields[i], at)
               /\ first = byteOf(fields[i].type, values[i], at - fields[i].at)
    <3>1. PICK i \in 1..Len(fields) :
            Covers(fields[i], at) /\ first = byteOf(fields[i].type, values[i], at - fields[i].at)
      BY <2>5
    <3>2. fields[i].at \in Nat /\ fields[i].type \in Types /\ values[i] \in 1..255
      BY DEF TypedFields, SmallValues
    <3> HIDE DEF first
    <3>3. \/ first = Zero
          \/ /\ first.value = values[i] /\ at - fields[i].at = 0
             /\ type \in Floats => fields[i].type = type
      BY <2>2, <3>1, <3>2 DEF byteOf, Zero, Floats
    <3>4. first.value = values[i] /\ at - fields[i].at = 0 => found = values[i] /\ fields[i].at = at
      BY <1>2, <3>2
    <3>. QED
      BY <2>4, <3>3, <3>4
  <2>. QED
    BY <2>3, <2>4, <2>5
<1>. QED
  BY <1>1, <1>2 DEF IsWritten

\* How many fields the oracle reads.
Count(name) == Len(oracle[name])

LEMMA OracleNames ==
  DOMAIN oracle = {"color", "vector2", "vector3", "rectangle", "camera2d", "camera3d", "texture2d"}
BY DEF oracle

\* The fields the oracle reads of each struct.
LEMMA ColorOracle ==
  /\ Count("color") = 4 /\ DOMAIN oracle["color"] = 1..4
  /\ oracle["color"][1] = reads(<<"r", "self">>, 0, "uint8", 1)
  /\ oracle["color"][2] = reads(<<"g", "self">>, 1, "uint8", 10)
  /\ oracle["color"][3] = reads(<<"b", "self">>, 2, "uint8", 100)
  /\ oracle["color"][4] = reads(<<"a", "self">>, 3, "uint8", 1000)
BY DEF Count, oracle, reads

LEMMA Vector2Oracle ==
  /\ Count("vector2") = 2 /\ DOMAIN oracle["vector2"] = 1..2
  /\ oracle["vector2"][1] = reads(<<"x", "self">>, 0, "float", 1)
  /\ oracle["vector2"][2] = reads(<<"y", "self">>, 4, "float", 10)
BY DEF Count, oracle, reads

LEMMA Vector3Oracle ==
  /\ Count("vector3") = 3 /\ DOMAIN oracle["vector3"] = 1..3
  /\ oracle["vector3"][1] = reads(<<"x", "self">>, 0, "float", 1)
  /\ oracle["vector3"][2] = reads(<<"y", "self">>, 4, "float", 10)
  /\ oracle["vector3"][3] = reads(<<"z", "self">>, 8, "float", 100)
BY DEF Count, oracle, reads

LEMMA RectangleOracle ==
  /\ Count("rectangle") = 4 /\ DOMAIN oracle["rectangle"] = 1..4
  /\ oracle["rectangle"][1] = reads(<<"x", "self">>, 0, "float", 1)
  /\ oracle["rectangle"][2] = reads(<<"y", "self">>, 4, "float", 10)
  /\ oracle["rectangle"][3] = reads(<<"width", "self">>, 8, "float", 100)
  /\ oracle["rectangle"][4] = reads(<<"height", "self">>, 12, "float", 1000)
BY DEF Count, oracle, reads

LEMMA Camera2dOracle ==
  /\ Count("camera2d") = 6 /\ DOMAIN oracle["camera2d"] = 1..6
  /\ oracle["camera2d"][1] = reads(<<"offset", "x">>, 0, "float", 1)
  /\ oracle["camera2d"][2] = reads(<<"offset", "y">>, 4, "float", 1)
  /\ oracle["camera2d"][3] = reads(<<"target", "x">>, 8, "float", 1)
  /\ oracle["camera2d"][4] = reads(<<"target", "y">>, 12, "float", 1)
  /\ oracle["camera2d"][5] = reads(<<"rotation", "self">>, 16, "float", 1)
  /\ oracle["camera2d"][6] = reads(<<"zoom", "self">>, 20, "float", 1)
BY DEF Count, oracle, reads

LEMMA Camera3dOracle ==
  /\ Count("camera3d") = 5 /\ DOMAIN oracle["camera3d"] = 1..5
  /\ oracle["camera3d"][1] = reads(<<"position", "x">>, 0, "float", 1)
  /\ oracle["camera3d"][2] = reads(<<"target", "y">>, 16, "float", 1)
  /\ oracle["camera3d"][3] = reads(<<"up", "z">>, 32, "float", 1)
  /\ oracle["camera3d"][4] = reads(<<"fovy", "self">>, 36, "float", 1)
  /\ oracle["camera3d"][5] = reads(<<"projection", "self">>, 40, "int", 1)
BY DEF Count, oracle, reads

LEMMA Texture2dOracle ==
  /\ Count("texture2d") = 5 /\ DOMAIN oracle["texture2d"] = 1..5
  /\ oracle["texture2d"][1] = reads(<<"id", "self">>, 0, "int", 1)
  /\ oracle["texture2d"][2] = reads(<<"width", "self">>, 4, "int", 1)
  /\ oracle["texture2d"][3] = reads(<<"height", "self">>, 8, "int", 1)
  /\ oracle["texture2d"][4] = reads(<<"mipmaps", "self">>, 12, "int", 1)
  /\ oracle["texture2d"][5] = reads(<<"format", "self">>, 16, "int", 1)
BY DEF Count, oracle, reads

\* The partial sums of a score.
IsSummed(sum, name, memory) ==
  sum = [n \in 0..Len(oracle[name]) |->
           IF n = 0 THEN 0
           ELSE sum[n - 1] + oracle[name][n].weight
                               * read(memory, oracle[name][n].at, oracle[name][n].type)]

\* They exist, and the score is the last of them.
LEMMA SummedExists ==
  ASSUME NEW name, NEW memory, Len(oracle[name]) \in 0..6
  PROVE  \E sum : IsSummed(sum, name, memory)
<1> DEFINE term(n) == oracle[name][n].weight
                        * read(memory, oracle[name][n].at, oracle[name][n].type)
           s1 == 0 + term(1)
           s2 == s1 + term(2)
           s3 == s2 + term(3)
           s4 == s3 + term(4)
           s5 == s4 + term(5)
           s6 == s5 + term(6)
           sum == [n \in 0..Len(oracle[name]) |-> IF n = 0 THEN 0 ELSE IF n = 1 THEN s1 ELSE
                     IF n = 2 THEN s2 ELSE IF n = 3 THEN s3 ELSE IF n = 4 THEN s4 ELSE
                     IF n = 5 THEN s5 ELSE s6]
<1>1. ASSUME NEW n \in 0..Len(oracle[name]), n # 0 PROVE sum[n] = sum[n - 1] + term(n)
  <2> HIDE DEF term
  <2>1. n \in {1, 2, 3, 4, 5, 6} /\ n - 1 \in 0..Len(oracle[name])
    BY <1>1, SmallNumbers
  <2>. QED
    BY <1>1, <2>1
<1> HIDE DEF s1, s2, s3, s4, s5, s6
<1>2. sum[0] = 0
  OBVIOUS
<1>3. sum = [n \in 0..Len(oracle[name]) |-> sum[n]]
  OBVIOUS
<1> HIDE DEF sum
<1>4. \A n \in 0..Len(oracle[name]) : sum[n] = IF n = 0 THEN 0 ELSE sum[n - 1] + term(n)
  BY <1>1, <1>2
<1>5. IsSummed(sum, name, memory)
  BY <1>3, <1>4, Zenon DEF IsSummed
<1>. QED
  BY <1>5

LEMMA ScoreIsSum ==
  ASSUME NEW name, NEW memory, Len(oracle[name]) \in 0..6
  PROVE  \E sum :
           /\ sum[0] = 0 /\ score(name, memory) = sum[Len(oracle[name])]
           /\ \A n \in 1..Len(oracle[name]) :
                sum[n] = sum[n - 1] + oracle[name][n].weight
                                        * read(memory, oracle[name][n].at, oracle[name][n].type)
<1> DEFINE sum == CHOOSE sum : IsSummed(sum, name, memory)
<1>1. IsSummed(sum, name, memory)
  BY SummedExists, Zenon
<1>2. score(name, memory) = sum[Len(oracle[name])]
  BY Zenon DEF score, IsSummed
<1> HIDE DEF sum
<1>3. sum = [n \in 0..Len(oracle[name]) |->
               IF n = 0 THEN 0
               ELSE sum[n - 1] + oracle[name][n].weight
                                   * read(memory, oracle[name][n].at, oracle[name][n].type)]
  BY <1>1 DEF IsSummed
<1>4. \A n \in 0..Len(oracle[name]) :
        sum[n] = IF n = 0 THEN 0
                 ELSE sum[n - 1] + oracle[name][n].weight
                                     * read(memory, oracle[name][n].at, oracle[name][n].type)
  BY <1>3, Zenon
<1>5. /\ 0 \in 0..Len(oracle[name])
      /\ \A n \in 1..Len(oracle[name]) : n \in 0..Len(oracle[name]) /\ n # 0
  OBVIOUS
<1>. QED
  BY <1>2, <1>4, <1>5

\* The indices of fields.
LEMMA Ranges ==
  /\ 1..2 = {1, 2} /\ 1..3 = {1, 2, 3} /\ 1..4 = {1, 2, 3, 4} /\ 1..5 = {1, 2, 3, 4, 5}
  /\ 1..6 = {1, 2, 3, 4, 5, 6}
OBVIOUS

\* The oracle reads up to six fields in the first 64 bytes.
LEMMA OracleIsTyped ==
  ASSUME NEW name \in DOMAIN oracle
  PROVE  /\ Count(name) \in 0..6 /\ DOMAIN oracle[name] = 1..Count(name)
         /\ \A i \in 1..Count(name) :
              oracle[name][i].at \in 0..63 /\ oracle[name][i].type \in Types
<1>1. CASE name = "color"
  BY <1>1, ColorOracle, Ranges DEF reads, Types, SizeOf
<1>2. CASE name = "vector2"
  BY <1>2, Vector2Oracle, Ranges DEF reads, Types, SizeOf
<1>3. CASE name = "vector3"
  BY <1>3, Vector3Oracle, Ranges DEF reads, Types, SizeOf
<1>4. CASE name = "rectangle"
  BY <1>4, RectangleOracle, Ranges DEF reads, Types, SizeOf
<1>5. CASE name = "camera2d"
  BY <1>5, Camera2dOracle, Ranges DEF reads, Types, SizeOf
<1>6. CASE name = "camera3d"
  BY <1>6, Camera3dOracle, Ranges DEF reads, Types, SizeOf
<1>7. CASE name = "texture2d"
  BY <1>7, Texture2dOracle, Ranges DEF reads, Types, SizeOf
<1>. QED
  BY <1>1, <1>2, <1>3, <1>4, <1>5, <1>6, <1>7, OracleNames

\* The i-th field the oracle reads, as the layout has it, and what is read.
Where(name, layout, i) == FieldAt(layout, oracle[name][i].field)
Found(name, layout, i) == read(written(name, layout), oracle[name][i].at, oracle[name][i].type)

\* Every field the oracle reads is declared.
HasFields(name, layout) == \A r \in ToSet(oracle[name]) : r.field \in FieldNames(layout)

\* Each number that is read stands at the start of the field it was written to.
ReadsWhatWasWritten(name, layout, i) ==
  \/ Found(name, layout, i) = 0 \/ Found(name, layout, i) = Garbage
  \/ \E j \in 1..Count(name) :
       /\ Found(name, layout, i) = j /\ Where(name, layout, j).at = oracle[name][i].at
       /\ oracle[name][i].type \in Floats => Where(name, layout, j).type = oracle[name][i].type

\* Such a field is in the layout, within its size.
LEMMA FieldsAreFound ==
  ASSUME NEW name \in DOMAIN oracle, NEW layout, IsLayout(layout), HasFields(name, layout),
         NEW i \in 1..Count(name)
  PROVE  /\ Where(name, layout, i) \in layout.at
         /\ Where(name, layout, i).field = oracle[name][i].field
         /\ Where(name, layout, i).at \in Nat /\ Where(name, layout, i).type \in Types
         /\ Where(name, layout, i).at + SizeOf[Where(name, layout, i).type] <= layout.size
<1>1. oracle[name][i] \in ToSet(oracle[name])
  BY OracleIsTyped DEF ToSet, Count
<1>2. \E f \in layout.at : f.field = oracle[name][i].field
  BY <1>1 DEF HasFields, FieldNames
<1>3. /\ Where(name, layout, i) \in layout.at
      /\ Where(name, layout, i).field = oracle[name][i].field
  BY <1>2, Zenon DEF Where, FieldAt
<1>. QED
  BY <1>3 DEF IsLayout, IsField

\* What the oracle reads was written through the declaration.
LEMMA WrittenIsRead ==
  ASSUME NEW name \in DOMAIN oracle, NEW layout, IsLayout(layout), HasFields(name, layout)
  PROVE  \A i \in 1..Count(name) : ReadsWhatWasWritten(name, layout, i)
<1> DEFINE n == Count(name)
           fields == [i \in DOMAIN oracle[name] |-> FieldAt(layout, oracle[name][i].field)]
           values == [i \in DOMAIN oracle[name] |-> i]
<1>1. n \in 0..6 /\ DOMAIN oracle[name] = 1..n
  BY OracleIsTyped
<1>2. Len(fields) = n /\ \A i \in 1..n : fields[i] = Where(name, layout, i) /\ values[i] = i
  <2>1. DOMAIN fields = 1..n /\ n \in Nat
    BY <1>1
  <2>2. Len(fields) = n
    BY <2>1, <1>1, LenProperties
  <2>. QED
    BY <1>1, <2>2 DEF Where
<1>3. written(name, layout) = stored(fields, values)
  BY DEF written, Count
<1> HIDE DEF fields, values
<1>4. TypedFields(fields)
  BY <1>1, <1>2, FieldsAreFound DEF TypedFields
<1>5. SmallValues(values, Len(fields))
  <2>1. \A last \in 0..6 : \A i \in 1..last : i \in 1..255
    OBVIOUS
  <2>2. \A i \in 1..n : values[i] \in 1..255
    BY <1>1, <1>2, <2>1, Zenon
  <2>. QED
    BY <1>2, <2>2 DEF SmallValues
<1>6. TAKE i \in 1..n
<1> DEFINE r == oracle[name][i]
<1>7. r.at \in 0..63 /\ r.type \in Types
  BY OracleIsTyped
<1>8. IsWritten(Found(name, layout, i), fields, values, r.at, r.type)
  <2>1. Found(name, layout, i) = read(stored(fields, values), r.at, r.type)
    BY <1>3 DEF Found
  <2> HIDE DEF r
  <2>. QED
    BY <1>4, <1>5, <1>7, <2>1, ReadFinds
<1>. QED
  BY <1>2, <1>8 DEF ReadsWhatWasWritten, IsWritten

\* What verify! has seen, of the layout and of the numbers.
LEMMA VerifiedSees ==
  ASSUME NEW name \in DOMAIN oracle, NEW members, IsDeclaration(members, 3), verify(name, members)
  PROVE  LET layout == layoutOf(members)
             n == Count(name)
         IN /\ layoutObserved(name, layout) /\ HasFields(name, layout)
            /\ returnObserved(name, layout)
            /\ \A i \in 1..n :
                 /\ Where(name, layout, i) \in layout.at
                 /\ Where(name, layout, i).field = oracle[name][i].field
                 /\ Where(name, layout, i).at \in Nat /\ Where(name, layout, i).type \in Types
                 /\ Where(name, layout, i).at + SizeOf[Where(name, layout, i).type] <= layout.size
                 /\ ReadsWhatWasWritten(name, layout, i)
            /\ \E sum :
                 /\ sum[0] = 0 /\ sum[n] = expectedScores[name]
                 /\ \A i \in 1..n :
                      sum[i] = sum[i - 1] + oracle[name][i].weight * Found(name, layout, i)
<1> DEFINE layout == layoutOf(members)
<1>1. IsLayout(layout)
  BY StructByMembers
<1>2. /\ layoutObserved(name, layout) /\ HasFields(name, layout) /\ returnObserved(name, layout)
      /\ score(name, written(name, layout)) = expectedScores[name]
  BY Zenon DEF verify, HasFields
<1>3. PICK sum :
        /\ sum[0] = 0 /\ score(name, written(name, layout)) = sum[Count(name)]
        /\ \A i \in 1..Count(name) :
             sum[i] = sum[i - 1] + oracle[name][i].weight * Found(name, layout, i)
  <2>1. Count(name) \in 0..6
    BY OracleIsTyped
  <2>. QED
    BY <2>1, ScoreIsSum DEF Found, Count
<1> HIDE DEF layout
<1>4. \A i \in 1..Count(name) :
        /\ Where(name, layout, i) \in layout.at
        /\ Where(name, layout, i).field = oracle[name][i].field
        /\ Where(name, layout, i).at \in Nat /\ Where(name, layout, i).type \in Types
        /\ Where(name, layout, i).at + SizeOf[Where(name, layout, i).type] <= layout.size
  BY <1>1, <1>2, FieldsAreFound
<1>5. \A i \in 1..Count(name) : ReadsWhatWasWritten(name, layout, i)
  BY <1>1, <1>2, WrittenIsRead
<1>6. \E s : /\ s[0] = 0 /\ s[Count(name)] = expectedScores[name]
             /\ \A i \in 1..Count(name) :
                  s[i] = s[i - 1] + oracle[name][i].weight * Found(name, layout, i)
  BY <1>2, <1>3, Zenon
<1>. QED
  BY <1>2, <1>4, <1>5, <1>6 DEF layout

\* Laid out as C has it, as far as the oracle reads it.
AsInC(name, layout) ==
  /\ layout.size = expectedLayouts[name].size
  /\ \A i \in 1..Count(name) : Where(name, layout, i).at = oracle[name][i].at

\* With weights 1, 10, 100, 1000 the score has one digit for each number.
LEMMA FourDigits ==
  ASSUME NEW a, NEW b, NEW c, NEW d,
         \A v \in {a, b, c, d} : v \in 0..4 \/ v = Garbage,
         a + 10 * b + 100 * c + 1000 * d = 4321
  PROVE  a = 1 /\ b = 2 /\ c = 3 /\ d = 4
BY SMT DEF Garbage

LEMMA ThreeDigits ==
  ASSUME NEW a, NEW b, NEW c,
         \A v \in {a, b, c} : v \in 0..3 \/ v = Garbage,
         a + 10 * b + 100 * c = 321
  PROVE  a = 1 /\ b = 2 /\ c = 3
BY SMT DEF Garbage

\* Six numbers with the sum of 1..6, each written once: all of them are read.
LEMMA SixSummed ==
  ASSUME NEW a, NEW b, NEW c, NEW d, NEW e, NEW f, NEW y, NEW z, y \in Nat, z \in Nat,
         a + b + c + d + e + f = 21,
         a \in {0, 1, Garbage} \/ (a = 2 /\ y = 0) \/ (a = 4 /\ z = 0),
         b \in {0, Garbage} \/ (b = 2 /\ y = 4) \/ (b = 4 /\ z = 4),
         c \in {0, 3, Garbage} \/ (c = 2 /\ y = 8) \/ (c = 4 /\ z = 8),
         d \in {0, Garbage} \/ (d = 2 /\ y = 12) \/ (d = 4 /\ z = 12),
         e \in {0, 5, Garbage} \/ (e = 2 /\ y = 16) \/ (e = 4 /\ z = 16),
         f \in {0, 6, Garbage} \/ (f = 2 /\ y = 20) \/ (f = 4 /\ z = 20)
  PROVE  (y = 4 /\ z = 12) \/ (y = 12 /\ z = 4)
BY SMT DEF Garbage

\* The offsets that verify! compares.
LEMMA ExpectedPlaces ==
  ASSUME NEW name, NEW layout, layoutObserved(name, layout)
  PROVE  /\ name = "color" => FieldAt(layout, <<"r", "self">>).at = 0
         /\ name = "vector2" => /\ FieldAt(layout, <<"x", "self">>).at = 0
                                /\ FieldAt(layout, <<"y", "self">>).at = 4
         /\ name = "camera2d" => /\ FieldAt(layout, <<"offset", "x">>).at = 0
                                 /\ FieldAt(layout, <<"target", "x">>).at = 8
                                 /\ FieldAt(layout, <<"rotation", "self">>).at = 16
                                 /\ FieldAt(layout, <<"zoom", "self">>).at = 20
         /\ name = "camera3d" => /\ <<"target", "x">> \in FieldNames(layout)
                                 /\ <<"up", "x">> \in FieldNames(layout)
                                 /\ FieldAt(layout, <<"target", "x">>).at = 12
                                 /\ FieldAt(layout, <<"up", "x">>).at = 24
                                 /\ FieldAt(layout, <<"fovy", "self">>).at = 36
                                 /\ FieldAt(layout, <<"projection", "self">>).at = 40
         /\ name = "texture2d" => layout.size = 20
<1>1. CASE name = "color"
  <2>1. {<<<<"r", "self">>, 0>>}
          \subseteq expectedLayouts[name].at
    BY <1>1 DEF expectedLayouts
  <2>. QED
    BY <1>1, <2>1 DEF layoutObserved
<1>2. CASE name = "vector2"
  <2>1. {<<<<"x", "self">>, 0>>, <<<<"y", "self">>, 4>>}
          \subseteq expectedLayouts[name].at
    BY <1>2 DEF expectedLayouts
  <2>. QED
    BY <1>2, <2>1 DEF layoutObserved
<1>3. CASE name = "camera2d"
  <2>1. {<<<<"offset", "x">>, 0>>, <<<<"target", "x">>, 8>>,
         <<<<"rotation", "self">>, 16>>, <<<<"zoom", "self">>, 20>>}
          \subseteq expectedLayouts[name].at
    BY <1>3 DEF expectedLayouts
  <2>. QED
    BY <1>3, <2>1 DEF layoutObserved
<1>4. CASE name = "camera3d"
  <2>1. {<<<<"target", "x">>, 12>>, <<<<"up", "x">>, 24>>,
         <<<<"fovy", "self">>, 36>>, <<<<"projection", "self">>, 40>>}
          \subseteq expectedLayouts[name].at
    BY <1>4 DEF expectedLayouts
  <2>. QED
    BY <1>4, <2>1 DEF layoutObserved
<1>5. name = "texture2d" => layout.size = 20
  BY DEF layoutObserved, expectedLayouts
<1>. QED
  BY <1>1, <1>2, <1>3, <1>4, <1>5

\* The scores that verify! expects.
LEMMA Scores ==
  /\ expectedScores["color"] = 4321 /\ expectedScores["vector3"] = 321
  /\ expectedScores["rectangle"] = 4321
  /\ expectedScores["camera2d"] = 21 /\ expectedScores["camera3d"] = 15
BY DEF expectedScores

\* Both fields of a vector2 are compared.
LEMMA Vector2AsInC ==
  ASSUME NEW members, IsDeclaration(members, 3), verify("vector2", members)
  PROVE  AsInC("vector2", layoutOf(members))
<1>1. layoutObserved("vector2", layoutOf(members))
  BY VerifiedSees, OracleNames
<1>2. \A i \in 1..2 : Where("vector2", layoutOf(members), i).at = oracle["vector2"][i].at
  BY <1>1, ExpectedPlaces, Vector2Oracle, Ranges DEF Where, reads
<1>. QED
  BY <1>1, <1>2, Vector2Oracle DEF AsInC, layoutObserved

\* No field is written with zero or garbage.
LEMMA GarbageIsNoNumber ==
  Garbage \in Int /\ \A n \in 0..6 : \A i \in 1..n : i # 0 /\ i # Garbage
BY SMT DEF Garbage

\* When the weights tell the numbers apart, every number is its own.
LEMMA OwnNumbersAsInC ==
  ASSUME NEW name \in DOMAIN oracle, NEW layout, layoutObserved(name, layout),
         \A i \in 1..Count(name) :
           ReadsWhatWasWritten(name, layout, i) /\ Found(name, layout, i) = i
  PROVE  AsInC(name, layout)
<1>1. \A i \in 1..Count(name) : i # 0 /\ i # Garbage
  BY GarbageIsNoNumber, OracleIsTyped, Zenon
<1>2. ASSUME NEW i \in 1..Count(name) PROVE Where(name, layout, i).at = oracle[name][i].at
  <2>1. PICK j \in 1..Count(name) :
          Found(name, layout, i) = j /\ Where(name, layout, j).at = oracle[name][i].at
    BY <1>1, Zenon DEF ReadsWhatWasWritten
  <2>. QED
    BY <2>1
<1>. QED
  BY <1>2 DEF AsInC, layoutObserved

\* What is read is a field's number, or none.
LEMMA FoundIsNumber ==
  ASSUME NEW name \in DOMAIN oracle, NEW layout, NEW i, ReadsWhatWasWritten(name, layout, i)
  PROVE  Found(name, layout, i) \in 0..Count(name) \/ Found(name, layout, i) = Garbage
<1>1. \A n \in 0..6 : 0 \in 0..n /\ \A j \in 1..n : j \in 0..n
  OBVIOUS
<1>. QED
  BY <1>1, OracleIsTyped, Zenon DEF ReadsWhatWasWritten

\* Four fields with digits of their own are where C has them.
LEMMA FourNumbersAsInC ==
  ASSUME NEW name \in DOMAIN oracle, Count(name) = 4, expectedScores[name] = 4321,
         oracle[name][1].weight = 1, oracle[name][2].weight = 10,
         oracle[name][3].weight = 100, oracle[name][4].weight = 1000,
         NEW members, IsDeclaration(members, 3), verify(name, members)
  PROVE  AsInC(name, layoutOf(members))
<1> DEFINE layout == layoutOf(members)
           found(i) == Found(name, layout, i)
<1>1. /\ layoutObserved(name, layout)
      /\ \A i \in 1..4 : ReadsWhatWasWritten(name, layout, i)
      /\ \E sum : /\ sum[0] = 0 /\ sum[4] = 4321
                  /\ \A i \in 1..4 : sum[i] = sum[i - 1] + oracle[name][i].weight * found(i)
  BY VerifiedSees
<1> HIDE DEF layout
<1>2. \A i \in 1..4 : found(i) \in 0..4 \/ found(i) = Garbage
  <2>1. \A i \in 1..4 : found(i) \in 0..Count(name) \/ found(i) = Garbage
    BY <1>1, FoundIsNumber
  <2>. QED
    BY <2>1
<1>3. found(1) + 10 * found(2) + 100 * found(3) + 1000 * found(4) = 4321
  <2>1. PICK sum : /\ sum[0] = 0 /\ sum[4] = 4321
                   /\ \A i \in 1..4 : sum[i] = sum[i - 1] + oracle[name][i].weight * found(i)
    BY <1>1
  <2>2. \A i \in 1..4 : found(i) \in Int
    BY <1>2, GarbageIsNoNumber
  <2> HIDE DEF found
  <2>3. /\ sum[1] = 0 + 1 * found(1) /\ sum[2] = sum[1] + 10 * found(2)
        /\ sum[3] = sum[2] + 100 * found(3) /\ 4321 = sum[3] + 1000 * found(4)
    BY <2>1, Ranges
  <2>. QED
    BY <2>2, <2>3
<1>4. found(1) = 1 /\ found(2) = 2 /\ found(3) = 3 /\ found(4) = 4
  <2> HIDE DEF found
  <2>. QED
    BY <1>2, <1>3, FourDigits
<1>5. \A i \in 1..4 : found(i) = i
  BY <1>4, Ranges
<1>. QED
  BY <1>1, <1>5, OwnNumbersAsInC DEF layout
\* Of these structs the score has a digit for each field.
LEMMA ColorAsInC ==
  ASSUME NEW members, IsDeclaration(members, 3), verify("color", members)
  PROVE  AsInC("color", layoutOf(members))
<1>1. /\ oracle["color"][1].weight = 1 /\ oracle["color"][2].weight = 10
      /\ oracle["color"][3].weight = 100 /\ oracle["color"][4].weight = 1000
  BY ColorOracle DEF reads
<1>. QED
  BY <1>1, FourNumbersAsInC, ColorOracle, OracleNames, Scores

LEMMA RectangleAsInC ==
  ASSUME NEW members, IsDeclaration(members, 3), verify("rectangle", members)
  PROVE  AsInC("rectangle", layoutOf(members))
<1>1. /\ oracle["rectangle"][1].weight = 1 /\ oracle["rectangle"][2].weight = 10
      /\ oracle["rectangle"][3].weight = 100 /\ oracle["rectangle"][4].weight = 1000
  BY RectangleOracle DEF reads
<1>. QED
  BY <1>1, FourNumbersAsInC, RectangleOracle, OracleNames, Scores

LEMMA Vector3AsInC ==
  ASSUME NEW members, IsDeclaration(members, 3), verify("vector3", members)
  PROVE  AsInC("vector3", layoutOf(members))
<1> DEFINE layout == layoutOf(members)
           found(i) == Found("vector3", layout, i)
<1>1. /\ layoutObserved("vector3", layout)
      /\ \A i \in 1..3 : ReadsWhatWasWritten("vector3", layout, i)
      /\ \E sum : /\ sum[0] = 0 /\ sum[3] = 321
                  /\ \A i \in 1..3 : sum[i] = sum[i - 1] + oracle["vector3"][i].weight * found(i)
  BY VerifiedSees, OracleNames, Vector3Oracle, Scores
<1> HIDE DEF layout
<1>2. \A i \in 1..3 : found(i) \in 0..3 \/ found(i) = Garbage
  BY <1>1, FoundIsNumber, OracleNames, Vector3Oracle
<1>3. found(1) + 10 * found(2) + 100 * found(3) = 321
  <2>1. PICK sum : /\ sum[0] = 0 /\ sum[3] = 321
                   /\ \A i \in 1..3 : sum[i] = sum[i - 1] + oracle["vector3"][i].weight * found(i)
    BY <1>1
  <2>2. \A i \in 1..3 : found(i) \in Int
    BY <1>2, GarbageIsNoNumber
  <2> HIDE DEF found
  <2>3. /\ sum[1] = 0 + 1 * found(1) /\ sum[2] = sum[1] + 10 * found(2)
        /\ 321 = sum[2] + 100 * found(3)
    BY <2>1, Vector3Oracle, Ranges DEF reads
  <2>. QED
    BY <2>2, <2>3
<1>4. found(1) = 1 /\ found(2) = 2 /\ found(3) = 3
  <2> HIDE DEF found
  <2>. QED
    BY <1>2, <1>3, ThreeDigits
<1>5. \A i \in 1..3 : found(i) = i
  BY <1>4, Ranges
<1>. QED
  BY <1>1, <1>5, OwnNumbersAsInC, OracleNames, Vector3Oracle DEF layout

\* The oracle reads the fields of the cameras without weights: which one it
\* read follows from the places verify! knows, and from what fits a struct.
LEMMA Camera2dAsInC ==
  ASSUME NEW members, IsDeclaration(members, 2), verify("camera2d", members)
  PROVE  AsInC("camera2d", layoutOf(members))
<1> DEFINE layout == layoutOf(members)
           found(i) == Found("camera2d", layout, i)
           where(i) == Where("camera2d", layout, i)
<1>1. IsDeclaration(members, 3)
  <2>1. \A n : n \in 0..2 => n \in 0..3
    OBVIOUS
  <2>. QED
    BY <2>1, Zenon DEF IsDeclaration
<1>2. /\ layoutObserved("camera2d", layout)
      /\ \A i \in 1..6 : /\ where(i) \in layout.at /\ where(i).field = oracle["camera2d"][i].field
                         /\ where(i).at \in Nat /\ ReadsWhatWasWritten("camera2d", layout, i)
      /\ \E sum : /\ sum[0] = 0 /\ sum[6] = 21
                  /\ \A i \in 1..6 : sum[i] = sum[i - 1] + oracle["camera2d"][i].weight * found(i)
  BY <1>1, VerifiedSees, OracleNames, Camera2dOracle, Scores
<1>3. where(1).at = 0 /\ where(3).at = 8 /\ where(5).at = 16 /\ where(6).at = 20
  BY <1>2, ExpectedPlaces, Camera2dOracle DEF Where, reads
<1> HIDE DEF layout
<1>4. \A i \in 1..6 : \/ found(i) = 0 \/ found(i) = Garbage
                       \/ \E j \in 1..6 : found(i) = j /\ where(j).at = oracle["camera2d"][i].at
  BY <1>2, Camera2dOracle DEF ReadsWhatWasWritten
<1> HIDE DEF found, where
<1>5. found(1) + found(2) + found(3) + found(4) + found(5) + found(6) = 21
  <2>1. PICK sum : /\ sum[0] = 0 /\ sum[6] = 21
                   /\ \A i \in 1..6 : sum[i] = sum[i - 1] + oracle["camera2d"][i].weight * found(i)
    BY <1>2
  <2>2. \A i \in 1..6 : found(i) \in Int
    BY <1>4, GarbageIsNoNumber
  <2>3. /\ sum[1] = 0 + 1 * found(1) /\ sum[2] = sum[1] + 1 * found(2)
        /\ sum[3] = sum[2] + 1 * found(3) /\ sum[4] = sum[3] + 1 * found(4)
        /\ sum[5] = sum[4] + 1 * found(5) /\ 21 = sum[5] + 1 * found(6)
    BY <2>1, Camera2dOracle, Ranges DEF reads
  <2>. QED
    BY <2>2, <2>3
<1>6. \/ where(2).at = 4 /\ where(4).at = 12
      \/ where(2).at = 12 /\ where(4).at = 4
  <2> DEFINE Known(i, at) ==
        \/ found(i) = 0 \/ found(i) = Garbage \/ (found(i) = 1 /\ at = 0)
        \/ (found(i) = 2 /\ where(2).at = at) \/ (found(i) = 3 /\ at = 8)
        \/ (found(i) = 4 /\ where(4).at = at) \/ (found(i) = 5 /\ at = 16)
        \/ (found(i) = 6 /\ at = 20)
  <2>1. \A i \in 1..6 : Known(i, oracle["camera2d"][i].at)
    BY <1>3, <1>4, Ranges
  <2> HIDE DEF Known
  <2>2. Known(1, 0) /\ Known(2, 4) /\ Known(3, 8) /\ Known(4, 12) /\ Known(5, 16) /\ Known(6, 20)
    BY <2>1, Camera2dOracle, Ranges DEF reads
  <2>3. where(2).at \in Nat /\ where(4).at \in Nat
    BY <1>2 DEF where
  <2>4. /\ found(1) \in {0, 1, Garbage} \/ (found(1) = 2 /\ where(2).at = 0)
                                        \/ (found(1) = 4 /\ where(4).at = 0)
        /\ found(2) \in {0, Garbage} \/ (found(2) = 2 /\ where(2).at = 4)
                                     \/ (found(2) = 4 /\ where(4).at = 4)
        /\ found(3) \in {0, 3, Garbage} \/ (found(3) = 2 /\ where(2).at = 8)
                                        \/ (found(3) = 4 /\ where(4).at = 8)
        /\ found(4) \in {0, Garbage} \/ (found(4) = 2 /\ where(2).at = 12)
                                     \/ (found(4) = 4 /\ where(4).at = 12)
        /\ found(5) \in {0, 5, Garbage} \/ (found(5) = 2 /\ where(2).at = 16)
                                        \/ (found(5) = 4 /\ where(4).at = 16)
        /\ found(6) \in {0, 6, Garbage} \/ (found(6) = 2 /\ where(2).at = 20)
                                        \/ (found(6) = 4 /\ where(4).at = 20)
    BY <2>2 DEF Known
  <2>. QED
    BY <1>5, <2>3, <2>4, SixSummed
<1>7. where(2).at <= where(1).at + 8
  <2>1. where(1) \in layout.at /\ where(2) \in layout.at /\ where(1).field[1] = where(2).field[1]
    BY <1>2, Camera2dOracle, Ranges DEF where, reads
  <2>. QED
    BY <2>1, FieldsOfOneMember DEF layout
<1>8. \A i \in 1..6 : where(i).at = oracle["camera2d"][i].at
  BY <1>3, <1>6, <1>7, Camera2dOracle, Ranges DEF reads
<1>. QED
  BY <1>2, <1>8, Camera2dOracle DEF AsInC, layoutObserved, where, layout

\* Three offsets near the middle are compared; the distances within a member
\* leave the sum one way to be 15.
LEMMA Camera3dAsInC ==
  ASSUME NEW members, IsDeclaration(members, 3), verify("camera3d", members)
  PROVE  AsInC("camera3d", layoutOf(members))
<1> DEFINE layout == layoutOf(members)
           found(i) == Found("camera3d", layout, i)
           where(i) == Where("camera3d", layout, i)
           targetX == FieldAt(layout, <<"target", "x">>)
           upX == FieldAt(layout, <<"up", "x">>)
<1>1. /\ layoutObserved("camera3d", layout)
      /\ \A i \in 1..5 : /\ where(i) \in layout.at /\ where(i).field = oracle["camera3d"][i].field
                         /\ where(i).at \in Nat /\ ReadsWhatWasWritten("camera3d", layout, i)
      /\ \E sum : /\ sum[0] = 0 /\ sum[5] = 15
                  /\ \A i \in 1..5 : sum[i] = sum[i - 1] + oracle["camera3d"][i].weight * found(i)
  BY VerifiedSees, OracleNames, Camera3dOracle, Scores
<1>2. where(4).at = 36 /\ where(5).at = 40
  BY <1>1, ExpectedPlaces, Camera3dOracle DEF Where, reads
<1>3. /\ targetX \in layout.at /\ targetX.field = <<"target", "x">> /\ targetX.at = 12
      /\ upX \in layout.at /\ upX.field = <<"up", "x">> /\ upX.at = 24
  <2>1. /\ <<"target", "x">> \in FieldNames(layout) /\ <<"up", "x">> \in FieldNames(layout)
        /\ targetX.at = 12 /\ upX.at = 24
    BY <1>1, ExpectedPlaces
  <2>2. /\ \E f \in layout.at : f.field = <<"target", "x">>
        /\ \E f \in layout.at : f.field = <<"up", "x">>
    BY <2>1 DEF FieldNames
  <2>. QED
    BY <2>1, <2>2, Zenon DEF FieldAt
<1> HIDE DEF layout
<1>4. \A i \in 1..5 :
        \/ found(i) = 0 \/ found(i) = Garbage
        \/ \E j \in 1..5 :
             /\ found(i) = j /\ where(j).at = oracle["camera3d"][i].at
             /\ oracle["camera3d"][i].type \in Floats => where(j).type = oracle["camera3d"][i].type
  BY <1>1, Camera3dOracle DEF ReadsWhatWasWritten
<1> HIDE DEF found, where, targetX, upX
<1>5. found(1) + found(2) + found(3) + found(4) + found(5) = 15
  <2>1. PICK sum : /\ sum[0] = 0 /\ sum[5] = 15
                   /\ \A i \in 1..5 : sum[i] = sum[i - 1] + oracle["camera3d"][i].weight * found(i)
    BY <1>1
  <2>2. \A i \in 1..5 : found(i) \in Int
    BY <1>4, GarbageIsNoNumber
  <2>3. /\ sum[1] = 0 + 1 * found(1) /\ sum[2] = sum[1] + 1 * found(2)
        /\ sum[3] = sum[2] + 1 * found(3) /\ sum[4] = sum[3] + 1 * found(4)
        /\ 15 = sum[4] + 1 * found(5)
    BY <2>1, Camera3dOracle, Ranges DEF reads
  <2>. QED
    BY <2>2, <2>3
<1>6. /\ where(1).at \in {0, 16, 32} /\ where(2).at \in {0, 16, 32} /\ where(3).at \in {0, 16, 32}
      /\ where(1).at # where(2).at /\ where(1).at # where(3).at /\ where(2).at # where(3).at
      /\ where(2).at = 0 => found(1) = 2
  <2> DEFINE Known(i, at) ==
        \/ found(i) = 0 \/ found(i) = Garbage \/ (found(i) = 1 /\ where(1).at = at)
        \/ (found(i) = 2 /\ where(2).at = at) \/ (found(i) = 3 /\ where(3).at = at)
        \/ (found(i) = 4 /\ at = 36) \/ (found(i) = 5 /\ at = 40)
  <2>1. \A i \in 1..5 : Known(i, oracle["camera3d"][i].at)
    BY <1>2, <1>4, Ranges
  <2> HIDE DEF Known
  <2>2. Known(1, 0) /\ Known(2, 16) /\ Known(3, 32) /\ Known(4, 36) /\ Known(5, 40)
    BY <2>1, Camera3dOracle, Ranges DEF reads
  <2>3. where(1).at \in Nat /\ where(2).at \in Nat /\ where(3).at \in Nat
    BY <1>1 DEF where
  <2>4. /\ found(1) \in {0, Garbage} \/ (found(1) = 1 /\ where(1).at = 0)
                                     \/ (found(1) = 2 /\ where(2).at = 0)
                                     \/ (found(1) = 3 /\ where(3).at = 0)
        /\ found(2) \in {0, Garbage} \/ (found(2) = 1 /\ where(1).at = 16)
                                     \/ (found(2) = 2 /\ where(2).at = 16)
                                     \/ (found(2) = 3 /\ where(3).at = 16)
        /\ found(3) \in {0, Garbage} \/ (found(3) = 1 /\ where(1).at = 32)
                                     \/ (found(3) = 2 /\ where(2).at = 32)
                                     \/ (found(3) = 3 /\ where(3).at = 32)
        /\ found(4) \in {0, 4, Garbage} \/ (found(4) = 1 /\ where(1).at = 36)
                                        \/ (found(4) = 2 /\ where(2).at = 36)
                                        \/ (found(4) = 3 /\ where(3).at = 36)
        /\ found(5) \in {0, 5, Garbage} \/ (found(5) = 1 /\ where(1).at = 40)
                                        \/ (found(5) = 2 /\ where(2).at = 40)
                                        \/ (found(5) = 3 /\ where(3).at = 40)
    BY <2>2 DEF Known
  <2>. QED
    BY <1>5, <2>3, <2>4, SMT DEF Garbage
<1>7. /\ where(2).at = 0 => where(2).type = "float"
      /\ where(2).at <= targetX.at + 16 /\ targetX.at <= where(2).at + 16
      /\ where(2).at = 0 /\ where(2).type = "float" => targetX.at # 12
  <2>1. /\ where(2) \in layout.at /\ where(2).field[1] = targetX.field[1]
        /\ targetX.field[1] = where(2).field[1]
    BY <1>1, <1>3, Camera3dOracle, Ranges DEF where, reads
  <2>2. ASSUME where(2).at = 0 PROVE where(2).type = "float"
    <3>1. PICK j \in 1..5 : found(1) = j /\ where(j).type = "float"
      <4>1. found(1) # 0 /\ found(1) # Garbage
        BY <1>6, <2>2, GarbageIsNoNumber
      <4>2. oracle["camera3d"][1].type = "float" /\ "float" \in Floats
        BY Camera3dOracle DEF reads, Floats
      <4>. QED
        BY <1>4, <4>1, <4>2, Ranges
    <3>. QED
      BY <1>6, <2>2, <3>1
  <2>3. /\ where(2).at <= targetX.at + 16
        /\ (where(2).at = 0 /\ where(2).type = "float" => targetX.at # 12)
    BY <2>1, <1>3, FieldsOfOneMember DEF layout
  <2>4. targetX.at <= where(2).at + 16
    BY <2>1, <1>3, FieldsOfOneMember DEF layout
  <2>. QED
    BY <2>2, <2>3, <2>4
<1>8. upX.at <= where(3).at + 16
  <2>1. where(3) \in layout.at /\ where(3).field[1] = upX.field[1]
    BY <1>1, <1>3, Camera3dOracle, Ranges DEF where, reads
  <2>. QED
    BY <2>1, <1>3, FieldsOfOneMember DEF layout
<1>9. where(1).at = 0 /\ where(2).at = 16 /\ where(3).at = 32
  BY <1>3, <1>6, <1>7, <1>8
<1>10. \A i \in 1..5 : where(i).at = oracle["camera3d"][i].at
  BY <1>2, <1>9, Camera3dOracle, Ranges DEF reads
<1>. QED
  BY <1>1, <1>10, Camera3dOracle DEF AsInC, layoutObserved, where, layout

\* The scores of a texture only add; what is returned tells its fields apart.
LEMMA Texture2dAsInC ==
  ASSUME NEW members, IsDeclaration(members, 3), verify("texture2d", members)
  PROVE  AsInC("texture2d", layoutOf(members))
<1> DEFINE layout == layoutOf(members)
           where(i) == Where("texture2d", layout, i)
           fields == oracle["texture2d"]
           values == <<7, 8, 9, 10, 11>>
<1>1. /\ layoutObserved("texture2d", layout) /\ returnObserved("texture2d", layout)
      /\ \A i \in 1..5 : /\ where(i).at \in Nat /\ where(i).type \in Types
                         /\ where(i).at + SizeOf[where(i).type] <= layout.size
  BY VerifiedSees, OracleNames, Texture2dOracle
<1>2. layout.size = 20
  BY <1>1, ExpectedPlaces
<1> HIDE DEF layout
<1>3. \A i \in 1..5 : where(i).at \in 0..63 /\ where(i).type \in Types
  <2>1. TAKE i \in 1..5
  <2>2. SizeOf[where(i).type] \in {1, 2, 4, 8}
    BY <1>1, TypesHaveSizes
  <2>. QED
    BY <1>1, <1>2, <2>2
<1>4. expectedReturns["texture2d"] = values /\ "texture2d" \in DOMAIN expectedReturns
  BY DEF expectedReturns
<1>5. DOMAIN values = 1..5 /\ \A i \in 1..5 : values[i] = 6 + i
  BY Ranges
<1> HIDE DEF values
<1>6. \A i \in 1..5 : read(stored(fields, values), where(i).at, where(i).type) = values[i]
  BY <1>1, <1>4, <1>5, Zenon DEF returnObserved, returned, Where
<1>7. TypedFields(fields) /\ SmallValues(values, Len(fields)) /\ 1..Len(fields) = 1..5
  <2>1. /\ Count("texture2d") = 5 /\ \A i \in 1..5 : values[i] \in 1..255
        /\ \A i \in 1..5 : fields[i].at \in Nat /\ fields[i].type \in Types
        /\ Count("texture2d") \in 0..6
    <3>1. \A i \in 1..5 : fields[i].at \in 0..63 /\ fields[i].type \in Types
      BY OracleIsTyped, OracleNames, Texture2dOracle
    <3>2. 5 \in 0..6 /\ Count("texture2d") = 5
      BY Texture2dOracle
    <3>. QED
      BY <1>5, <3>1, <3>2
  <2>. QED
    BY <2>1, Zenon DEF TypedFields, SmallValues, Count
<1>8. ASSUME NEW i \in 1..5 PROVE where(i).at = fields[i].at
  <2>1. IsWritten(values[i], fields, values, where(i).at, where(i).type)
    <3>1. IsWritten(read(stored(fields, values), where(i).at, where(i).type),
                    fields, values, where(i).at, where(i).type)
      BY <1>3, <1>7, ReadFinds
    <3>. QED
      BY <1>6, <3>1
  <2>2. values[i] # 0 /\ values[i] # Garbage
    BY <1>5, SMT DEF Garbage
  <2>3. PICK j \in 1..5 : values[i] = values[j] /\ fields[j].at = where(i).at
    BY <1>7, <2>1, <2>2, Zenon DEF IsWritten
  <2>4. i = j
    BY <1>5, <2>3
  <2>. QED
    BY <2>3, <2>4
<1>. QED
  BY <1>1, <1>8, Texture2dOracle DEF AsInC, layoutObserved, layout

\* Whatever verify! accepts is laid out as C has it.  The two Vector2s of a
\* camera2d never get a third part.
LEMMA VerifiedIsAsInC ==
  ASSUME NEW name \in DOMAIN declarations, NEW members, NEW most \in {2, 3},
         name = "camera2d" => most = 2,
         IsDeclaration(members, most), verify(name, members)
  PROVE  AsInC(name, layoutOf(members))
<1>1. IsDeclaration(members, 3)
  <2>1. \A n : n \in 0..most => n \in 0..3
    OBVIOUS
  <2>. QED
    BY <2>1, Zenon DEF IsDeclaration
<1>2. name \in {"color", "vector2", "vector3", "rectangle", "camera2d", "camera3d", "texture2d"}
  BY DEF declarations
<1>. QED
  BY <1>1, <1>2, ColorAsInC, Vector2AsInC, Vector3AsInC, RectangleAsInC, Camera2dAsInC,
     Camera3dAsInC, Texture2dAsInC

\* The only field of this path lies there.
Lies(layout, path, at, type) ==
  \A f : f \in layout.at /\ f.field = path <=> f = [field |-> path, at |-> at, type |-> type]

\* A field of its own as a member.
LEMMA FieldMember ==
  ASSUME NEW name \in Names, NEW type \in Types
  PROVE  /\ field(name, type) \in Member /\ field(name, type).name = name
         /\ Len(field(name, type).parts) = 1
         /\ memberLayout(field(name, type)).align = SizeOf[type]
         /\ memberLayout(field(name, type)).size = SizeOf[type]
         /\ Lies(memberLayout(field(name, type)), <<name, "self">>, 0, type)
<1> DEFINE member == field(name, type)
<1>1. /\ member \in Member /\ member.name = name /\ Len(member.parts) = 1
      /\ member.parts[1].name = "self" /\ member.parts[1].type = type
  <2> DEFINE part == [name |-> "self", type |-> type]
  <2>1. part \in Part
    BY DEF Part, Names
  <2>2. <<part>> \in Seq(Part) /\ Len(<<part>>) = 1 /\ <<part>>[1] = part
    BY <2>1
  <2>3. member = [name |-> name, parts |-> <<part>>]
    BY DEF field
  <2>. QED
    BY <2>2, <2>3 DEF Member
<1>2. SizeOf[type] \in {1, 2, 4, 8}
  BY TypesHaveSizes
<1> HIDE DEF member
<1>3. Len(member.parts) \in 0..3 /\ 1..Len(member.parts) = {1}
  BY <1>1
<1>4. AllAligned(member, SizeOf[type])
  BY <1>1, <1>3 DEF AllAligned
<1>5. PICK starts :
        /\ starts[1] = 0
        /\ \A f : f \in memberLayout(member).at <=>
             \E k \in 1..Len(member.parts) : f = PartAt(member, k, starts[k])
        /\ memberLayout(member).align = SizeOf[type]
        /\ memberLayout(member).size = roundUp(starts[1] + SizeOf[type], SizeOf[type])
  BY <1>1, <1>3, <1>4, MemberByParts
<1>6. memberLayout(member).size = SizeOf[type]
  BY <1>2, <1>5 DEF roundUp
<1>7. PartAt(member, 1, starts[1]) = [field |-> <<name, "self">>, at |-> 0, type |-> type]
  BY <1>1, <1>5 DEF PartAt
<1>8. Lies(memberLayout(member), <<name, "self">>, 0, type)
  BY <1>3, <1>5, <1>7 DEF Lies
<1>. QED
  BY <1>1, <1>5, <1>6, <1>8 DEF member

\* A Vector2 as a member.
LEMMA FloatPairMember ==
  ASSUME NEW name \in Names
  PROVE  LET member == inner(name, partsOf("float", <<"x", "y">>))
         IN /\ member \in Member /\ member.name = name /\ Len(member.parts) = 2
            /\ memberLayout(member).align = 4 /\ memberLayout(member).size = 8
            /\ Lies(memberLayout(member), <<name, "x">>, 0, "float")
            /\ Lies(memberLayout(member), <<name, "y">>, 4, "float")
<1> DEFINE member == inner(name, partsOf("float", <<"x", "y">>))
<1>1. member.parts = <<[name |-> "x", type |-> "float"], [name |-> "y", type |-> "float"]>>
  BY DEF inner, partsOf
<1>2. /\ member \in Member /\ member.name = name /\ Len(member.parts) = 2
      /\ member.parts[1].name = "x" /\ member.parts[1].type = "float"
      /\ member.parts[2].name = "y" /\ member.parts[2].type = "float"
  <2>1. member = [name |-> name, parts |-> member.parts]
    BY DEF inner
  <2> DEFINE px == [name |-> "x", type |-> "float"]  py == [name |-> "y", type |-> "float"]
  <2>2. px \in Part /\ py \in Part
    BY TypesHaveSizes DEF Part, Names
  <2>3. /\ <<px, py>> \in Seq(Part) /\ Len(<<px, py>>) = 2
        /\ <<px, py>>[1] = px /\ <<px, py>>[2] = py
    BY <2>2
  <2> HIDE DEF member
  <2>4. member.parts \in Seq(Part) /\ Len(member.parts) = 2
    BY <1>1, <2>3
  <2>5. member \in Member /\ member.name = name
    BY <2>1, <2>4 DEF Member
  <2>6. member.parts[1] = px /\ member.parts[2] = py
    BY <1>1, <2>3
  <2>. QED
    BY <2>4, <2>5, <2>6
<1> HIDE DEF member
<1>3. Len(member.parts) \in 0..3 /\ 1..Len(member.parts) = {1, 2} /\ 2 \in 2..Len(member.parts)
  BY <1>2
<1>4. AllAligned(member, 4)
  BY <1>2, <1>3, TypesHaveSizes DEF AllAligned
<1>5. PICK starts :
        /\ starts[1] = 0 /\ starts[2] = roundUp(starts[1] + 4, 4)
        /\ \A f : f \in memberLayout(member).at <=>
             \E k \in 1..Len(member.parts) : f = PartAt(member, k, starts[k])
        /\ memberLayout(member).align = 4
        /\ memberLayout(member).size = roundUp(starts[2] + 4, 4)
  BY <1>2, <1>3, <1>4, MemberByParts, TypesHaveSizes
<1>6. starts[2] = 4 /\ memberLayout(member).size = 8
  BY <1>5 DEF roundUp
<1>7. /\ PartAt(member, 1, starts[1]) = [field |-> <<name, "x">>, at |-> 0, type |-> "float"]
      /\ PartAt(member, 2, starts[2]) = [field |-> <<name, "y">>, at |-> 4, type |-> "float"]
  BY <1>2, <1>5, <1>6 DEF PartAt
<1>8. /\ Lies(memberLayout(member), <<name, "x">>, 0, "float")
      /\ Lies(memberLayout(member), <<name, "y">>, 4, "float")
  <2>1. <<name, "x">> # <<name, "y">>
    OBVIOUS
  <2>2. \A f : f \in memberLayout(member).at <=>
               \/ f = [field |-> <<name, "x">>, at |-> 0, type |-> "float"]
               \/ f = [field |-> <<name, "y">>, at |-> 4, type |-> "float"]
    BY <1>3, <1>5, <1>7
  <2>. QED
    BY <2>1, <2>2 DEF Lies
<1>. QED
  BY <1>2, <1>5, <1>6, <1>8 DEF member

\* A Vector3 as a member.
LEMMA FloatTripleMember ==
  ASSUME NEW name \in Names
  PROVE  LET member == inner(name, partsOf("float", <<"x", "y", "z">>))
         IN /\ member \in Member /\ member.name = name /\ Len(member.parts) = 3
            /\ memberLayout(member).align = 4 /\ memberLayout(member).size = 12
            /\ Lies(memberLayout(member), <<name, "x">>, 0, "float")
            /\ Lies(memberLayout(member), <<name, "y">>, 4, "float")
            /\ Lies(memberLayout(member), <<name, "z">>, 8, "float")
<1> DEFINE member == inner(name, partsOf("float", <<"x", "y", "z">>))
<1>1. member.parts = <<[name |-> "x", type |-> "float"], [name |-> "y", type |-> "float"],
                       [name |-> "z", type |-> "float"]>>
  BY DEF inner, partsOf
<1>2. /\ member \in Member /\ member.name = name /\ Len(member.parts) = 3
      /\ member.parts[1].name = "x" /\ member.parts[1].type = "float"
      /\ member.parts[2].name = "y" /\ member.parts[2].type = "float"
      /\ member.parts[3].name = "z" /\ member.parts[3].type = "float"
  <2>1. member = [name |-> name, parts |-> member.parts]
    BY DEF inner
  <2> DEFINE px == [name |-> "x", type |-> "float"]
             py == [name |-> "y", type |-> "float"]
             pz == [name |-> "z", type |-> "float"]
  <2>2. px \in Part /\ py \in Part /\ pz \in Part
    BY TypesHaveSizes DEF Part, Names
  <2>3. /\ <<px, py, pz>> \in Seq(Part) /\ Len(<<px, py, pz>>) = 3
        /\ <<px, py, pz>>[1] = px /\ <<px, py, pz>>[2] = py /\ <<px, py, pz>>[3] = pz
    BY <2>2
  <2> HIDE DEF member
  <2>4. member.parts \in Seq(Part) /\ Len(member.parts) = 3
    BY <1>1, <2>3
  <2>5. member \in Member /\ member.name = name
    BY <2>1, <2>4 DEF Member
  <2>6. member.parts[1] = px /\ member.parts[2] = py /\ member.parts[3] = pz
    BY <1>1, <2>3
  <2>. QED
    BY <2>4, <2>5, <2>6
<1> HIDE DEF member
<1>3. /\ Len(member.parts) \in 0..3 /\ 1..Len(member.parts) = {1, 2, 3}
      /\ 2 \in 2..Len(member.parts) /\ 3 \in 2..Len(member.parts)
  BY <1>2
<1>4. AllAligned(member, 4)
  BY <1>2, <1>3, TypesHaveSizes DEF AllAligned
<1>5. PICK starts :
        /\ starts[1] = 0 /\ starts[2] = roundUp(starts[1] + 4, 4)
        /\ starts[3] = roundUp(starts[2] + 4, 4)
        /\ \A f : f \in memberLayout(member).at <=>
             \E k \in 1..Len(member.parts) : f = PartAt(member, k, starts[k])
        /\ memberLayout(member).align = 4
        /\ memberLayout(member).size = roundUp(starts[3] + 4, 4)
  <2>1. PICK starts \in [1..Len(member.parts) -> Nat] :
          /\ Len(member.parts) > 0 => starts[1] = 0
          /\ \A k \in 2..Len(member.parts) :
               starts[k] = roundUp(starts[k - 1] + SizeOf[member.parts[k - 1].type],
                                   SizeOf[member.parts[k].type])
          /\ \A f : f \in memberLayout(member).at <=>
               \E k \in 1..Len(member.parts) : f = PartAt(member, k, starts[k])
          /\ \A align : AllAligned(member, align) =>
               /\ memberLayout(member).align = align
               /\ memberLayout(member).size = roundUp(starts[Len(member.parts)] + align, align)
    BY <1>2, <1>3, MemberByParts
  <2>2. starts[2] = roundUp(starts[1] + 4, 4) /\ starts[3] = roundUp(starts[2] + 4, 4)
    BY <1>2, <1>3, <2>1, TypesHaveSizes
  <2>. QED
    BY <1>2, <1>4, <2>1, <2>2
<1>6. starts[2] = 4 /\ starts[3] = 8 /\ memberLayout(member).size = 12
  BY <1>5 DEF roundUp
<1>7. /\ PartAt(member, 1, starts[1]) = [field |-> <<name, "x">>, at |-> 0, type |-> "float"]
      /\ PartAt(member, 2, starts[2]) = [field |-> <<name, "y">>, at |-> 4, type |-> "float"]
      /\ PartAt(member, 3, starts[3]) = [field |-> <<name, "z">>, at |-> 8, type |-> "float"]
  BY <1>2, <1>5, <1>6 DEF PartAt
<1>8. /\ Lies(memberLayout(member), <<name, "x">>, 0, "float")
      /\ Lies(memberLayout(member), <<name, "y">>, 4, "float")
      /\ Lies(memberLayout(member), <<name, "z">>, 8, "float")
  <2>1. /\ <<name, "x">> # <<name, "y">> /\ <<name, "x">> # <<name, "z">>
        /\ <<name, "y">> # <<name, "z">>
    OBVIOUS
  <2>2. \A f : f \in memberLayout(member).at <=>
               \/ f = [field |-> <<name, "x">>, at |-> 0, type |-> "float"]
               \/ f = [field |-> <<name, "y">>, at |-> 4, type |-> "float"]
               \/ f = [field |-> <<name, "z">>, at |-> 8, type |-> "float"]
    BY <1>3, <1>5, <1>7
  <2>. QED
    BY <2>1, <2>2 DEF Lies
<1>. QED
  BY <1>2, <1>5, <1>6, <1>8 DEF member

\* A field of a struct lies behind its member's start.
LEMMA LiesInStruct ==
  ASSUME NEW members, IsDeclaration(members, 3), NEW starts, FieldsOfMembers(starts, members),
         NEW m \in 1..Len(members), NEW part, NEW at, NEW type,
         Lies(memberLayout(members[m]), <<members[m].name, part>>, at, type)
  PROVE  Lies(layoutOf(members), <<members[m].name, part>>, starts[m] + at, type)
<1> DEFINE path == <<members[m].name, part>>
           g == [field |-> path, at |-> at, type |-> type]
           target == [field |-> path, at |-> starts[m] + at, type |-> type]
<1>1. target = Moved(g, starts[m]) /\ g \in memberLayout(members[m]).at /\ target.field = path
  BY DEF Lies, Moved
<1>2. target \in layoutOf(members).at
  BY <1>1, Zenon DEF FieldsOfMembers
<1>3. ASSUME NEW f \in layoutOf(members).at, f.field = path PROVE f = target
  <2>1. PICK i \in 1..Len(members) :
          \E h \in memberLayout(members[i]).at : f = Moved(h, starts[i])
    BY Zenon DEF FieldsOfMembers
  <2>2. PICK h \in memberLayout(members[i]).at : f = Moved(h, starts[i])
    BY <2>1
  <2>3. h.field = path
    BY <1>3, <2>2 DEF Moved
  <2>4. members[i] \in Member /\ Len(members[i].parts) \in 0..3
    BY MembersAreTyped DEF IsDeclaration
  <2>5. h.field[1] = members[i].name
    BY <2>4, MemberDistances
  <2>6. i = m
    BY <2>3, <2>5 DEF IsDeclaration
  <2>7. h = g
    BY <2>2, <2>3, <2>6 DEF Lies
  <2>. QED
    BY <1>1, <2>2, <2>6, <2>7
<1>. QED
  BY <1>1, <1>2, <1>3 DEF Lies

\* The names and the types that the source uses.
LEMMA AllNames ==
  /\ "r" \in Names /\ "g" \in Names /\ "b" \in Names /\ "a" \in Names /\ "x" \in Names
  /\ "y" \in Names /\ "z" \in Names /\ "width" \in Names /\ "height" \in Names
  /\ "offset" \in Names /\ "target" \in Names /\ "rotation" \in Names /\ "zoom" \in Names
  /\ "position" \in Names /\ "up" \in Names /\ "fovy" \in Names /\ "projection" \in Names
  /\ "id" \in Names /\ "mipmaps" \in Names /\ "format" \in Names
BY DEF Names

LEMMA SizesOfTypes ==
  /\ "float" \in Types /\ "uint8" \in Types /\ "int" \in Types /\ "uint" \in Types
  /\ SizeOf["float"] = 4 /\ SizeOf["uint8"] = 1 /\ SizeOf["int"] = 4 /\ SizeOf["uint"] = 4
BY TypesHaveSizes

\* A declaration of members with fewer parts is one of members with more.
LEMMA FewerParts ==
  ASSUME NEW members, NEW most \in {2, 3}, IsDeclaration(members, most)
  PROVE  IsDeclaration(members, 3)
<1>1. \A n : n \in 0..most => n \in 0..3
  OBVIOUS
<1>. QED
  BY <1>1, Zenon DEF IsDeclaration

\* Where the declarations of the source put their fields.
LEMMA OriginalColor ==
  LET members == declarations["color"]
  IN /\ IsDeclaration(members, 3) /\ layoutOf(members).size = 4
     /\ Lies(layoutOf(members), <<"r", "self">>, 0, "uint8")
     /\ Lies(layoutOf(members), <<"g", "self">>, 1, "uint8")
     /\ Lies(layoutOf(members), <<"b", "self">>, 2, "uint8")
     /\ Lies(layoutOf(members), <<"a", "self">>, 3, "uint8")
<1> DEFINE members == declarations["color"]
<1>1. members = <<field("r", "uint8"), field("g", "uint8"), field("b", "uint8"),
                  field("a", "uint8")>>
  BY DEF declarations, fieldsOf
<1> HIDE DEF members
<1>2. /\ Len(members) = 4 /\ members[1] = field("r", "uint8") /\ members[2] = field("g", "uint8")
      /\ members[3] = field("b", "uint8") /\ members[4] = field("a", "uint8")
  BY <1>1
<1>3. /\ members[1] \in Member /\ members[1].name = "r" /\ Len(members[1].parts) = 1
      /\ memberLayout(members[1]).align = 1 /\ memberLayout(members[1]).size = 1
      /\ Lies(memberLayout(members[1]), <<"r", "self">>, 0, "uint8")
  BY <1>2, AllNames, FieldMember, SizesOfTypes
<1>4. /\ members[2] \in Member /\ members[2].name = "g" /\ Len(members[2].parts) = 1
      /\ memberLayout(members[2]).align = 1 /\ memberLayout(members[2]).size = 1
      /\ Lies(memberLayout(members[2]), <<"g", "self">>, 0, "uint8")
  BY <1>2, AllNames, FieldMember, SizesOfTypes
<1>5. /\ members[3] \in Member /\ members[3].name = "b" /\ Len(members[3].parts) = 1
      /\ memberLayout(members[3]).align = 1 /\ memberLayout(members[3]).size = 1
      /\ Lies(memberLayout(members[3]), <<"b", "self">>, 0, "uint8")
  BY <1>2, AllNames, FieldMember, SizesOfTypes
<1>6. /\ members[4] \in Member /\ members[4].name = "a" /\ Len(members[4].parts) = 1
      /\ memberLayout(members[4]).align = 1 /\ memberLayout(members[4]).size = 1
      /\ Lies(memberLayout(members[4]), <<"a", "self">>, 0, "uint8")
  BY <1>2, AllNames, FieldMember, SizesOfTypes
<1>7. 1..Len(members) = {1, 2, 3, 4} /\ 2..Len(members) = {2, 3, 4}
  BY <1>2
<1>8. IsDeclaration(members, 3)
  <2>1. members \in Seq(Member)
    BY <1>1, <1>2, <1>3, <1>4, <1>5, <1>6
  <2>2. Len(members) \in 0..5 /\ \A m \in 1..Len(members) : Len(members[m].parts) \in 0..3
    BY <1>2, <1>3, <1>4, <1>5, <1>6, <1>7
  <2>3. \A i, j \in 1..Len(members) : members[i].name = members[j].name => i = j
    BY <1>3, <1>4, <1>5, <1>6, <1>7
  <2>. QED
    BY <2>1, <2>2, <2>3 DEF IsDeclaration
<1>9. IsDeclaration(members, 3)
  BY <1>8, FewerParts
<1>10. AllMembersAligned(members, 1)
  BY <1>2, <1>3, <1>4, <1>5, <1>6, <1>7 DEF AllMembersAligned
<1>11. PICK starts :
        /\ FieldsOfMembers(starts, members) /\ starts[1] = 0
        /\ \A m \in 2..Len(members) :
             starts[m] = roundUp(starts[m - 1] + memberLayout(members[m - 1]).size,
                                 memberLayout(members[m]).align)
        /\ layoutOf(members).size =
             roundUp(starts[Len(members)] + memberLayout(members[Len(members)]).size, 1)
  BY <1>2, <1>9, <1>10, StructByMembers
<1>12. /\ starts[2] = roundUp(starts[1] + 1, 1) /\ starts[3] = roundUp(starts[2] + 1, 1)
      /\ starts[4] = roundUp(starts[3] + 1, 1)
      /\ layoutOf(members).size = roundUp(starts[4] + 1, 1)
  BY <1>2, <1>3, <1>4, <1>5, <1>6, <1>7, <1>11
<1>13. /\ starts[1] = 0 /\ starts[2] = 1 /\ starts[3] = 2 /\ starts[4] = 3
      /\ layoutOf(members).size = 4
  BY <1>11, <1>12 DEF roundUp
<1>14. /\ Lies(layoutOf(members), <<"r", "self">>, starts[1] + 0, "uint8")
      /\ Lies(layoutOf(members), <<"g", "self">>, starts[2] + 0, "uint8")
      /\ Lies(layoutOf(members), <<"b", "self">>, starts[3] + 0, "uint8")
      /\ Lies(layoutOf(members), <<"a", "self">>, starts[4] + 0, "uint8")
  BY <1>3, <1>4, <1>5, <1>6, <1>7, <1>9, <1>11, LiesInStruct
<1>. QED
  BY <1>8, <1>13, <1>14 DEF members

LEMMA OriginalVector2 ==
  LET members == declarations["vector2"]
  IN /\ IsDeclaration(members, 3) /\ layoutOf(members).size = 8
     /\ Lies(layoutOf(members), <<"x", "self">>, 0, "float")
     /\ Lies(layoutOf(members), <<"y", "self">>, 4, "float")
<1> DEFINE members == declarations["vector2"]
<1>1. members = <<field("x", "float"), field("y", "float")>>
  BY DEF declarations, fieldsOf
<1> HIDE DEF members
<1>2. /\ Len(members) = 2 /\ members[1] = field("x", "float") /\ members[2] = field("y", "float")
  BY <1>1
<1>3. /\ members[1] \in Member /\ members[1].name = "x" /\ Len(members[1].parts) = 1
      /\ memberLayout(members[1]).align = 4 /\ memberLayout(members[1]).size = 4
      /\ Lies(memberLayout(members[1]), <<"x", "self">>, 0, "float")
  BY <1>2, AllNames, FieldMember, SizesOfTypes
<1>4. /\ members[2] \in Member /\ members[2].name = "y" /\ Len(members[2].parts) = 1
      /\ memberLayout(members[2]).align = 4 /\ memberLayout(members[2]).size = 4
      /\ Lies(memberLayout(members[2]), <<"y", "self">>, 0, "float")
  BY <1>2, AllNames, FieldMember, SizesOfTypes
<1>5. 1..Len(members) = {1, 2} /\ 2..Len(members) = {2}
  BY <1>2
<1>6. IsDeclaration(members, 3)
  <2>1. members \in Seq(Member)
    BY <1>1, <1>2, <1>3, <1>4
  <2>2. Len(members) \in 0..5 /\ \A m \in 1..Len(members) : Len(members[m].parts) \in 0..3
    BY <1>2, <1>3, <1>4, <1>5
  <2>3. \A i, j \in 1..Len(members) : members[i].name = members[j].name => i = j
    BY <1>3, <1>4, <1>5
  <2>. QED
    BY <2>1, <2>2, <2>3 DEF IsDeclaration
<1>7. IsDeclaration(members, 3)
  BY <1>6, FewerParts
<1>8. AllMembersAligned(members, 4)
  BY <1>2, <1>3, <1>4, <1>5 DEF AllMembersAligned
<1>9. PICK starts :
        /\ FieldsOfMembers(starts, members) /\ starts[1] = 0
        /\ \A m \in 2..Len(members) :
             starts[m] = roundUp(starts[m - 1] + memberLayout(members[m - 1]).size,
                                 memberLayout(members[m]).align)
        /\ layoutOf(members).size =
             roundUp(starts[Len(members)] + memberLayout(members[Len(members)]).size, 4)
  BY <1>2, <1>7, <1>8, StructByMembers
<1>10. /\ starts[2] = roundUp(starts[1] + 4, 4)
      /\ layoutOf(members).size = roundUp(starts[2] + 4, 4)
  BY <1>2, <1>3, <1>4, <1>5, <1>9
<1>11. /\ starts[1] = 0 /\ starts[2] = 4 /\ layoutOf(members).size = 8
  BY <1>9, <1>10 DEF roundUp
<1>12. /\ Lies(layoutOf(members), <<"x", "self">>, starts[1] + 0, "float")
      /\ Lies(layoutOf(members), <<"y", "self">>, starts[2] + 0, "float")
  BY <1>3, <1>4, <1>5, <1>7, <1>9, LiesInStruct
<1>. QED
  BY <1>6, <1>11, <1>12 DEF members

LEMMA OriginalVector3 ==
  LET members == declarations["vector3"]
  IN /\ IsDeclaration(members, 3) /\ layoutOf(members).size = 12
     /\ Lies(layoutOf(members), <<"x", "self">>, 0, "float")
     /\ Lies(layoutOf(members), <<"y", "self">>, 4, "float")
     /\ Lies(layoutOf(members), <<"z", "self">>, 8, "float")
<1> DEFINE members == declarations["vector3"]
<1>1. members = <<field("x", "float"), field("y", "float"), field("z", "float")>>
  BY DEF declarations, fieldsOf
<1> HIDE DEF members
<1>2. /\ Len(members) = 3 /\ members[1] = field("x", "float") /\ members[2] = field("y", "float")
      /\ members[3] = field("z", "float")
  BY <1>1
<1>3. /\ members[1] \in Member /\ members[1].name = "x" /\ Len(members[1].parts) = 1
      /\ memberLayout(members[1]).align = 4 /\ memberLayout(members[1]).size = 4
      /\ Lies(memberLayout(members[1]), <<"x", "self">>, 0, "float")
  BY <1>2, AllNames, FieldMember, SizesOfTypes
<1>4. /\ members[2] \in Member /\ members[2].name = "y" /\ Len(members[2].parts) = 1
      /\ memberLayout(members[2]).align = 4 /\ memberLayout(members[2]).size = 4
      /\ Lies(memberLayout(members[2]), <<"y", "self">>, 0, "float")
  BY <1>2, AllNames, FieldMember, SizesOfTypes
<1>5. /\ members[3] \in Member /\ members[3].name = "z" /\ Len(members[3].parts) = 1
      /\ memberLayout(members[3]).align = 4 /\ memberLayout(members[3]).size = 4
      /\ Lies(memberLayout(members[3]), <<"z", "self">>, 0, "float")
  BY <1>2, AllNames, FieldMember, SizesOfTypes
<1>6. 1..Len(members) = {1, 2, 3} /\ 2..Len(members) = {2, 3}
  BY <1>2
<1>7. IsDeclaration(members, 3)
  <2>1. members \in Seq(Member)
    BY <1>1, <1>2, <1>3, <1>4, <1>5
  <2>2. Len(members) \in 0..5 /\ \A m \in 1..Len(members) : Len(members[m].parts) \in 0..3
    BY <1>2, <1>3, <1>4, <1>5, <1>6
  <2>3. \A i, j \in 1..Len(members) : members[i].name = members[j].name => i = j
    BY <1>3, <1>4, <1>5, <1>6
  <2>. QED
    BY <2>1, <2>2, <2>3 DEF IsDeclaration
<1>8. IsDeclaration(members, 3)
  BY <1>7, FewerParts
<1>9. AllMembersAligned(members, 4)
  BY <1>2, <1>3, <1>4, <1>5, <1>6 DEF AllMembersAligned
<1>10. PICK starts :
        /\ FieldsOfMembers(starts, members) /\ starts[1] = 0
        /\ \A m \in 2..Len(members) :
             starts[m] = roundUp(starts[m - 1] + memberLayout(members[m - 1]).size,
                                 memberLayout(members[m]).align)
        /\ layoutOf(members).size =
             roundUp(starts[Len(members)] + memberLayout(members[Len(members)]).size, 4)
  BY <1>2, <1>8, <1>9, StructByMembers
<1>11. /\ starts[2] = roundUp(starts[1] + 4, 4) /\ starts[3] = roundUp(starts[2] + 4, 4)
      /\ layoutOf(members).size = roundUp(starts[3] + 4, 4)
  BY <1>2, <1>3, <1>4, <1>5, <1>6, <1>10
<1>12. /\ starts[1] = 0 /\ starts[2] = 4 /\ starts[3] = 8 /\ layoutOf(members).size = 12
  BY <1>10, <1>11 DEF roundUp
<1>13. /\ Lies(layoutOf(members), <<"x", "self">>, starts[1] + 0, "float")
      /\ Lies(layoutOf(members), <<"y", "self">>, starts[2] + 0, "float")
      /\ Lies(layoutOf(members), <<"z", "self">>, starts[3] + 0, "float")
  BY <1>3, <1>4, <1>5, <1>6, <1>8, <1>10, LiesInStruct
<1>. QED
  BY <1>7, <1>12, <1>13 DEF members

LEMMA OriginalRectangle ==
  LET members == declarations["rectangle"]
  IN /\ IsDeclaration(members, 3) /\ layoutOf(members).size = 16
     /\ Lies(layoutOf(members), <<"x", "self">>, 0, "float")
     /\ Lies(layoutOf(members), <<"y", "self">>, 4, "float")
     /\ Lies(layoutOf(members), <<"width", "self">>, 8, "float")
     /\ Lies(layoutOf(members), <<"height", "self">>, 12, "float")
<1> DEFINE members == declarations["rectangle"]
<1>1. members = <<field("x", "float"), field("y", "float"), field("width", "float"),
                  field("height", "float")>>
  BY DEF declarations, fieldsOf
<1> HIDE DEF members
<1>2. /\ Len(members) = 4 /\ members[1] = field("x", "float") /\ members[2] = field("y", "float")
      /\ members[3] = field("width", "float") /\ members[4] = field("height", "float")
  BY <1>1
<1>3. /\ members[1] \in Member /\ members[1].name = "x" /\ Len(members[1].parts) = 1
      /\ memberLayout(members[1]).align = 4 /\ memberLayout(members[1]).size = 4
      /\ Lies(memberLayout(members[1]), <<"x", "self">>, 0, "float")
  BY <1>2, AllNames, FieldMember, SizesOfTypes
<1>4. /\ members[2] \in Member /\ members[2].name = "y" /\ Len(members[2].parts) = 1
      /\ memberLayout(members[2]).align = 4 /\ memberLayout(members[2]).size = 4
      /\ Lies(memberLayout(members[2]), <<"y", "self">>, 0, "float")
  BY <1>2, AllNames, FieldMember, SizesOfTypes
<1>5. /\ members[3] \in Member /\ members[3].name = "width" /\ Len(members[3].parts) = 1
      /\ memberLayout(members[3]).align = 4 /\ memberLayout(members[3]).size = 4
      /\ Lies(memberLayout(members[3]), <<"width", "self">>, 0, "float")
  BY <1>2, AllNames, FieldMember, SizesOfTypes
<1>6. /\ members[4] \in Member /\ members[4].name = "height" /\ Len(members[4].parts) = 1
      /\ memberLayout(members[4]).align = 4 /\ memberLayout(members[4]).size = 4
      /\ Lies(memberLayout(members[4]), <<"height", "self">>, 0, "float")
  BY <1>2, AllNames, FieldMember, SizesOfTypes
<1>7. 1..Len(members) = {1, 2, 3, 4} /\ 2..Len(members) = {2, 3, 4}
  BY <1>2
<1>8. IsDeclaration(members, 3)
  <2>1. members \in Seq(Member)
    BY <1>1, <1>2, <1>3, <1>4, <1>5, <1>6
  <2>2. Len(members) \in 0..5 /\ \A m \in 1..Len(members) : Len(members[m].parts) \in 0..3
    BY <1>2, <1>3, <1>4, <1>5, <1>6, <1>7
  <2>3. \A i, j \in 1..Len(members) : members[i].name = members[j].name => i = j
    BY <1>3, <1>4, <1>5, <1>6, <1>7
  <2>. QED
    BY <2>1, <2>2, <2>3 DEF IsDeclaration
<1>9. IsDeclaration(members, 3)
  BY <1>8, FewerParts
<1>10. AllMembersAligned(members, 4)
  BY <1>2, <1>3, <1>4, <1>5, <1>6, <1>7 DEF AllMembersAligned
<1>11. PICK starts :
        /\ FieldsOfMembers(starts, members) /\ starts[1] = 0
        /\ \A m \in 2..Len(members) :
             starts[m] = roundUp(starts[m - 1] + memberLayout(members[m - 1]).size,
                                 memberLayout(members[m]).align)
        /\ layoutOf(members).size =
             roundUp(starts[Len(members)] + memberLayout(members[Len(members)]).size, 4)
  BY <1>2, <1>9, <1>10, StructByMembers
<1>12. /\ starts[2] = roundUp(starts[1] + 4, 4) /\ starts[3] = roundUp(starts[2] + 4, 4)
      /\ starts[4] = roundUp(starts[3] + 4, 4)
      /\ layoutOf(members).size = roundUp(starts[4] + 4, 4)
  BY <1>2, <1>3, <1>4, <1>5, <1>6, <1>7, <1>11
<1>13. /\ starts[1] = 0 /\ starts[2] = 4 /\ starts[3] = 8 /\ starts[4] = 12
      /\ layoutOf(members).size = 16
  BY <1>11, <1>12 DEF roundUp
<1>14. /\ Lies(layoutOf(members), <<"x", "self">>, starts[1] + 0, "float")
      /\ Lies(layoutOf(members), <<"y", "self">>, starts[2] + 0, "float")
      /\ Lies(layoutOf(members), <<"width", "self">>, starts[3] + 0, "float")
      /\ Lies(layoutOf(members), <<"height", "self">>, starts[4] + 0, "float")
  BY <1>3, <1>4, <1>5, <1>6, <1>7, <1>9, <1>11, LiesInStruct
<1>. QED
  BY <1>8, <1>13, <1>14 DEF members

LEMMA OriginalCamera2d ==
  LET members == declarations["camera2d"]
  IN /\ IsDeclaration(members, 2) /\ layoutOf(members).size = 24
     /\ Lies(layoutOf(members), <<"offset", "x">>, 0, "float")
     /\ Lies(layoutOf(members), <<"offset", "y">>, 4, "float")
     /\ Lies(layoutOf(members), <<"target", "x">>, 8, "float")
     /\ Lies(layoutOf(members), <<"target", "y">>, 12, "float")
     /\ Lies(layoutOf(members), <<"rotation", "self">>, 16, "float")
     /\ Lies(layoutOf(members), <<"zoom", "self">>, 20, "float")
<1> DEFINE members == declarations["camera2d"]
<1>1. members = <<inner("offset", partsOf("float", <<"x", "y">>)),
                  inner("target", partsOf("float", <<"x", "y">>)), field("rotation", "float"),
                  field("zoom", "float")>>
  BY DEF declarations
<1> HIDE DEF members
<1>2. /\ Len(members) = 4 /\ members[1] = inner("offset", partsOf("float", <<"x", "y">>))
      /\ members[2] = inner("target", partsOf("float", <<"x", "y">>))
      /\ members[3] = field("rotation", "float") /\ members[4] = field("zoom", "float")
  BY <1>1
<1>3. /\ members[1] \in Member /\ members[1].name = "offset" /\ Len(members[1].parts) = 2
      /\ memberLayout(members[1]).align = 4 /\ memberLayout(members[1]).size = 8
      /\ Lies(memberLayout(members[1]), <<"offset", "x">>, 0, "float")
      /\ Lies(memberLayout(members[1]), <<"offset", "y">>, 4, "float")
  BY <1>2, FloatPairMember DEF Names
<1>4. /\ members[2] \in Member /\ members[2].name = "target" /\ Len(members[2].parts) = 2
      /\ memberLayout(members[2]).align = 4 /\ memberLayout(members[2]).size = 8
      /\ Lies(memberLayout(members[2]), <<"target", "x">>, 0, "float")
      /\ Lies(memberLayout(members[2]), <<"target", "y">>, 4, "float")
  BY <1>2, FloatPairMember DEF Names
<1>5. /\ members[3] \in Member /\ members[3].name = "rotation" /\ Len(members[3].parts) = 1
      /\ memberLayout(members[3]).align = 4 /\ memberLayout(members[3]).size = 4
      /\ Lies(memberLayout(members[3]), <<"rotation", "self">>, 0, "float")
  BY <1>2, AllNames, FieldMember, SizesOfTypes
<1>6. /\ members[4] \in Member /\ members[4].name = "zoom" /\ Len(members[4].parts) = 1
      /\ memberLayout(members[4]).align = 4 /\ memberLayout(members[4]).size = 4
      /\ Lies(memberLayout(members[4]), <<"zoom", "self">>, 0, "float")
  BY <1>2, AllNames, FieldMember, SizesOfTypes
<1>7. 1..Len(members) = {1, 2, 3, 4} /\ 2..Len(members) = {2, 3, 4}
  BY <1>2
<1>8. IsDeclaration(members, 2)
  <2>1. members \in Seq(Member)
    BY <1>1, <1>2, <1>3, <1>4, <1>5, <1>6
  <2>2. Len(members) \in 0..5 /\ \A m \in 1..Len(members) : Len(members[m].parts) \in 0..2
    BY <1>2, <1>3, <1>4, <1>5, <1>6, <1>7
  <2>3. \A i, j \in 1..Len(members) : members[i].name = members[j].name => i = j
    BY <1>3, <1>4, <1>5, <1>6, <1>7
  <2>. QED
    BY <2>1, <2>2, <2>3 DEF IsDeclaration
<1>9. IsDeclaration(members, 3)
  BY <1>8, FewerParts
<1>10. AllMembersAligned(members, 4)
  BY <1>2, <1>3, <1>4, <1>5, <1>6, <1>7 DEF AllMembersAligned
<1>11. PICK starts :
        /\ FieldsOfMembers(starts, members) /\ starts[1] = 0
        /\ \A m \in 2..Len(members) :
             starts[m] = roundUp(starts[m - 1] + memberLayout(members[m - 1]).size,
                                 memberLayout(members[m]).align)
        /\ layoutOf(members).size =
             roundUp(starts[Len(members)] + memberLayout(members[Len(members)]).size, 4)
  BY <1>2, <1>9, <1>10, StructByMembers
<1>12. /\ starts[2] = roundUp(starts[1] + 8, 4) /\ starts[3] = roundUp(starts[2] + 8, 4)
      /\ starts[4] = roundUp(starts[3] + 4, 4)
      /\ layoutOf(members).size = roundUp(starts[4] + 4, 4)
  BY <1>2, <1>3, <1>4, <1>5, <1>6, <1>7, <1>11
<1>13. /\ starts[1] = 0 /\ starts[2] = 8 /\ starts[3] = 16 /\ starts[4] = 20
      /\ layoutOf(members).size = 24
  BY <1>11, <1>12 DEF roundUp
<1>14. /\ Lies(layoutOf(members), <<"offset", "x">>, starts[1] + 0, "float")
      /\ Lies(layoutOf(members), <<"offset", "y">>, starts[1] + 4, "float")
      /\ Lies(layoutOf(members), <<"target", "x">>, starts[2] + 0, "float")
      /\ Lies(layoutOf(members), <<"target", "y">>, starts[2] + 4, "float")
      /\ Lies(layoutOf(members), <<"rotation", "self">>, starts[3] + 0, "float")
      /\ Lies(layoutOf(members), <<"zoom", "self">>, starts[4] + 0, "float")
  BY <1>3, <1>4, <1>5, <1>6, <1>7, <1>9, <1>11, LiesInStruct
<1>. QED
  BY <1>8, <1>13, <1>14 DEF members

LEMMA OriginalCamera3d ==
  LET members == declarations["camera3d"]
  IN /\ IsDeclaration(members, 3) /\ layoutOf(members).size = 44
     /\ Lies(layoutOf(members), <<"position", "x">>, 0, "float")
     /\ Lies(layoutOf(members), <<"target", "x">>, 12, "float")
     /\ Lies(layoutOf(members), <<"target", "y">>, 16, "float")
     /\ Lies(layoutOf(members), <<"up", "x">>, 24, "float")
     /\ Lies(layoutOf(members), <<"up", "z">>, 32, "float")
     /\ Lies(layoutOf(members), <<"fovy", "self">>, 36, "float")
     /\ Lies(layoutOf(members), <<"projection", "self">>, 40, "int")
<1> DEFINE members == declarations["camera3d"]
<1>1. members = <<inner("position", partsOf("float", <<"x", "y", "z">>)),
                  inner("target", partsOf("float", <<"x", "y", "z">>)),
                  inner("up", partsOf("float", <<"x", "y", "z">>)), field("fovy", "float"),
                  field("projection", "int")>>
  BY DEF declarations
<1> HIDE DEF members
<1>2. /\ Len(members) = 5 /\ members[1] = inner("position", partsOf("float", <<"x", "y", "z">>))
      /\ members[2] = inner("target", partsOf("float", <<"x", "y", "z">>))
      /\ members[3] = inner("up", partsOf("float", <<"x", "y", "z">>))
      /\ members[4] = field("fovy", "float") /\ members[5] = field("projection", "int")
  BY <1>1
<1>3. /\ members[1] \in Member /\ members[1].name = "position" /\ Len(members[1].parts) = 3
      /\ memberLayout(members[1]).align = 4 /\ memberLayout(members[1]).size = 12
      /\ Lies(memberLayout(members[1]), <<"position", "x">>, 0, "float")
  BY <1>2, FloatTripleMember DEF Names
<1>4. /\ members[2] \in Member /\ members[2].name = "target" /\ Len(members[2].parts) = 3
      /\ memberLayout(members[2]).align = 4 /\ memberLayout(members[2]).size = 12
      /\ Lies(memberLayout(members[2]), <<"target", "x">>, 0, "float")
      /\ Lies(memberLayout(members[2]), <<"target", "y">>, 4, "float")
  BY <1>2, FloatTripleMember DEF Names
<1>5. /\ members[3] \in Member /\ members[3].name = "up" /\ Len(members[3].parts) = 3
      /\ memberLayout(members[3]).align = 4 /\ memberLayout(members[3]).size = 12
      /\ Lies(memberLayout(members[3]), <<"up", "x">>, 0, "float")
      /\ Lies(memberLayout(members[3]), <<"up", "z">>, 8, "float")
  BY <1>2, FloatTripleMember DEF Names
<1>6. /\ members[4] \in Member /\ members[4].name = "fovy" /\ Len(members[4].parts) = 1
      /\ memberLayout(members[4]).align = 4 /\ memberLayout(members[4]).size = 4
      /\ Lies(memberLayout(members[4]), <<"fovy", "self">>, 0, "float")
  BY <1>2, AllNames, FieldMember, SizesOfTypes
<1>7. /\ members[5] \in Member /\ members[5].name = "projection" /\ Len(members[5].parts) = 1
      /\ memberLayout(members[5]).align = 4 /\ memberLayout(members[5]).size = 4
      /\ Lies(memberLayout(members[5]), <<"projection", "self">>, 0, "int")
  BY <1>2, AllNames, FieldMember, SizesOfTypes
<1>8. 1..Len(members) = {1, 2, 3, 4, 5} /\ 2..Len(members) = {2, 3, 4, 5}
  BY <1>2
<1>9. IsDeclaration(members, 3)
  <2>1. members \in Seq(Member)
    BY <1>1, <1>2, <1>3, <1>4, <1>5, <1>6, <1>7
  <2>2. Len(members) \in 0..5 /\ \A m \in 1..Len(members) : Len(members[m].parts) \in 0..3
    BY <1>2, <1>3, <1>4, <1>5, <1>6, <1>7, <1>8
  <2>3. \A i, j \in 1..Len(members) : members[i].name = members[j].name => i = j
    BY <1>3, <1>4, <1>5, <1>6, <1>7, <1>8
  <2>. QED
    BY <2>1, <2>2, <2>3 DEF IsDeclaration
<1>10. IsDeclaration(members, 3)
  BY <1>9, FewerParts
<1>11. AllMembersAligned(members, 4)
  BY <1>2, <1>3, <1>4, <1>5, <1>6, <1>7, <1>8 DEF AllMembersAligned
<1>12. PICK starts :
        /\ FieldsOfMembers(starts, members) /\ starts[1] = 0
        /\ \A m \in 2..Len(members) :
             starts[m] = roundUp(starts[m - 1] + memberLayout(members[m - 1]).size,
                                 memberLayout(members[m]).align)
        /\ layoutOf(members).size =
             roundUp(starts[Len(members)] + memberLayout(members[Len(members)]).size, 4)
  BY <1>2, <1>10, <1>11, StructByMembers
<1>13. /\ starts[2] = roundUp(starts[1] + 12, 4) /\ starts[3] = roundUp(starts[2] + 12, 4)
      /\ starts[4] = roundUp(starts[3] + 12, 4) /\ starts[5] = roundUp(starts[4] + 4, 4)
      /\ layoutOf(members).size = roundUp(starts[5] + 4, 4)
  BY <1>2, <1>3, <1>4, <1>5, <1>6, <1>7, <1>8, <1>12
<1>14. /\ starts[1] = 0 /\ starts[2] = 12 /\ starts[3] = 24 /\ starts[4] = 36 /\ starts[5] = 40
      /\ layoutOf(members).size = 44
  BY <1>12, <1>13 DEF roundUp
<1>15. /\ Lies(layoutOf(members), <<"position", "x">>, starts[1] + 0, "float")
      /\ Lies(layoutOf(members), <<"target", "x">>, starts[2] + 0, "float")
      /\ Lies(layoutOf(members), <<"target", "y">>, starts[2] + 4, "float")
      /\ Lies(layoutOf(members), <<"up", "x">>, starts[3] + 0, "float")
      /\ Lies(layoutOf(members), <<"up", "z">>, starts[3] + 8, "float")
      /\ Lies(layoutOf(members), <<"fovy", "self">>, starts[4] + 0, "float")
      /\ Lies(layoutOf(members), <<"projection", "self">>, starts[5] + 0, "int")
  BY <1>3, <1>4, <1>5, <1>6, <1>7, <1>8, <1>10, <1>12, LiesInStruct
<1>. QED
  BY <1>9, <1>14, <1>15 DEF members

LEMMA OriginalTexture2d ==
  LET members == declarations["texture2d"]
  IN /\ IsDeclaration(members, 3) /\ layoutOf(members).size = 20
     /\ Lies(layoutOf(members), <<"id", "self">>, 0, "uint")
     /\ Lies(layoutOf(members), <<"width", "self">>, 4, "int")
     /\ Lies(layoutOf(members), <<"height", "self">>, 8, "int")
     /\ Lies(layoutOf(members), <<"mipmaps", "self">>, 12, "int")
     /\ Lies(layoutOf(members), <<"format", "self">>, 16, "int")
<1> DEFINE members == declarations["texture2d"]
<1>1. members = <<field("id", "uint"), field("width", "int"), field("height", "int"),
                  field("mipmaps", "int"), field("format", "int")>>
  BY DEF declarations
<1> HIDE DEF members
<1>2. /\ Len(members) = 5 /\ members[1] = field("id", "uint") /\ members[2] = field("width", "int")
      /\ members[3] = field("height", "int") /\ members[4] = field("mipmaps", "int")
      /\ members[5] = field("format", "int")
  BY <1>1
<1>3. /\ members[1] \in Member /\ members[1].name = "id" /\ Len(members[1].parts) = 1
      /\ memberLayout(members[1]).align = 4 /\ memberLayout(members[1]).size = 4
      /\ Lies(memberLayout(members[1]), <<"id", "self">>, 0, "uint")
  BY <1>2, AllNames, FieldMember, SizesOfTypes
<1>4. /\ members[2] \in Member /\ members[2].name = "width" /\ Len(members[2].parts) = 1
      /\ memberLayout(members[2]).align = 4 /\ memberLayout(members[2]).size = 4
      /\ Lies(memberLayout(members[2]), <<"width", "self">>, 0, "int")
  BY <1>2, AllNames, FieldMember, SizesOfTypes
<1>5. /\ members[3] \in Member /\ members[3].name = "height" /\ Len(members[3].parts) = 1
      /\ memberLayout(members[3]).align = 4 /\ memberLayout(members[3]).size = 4
      /\ Lies(memberLayout(members[3]), <<"height", "self">>, 0, "int")
  BY <1>2, AllNames, FieldMember, SizesOfTypes
<1>6. /\ members[4] \in Member /\ members[4].name = "mipmaps" /\ Len(members[4].parts) = 1
      /\ memberLayout(members[4]).align = 4 /\ memberLayout(members[4]).size = 4
      /\ Lies(memberLayout(members[4]), <<"mipmaps", "self">>, 0, "int")
  BY <1>2, AllNames, FieldMember, SizesOfTypes
<1>7. /\ members[5] \in Member /\ members[5].name = "format" /\ Len(members[5].parts) = 1
      /\ memberLayout(members[5]).align = 4 /\ memberLayout(members[5]).size = 4
      /\ Lies(memberLayout(members[5]), <<"format", "self">>, 0, "int")
  BY <1>2, AllNames, FieldMember, SizesOfTypes
<1>8. 1..Len(members) = {1, 2, 3, 4, 5} /\ 2..Len(members) = {2, 3, 4, 5}
  BY <1>2
<1>9. IsDeclaration(members, 3)
  <2>1. members \in Seq(Member)
    BY <1>1, <1>2, <1>3, <1>4, <1>5, <1>6, <1>7
  <2>2. Len(members) \in 0..5 /\ \A m \in 1..Len(members) : Len(members[m].parts) \in 0..3
    BY <1>2, <1>3, <1>4, <1>5, <1>6, <1>7, <1>8
  <2>3. \A i, j \in 1..Len(members) : members[i].name = members[j].name => i = j
    BY <1>3, <1>4, <1>5, <1>6, <1>7, <1>8
  <2>. QED
    BY <2>1, <2>2, <2>3 DEF IsDeclaration
<1>10. IsDeclaration(members, 3)
  BY <1>9, FewerParts
<1>11. AllMembersAligned(members, 4)
  BY <1>2, <1>3, <1>4, <1>5, <1>6, <1>7, <1>8 DEF AllMembersAligned
<1>12. PICK starts :
        /\ FieldsOfMembers(starts, members) /\ starts[1] = 0
        /\ \A m \in 2..Len(members) :
             starts[m] = roundUp(starts[m - 1] + memberLayout(members[m - 1]).size,
                                 memberLayout(members[m]).align)
        /\ layoutOf(members).size =
             roundUp(starts[Len(members)] + memberLayout(members[Len(members)]).size, 4)
  BY <1>2, <1>10, <1>11, StructByMembers
<1>13. /\ starts[2] = roundUp(starts[1] + 4, 4) /\ starts[3] = roundUp(starts[2] + 4, 4)
      /\ starts[4] = roundUp(starts[3] + 4, 4) /\ starts[5] = roundUp(starts[4] + 4, 4)
      /\ layoutOf(members).size = roundUp(starts[5] + 4, 4)
  BY <1>2, <1>3, <1>4, <1>5, <1>6, <1>7, <1>8, <1>12
<1>14. /\ starts[1] = 0 /\ starts[2] = 4 /\ starts[3] = 8 /\ starts[4] = 12 /\ starts[5] = 16
      /\ layoutOf(members).size = 20
  BY <1>12, <1>13 DEF roundUp
<1>15. /\ Lies(layoutOf(members), <<"id", "self">>, starts[1] + 0, "uint")
      /\ Lies(layoutOf(members), <<"width", "self">>, starts[2] + 0, "int")
      /\ Lies(layoutOf(members), <<"height", "self">>, starts[3] + 0, "int")
      /\ Lies(layoutOf(members), <<"mipmaps", "self">>, starts[4] + 0, "int")
      /\ Lies(layoutOf(members), <<"format", "self">>, starts[5] + 0, "int")
  BY <1>3, <1>4, <1>5, <1>6, <1>7, <1>8, <1>10, <1>12, LiesInStruct
<1>. QED
  BY <1>9, <1>14, <1>15 DEF members

\* Types of one width whose bytes are the same.
Alike(type, other) ==
  /\ type \in Types /\ other \in Types /\ SizeOf[type] = SizeOf[other]
  /\ type = other \/ (type \notin Floats /\ other \notin Floats)

\* Values have the same bytes in both types.
LEMMA SameBytes ==
  ASSUME NEW type, NEW other, Alike(type, other), NEW value, NEW k
  PROVE  byteOf(type, value, k) = byteOf(other, value, k)
BY DEF Alike, byteOf

\* Two fields have no byte in common.
Apart(f, g) == f.at + SizeOf[f.type] <= g.at \/ g.at + SizeOf[g.type] <= f.at

\* The first byte of a number tells it.
LEMMA FirstByte ==
  ASSUME NEW type, NEW value \in 1..255
  PROVE  byteOf(type, value, 0).value = value /\ value # 0
<1>1. value > 0 /\ value # 0
  OBVIOUS
<1>2. CASE type \in Floats
  BY <1>1, <1>2 DEF byteOf
<1>3. CASE type \notin Floats
  BY <1>1, <1>3 DEF byteOf
<1>. QED
  BY <1>2, <1>3

\* The bytes of a field, and of one that is apart from it.
LEMMA ByteWithin ==
  ASSUME NEW at \in Nat, NEW size \in {1, 2, 4, 8}, at + size <= 64, NEW k \in 0..(size - 1)
  PROVE  at + k \in 0..63 /\ at + k \in at..(at + size - 1) /\ (at + k) - at = k
OBVIOUS

LEMMA ByteElsewhere ==
  ASSUME NEW at \in Nat, NEW size \in {1, 2, 4, 8}, NEW k \in 0..(size - 1),
         NEW other \in Nat, NEW width \in {1, 2, 4, 8}, at + k \in other..(other + width - 1)
  PROVE  ~(at + size <= other) /\ ~(other + width <= at)
OBVIOUS

\* Fields that lie apart are read as they were written.
LEMMA ReadOwn ==
  ASSUME NEW fields, NEW values, TypedFields(fields), SmallValues(values, Len(fields)),
         NEW i \in 1..Len(fields), NEW type, Alike(type, fields[i].type),
         fields[i].at + SizeOf[fields[i].type] <= 64,
         \A j \in 1..Len(fields) : j # i => Apart(fields[i], fields[j])
  PROVE  read(stored(fields, values), fields[i].at, type) = values[i]
<1> DEFINE memory == stored(fields, values)
           at == fields[i].at
           size == SizeOf[type]
<1>1. /\ at \in Nat /\ fields[i].type \in Types /\ type \in Types /\ size \in {1, 2, 4, 8}
      /\ size = SizeOf[fields[i].type] /\ at + size <= 64 /\ values[i] \in 1..255
      /\ at = fields[i].at /\ size = SizeOf[type]
  BY TypesHaveSizes DEF TypedFields, Alike, SmallValues
<1> HIDE DEF at, size, memory
<1>2. ASSUME NEW k \in 0..(size - 1) PROVE memory[at + k] = byteOf(type, values[i], k)
  <2>1. at + k \in 0..63 /\ Covers(fields[i], at + k) /\ (at + k) - fields[i].at = k
    BY <1>1, ByteWithin DEF Covers
  <2>2. ByteOfLast(memory[at + k], at + k, fields, values, Len(fields))
    BY <2>1, StoredBytes DEF memory
  <2>3. ASSUME NEW j \in 1..Len(fields), Covers(fields[j], at + k) PROVE j = i
    <3>1. /\ fields[j].at \in Nat /\ fields[j].type \in Types
          /\ SizeOf[fields[j].type] \in {1, 2, 4, 8}
      BY TypesHaveSizes DEF TypedFields
    <3>2. \/ j = i \/ at + size <= fields[j].at
          \/ fields[j].at + SizeOf[fields[j].type] <= at
      BY <1>1 DEF Apart
    <3>3. ~(at + size <= fields[j].at) /\ ~(fields[j].at + SizeOf[fields[j].type] <= at)
      <4> DEFINE other == fields[j].at
                 width == SizeOf[fields[j].type]
      <4>1. /\ other \in Nat /\ width \in {1, 2, 4, 8} /\ at + k \in other..(other + width - 1)
            /\ at \in Nat /\ size \in {1, 2, 4, 8} /\ k \in 0..(size - 1)
        BY <1>1, <2>3, <3>1 DEF Covers
      <4> HIDE DEF other, width
      <4>2. ~(at + size <= other) /\ ~(other + width <= at)
        BY <4>1, SMTT(30)
      <4>. QED
        BY <4>2 DEF other, width
    <3>. QED
      BY <3>2, <3>3
  <2>4. memory[at + k] = byteOf(fields[i].type, values[i], k)
    <3> DEFINE b == at + k
               byte == memory[b]
    <3>1. Covers(fields[i], b) /\ ByteOfLast(byte, b, fields, values, Len(fields))
      BY <2>1, <2>2
    <3> HIDE DEF b, byte
    <3>2. PICK j \in 1..Len(fields) :
            Covers(fields[j], b) /\ byte = byteOf(fields[j].type, values[j], b - fields[j].at)
      BY <3>1, Zenon DEF ByteOfLast
    <3>3. j = i
      BY <2>3, <3>2 DEF b
    <3>4. b - fields[i].at = k
      BY <2>1 DEF b
    <3>5. byte = byteOf(fields[i].type, values[i], b - fields[i].at)
      BY <3>2, <3>3
    <3>6. byte = byteOf(fields[i].type, values[i], k)
      BY <3>4, <3>5, Zenon
    <3>. QED
      BY <3>6 DEF b, byte
  <2>. QED
    BY <2>4, SameBytes
<1>3. 0 \in 0..(size - 1) /\ at + 0 = at
  BY <1>1
<1>4. memory[at] = byteOf(type, values[i], 0)
  BY <1>2, <1>3
<1>5. memory[at] # Zero /\ memory[at].value = values[i]
  <2>1. /\ byteOf(type, values[i], 0).value = values[i] /\ values[i] # 0 /\ Zero.value = 0
    BY <1>1, FirstByte DEF Zero
  <2>. QED
    BY <1>4, <2>1
<1>6. ~(\A k \in 0..(size - 1) : memory[at + k] = Zero)
  BY <1>3, <1>5
<1>7. read(memory, at, type) = values[i]
  BY <1>2, <1>5, <1>6, Zenon DEF read, size
<1>. QED
  BY <1>7 DEF memory, at

-----------------------------------------------------------------------------
\* A field that lies somewhere is found there.
LEMMA LiesIsAt ==
  ASSUME NEW layout, NEW path, NEW at, NEW type, Lies(layout, path, at, type)
  PROVE  /\ path \in FieldNames(layout)
         /\ FieldAt(layout, path) = [field |-> path, at |-> at, type |-> type]
<1>1. \E f \in layout.at : f.field = path
  BY DEF Lies
<1>2. FieldAt(layout, path) \in layout.at /\ FieldAt(layout, path).field = path
  BY <1>1, Zenon DEF FieldAt
<1>. QED
  BY <1>1, <1>2 DEF Lies, FieldNames

\* Every field the oracle reads lies where it reads it.
LiesAsInC(name, layout) ==
  \A i \in 1..Count(name) :
    \E type : /\ Alike(type, oracle[name][i].type)
              /\ Lies(layout, oracle[name][i].field, oracle[name][i].at, type)

\* The fields the oracle reads have no byte in common.
OracleIsApart(name) ==
  \A i \in 1..Count(name) :
    /\ oracle[name][i].at + SizeOf[oracle[name][i].type] <= 64
    /\ \A j \in 1..Count(name) : j # i => Apart(oracle[name][i], oracle[name][j])

LEMMA OracleReadsApart ==
  ASSUME NEW name \in DOMAIN oracle
  PROVE  OracleIsApart(name)
<1>1. CASE name = "color"
  BY <1>1, ColorOracle, Ranges, SizesOfTypes DEF reads, OracleIsApart, Apart
<1>2. CASE name = "vector2"
  BY <1>2, Vector2Oracle, Ranges, SizesOfTypes DEF reads, OracleIsApart, Apart
<1>3. CASE name = "vector3"
  BY <1>3, Vector3Oracle, Ranges, SizesOfTypes DEF reads, OracleIsApart, Apart
<1>4. CASE name = "rectangle"
  BY <1>4, RectangleOracle, Ranges, SizesOfTypes DEF reads, OracleIsApart, Apart
<1>5. CASE name = "camera2d"
  BY <1>5, Camera2dOracle, Ranges, SizesOfTypes DEF reads, OracleIsApart, Apart
<1>6. CASE name = "camera3d"
  BY <1>6, Camera3dOracle, Ranges, SizesOfTypes DEF reads, OracleIsApart, Apart
<1>7. CASE name = "texture2d"
  BY <1>7, Texture2dOracle, Ranges, SizesOfTypes DEF reads, OracleIsApart, Apart
<1>. QED
  BY <1>1, <1>2, <1>3, <1>4, <1>5, <1>6, <1>7, OracleNames

\* Then each of them is declared, at its offset.
LEMMA WhereAsInC ==
  ASSUME NEW name \in DOMAIN oracle, NEW layout, LiesAsInC(name, layout)
  PROVE  /\ HasFields(name, layout)
         /\ \A i \in 1..Count(name) :
              /\ Where(name, layout, i).at = oracle[name][i].at
              /\ Alike(Where(name, layout, i).type, oracle[name][i].type)
<1>1. ASSUME NEW i \in 1..Count(name)
      PROVE  /\ oracle[name][i].field \in FieldNames(layout)
             /\ Where(name, layout, i).at = oracle[name][i].at
             /\ Alike(Where(name, layout, i).type, oracle[name][i].type)
  <2>1. PICK type : /\ Alike(type, oracle[name][i].type)
                    /\ Lies(layout, oracle[name][i].field, oracle[name][i].at, type)
    BY DEF LiesAsInC
  <2>2. /\ oracle[name][i].field \in FieldNames(layout)
        /\ Where(name, layout, i) =
             [field |-> oracle[name][i].field, at |-> oracle[name][i].at, type |-> type]
    BY <2>1, LiesIsAt DEF Where
  <2>. QED
    BY <2>1, <2>2
<1>2. HasFields(name, layout)
  <2>1. \A r \in ToSet(oracle[name]) : \E i \in 1..Count(name) : r = oracle[name][i]
    BY OracleIsTyped DEF ToSet
  <2>. QED
    BY <1>1, <2>1 DEF HasFields
<1>. QED
  BY <1>1, <1>2

\* The oracle reads 1, 2, 3...
LEMMA OwnNumbersAreFound ==
  ASSUME NEW name \in DOMAIN oracle, NEW layout, LiesAsInC(name, layout)
  PROVE  \A i \in 1..Count(name) : Found(name, layout, i) = i
<1> DEFINE n == Count(name)
           fields == [i \in DOMAIN oracle[name] |-> FieldAt(layout, oracle[name][i].field)]
           values == [i \in DOMAIN oracle[name] |-> i]
<1>1. n \in 0..6 /\ DOMAIN oracle[name] = 1..n
  BY OracleIsTyped
<1>2. Len(fields) = n /\ \A i \in 1..n : fields[i] = Where(name, layout, i) /\ values[i] = i
  <2>1. DOMAIN fields = 1..n /\ n \in Nat
    BY <1>1
  <2>2. Len(fields) = n
    BY <2>1, <1>1, LenProperties
  <2>. QED
    BY <1>1, <2>2 DEF Where
<1>3. written(name, layout) = stored(fields, values)
  BY DEF written, Count
<1> HIDE DEF fields, values
<1>4. ASSUME NEW i \in 1..n
      PROVE  /\ fields[i].at = oracle[name][i].at /\ Alike(fields[i].type, oracle[name][i].type)
             /\ fields[i].at \in Nat /\ fields[i].type \in Types
             /\ SizeOf[fields[i].type] = SizeOf[oracle[name][i].type]
  <2>1. fields[i].at = oracle[name][i].at /\ Alike(fields[i].type, oracle[name][i].type)
    BY <1>2, WhereAsInC
  <2>2. oracle[name][i].at \in 0..63
    BY OracleIsTyped
  <2>3. \A at \in 0..63 : at \in Nat
    OBVIOUS
  <2>. QED
    BY <2>1, <2>2, <2>3 DEF Alike
<1>5. TypedFields(fields)
  <2>1. Len(fields) \in 0..6
    BY <1>1, <1>2
  <2>. QED
    BY <1>2, <1>4, <2>1 DEF TypedFields
<1>6. SmallValues(values, Len(fields))
  <2>1. \A last \in 0..6 : \A i \in 1..last : i \in 1..255
    OBVIOUS
  <2>2. \A i \in 1..n : values[i] \in 1..255
    BY <1>1, <1>2, <2>1, Zenon
  <2>. QED
    BY <1>2, <2>2 DEF SmallValues
<1>7. TAKE i \in 1..n
<1>8. /\ fields[i].at + SizeOf[fields[i].type] <= 64
      /\ \A j \in 1..n : j # i => Apart(fields[i], fields[j])
  BY <1>4, OracleReadsApart DEF OracleIsApart, Apart
<1>9. Alike(oracle[name][i].type, fields[i].type)
  BY <1>4 DEF Alike
<1>10. read(stored(fields, values), fields[i].at, oracle[name][i].type) = values[i]
  BY <1>2, <1>5, <1>6, <1>8, <1>9, ReadOwn
<1>. QED
  BY <1>2, <1>3, <1>4, <1>10 DEF Found

\* What C returns is read where the layout has it.
LEMMA OwnReturnIsRead ==
  ASSUME NEW name \in DOMAIN oracle, NEW layout, LiesAsInC(name, layout),
         NEW values, SmallValues(values, Count(name)), NEW i \in 1..Count(name)
  PROVE  LET f == FieldAt(layout, oracle[name][i].field)
         IN read(returned(name, values), f.at, f.type) = values[i]
<1>1. /\ TypedFields(oracle[name]) /\ SmallValues(values, Len(oracle[name]))
      /\ i \in 1..Len(oracle[name])
  <2>1. Count(name) \in 0..6
    BY OracleIsTyped
  <2>2. \A k \in 1..Count(name) : oracle[name][k].at \in 0..63 /\ oracle[name][k].type \in Types
    BY OracleIsTyped
  <2>3. \A at \in 0..63 : at \in Nat
    OBVIOUS
  <2>. QED
    BY <2>1, <2>2, <2>3 DEF TypedFields, Count
<1>2. /\ oracle[name][i].at + SizeOf[oracle[name][i].type] <= 64
      /\ \A j \in 1..Len(oracle[name]) : j # i => Apart(oracle[name][i], oracle[name][j])
  BY OracleReadsApart DEF OracleIsApart, Count
<1>3. /\ Where(name, layout, i).at = oracle[name][i].at
      /\ Alike(Where(name, layout, i).type, oracle[name][i].type)
  BY WhereAsInC
<1>4. read(stored(oracle[name], values), oracle[name][i].at, Where(name, layout, i).type)
        = values[i]
  BY <1>1, <1>2, <1>3, ReadOwn
<1>. QED
  BY <1>3, <1>4 DEF returned, Where

\* The types of the oracle are those of the declarations, but for uint.
LEMMA AlikeTypes ==
  /\ Alike("float", "float") /\ Alike("uint8", "uint8")
  /\ Alike("int", "int") /\ Alike("uint", "int")
BY SizesOfTypes DEF Alike, Floats

\* verify! compares offsets of fields that lie there.
LEMMA OffsetObserved ==
  ASSUME NEW layout, NEW path, NEW at, NEW type, Lies(layout, path, at, type)
  PROVE  path \in FieldNames(layout) /\ FieldAt(layout, path).at = at
BY LiesIsAt

\* The score of 1, 2, 3... is the one verify! expects.
LEMMA ScoreOfOwnNumbers ==
  ASSUME NEW name \in DOMAIN oracle, NEW layout, LiesAsInC(name, layout)
  PROVE  score(name, written(name, layout)) = expectedScores[name]
<1>1. PICK sum :
        /\ sum[0] = 0 /\ score(name, written(name, layout)) = sum[Count(name)]
        /\ \A i \in 1..Count(name) : sum[i] = sum[i - 1] + oracle[name][i].weight * i
  <2>1. Count(name) \in 0..6
    BY OracleIsTyped
  <2>2. PICK sum :
          /\ sum[0] = 0 /\ score(name, written(name, layout)) = sum[Count(name)]
          /\ \A i \in 1..Count(name) :
               sum[i] = sum[i - 1] + oracle[name][i].weight * Found(name, layout, i)
    BY <2>1, ScoreIsSum DEF Found, Count
  <2>. QED
    BY <2>2, OwnNumbersAreFound
<1>2. CASE name = "color"
  <2>1. /\ sum[1] = sum[0] + 1
        /\ sum[2] = sum[1] + 20
        /\ sum[3] = sum[2] + 300
        /\ sum[4] = sum[3] + 4000
    BY <1>1, <1>2, ColorOracle, Ranges DEF reads
  <2>2. sum[4] = 4321
    BY <1>1, <2>1
  <2>3. Count("color") = 4 /\ expectedScores["color"] = 4321
    BY ColorOracle DEF expectedScores
  <2>. QED
    BY <1>1, <1>2, <2>2, <2>3
<1>3. CASE name = "vector2"
  <2>1. /\ sum[1] = sum[0] + 1
        /\ sum[2] = sum[1] + 20
    BY <1>1, <1>3, Vector2Oracle, Ranges DEF reads
  <2>2. sum[2] = 21
    BY <1>1, <2>1
  <2>3. Count("vector2") = 2 /\ expectedScores["vector2"] = 21
    BY Vector2Oracle DEF expectedScores
  <2>. QED
    BY <1>1, <1>3, <2>2, <2>3
<1>4. CASE name = "vector3"
  <2>1. /\ sum[1] = sum[0] + 1
        /\ sum[2] = sum[1] + 20
        /\ sum[3] = sum[2] + 300
    BY <1>1, <1>4, Vector3Oracle, Ranges DEF reads
  <2>2. sum[3] = 321
    BY <1>1, <2>1
  <2>3. Count("vector3") = 3 /\ expectedScores["vector3"] = 321
    BY Vector3Oracle DEF expectedScores
  <2>. QED
    BY <1>1, <1>4, <2>2, <2>3
<1>5. CASE name = "rectangle"
  <2>1. /\ sum[1] = sum[0] + 1
        /\ sum[2] = sum[1] + 20
        /\ sum[3] = sum[2] + 300
        /\ sum[4] = sum[3] + 4000
    BY <1>1, <1>5, RectangleOracle, Ranges DEF reads
  <2>2. sum[4] = 4321
    BY <1>1, <2>1
  <2>3. Count("rectangle") = 4 /\ expectedScores["rectangle"] = 4321
    BY RectangleOracle DEF expectedScores
  <2>. QED
    BY <1>1, <1>5, <2>2, <2>3
<1>6. CASE name = "camera2d"
  <2>1. /\ sum[1] = sum[0] + 1
        /\ sum[2] = sum[1] + 2
        /\ sum[3] = sum[2] + 3
        /\ sum[4] = sum[3] + 4
        /\ sum[5] = sum[4] + 5
        /\ sum[6] = sum[5] + 6
    BY <1>1, <1>6, Camera2dOracle, Ranges DEF reads
  <2>2. sum[6] = 21
    BY <1>1, <2>1
  <2>3. Count("camera2d") = 6 /\ expectedScores["camera2d"] = 21
    BY Camera2dOracle DEF expectedScores
  <2>. QED
    BY <1>1, <1>6, <2>2, <2>3
<1>7. CASE name = "camera3d"
  <2>1. /\ sum[1] = sum[0] + 1
        /\ sum[2] = sum[1] + 2
        /\ sum[3] = sum[2] + 3
        /\ sum[4] = sum[3] + 4
        /\ sum[5] = sum[4] + 5
    BY <1>1, <1>7, Camera3dOracle, Ranges DEF reads
  <2>2. sum[5] = 15
    BY <1>1, <2>1
  <2>3. Count("camera3d") = 5 /\ expectedScores["camera3d"] = 15
    BY Camera3dOracle DEF expectedScores
  <2>. QED
    BY <1>1, <1>7, <2>2, <2>3
<1>8. CASE name = "texture2d"
  <2>1. /\ sum[1] = sum[0] + 1
        /\ sum[2] = sum[1] + 2
        /\ sum[3] = sum[2] + 3
        /\ sum[4] = sum[3] + 4
        /\ sum[5] = sum[4] + 5
    BY <1>1, <1>8, Texture2dOracle, Ranges DEF reads
  <2>2. sum[5] = 15
    BY <1>1, <2>1
  <2>3. Count("texture2d") = 5 /\ expectedScores["texture2d"] = 15
    BY Texture2dOracle DEF expectedScores
  <2>. QED
    BY <1>1, <1>8, <2>2, <2>3
<1>. QED
  BY <1>2, <1>3, <1>4, <1>5, <1>6, <1>7, <1>8, OracleNames

\* verify! accepts each declaration of the source.
LEMMA ColorVerifies ==
  verify("color", declarations["color"])
<1> DEFINE layout == layoutOf(declarations["color"])
<1>1. LiesAsInC("color", layout)
  BY OriginalColor, ColorOracle, AlikeTypes, Ranges DEF LiesAsInC, reads
<1>2. layoutObserved("color", layout)
  <2>1. /\ expectedLayouts["color"].size = 4
        /\ \A e \in expectedLayouts["color"].at :
             e \in {<<<<"r", "self">>, 0>>,
                    <<<<"a", "self">>, 3>>}
    BY DEF expectedLayouts
  <2>2. /\ <<"r", "self">> \in FieldNames(layout) /\ FieldAt(layout, <<"r", "self">>).at = 0
        /\ <<"a", "self">> \in FieldNames(layout) /\ FieldAt(layout, <<"a", "self">>).at = 3
    BY OriginalColor, OffsetObserved
  <2>3. layout.size = 4
    BY OriginalColor
  <2> HIDE DEF layout
  <2>. QED
    BY <2>1, <2>2, <2>3 DEF layoutObserved
<1>3. "color" \in DOMAIN oracle
  BY OracleNames
<1> HIDE DEF layout
<1>4. /\ HasFields("color", layout)
      /\ score("color", written("color", layout)) = expectedScores["color"]
  BY <1>1, <1>3, WhereAsInC, ScoreOfOwnNumbers
<1>5. returnObserved("color", layout)
  BY DEF returnObserved, expectedReturns
<1>. QED
  BY <1>2, <1>4, <1>5 DEF verify, HasFields, layout

LEMMA Vector2Verifies ==
  verify("vector2", declarations["vector2"])
<1> DEFINE layout == layoutOf(declarations["vector2"])
<1>1. LiesAsInC("vector2", layout)
  BY OriginalVector2, Vector2Oracle, AlikeTypes, Ranges DEF LiesAsInC, reads
<1>2. layoutObserved("vector2", layout)
  <2>1. /\ expectedLayouts["vector2"].size = 8
        /\ \A e \in expectedLayouts["vector2"].at :
             e \in {<<<<"x", "self">>, 0>>,
                    <<<<"y", "self">>, 4>>}
    BY DEF expectedLayouts
  <2>2. /\ <<"x", "self">> \in FieldNames(layout) /\ FieldAt(layout, <<"x", "self">>).at = 0
        /\ <<"y", "self">> \in FieldNames(layout) /\ FieldAt(layout, <<"y", "self">>).at = 4
    BY OriginalVector2, OffsetObserved
  <2>3. layout.size = 8
    BY OriginalVector2
  <2> HIDE DEF layout
  <2>. QED
    BY <2>1, <2>2, <2>3 DEF layoutObserved
<1>3. "vector2" \in DOMAIN oracle
  BY OracleNames
<1> HIDE DEF layout
<1>4. /\ HasFields("vector2", layout)
      /\ score("vector2", written("vector2", layout)) = expectedScores["vector2"]
  BY <1>1, <1>3, WhereAsInC, ScoreOfOwnNumbers
<1>5. returnObserved("vector2", layout)
  <2> DEFINE values == expectedReturns["vector2"]
  <2>1. DOMAIN values = 1..2 /\ values[1] = 7 /\ values[2] = 8
    BY Ranges DEF expectedReturns
  <2> HIDE DEF values
  <2>2. SmallValues(values, Count("vector2")) /\ DOMAIN values = 1..Count("vector2")
    BY <2>1, Vector2Oracle, Ranges DEF SmallValues
  <2>. QED
    BY <1>1, <1>3, <2>2, OwnReturnIsRead DEF returnObserved, values
<1>. QED
  BY <1>2, <1>4, <1>5 DEF verify, HasFields, layout

LEMMA Vector3Verifies ==
  verify("vector3", declarations["vector3"])
<1> DEFINE layout == layoutOf(declarations["vector3"])
<1>1. LiesAsInC("vector3", layout)
  BY OriginalVector3, Vector3Oracle, AlikeTypes, Ranges DEF LiesAsInC, reads
<1>2. layoutObserved("vector3", layout)
  <2>1. /\ expectedLayouts["vector3"].size = 12
        /\ \A e \in expectedLayouts["vector3"].at :
             e \in {<<<<"z", "self">>, 8>>}
    BY DEF expectedLayouts
  <2>2. /\ <<"z", "self">> \in FieldNames(layout) /\ FieldAt(layout, <<"z", "self">>).at = 8
    BY OriginalVector3, OffsetObserved
  <2>3. layout.size = 12
    BY OriginalVector3
  <2> HIDE DEF layout
  <2>. QED
    BY <2>1, <2>2, <2>3 DEF layoutObserved
<1>3. "vector3" \in DOMAIN oracle
  BY OracleNames
<1> HIDE DEF layout
<1>4. /\ HasFields("vector3", layout)
      /\ score("vector3", written("vector3", layout)) = expectedScores["vector3"]
  BY <1>1, <1>3, WhereAsInC, ScoreOfOwnNumbers
<1>5. returnObserved("vector3", layout)
  BY DEF returnObserved, expectedReturns
<1>. QED
  BY <1>2, <1>4, <1>5 DEF verify, HasFields, layout

LEMMA RectangleVerifies ==
  verify("rectangle", declarations["rectangle"])
<1> DEFINE layout == layoutOf(declarations["rectangle"])
<1>1. LiesAsInC("rectangle", layout)
  BY OriginalRectangle, RectangleOracle, AlikeTypes, Ranges DEF LiesAsInC, reads
<1>2. layoutObserved("rectangle", layout)
  <2>1. /\ expectedLayouts["rectangle"].size = 16
        /\ \A e \in expectedLayouts["rectangle"].at :
             e \in {<<<<"width", "self">>, 8>>,
                    <<<<"height", "self">>, 12>>}
    BY DEF expectedLayouts
  <2>2. /\ <<"width", "self">> \in FieldNames(layout) /\ FieldAt(layout, <<"width", "self">>).at = 8
        /\ <<"height", "self">> \in FieldNames(layout)
        /\ FieldAt(layout, <<"height", "self">>).at = 12
    BY OriginalRectangle, OffsetObserved
  <2>3. layout.size = 16
    BY OriginalRectangle
  <2> HIDE DEF layout
  <2>. QED
    BY <2>1, <2>2, <2>3 DEF layoutObserved
<1>3. "rectangle" \in DOMAIN oracle
  BY OracleNames
<1> HIDE DEF layout
<1>4. /\ HasFields("rectangle", layout)
      /\ score("rectangle", written("rectangle", layout)) = expectedScores["rectangle"]
  BY <1>1, <1>3, WhereAsInC, ScoreOfOwnNumbers
<1>5. returnObserved("rectangle", layout)
  BY DEF returnObserved, expectedReturns
<1>. QED
  BY <1>2, <1>4, <1>5 DEF verify, HasFields, layout

LEMMA Camera2dVerifies ==
  verify("camera2d", declarations["camera2d"])
<1> DEFINE layout == layoutOf(declarations["camera2d"])
<1>1. LiesAsInC("camera2d", layout)
  BY OriginalCamera2d, Camera2dOracle, AlikeTypes, Ranges DEF LiesAsInC, reads
<1>2. layoutObserved("camera2d", layout)
  <2>1. /\ expectedLayouts["camera2d"].size = 24
        /\ \A e \in expectedLayouts["camera2d"].at :
             e \in {<<<<"offset", "x">>, 0>>,
                    <<<<"target", "x">>, 8>>,
                    <<<<"rotation", "self">>, 16>>,
                    <<<<"zoom", "self">>, 20>>}
    BY DEF expectedLayouts
  <2>2. /\ <<"offset", "x">> \in FieldNames(layout) /\ FieldAt(layout, <<"offset", "x">>).at = 0
        /\ <<"target", "x">> \in FieldNames(layout) /\ FieldAt(layout, <<"target", "x">>).at = 8
        /\ <<"rotation", "self">> \in FieldNames(layout)
        /\ FieldAt(layout, <<"rotation", "self">>).at = 16
        /\ <<"zoom", "self">> \in FieldNames(layout) /\ FieldAt(layout, <<"zoom", "self">>).at = 20
    BY OriginalCamera2d, OffsetObserved
  <2>3. layout.size = 24
    BY OriginalCamera2d
  <2> HIDE DEF layout
  <2>. QED
    BY <2>1, <2>2, <2>3 DEF layoutObserved
<1>3. "camera2d" \in DOMAIN oracle
  BY OracleNames
<1> HIDE DEF layout
<1>4. /\ HasFields("camera2d", layout)
      /\ score("camera2d", written("camera2d", layout)) = expectedScores["camera2d"]
  BY <1>1, <1>3, WhereAsInC, ScoreOfOwnNumbers
<1>5. returnObserved("camera2d", layout)
  BY DEF returnObserved, expectedReturns
<1>. QED
  BY <1>2, <1>4, <1>5 DEF verify, HasFields, layout

LEMMA Camera3dVerifies ==
  verify("camera3d", declarations["camera3d"])
<1> DEFINE layout == layoutOf(declarations["camera3d"])
<1>1. LiesAsInC("camera3d", layout)
  BY OriginalCamera3d, Camera3dOracle, AlikeTypes, Ranges DEF LiesAsInC, reads
<1>2. layoutObserved("camera3d", layout)
  <2>1. /\ expectedLayouts["camera3d"].size = 44
        /\ \A e \in expectedLayouts["camera3d"].at :
             e \in {<<<<"target", "x">>, 12>>,
                    <<<<"up", "x">>, 24>>,
                    <<<<"fovy", "self">>, 36>>,
                    <<<<"projection", "self">>, 40>>}
    BY DEF expectedLayouts
  <2>2. /\ <<"target", "x">> \in FieldNames(layout) /\ FieldAt(layout, <<"target", "x">>).at = 12
        /\ <<"up", "x">> \in FieldNames(layout) /\ FieldAt(layout, <<"up", "x">>).at = 24
        /\ <<"fovy", "self">> \in FieldNames(layout) /\ FieldAt(layout, <<"fovy", "self">>).at = 36
        /\ <<"projection", "self">> \in FieldNames(layout)
        /\ FieldAt(layout, <<"projection", "self">>).at = 40
    BY OriginalCamera3d, OffsetObserved
  <2>3. layout.size = 44
    BY OriginalCamera3d
  <2> HIDE DEF layout
  <2>. QED
    BY <2>1, <2>2, <2>3 DEF layoutObserved
<1>3. "camera3d" \in DOMAIN oracle
  BY OracleNames
<1> HIDE DEF layout
<1>4. /\ HasFields("camera3d", layout)
      /\ score("camera3d", written("camera3d", layout)) = expectedScores["camera3d"]
  BY <1>1, <1>3, WhereAsInC, ScoreOfOwnNumbers
<1>5. returnObserved("camera3d", layout)
  BY DEF returnObserved, expectedReturns
<1>. QED
  BY <1>2, <1>4, <1>5 DEF verify, HasFields, layout

LEMMA Texture2dVerifies ==
  verify("texture2d", declarations["texture2d"])
<1> DEFINE layout == layoutOf(declarations["texture2d"])
<1>1. LiesAsInC("texture2d", layout)
  BY OriginalTexture2d, Texture2dOracle, AlikeTypes, Ranges DEF LiesAsInC, reads
<1>2. layoutObserved("texture2d", layout)
  <2>1. /\ expectedLayouts["texture2d"].size = 20
        /\ \A e \in expectedLayouts["texture2d"].at :
             e \in {<<<<"id", "self">>, 0>>,
                    <<<<"format", "self">>, 16>>}
    BY DEF expectedLayouts
  <2>2. /\ <<"id", "self">> \in FieldNames(layout) /\ FieldAt(layout, <<"id", "self">>).at = 0
        /\ <<"format", "self">> \in FieldNames(layout)
        /\ FieldAt(layout, <<"format", "self">>).at = 16
    BY OriginalTexture2d, OffsetObserved
  <2>3. layout.size = 20
    BY OriginalTexture2d
  <2> HIDE DEF layout
  <2>. QED
    BY <2>1, <2>2, <2>3 DEF layoutObserved
<1>3. "texture2d" \in DOMAIN oracle
  BY OracleNames
<1> HIDE DEF layout
<1>4. /\ HasFields("texture2d", layout)
      /\ score("texture2d", written("texture2d", layout)) = expectedScores["texture2d"]
  BY <1>1, <1>3, WhereAsInC, ScoreOfOwnNumbers
<1>5. returnObserved("texture2d", layout)
  <2> DEFINE values == expectedReturns["texture2d"]
  <2>1. /\ DOMAIN values = 1..5 /\ values[1] = 7 /\ values[2] = 8
        /\ values[3] = 9 /\ values[4] = 10 /\ values[5] = 11
    BY Ranges DEF expectedReturns
  <2> HIDE DEF values
  <2>2. SmallValues(values, Count("texture2d")) /\ DOMAIN values = 1..Count("texture2d")
    BY <2>1, Texture2dOracle, Ranges DEF SmallValues
  <2>. QED
    BY <1>1, <1>3, <2>2, OwnReturnIsRead DEF returnObserved, values
<1>. QED
  BY <1>2, <1>4, <1>5 DEF verify, HasFields, layout

\* verify! accepts the declarations of the source.
LEMMA SourceVerifies ==
  ASSUME NEW name \in DOMAIN declarations
  PROVE  verify(name, declarations[name])
<1>1. DOMAIN declarations =
        {"color", "vector2", "vector3", "rectangle", "camera2d", "camera3d", "texture2d"}
  BY DEF declarations
<1>. QED
  BY <1>1, ColorVerifies, Vector2Verifies, Vector3Verifies, RectangleVerifies,
     Camera2dVerifies, Camera3dVerifies, Texture2dVerifies

\* Elements swapped stay elements, each once.
LEMMA SwappedElements ==
  ASSUME NEW S, NEW s, s \in Seq(S), NEW a, a \in 1..Len(s), NEW b, b \in 1..Len(s)
  PROVE  /\ Swapped(s, a, b) \in Seq(S) /\ Len(Swapped(s, a, b)) = Len(s)
         /\ \A k \in 1..Len(s) :
              /\ k = b => Swapped(s, a, b)[k] = s[a]
              /\ k # b /\ k = a => Swapped(s, a, b)[k] = s[b]
              /\ k # b /\ k # a => Swapped(s, a, b)[k] = s[k]
<1> DEFINE once == [s EXCEPT ![a] = s[b]]
           twice == [once EXCEPT ![b] = s[a]]
<1>1. s[a] \in S /\ s[b] \in S
  BY ElementOfSeq
<1>2. /\ once \in Seq(S) /\ Len(once) = Len(s)
      /\ \A k \in 1..Len(s) : once[k] = IF k = a THEN s[b] ELSE s[k]
  BY <1>1, ExceptSeq
<1> HIDE DEF once
<1>3. /\ twice \in Seq(S) /\ Len(twice) = Len(once)
      /\ \A k \in 1..Len(s) : twice[k] = IF k = b THEN s[a] ELSE once[k]
  BY <1>1, <1>2, ExceptSeq
<1>4. Swapped(s, a, b) = twice
  BY DEF Swapped, once
<1> HIDE DEF twice
<1>. QED
  BY <1>2, <1>3, <1>4

\* Without one of its elements a sequence keeps the others, in order.
LEMMA RemovedElements ==
  ASSUME NEW S, NEW s \in Seq(S), NEW i \in 1..Len(s)
  PROVE  /\ RemoveAt(s, i) \in Seq(S) /\ Len(RemoveAt(s, i)) = Len(s) - 1
         /\ \A k \in 1..(Len(s) - 1) : RemoveAt(s, i)[k] = s[IF k < i THEN k ELSE k + 1]
<1> DEFINE front == SubSeq(s, 1, i - 1)
           back == SubSeq(s, i + 1, Len(s))
           len == Len(s)
<1>1. len \in Nat /\ i \in 1..len /\ i \in Int /\ i - 1 \in Int /\ i + 1 \in Int
  BY LenProperties
<1>2. /\ front \in Seq(S) /\ Len(front) = i - 1
      /\ \A k \in 1..(i - 1) : front[k] = s[k]
  <2>1. \A k \in 1..(i - 1) : s[k] \in S
    BY <1>1, ElementOfSeq
  <2>2. /\ front \in Seq(S) /\ Len(front) = IF 1 <= i - 1 THEN (i - 1) - 1 + 1 ELSE 0
        /\ \A k \in 1..((i - 1) - 1 + 1) : front[k] = s[1 + k - 1]
    BY <1>1, <2>1, SubSeqProperties
  <2>. QED
    BY <1>1, <2>2
<1>3. /\ back \in Seq(S) /\ Len(back) = len - i
      /\ \A k \in 1..(len - i) : back[k] = s[i + k]
  <2>1. \A k \in (i + 1)..len : s[k] \in S
    BY <1>1, ElementOfSeq
  <2>2. /\ back \in Seq(S) /\ Len(back) = IF i + 1 <= len THEN len - (i + 1) + 1 ELSE 0
        /\ \A k \in 1..(len - (i + 1) + 1) : back[k] = s[(i + 1) + k - 1]
    BY <1>1, <2>1, SubSeqProperties
  <2>. QED
    BY <1>1, <2>2
<1>4. RemoveAt(s, i) = front \o back
  BY DEF RemoveAt
<1> HIDE DEF front, back
<1>5. /\ front \o back \in Seq(S) /\ Len(front \o back) = Len(front) + Len(back)
      /\ \A k \in 1..(Len(front) + Len(back)) :
           (front \o back)[k] = IF k <= Len(front) THEN front[k] ELSE back[k - Len(front)]
  BY <1>2, <1>3, ConcatProperties
<1>6. Len(front) + Len(back) = len - 1
  BY <1>1, <1>2, <1>3
<1>7. ASSUME NEW k \in 1..(len - 1)
      PROVE  RemoveAt(s, i)[k] = s[IF k < i THEN k ELSE k + 1]
  <2>1. CASE k < i
    BY <1>1, <1>2, <1>4, <1>5, <1>6, <2>1
  <2>2. CASE ~(k < i)
    <3>1. k - Len(front) \in 1..(len - i) /\ i + (k - Len(front)) = k + 1 /\ ~(k <= Len(front))
      BY <1>1, <1>2, <2>2
    <3>. QED
      BY <1>3, <1>4, <1>5, <1>6, <2>2, <3>1
  <2>. QED
    BY <2>1, <2>2
<1>. QED
  BY <1>4, <1>5, <1>6, <1>7

-----------------------------------------------------------------------------
\* What a declaration consists of.
LEMMA OfDeclaration ==
  ASSUME NEW members, NEW most \in {2, 3}, IsDeclaration(members, most)
  PROVE  /\ members \in Seq(Member) /\ DOMAIN members = 1..Len(members)
         /\ Len(members) \in 0..5
         /\ \A m \in 1..Len(members) :
              /\ members[m] \in Member /\ members[m].parts \in Seq(Part)
              /\ DOMAIN members[m].parts = 1..Len(members[m].parts)
              /\ Len(members[m].parts) \in 0..most
<1>1. members \in Seq(Member) /\ Len(members) \in 0..5
  BY DEF IsDeclaration
<1>2. ASSUME NEW m \in 1..Len(members)
      PROVE  /\ members[m] \in Member /\ members[m].parts \in Seq(Part)
             /\ DOMAIN members[m].parts = 1..Len(members[m].parts)
  <2>1. members[m] \in Member
    BY <1>1, ElementOfSeq
  <2>. QED
    BY <2>1, LenProperties DEF Member
<1>. QED
  BY <1>1, <1>2, LenProperties DEF IsDeclaration

\* Swapping or dropping members keeps a declaration.
LEMMA MembersSwapped ==
  ASSUME NEW members, NEW most \in {2, 3}, IsDeclaration(members, most),
         NEW i \in DOMAIN members, NEW j \in DOMAIN members
  PROVE  IsDeclaration(Swapped(members, i, j), most)
<1> DEFINE of(k) == IF k = j THEN i ELSE IF k = i THEN j ELSE k
<1>1. /\ members \in Seq(Member) /\ i \in 1..Len(members) /\ j \in 1..Len(members)
      /\ Len(members) \in 0..5
  BY OfDeclaration
<1>2. /\ Swapped(members, i, j) \in Seq(Member) /\ Len(Swapped(members, i, j)) = Len(members)
      /\ \A k \in 1..Len(members) : Swapped(members, i, j)[k] = members[of(k)]
  <2>1. Swapped(members, i, j) \in Seq(Member) /\ Len(Swapped(members, i, j)) = Len(members)
    BY <1>1, SwappedElements
  <2>2. ASSUME NEW k \in 1..Len(members) PROVE Swapped(members, i, j)[k] = members[of(k)]
    <3>1. CASE k = j
      BY <1>1, <3>1, SwappedElements
    <3>2. CASE k # j /\ k = i
      BY <1>1, <3>2, SwappedElements
    <3>3. CASE k # j /\ k # i
      BY <1>1, <3>3, SwappedElements
    <3>. QED
      BY <3>1, <3>2, <3>3
  <2>. QED
    BY <2>1, <2>2
<1>3. \A k \in 1..Len(members) : of(k) \in 1..Len(members)
  BY <1>1
<1>4. \A k, l \in 1..Len(members) : of(k) = of(l) => k = l
  OBVIOUS
<1> HIDE DEF of
<1>5. /\ \A m \in 1..Len(members) : Len(members[m].parts) \in 0..most
      /\ \A k, l \in 1..Len(members) : members[k].name = members[l].name => k = l
  BY DEF IsDeclaration
<1> DEFINE swapped == Swapped(members, i, j)
<1> HIDE DEF swapped
<1>6. /\ \A m \in 1..Len(members) : Len(swapped[m].parts) \in 0..most
      /\ \A k, l \in 1..Len(members) : swapped[k].name = swapped[l].name => k = l
  <2>1. \A k \in 1..Len(members) : swapped[k] = members[of(k)]
    BY <1>2 DEF swapped
  <2>2. \A m \in 1..Len(members) : Len(swapped[m].parts) \in 0..most
    BY <2>1, <1>3, <1>5
  <2>3. ASSUME NEW k \in 1..Len(members), NEW l \in 1..Len(members),
               swapped[k].name = swapped[l].name
        PROVE  k = l
    <3>1. of(k) = of(l)
      BY <2>1, <2>3, <1>3, <1>5
    <3>. QED
      BY <3>1, <1>4
  <2>. QED
    BY <2>2, <2>3
<1>7. swapped \in Seq(Member) /\ Len(swapped) = Len(members)
  BY <1>2 DEF swapped
<1>8. IsDeclaration(swapped, most)
  BY <1>1, <1>6, <1>7 DEF IsDeclaration
<1>. QED
  BY <1>8 DEF swapped

LEMMA MemberDropped ==
  ASSUME NEW members, NEW most \in {2, 3}, IsDeclaration(members, most), NEW i \in DOMAIN members
  PROVE  IsDeclaration(RemoveAt(members, i), most)
<1> DEFINE of(k) == IF k < i THEN k ELSE k + 1
           len == Len(members)
<1>1. members \in Seq(Member) /\ i \in 1..len /\ len \in 0..5
  BY OfDeclaration
<1>2. /\ RemoveAt(members, i) \in Seq(Member) /\ Len(RemoveAt(members, i)) = len - 1
      /\ \A k \in 1..(len - 1) : RemoveAt(members, i)[k] = members[of(k)]
  BY <1>1, RemovedElements
<1> HIDE DEF len
<1>3. len - 1 \in 0..5 /\ \A k \in 1..(len - 1) : of(k) \in 1..len
  BY <1>1
<1>4. \A k, l \in 1..(len - 1) : of(k) = of(l) => k = l
  BY <1>1
<1> HIDE DEF of
<1>5. /\ \A m \in 1..len : Len(members[m].parts) \in 0..most
      /\ \A k, l \in 1..len : members[k].name = members[l].name => k = l
  BY DEF IsDeclaration, len
<1> DEFINE rest == RemoveAt(members, i)
<1> HIDE DEF rest
<1>6. /\ rest \in Seq(Member) /\ Len(rest) = len - 1
      /\ \A k \in 1..(len - 1) : rest[k] = members[of(k)]
  BY <1>2 DEF rest
<1>7. \A m \in 1..(len - 1) : Len(rest[m].parts) \in 0..most
  BY <1>3, <1>5, <1>6
<1>8. ASSUME NEW k \in 1..(len - 1), NEW l \in 1..(len - 1), rest[k].name = rest[l].name PROVE k = l
  <2>1. of(k) = of(l)
    BY <1>3, <1>5, <1>6, <1>8
  <2>. QED
    BY <1>4, <2>1
<1>9. IsDeclaration(rest, most)
  BY <1>3, <1>6, <1>7, <1>8 DEF IsDeclaration
<1>. QED
  BY <1>9 DEF rest

\* Editing the parts of one member keeps it a declaration.
LEMMA PartsReplaced ==
  ASSUME NEW members, NEW most \in {2, 3}, IsDeclaration(members, most), NEW m \in DOMAIN members,
         NEW parts \in Seq(Part), Len(parts) \in 0..most
  PROVE  IsDeclaration([members EXCEPT ![m].parts = parts], most)
<1> DEFINE member == [members[m] EXCEPT !.parts = parts]
           changed == [members EXCEPT ![m] = member]
<1>1. /\ members \in Seq(Member) /\ m \in 1..Len(members) /\ members[m] \in Member
      /\ Len(members) \in 0..5
  BY OfDeclaration
<1>2. member \in Member /\ member.name = members[m].name /\ member.parts = parts
  BY <1>1 DEF Member
<1> HIDE DEF member
<1>3. /\ changed \in Seq(Member) /\ Len(changed) = Len(members)
      /\ \A k \in 1..Len(members) : changed[k] = IF k = m THEN member ELSE members[k]
  BY <1>1, <1>2, ExceptSeq
<1> HIDE DEF changed
<1>4. IsDeclaration(changed, most)
  <2>1. /\ \A k \in 1..Len(members) : Len(members[k].parts) \in 0..most
        /\ \A k, l \in 1..Len(members) : members[k].name = members[l].name => k = l
    BY DEF IsDeclaration
  <2>2. \A k \in 1..Len(members) : changed[k].name = members[k].name
    BY <1>2, <1>3
  <2>3. \A k \in 1..Len(members) : Len(changed[k].parts) \in 0..most
    BY <1>2, <1>3, <2>1
  <2>4. \A k, l \in 1..Len(members) : changed[k].name = changed[l].name => k = l
    BY <2>1, <2>2
  <2>. QED
    BY <1>1, <1>3, <2>3, <2>4 DEF IsDeclaration
<1>5. changed = [members EXCEPT ![m].parts = parts]
  BY DEF changed, member
<1>. QED
  BY <1>4, <1>5

-----------------------------------------------------------------------------
\* How many parts a member of a struct has at most.
Most == IF struct = "camera2d" THEN 2 ELSE 3

\* What the edits leave: a declaration, and the one of the source before any.
AbiInv ==
  /\ struct \in DOMAIN declarations
  /\ IsDeclaration(declared, Most)
  /\ edits \in Nat
  /\ edits = 0 => declared = declarations[struct]

\* It holds of the declarations of the source.
LEMMA AbiInvInit == AbiInit => AbiInv
<1> SUFFICES ASSUME AbiInit PROVE AbiInv
  OBVIOUS
<1>1. struct \in {"color", "vector2", "vector3", "rectangle", "camera2d", "camera3d", "texture2d"}
  BY DEF AbiInit, declarations
<1>2. IsDeclaration(declarations[struct], Most)
  BY <1>1, OriginalColor, OriginalVector2, OriginalVector3, OriginalRectangle, OriginalCamera2d,
     OriginalCamera3d, OriginalTexture2d DEF Most
<1>. QED
  BY <1>2 DEF AbiInit, AbiInv

\* An edit that keeps a declaration keeps the invariant.
LEMMA EditedKeeps ==
  ASSUME AbiInv, NEW members, Edited(members), IsDeclaration(members, Most)
  PROVE  AbiInv'
<1>1. edits' # 0 /\ edits' \in Nat
  BY DEF AbiInv, Edited
<1>. QED
  BY <1>1 DEF AbiInv, Edited, Most

\* Every edit does.
LEMMA AbiInvNext == AbiInv /\ [AbiNext]_abiVars => AbiInv'
<1> SUFFICES ASSUME AbiInv, [AbiNext]_abiVars PROVE AbiInv'
  OBVIOUS
<1>1. Most \in {2, 3} /\ IsDeclaration(declared, Most)
  BY DEF AbiInv, Most
<1>2. CASE SwapMembers
  BY <1>1, <1>2, MembersSwapped, EditedKeeps DEF SwapMembers
<1>3. CASE DropMember
  BY <1>1, <1>3, MemberDropped, EditedKeeps DEF DropMember
<1>4. CASE SwapParts
  <2>1. PICK m \in DOMAIN declared : \E i, j \in DOMAIN declared[m].parts :
          i < j /\ Edited([declared EXCEPT ![m].parts = Swapped(@, i, j)])
    BY <1>4 DEF SwapParts
  <2>2. PICK i \in DOMAIN declared[m].parts, j \in DOMAIN declared[m].parts :
          Edited([declared EXCEPT ![m].parts = Swapped(@, i, j)])
    BY <2>1
  <2> DEFINE parts == Swapped(declared[m].parts, i, j)
  <2>3. /\ declared[m].parts \in Seq(Part) /\ i \in 1..Len(declared[m].parts)
        /\ j \in 1..Len(declared[m].parts) /\ Len(declared[m].parts) \in 0..Most
    BY <1>1, OfDeclaration
  <2>4. parts \in Seq(Part) /\ Len(parts) = Len(declared[m].parts)
    BY <2>3, SwappedElements
  <2>5. Edited([declared EXCEPT ![m].parts = parts])
    BY <2>2
  <2> HIDE DEF parts
  <2>6. Len(parts) \in 0..Most
    BY <2>3, <2>4
  <2>. QED
    BY <1>1, <2>4, <2>5, <2>6, PartsReplaced, EditedKeeps
<1>5. CASE Retype
  <2>1. PICK m \in DOMAIN declared : \E i \in DOMAIN declared[m].parts : \E type \in Types :
          Edited([declared EXCEPT ![m].parts[i].type = type])
    BY <1>5 DEF Retype, Types
  <2>2. PICK i \in DOMAIN declared[m].parts, type \in Types :
          Edited([declared EXCEPT ![m].parts[i].type = type])
    BY <2>1
  <2> DEFINE part == [declared[m].parts[i] EXCEPT !.type = type]
             parts == [declared[m].parts EXCEPT ![i] = part]
  <2>3. /\ declared[m].parts \in Seq(Part) /\ i \in 1..Len(declared[m].parts)
        /\ Len(declared[m].parts) \in 0..Most
    BY <1>1, OfDeclaration
  <2>4. part \in Part
    <3>1. declared[m].parts[i] \in Part
      BY <2>3, ElementOfSeq
    <3>. QED
      BY <3>1 DEF Part
  <2>5. Edited([declared EXCEPT ![m].parts = parts])
    BY <2>2
  <2> HIDE DEF part
  <2>6. parts \in Seq(Part) /\ Len(parts) \in 0..Most
    BY <2>3, <2>4, ExceptSeq
  <2> HIDE DEF parts
  <2>. QED
    BY <1>1, <2>5, <2>6, PartsReplaced, EditedKeeps
<1>6. CASE DropPart
  <2>1. PICK m \in DOMAIN declared : \E i \in DOMAIN declared[m].parts :
          /\ Len(declared[m].parts) > 1
          /\ Edited([declared EXCEPT ![m].parts = RemoveAt(@, i)])
    BY <1>6 DEF DropPart
  <2>2. PICK i \in DOMAIN declared[m].parts :
          Edited([declared EXCEPT ![m].parts = RemoveAt(@, i)])
    BY <2>1
  <2> DEFINE parts == RemoveAt(declared[m].parts, i)
  <2>3. /\ declared[m].parts \in Seq(Part) /\ i \in 1..Len(declared[m].parts)
        /\ Len(declared[m].parts) \in 0..Most
    BY <1>1, OfDeclaration
  <2>4. parts \in Seq(Part) /\ Len(parts) = Len(declared[m].parts) - 1
    BY <2>3, RemovedElements
  <2>5. Edited([declared EXCEPT ![m].parts = parts])
    BY <2>2
  <2> HIDE DEF parts
  <2>6. Len(parts) \in 0..Most
    BY <1>1, <2>3, <2>4
  <2>. QED
    BY <1>1, <2>4, <2>5, <2>6, PartsReplaced, EditedKeeps
<1>7. CASE UNCHANGED abiVars
  BY <1>7 DEF AbiInv, Most, abiVars
<1>. QED
  BY <1>2, <1>3, <1>4, <1>5, <1>6, <1>7 DEF AbiNext

\* verify! accepts the source, and nothing that C would read elsewhere.
LEMMA VerifiedIsInPlace == AbiInv => VerifiedFieldsAreInPlace
<1> SUFFICES ASSUME AbiInv PROVE VerifiedFieldsAreInPlace
  OBVIOUS
<1> DEFINE layout == layoutOf(declared)
<1>1. edits = 0 => verify(struct, declared)
  BY SourceVerifies DEF AbiInv
<1>2. ASSUME verify(struct, declared)
      PROVE  /\ layout.size = expectedLayouts[struct].size
             /\ \A r \in ToSet(oracle[struct]) : FieldAt(layout, r.field).at = r.at
  <2>1. struct \in DOMAIN declarations /\ struct \in DOMAIN oracle
    BY OracleNames DEF AbiInv, declarations
  <2>2. AsInC(struct, layout)
    BY <1>2, <2>1, VerifiedIsAsInC DEF AbiInv, Most
  <2>3. \A r \in ToSet(oracle[struct]) : \E i \in 1..Count(struct) : r = oracle[struct][i]
    BY <2>1, OracleIsTyped DEF ToSet
  <2> HIDE DEF layout
  <2>. QED
    BY <2>2, <2>3 DEF AsInC, Where
<1>. QED
  BY <1>1, <1>2 DEF VerifiedFieldsAreInPlace
=============================================================================
