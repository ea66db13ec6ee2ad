---------------------------- MODULE AggregateAbi ----------------------------
(***************************************************************************)
(* Passing Raylib's structs by value.  raylib/src/poc/raylib/abi.clj       *)
(* declares each struct a second time for the Jolt FFI, and verify! checks *)
(* the declarations: their sizes and some offsets, and that a C oracle     *)
(* (abi/aggregate_oracle.c) reads the fields that were written through     *)
(* them, by a weighted sum of each struct.                                 *)
(*                                                                         *)
(* The question is what verify! is worth: a declaration is edited as one   *)
(* gets it wrong (fields swapped, of another size, forgotten), and what it *)
(* still accepts must be laid out as C has it.                             *)
(*                                                                         *)
(* Fresh memory is read as zeros, in which the fewest errors show.  The    *)
(* literals of each defcfn, which choose the registers, are taken to be    *)
(* edited with the layouts; a float declared as an integer is left out.    *)
(***************************************************************************)
EXTENDS Integers, Sequences, SequencesExt, FiniteSets

CONSTANT MaxEdits   \* bound: how many mistakes a declaration has

VARIABLES
  struct,     \* which struct is declared
  declared,   \* its declaration: a sequence of members
  edits       \* mistakes made in it

abiVars == <<struct, declared, edits>>

SizeOf == [uint8 |-> 1, short |-> 2, int |-> 4, uint |-> 4, float |-> 4, double |-> 8]
Floats == {"float", "double"}

\* A member: a struct of fields, or a field of its own, which is its only part.
field(name, type)    == [name |-> name, parts |-> <<[name |-> "self", type |-> type]>>]
inner(name, parts)   == [name |-> name, parts |-> parts]
fieldsOf(type, names) == [i \in DOMAIN names |-> field(names[i], type)]
partsOf(type, names)  == [i \in DOMAIN names |-> [name |-> names[i], type |-> type]]

declarations ==
  [color     |-> fieldsOf("uint8", <<"r", "g", "b", "a">>),
   vector2   |-> fieldsOf("float", <<"x", "y">>),
   vector3   |-> fieldsOf("float", <<"x", "y", "z">>),
   rectangle |-> fieldsOf("float", <<"x", "y", "width", "height">>),
   camera2d  |-> <<inner("offset", partsOf("float", <<"x", "y">>)),
                   inner("target", partsOf("float", <<"x", "y">>)),
                   field("rotation", "float"), field("zoom", "float")>>,
   camera3d  |-> <<inner("position", partsOf("float", <<"x", "y", "z">>)),
                   inner("target", partsOf("float", <<"x", "y", "z">>)),
                   inner("up", partsOf("float", <<"x", "y", "z">>)),
                   field("fovy", "float"), field("projection", "int")>>,
   texture2d |-> <<field("id", "uint"), field("width", "int"), field("height", "int"),
                   field("mipmaps", "int"), field("format", "int")>>]

-----------------------------------------------------------------------------
(* The layout of a declaration: each field at the next multiple of its     *)
(* alignment, a struct aligned as its widest field and padded to that.     *)

roundUp(n, align) == ((n + align - 1) \div align) * align
wider(a, b) == IF a < b THEN b ELSE a

Laid(size, align, at) == [size |-> size, align |-> align, at |-> at]
Padded(laid) == [laid EXCEPT !.size = roundUp(@, laid.align)]

\* A field by itself, and one layout put after what is laid already.
scalar(path, type) ==
  Laid(SizeOf[type], SizeOf[type], {[field |-> path, at |-> 0, type |-> type]})

place(laid, part) ==
  LET start == roundUp(laid.size, part.align)
  IN Laid(start + part.size, wider(laid.align, part.align),
          laid.at \cup {[field |-> f.field, at |-> start + f.at, type |-> f.type] : f \in part.at})

inOrder(parts) ==
  LET laid[n \in 0..Len(parts)] ==
        IF n = 0 THEN Laid(0, 1, {}) ELSE place(laid[n - 1], parts[n])
  IN Padded(laid[Len(parts)])

memberLayout(member) ==
  inOrder([i \in DOMAIN member.parts |->
             scalar(<<member.name, member.parts[i].name>>, member.parts[i].type)])

layoutOf(members) == inOrder([i \in DOMAIN members |-> memberLayout(members[i])])

FieldNames(layout) == {f.field : f \in layout.at}
FieldAt(layout, name) == CHOOSE f \in layout.at : f.field = name

-----------------------------------------------------------------------------
(* Memory, as bytes that know what they were written as.                   *)

Zero == [of |-> "zero", value |-> 0, byte |-> 0]
Blank == [b \in 0..63 |-> Zero]

\* Integers are little-endian and below 256 here; the bytes of a float make
\* sense together only.
byteOf(type, value, k) ==
  IF type \in Floats THEN [of |-> type, value |-> value, byte |-> k]
  ELSE IF k = 0 /\ value > 0 THEN [of |-> "int", value |-> value, byte |-> 0] ELSE Zero

write(memory, at, type, value) ==
  [b \in DOMAIN memory |->
     IF b \in at..(at + SizeOf[type] - 1) THEN byteOf(type, value, b - at) ELSE memory[b]]

\* Memory after these fields were written, in order.
stored(fields, values) ==
  LET memory[n \in 0..Len(fields)] ==
        IF n = 0 THEN Blank ELSE write(memory[n - 1], fields[n].at, fields[n].type, values[n])
  IN memory[Len(fields)]

Garbage == 1000000

read(memory, at, type) ==
  LET first == memory[at]
      Fits(value) == \A k \in 0..(SizeOf[type] - 1) : memory[at + k] = byteOf(type, value, k)
  IN IF \A k \in 0..(SizeOf[type] - 1) : memory[at + k] = Zero THEN 0
     ELSE IF Fits(first.value) THEN first.value ELSE Garbage

-----------------------------------------------------------------------------
(* The oracle: where C has the fields it reads, and their weights.         *)

reads(path, at, type, weight) == [field |-> path, at |-> at, type |-> type, weight |-> weight]

oracle ==
  LET u8(name, at, weight) == reads(<<name, "self">>, at, "uint8", weight)
      f32(name, at, weight) == reads(<<name, "self">>, at, "float", weight)
      i32(name, at) == reads(<<name, "self">>, at, "int", 1)
      part(member, name, at) == reads(<<member, name>>, at, "float", 1)
  IN [color |-> <<u8("r", 0, 1), u8("g", 1, 10), u8("b", 2, 100), u8("a", 3, 1000)>>,
      vector2 |-> <<f32("x", 0, 1), f32("y", 4, 10)>>,
      vector3 |-> <<f32("x", 0, 1), f32("y", 4, 10), f32("z", 8, 100)>>,
      rectangle |-> <<f32("x", 0, 1), f32("y", 4, 10), f32("width", 8, 100),
                      f32("height", 12, 1000)>>,
      camera2d |-> <<part("offset", "x", 0), part("offset", "y", 4), part("target", "x", 8),
                     part("target", "y", 12), f32("rotation", 16, 1), f32("zoom", 20, 1)>>,
      camera3d |-> <<part("position", "x", 0), part("target", "y", 16), part("up", "z", 32),
                     f32("fovy", 36, 1), i32("projection", 40)>>,
      texture2d |-> <<i32("id", 0), i32("width", 4), i32("height", 8), i32("mipmaps", 12),
                      i32("format", 16)>>]

score(name, memory) ==
  LET sum[n \in 0..Len(oracle[name])] ==
        IF n = 0 THEN 0
        ELSE LET r == oracle[name][n] IN sum[n - 1] + r.weight * read(memory, r.at, r.type)
  IN sum[Len(oracle[name])]

\* make_vector2 and make_texture fill a struct that is returned: C's offsets.
returned(name, values) == stored(oracle[name], values)

-----------------------------------------------------------------------------
(* verify!                                                                 *)

expectedLayouts ==
  LET at(name, part, offset) == <<<<name, part>>, offset>>
  IN [color     |-> [size |-> 4, at |-> {at("r", "self", 0), at("a", "self", 3)}],
      vector2   |-> [size |-> 8, at |-> {at("x", "self", 0), at("y", "self", 4)}],
      vector3   |-> [size |-> 12, at |-> {at("z", "self", 8)}],
      rectangle |-> [size |-> 16, at |-> {at("width", "self", 8), at("height", "self", 12)}],
      camera2d  |-> [size |-> 24, at |-> {at("offset", "x", 0), at("target", "x", 8),
                                          at("rotation", "self", 16), at("zoom", "self", 20)}],
      camera3d  |-> [size |-> 44, at |-> {at("target", "x", 12), at("up", "x", 24),
                                          at("fovy", "self", 36), at("projection", "self", 40)}],
      texture2d |-> [size |-> 20, at |-> {at("id", "self", 0), at("format", "self", 16)}]]

\* Mutant: the layouts are compared by their size.
layoutSizeObserved(name, layout) == layout.size = expectedLayouts[name].size

\* A field that is not declared throws.
layoutObserved(name, layout) ==
  /\ layout.size = expectedLayouts[name].size
  /\ \A e \in expectedLayouts[name].at :
       e[1] \in FieldNames(layout) /\ FieldAt(layout, e[1]).at = e[2]

\* The fields that are written are those the oracle reads, with 1, 2, 3...
written(name, layout) ==
  stored([i \in DOMAIN oracle[name] |-> FieldAt(layout, oracle[name][i].field)],
         [i \in DOMAIN oracle[name] |-> i])

expectedScores ==
  [color |-> 4321, vector2 |-> 21, vector3 |-> 321, rectangle |-> 4321, camera2d |-> 21,
   camera3d |-> 15, texture2d |-> 15]

expectedReturns == [vector2 |-> <<7, 8>>, texture2d |-> <<7, 8, 9, 10, 11>>]

returnObserved(name, layout) ==
  name \in DOMAIN expectedReturns =>
    \A i \in DOMAIN expectedReturns[name] :
      LET f == FieldAt(layout, oracle[name][i].field)
      IN read(returned(name, expectedReturns[name]), f.at, f.type) = expectedReturns[name][i]

verify(name, members) ==
  LET layout == layoutOf(members)
  IN /\ layoutObserved(name, layout)
     /\ \A r \in ToSet(oracle[name]) : r.field \in FieldNames(layout)
     /\ score(name, written(name, layout)) = expectedScores[name]
     /\ returnObserved(name, layout)

-----------------------------------------------------------------------------
(* Editing a declaration.                                                  *)

Edited(members) == declared' = members /\ edits' = edits + 1 /\ UNCHANGED struct

Swapped(s, i, j) == [s EXCEPT ![i] = s[j], ![j] = s[i]]

SwapMembers ==
  \E i, j \in DOMAIN declared : i < j /\ Edited(Swapped(declared, i, j))

SwapParts ==
  \E m \in DOMAIN declared : \E i, j \in DOMAIN declared[m].parts :
     i < j /\ Edited([declared EXCEPT ![m].parts = Swapped(@, i, j)])

Retype ==
  \E m \in DOMAIN declared : \E i \in DOMAIN declared[m].parts : \E type \in DOMAIN SizeOf :
     /\ (type \in Floats) = (declared[m].parts[i].type \in Floats)
     /\ type # declared[m].parts[i].type
     /\ Edited([declared EXCEPT ![m].parts[i].type = type])

DropMember ==
  \E m \in DOMAIN declared : Len(declared) > 1 /\ Edited(RemoveAt(declared, m))

DropPart ==
  \E m \in DOMAIN declared : \E i \in DOMAIN declared[m].parts :
     /\ Len(declared[m].parts) > 1
     /\ Edited([declared EXCEPT ![m].parts = RemoveAt(@, i)])

AbiInit ==
  /\ struct \in DOMAIN declarations
  /\ declared = declarations[struct]
  /\ edits = 0

AbiNext ==
  /\ edits < MaxEdits
  /\ SwapMembers \/ SwapParts \/ Retype \/ DropMember \/ DropPart

-----------------------------------------------------------------------------
\* verify! accepts the declarations of the source; and whatever it accepts
\* has C's size, and every field that the program sets where C reads it.
VerifiedFieldsAreInPlace ==
  LET layout == layoutOf(declared)
  IN /\ edits = 0 => verify(struct, declared)
     /\ verify(struct, declared) =>
          /\ layout.size = expectedLayouts[struct].size
          /\ \A r \in ToSet(oracle[struct]) : FieldAt(layout, r.field).at = r.at
=============================================================================
