----------------------------- MODULE ChezValues -----------------------------
(***************************************************************************)
(* How a C caller sees Scheme values: two headers of the Chez runtime that *)
(* the repository vendors (native/chez/android-arm64).  equates.h says     *)
(* which bits of a pointer, and of the first word of a heap object, tell   *)
(* its class; scheme.h has the predicates, constructors and accessors as   *)
(* macros of its own.  The Android probe, chez_probe.c, includes scheme.h  *)
(* and uses two of the macros modelled here, Sfixnum and Sfixnum_value; no *)
(* C source includes equates.h.  What is checked is thus that the two      *)
(* vendored tables agree, not a behaviour of the app.                      *)
(*                                                                         *)
(* A value is made by a constructor, or is the header that the runtime     *)
(* gives an object; then everything that reads it must agree on what it    *)
(* is.  Words have WordBits bits instead of 64; the whole word is a mask   *)
(* as there.  The heap, the mutators and the locks of scheme.h, which      *)
(* nothing in the repository uses, and the layout of the runtime's own     *)
(* structures in equates.h are left out.                                   *)
(***************************************************************************)
EXTENDS Integers, FiniteSets

CONSTANTS
  WordBits,      \* bits of a uptr and an iptr
  Numbers,       \* bound: the integers made into fixnums, besides the limits
  Payloads,      \* bound: characters, lengths and other contents of a word
  PortFlagSets   \* bound: the ways in which a port is open

VARIABLES
  made,   \* what was made: its class and what it holds
  word    \* the word that stands for it

chezVars == <<made, word>>

WordSize  == 2^WordBits
WholeWord == WordSize - 1

\* A C integer as the bits of a word, and back.
uptr(i) == i % WordSize
iptr(w) == IF w < WordSize \div 2 THEN w ELSE w - WordSize

\* The bit of a word at a place, a power of two; and (w & mask) == type.  A
\* mask is the whole word, or below 2^24.
Places ==
  {1, 2, 4, 8, \h10, \h20, \h40, \h80, \h100, \h200, \h400, \h800, \h1000, \h2000, \h4000, \h8000,
   \h10000, \h20000, \h40000, \h80000, \h100000, \h200000, \h400000, \h800000}

bit(w, place) == (w \div place) % 2

matches(w, mask, type) ==
  IF mask = WholeWord THEN w = type
  ELSE \A place \in Places : bit(w, place) * bit(mask, place) = bit(type, place)

\* The flags of a table, each a bit of the lower 16, joined by |: four by four.
joined(flags, table) ==
  LET on(place)   == IF \E f \in flags : table[f] = place THEN 1 ELSE 0
      four(place) == on(place) + 2 * on(2 * place) + 4 * on(4 * place) + 8 * on(8 * place)
  IN four(1) + \h10 * (four(\h10) + \h10 * (four(\h100) + \h10 * four(\h1000)))

-----------------------------------------------------------------------------
(* equates.h                                                               *)
fixnum_offset == 3
fixnum_factor == 2^fixnum_offset

most_negative_fixnum == -(WordSize \div 2^(fixnum_offset + 1))
most_positive_fixnum == WordSize \div 2^(fixnum_offset + 1) - 1

\* A word has room for the flags of ports, which is to say that WordBits is 24
\* at least; what is put into words has room there.
ASSUME WordAssumption ==
  /\ WordBits \in Nat
  /\ WordSize \in Nat \ {0} /\ WordSize % \h1000000 = 0
  /\ Numbers \subseteq most_negative_fixnum..most_positive_fixnum
  /\ Payloads \subseteq 0..(WordSize \div 2^8 - 1)

Mask ==
  [any_stencil_vector |-> \h1F, bignum |-> \h1F, bignum_sign |-> \h20,
   binary_input_port |-> \h5FF, binary_output_port |-> \h6FF, binary_port |-> \h4FF,
   boolean |-> \hF7, box |-> \hFF, bwp |-> WholeWord, bytevector |-> \h3, char |-> \hFF,
   closure |-> \h7, code |-> \hFF, code_arity_in_closure |-> \h20FF,
   code_mutable_closure |-> \h10FF, code_single_valued |-> \h40FF,
   continuation_code |-> \h2FF, eof |-> WholeWord, exactnum |-> WholeWord,
   false |-> WholeWord, fixnum |-> \h7, flonum |-> \h7, flvector |-> \hF, fxvector |-> \hF,
   guardian_code |-> \h8FF, immediate |-> \h7, inexactnum |-> WholeWord,
   input_port |-> \h1FF, mutable_box |-> \h1FF, mutable_bytevector |-> \h7,
   mutable_string |-> \hF, mutable_vector |-> \hF, nil |-> WholeWord,
   other_number |-> \hF, output_port |-> \h2FF, pair |-> \h7, phantom |-> WholeWord,
   port |-> \hFF, ratnum |-> WholeWord, record |-> \h7, rtd_counts |-> WholeWord,
   signed_bignum |-> \h3F, stencil_vector |-> \h3F, string |-> \h7, symbol |-> \h7,
   sys_stencil_vector |-> \h3F, system_code |-> \h1FF, textual_input_port |-> \h5FF,
   textual_output_port |-> \h6FF, textual_port |-> \h4FF, thread |-> WholeWord,
   tlc |-> WholeWord, typed_object |-> \h7, unbound |-> WholeWord, vector |-> \h7]

Type ==
  [any_stencil_vector |-> \hE, bignum |-> \h6, binary_input_port |-> \h5DE,
   binary_output_port |-> \h6DE, binary_port |-> \h4DE, boolean |-> \h6, box |-> \h1E,
   bytevector |-> \h1, char |-> \h16, closure |-> \h5, code |-> \hBE,
   code_arity_in_closure |-> \h20BE, code_mutable_closure |-> \h10BE,
   code_single_valued |-> \h40BE, continuation_code |-> \h2BE, exactnum |-> \h56,
   fixnum |-> \h0, flonum |-> \h2, flvector |-> \hB, fxvector |-> \h3,
   guardian_code |-> \h8BE, immediate |-> \h6, immutable_box |-> \h11E,
   immutable_bytevector |-> \h5, immutable_string |-> \hA, immutable_vector |-> \h8,
   inexactnum |-> \h36, input_port |-> \h1DE, io_port |-> \h3DE, mutable_box |-> \h1E,
   mutable_bytevector |-> \h1, mutable_string |-> \h2, mutable_vector |-> \h0,
   negative_bignum |-> \h26, other_number |-> \h6, output_port |-> \h2DE, pair |-> \h1,
   phantom |-> \h7E, port |-> \hDE, positive_bignum |-> \h6, ratnum |-> \h16,
   record |-> \h7, rtd_counts |-> \h9E, stencil_vector |-> \hE, string |-> \h2,
   symbol |-> \h3, sys_stencil_vector |-> \h2E, system_code |-> \h1BE,
   textual_input_port |-> \h1DE, textual_output_port |-> \h2DE, textual_port |-> \hDE,
   thread |-> \h5E, tlc |-> \hFE, typed_object |-> \h7, vector |-> \h0]

\* Bits above the type: how a port is open, as bits of its header.
PortFlags ==
  [binary |-> \h400, block_buffered |-> \h20000, bol |-> \h8000, char_positions |-> \h100000,
   closed |-> \h800, compressed |-> \h2000, eof |-> \h10000, exclusive |-> \h4000,
   file |-> \h1000, fold_case |-> \h400000, input |-> \h100, input_mode |-> \h80000,
   line_buffered |-> \h40000, no_fold_case |-> \h800000, output |-> \h200, r6rs |-> \h200000]

ASSUME FlagsAssumption == PortFlagSets \subseteq SUBSET DOMAIN PortFlags

\* The same as a field of the header, before it is shifted in.
port_flag ==
  [binary |-> \h4, block_buffered |-> \h200, bol |-> \h80, char_positions |-> \h1000,
   closed |-> \h8, compressed |-> \h20, eof |-> \h100, exclusive |-> \h40, file |-> \h10,
   fold_case |-> \h4000, input |-> \h1, input_mode |-> \h800, line_buffered |-> \h400,
   no_fold_case |-> \h8000, output |-> \h2, r6rs |-> \h2000]

port_flags_offset == 8

\* What a code object is, to be shifted.
CodeFlags ==
  [arity_in_closure |-> \h20, continuation |-> \h2, guardian |-> \h8, lift_barrier |-> \h80,
   mutable_closure |-> \h10, no_interrupt_trap |-> \h100, single_valued |-> \h40,
   system |-> \h1, template |-> \h4]

code_flags_offset == 8

\* Where an object of variable length has its data, its length and its type.
bignumLayout     == [data |-> 9, factor |-> \h40, offset |-> 6, type |-> 1]
bytevectorLayout == [data |-> 9, immutable |-> \h4, factor |-> 8, offset |-> 3, type |-> 1]
flvectorLayout   == [data |-> 9, factor |-> \h10, offset |-> 4, type |-> 1]
fxvectorLayout   == [data |-> 9, factor |-> \h10, offset |-> 4, type |-> 1]
stringLayout     == [data |-> 9, immutable |-> \h8, factor |-> \h10, offset |-> 4, type |-> 1]
vectorLayout     == [data |-> 9, immutable |-> \h8, factor |-> \h10, offset |-> 4, type |-> 1]
stencilMaskOffset == 6
pairLayout       == [car |-> 7, cdr |-> \hF]

\* The longest objects: all the bits above the type, for a bytevector one less.
MaximumLength ==
  [bignum |-> WordSize \div 2^6 - 1, bytevector |-> WordSize \div 2^4 - 1,
   flvector |-> WordSize \div 2^4 - 1, fxvector |-> WordSize \div 2^4 - 1,
   string |-> WordSize \div 2^4 - 1, vector |-> WordSize \div 2^4 - 1]

-----------------------------------------------------------------------------
(* scheme.h: its predicates as masks and types of its own, first those of  *)
(* the pointer, then those of the object's header.                         *)

\* Mutant: the bit that tells #t from #f belongs to the mask.
PointerPredicatesTightBoolean ==
  [fixnum |-> <<\h7, \h0>>, char |-> <<\hFF, \h16>>, nil |-> <<WholeWord, \h26>>,
   eof |-> <<WholeWord, \h36>>, bwp |-> <<WholeWord, \h4E>>, boolean |-> <<\hFF, \h6>>,
   pair |-> <<\h7, \h1>>, symbol |-> <<\h7, \h3>>, closure |-> <<\h7, \h5>>,
   flonum |-> <<\h7, \h2>>]

PointerPredicates ==
  [fixnum |-> <<\h7, \h0>>, char |-> <<\hFF, \h16>>, nil |-> <<WholeWord, \h26>>,
   eof |-> <<WholeWord, \h36>>, bwp |-> <<WholeWord, \h4E>>, boolean |-> <<\hF7, \h6>>,
   pair |-> <<\h7, \h1>>, symbol |-> <<\h7, \h3>>, closure |-> <<\h7, \h5>>,
   flonum |-> <<\h7, \h2>>]

HeaderPredicates ==
  [vector |-> <<\h7, \h0>>, fxvector |-> <<\hF, \h3>>, flvector |-> <<\hF, \hB>>,
   bytevector |-> <<\h3, \h1>>, string |-> <<\h7, \h2>>, stencil_vector |-> <<\h3F, \hE>>,
   sys_stencil_vector |-> <<\h3F, \h2E>>, any_stencil_vector |-> <<\h1F, \hE>>,
   bignum |-> <<\h1F, \h6>>, box |-> <<\hFF, \h1E>>, inexactnum |-> <<WholeWord, \h36>>,
   exactnum |-> <<WholeWord, \h56>>, ratnum |-> <<WholeWord, \h16>>,
   input_port |-> <<\h1FF, \h1DE>>, output_port |-> <<\h2FF, \h2DE>>,
   record |-> <<\h7, \h7>>]

Holds(predicate, w) == matches(w, predicate[1], predicate[2])

\* Constructors and accessors.
Sfixnum(x)       == uptr(x * 8)
Sfixnum_value(w) == iptr(w) \div 8      \* exact: the low bits are 0
Schar(c)         == uptr(c * 2^8 + \h16)
Schar_value(w)   == w \div 2^8
Snil        == \h26
Strue       == \hE
Sfalse      == \h6
Sbwp_object == \h4E
Seof_object == \h36
Svoid       == \h2E
Sboolean(b)       == IF b THEN Strue ELSE Sfalse
Sboolean_value(w) == w # Sfalse

\* Mutant: the length of a bytevector is shifted like that of a vector.
LengthShiftAlike == [vector |-> 4, fxvector |-> 4, flvector |-> 4, bytevector |-> 4, string |-> 4]

LengthShift == [vector |-> 4, fxvector |-> 4, flvector |-> 4, bytevector |-> 3, string |-> 4]

Slength(class, w) == w \div 2^LengthShift[class]

\* Sstencil_vector_length: the bits of the mask that are set.
Spopcount(w) == Cardinality({i \in 0..(WordBits - 1) : (w \div 2^i) % 2 = 1})
Sstencil_vector_length(w) == Spopcount(w \div 2^6)

\* The bytes, from the pointer, of the words that car, cdr, a flonum's value,
\* a header, and what comes after it are read from.
Displacement == [car |-> 7, cdr |-> 15, flonum |-> 6, header |-> 1, data |-> 9]

-----------------------------------------------------------------------------
(* The values the C side makes, and the objects the runtime lays out.      *)

Nothing == [class |-> "nothing", holds |-> 0]

Make(class, holds, w) ==
  /\ made = Nothing
  /\ made' = [class |-> class, holds |-> holds]
  /\ word' = w

MakeFixnum ==
  \E x \in (Numbers \cup {most_negative_fixnum, most_positive_fixnum}) :
     Make("fixnum", x, Sfixnum(x))

MakeChar    == \E c \in Payloads : Make("char", c, Schar(c))
MakeBoolean == \E b \in BOOLEAN : Make("boolean", b, Sboolean(b))

MakeConstant ==
  \/ Make("nil", 0, Snil)
  \/ Make("eof", 0, Seof_object)
  \/ Make("bwp", 0, Sbwp_object)
  \/ Make("void", 0, Svoid)

\* The runtime's pointers: an address of 16 bytes each, and its tag.
MakePointer ==
  \E class \in {"pair", "symbol", "closure", "flonum", "typed_object"}, at \in Payloads :
     Make(class, at * 16, at * 16 + Type[class])

\* The header of an object of n elements.
Sized ==
  [mutable_vector |-> vectorLayout, immutable_vector |-> vectorLayout,
   fxvector |-> fxvectorLayout, flvector |-> flvectorLayout,
   mutable_string |-> stringLayout, immutable_string |-> stringLayout,
   mutable_bytevector |-> bytevectorLayout, immutable_bytevector |-> bytevectorLayout,
   positive_bignum |-> bignumLayout, negative_bignum |-> bignumLayout]

\* The class that scheme.h and the limits know a sized object by.
General(class) ==
  CASE class \in {"mutable_vector", "immutable_vector"} -> "vector"
    [] class \in {"mutable_string", "immutable_string"} -> "string"
    [] class \in {"mutable_bytevector", "immutable_bytevector"} -> "bytevector"
    [] class \in {"positive_bignum", "negative_bignum"} -> "bignum"
    [] OTHER -> class

MakeSized ==
  \E class \in DOMAIN Sized : \E n \in Payloads \cup {MaximumLength[General(class)]} :
     Make(class, n, uptr(n * Sized[class].factor + Type[class]))

\* A stencil vector has its mask, one bit for each element, for a length.
MakeStencilVector ==
  \E class \in {"stencil_vector", "sys_stencil_vector"},
     mask \in Payloads \cup {WordSize \div 2^stencilMaskOffset - 1} :
     Make(class, mask, mask * 2^stencilMaskOffset + Type[class])

MakePlain ==
  \E class \in {"mutable_box", "immutable_box", "inexactnum", "exactnum", "ratnum", "thread",
                "tlc", "phantom", "rtd_counts"} :
     Make(class, 0, Type[class])

\* The first word of a record is the pointer to its type.
MakeRecord == \E at \in Payloads : Make("record", at * 16, at * 16 + Type["typed_object"])

MakeCode ==
  \E flags \in SUBSET DOMAIN CodeFlags :
     Make("code", flags, Type["code"] + 2^code_flags_offset * joined(flags, CodeFlags))

MakePort ==
  \E flags \in PortFlagSets :
     Make("port", flags, Type["port"] + 2^port_flags_offset * joined(flags, port_flag))

\* The C side is done with the value.
Drop == made # Nothing /\ made' = Nothing /\ word' = Svoid

ChezInit == made = Nothing /\ word = Svoid

ChezNext ==
  \/ MakeFixnum \/ MakeChar \/ MakeBoolean \/ MakeConstant \/ MakePointer
  \/ MakeSized \/ MakeStencilVector \/ MakePlain \/ MakeRecord \/ MakeCode \/ MakePort
  \/ Drop

ChezSpec == ChezInit /\ [][ChezNext]_chezVars

-----------------------------------------------------------------------------
(* What everything that reads the word must agree on.                      *)

Constants == {"nil", "eof", "bwp", "void"}
Immediates == Constants \cup {"char", "boolean"}
Pointers == {"pair", "symbol", "closure", "flonum", "typed_object"}
PointerClasses == {"fixnum", "immediate"} \cup Immediates \cup Pointers
OtherNumbers ==
  {"positive_bignum", "negative_bignum", "inexactnum", "exactnum", "ratnum"}

\* The class of a code object for each of its flags that has one.
CodeClass ==
  [arity_in_closure |-> "code_arity_in_closure", continuation |-> "continuation_code",
   guardian |-> "guardian_code", mutable_closure |-> "code_mutable_closure",
   single_valued |-> "code_single_valued", system |-> "system_code"]

\* What a port of a class is open for and what not.
PortIs ==
  [port                |-> [with |-> {}, without |-> {}],
   input_port          |-> [with |-> {"input"}, without |-> {}],
   output_port         |-> [with |-> {"output"}, without |-> {}],
   binary_port         |-> [with |-> {"binary"}, without |-> {}],
   binary_input_port   |-> [with |-> {"binary", "input"}, without |-> {}],
   binary_output_port  |-> [with |-> {"binary", "output"}, without |-> {}],
   textual_port        |-> [with |-> {}, without |-> {"binary"}],
   textual_input_port  |-> [with |-> {"input"}, without |-> {"binary"}],
   textual_output_port |-> [with |-> {"output"}, without |-> {"binary"}]]

PortClasses(flags) ==
  {c \in DOMAIN PortIs : PortIs[c].with \subseteq flags /\ PortIs[c].without \cap flags = {}}

Immutable ==
  [vector |-> "immutable_vector", string |-> "immutable_string",
   bytevector |-> "immutable_bytevector"]

ClassesOf(class, holds) ==
  CASE class \in Immediates -> {class, "immediate"}
    [] class \in OtherNumbers -> {class, General(class), "other_number"}
    [] class \in {"stencil_vector", "sys_stencil_vector"} -> {class, "any_stencil_vector"}
    [] class \in {"mutable_box", "immutable_box"} -> {class, "box"}
    [] class = "code" -> {class} \cup {CodeClass[f] : f \in holds \cap DOMAIN CodeClass}
    [] class = "port" -> PortClasses(holds)
    [] OTHER -> {class, General(class)}

\* The kinds of mutability and of sign share a mask; io_port and the
\* constants have a type or a mask only.
MaskOf(class) ==
  CASE class = "immutable_vector" -> "mutable_vector"
    [] class = "immutable_string" -> "mutable_string"
    [] class = "immutable_bytevector" -> "mutable_bytevector"
    [] class = "immutable_box" -> "mutable_box"
    [] class \in {"positive_bignum", "negative_bignum"} -> "signed_bignum"
    [] OTHER -> class

IsAPointer == made.class \in PointerClasses

Described == {c \in DOMAIN Type : MaskOf(c) \in DOMAIN Mask /\ (c \in PointerClasses <=> IsAPointer)}

EachWordIsItsClass ==
  {c \in Described : matches(word, Mask[MaskOf(c)], Type[c])} =
    ClassesOf(made.class, made.holds) \cap Described

PredicatesAgree ==
  LET predicates == IF IsAPointer THEN PointerPredicates ELSE HeaderPredicates
  IN {c \in DOMAIN predicates : Holds(predicates[c], word)} =
       ClassesOf(made.class, made.holds) \cap DOMAIN predicates

\* By the masks and types of equates.h a word is of the class it was made of
\* and of that class's generalisations, and of no other: whatever a length,
\* a stencil mask, a sign or flags put above the type does not reach it.  The
\* predicates of scheme.h, with masks and types of their own, say the same:
\* the two headers have not drifted apart.
WordsAreClassified == made # Nothing => EachWordIsItsClass /\ PredicatesAgree

\* What was put in comes out: fixnums up to both limits and with their sign,
\* characters, booleans, lengths up to the longest, one element for each bit
\* of a stencil mask, mutability, sign and the flags of a port; and each word
\* of an object is read where equates.h puts it, at a multiple of eight bytes.
Decoded ==
  /\ made.class = "fixnum"  =>
       /\ Sfixnum_value(word) = made.holds
       /\ word = uptr(made.holds * fixnum_factor + Type.fixnum)
  /\ made.class = "char"    => Schar_value(word) = made.holds
  /\ made.class = "boolean" => Sboolean_value(word) = made.holds
  /\ made.class \in DOMAIN Sized /\ General(made.class) \in DOMAIN LengthShift =>
       Slength(General(made.class), word) = made.holds
  /\ made.class \in {"stencil_vector", "sys_stencil_vector"} =>
       Sstencil_vector_length(word) = Spopcount(made.holds)
  /\ made.class \in DOMAIN Sized /\ General(made.class) \in {"vector", "string", "bytevector"} =>
       LET flag == Sized[made.class].immutable
       IN matches(word, flag, flag) <=> made.class = Immutable[General(made.class)]
  /\ General(made.class) = "bignum" =>
       (matches(word, Mask.bignum_sign, Mask.bignum_sign) <=> made.class = "negative_bignum")
  /\ made.class = "port" =>
       {f \in DOMAIN PortFlags : matches(word, PortFlags[f], PortFlags[f])} = made.holds
  /\ made.class = "pair" =>
       /\ Displacement.car = pairLayout.car /\ Displacement.cdr = pairLayout.cdr
       /\ (word + Displacement.car) % 8 = 0 /\ (word + Displacement.cdr) % 8 = 0
  /\ made.class = "flonum" => (word + Displacement.flonum) % 8 = 0
  /\ made.class = "typed_object" =>
       /\ (word + Displacement.header) % 8 = 0
       /\ \A class \in DOMAIN Sized :
            /\ Sized[class].type = Displacement.header
            /\ Sized[class].data = Displacement.data
=============================================================================
