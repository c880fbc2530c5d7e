----------------------------- MODULE Entities -----------------------------
(***************************************************************************)
(* Atoms, bonds and molecules and what a molecule is filled with, as dCBOR *)
(* values and back (go/entity), and the fields blocks and entities share.  *)
(*                                                                         *)
(* A text is its bytes.  The name of a field, a type or an operation is a  *)
(* text of one byte here: that names differ is all that matters of them.   *)
(***************************************************************************)
EXTENDS Dcbor

CONSTANTS
    DigestSize,     \* 32 in the source
    SumDigest(_),   \* SHA-256
    Timestamps      \* the texts ValidateTimestamp accepts

Names == <<"v", "type", "pub", "sig", "prev", "refs", "ts", "ops", "enc", "nonce",
           "op", "description", "template", "bond", "fillers", "new_pub",
           "value", "unit", "from", "to", "public", "private", "rotation",
           "create_atom", "create_bond", "create_molecule", "rotate_key">>
Name(n) == <<CHOOSE i \in DOMAIN Names : Names[i] = n>>

(***************************************************************************)
(* Fields of a decoded map.                                                *)
(***************************************************************************)
Field(m, n) == Get(m, Name(n))
Entry(n, v) == MapEntry(Name(n), v)

\* requireKeys: exactly these keys.
requireKeys(v, names) ==
    v.t = "map" /\ Len(v.entries) = Cardinality(names) /\ \A n \in names : Field(v, n) # {}
maps(v, names) == IF requireKeys(v, names) THEN {v} ELSE {}

uintField(m, n) == {v.arg : v \in {v \in Field(m, n) : v.t = "uint"}}
textField(m, n) == {v.s : v \in {v \in Field(m, n) : v.t = "text"}}
bytesField(m, n, size) ==
    {v.s : v \in {v \in Field(m, n) : v.t = "bytes" /\ Len(v.s) = size}}
arrayField(m, n) == {v.items : v \in {v \in Field(m, n) : v.t = "array"}}
digestField(m, n) == bytesField(m, n, DigestSize)

\* What was read of each item, or nothing if one was refused.
All(read) ==
    IF {} \in Range(read) THEN {} ELSE {[i \in DOMAIN read |-> CHOOSE x \in read[i] : TRUE]}

(***************************************************************************)
(* Scalars and fillers.  noUnit is the unit of a scalar without one.       *)
(***************************************************************************)
noUnit == <<>>
Number(n, unit) == [kind |-> "number", number |-> n, unit |-> unit]
DatetimeRange(from, to) == [kind |-> "datetime-range", from |-> from, to |-> to]

ValidNumber(n) ==
    n.t \in {"uint", "neg", "decimal"} /\ (n.t = "decimal" => checkCanonical(n.exponent, n.mantissa))
NumberScalar(n) == IF ValidNumber(n) THEN {Number(n, noUnit)} ELSE {}
WithUnit(s, unit) == [s EXCEPT !.unit = unit]
NewDatetimeRange(from, to) ==
    IF from \in Timestamps /\ to \in Timestamps /\ ~Before(to, from) THEN {DatetimeRange(from, to)} ELSE {}

ScalarValue(s) ==
    IF s.kind = "datetime-range"
    THEN Map(<<Entry("from", Text(s.from)), Entry("to", Text(s.to))>>)
    ELSE Map(<<Entry("value", s.number)>>
               \o (IF s.unit = noUnit THEN <<>> ELSE <<Entry("unit", Bytes(s.unit))>>))

\* The key set alone decides which of the two shapes it is.
scalarFromValue(v) ==
    IF v.t # "map" THEN {}
    ELSE IF Field(v, "from") # {} \/ Field(v, "to") # {}
    THEN UNION {UNION {NewDatetimeRange(f, t) : f \in textField(m, "from"), t \in textField(m, "to")} :
                  m \in maps(v, {"from", "to"})}
    ELSE LET numbers == UNION {NumberScalar(n) : n \in Field(v, "value")}
         IN  CASE Len(v.entries) = 1 -> numbers
               [] Len(v.entries) = 2 -> {WithUnit(s, u) : s \in numbers, u \in digestField(v, "unit")}
               [] OTHER -> {}

FillerTag == [atom |-> <<>>, bond |-> <<1>>, molecule |-> <<2>>, ipfs_uri |-> <<3>>, scalar |-> <<4>>]
IsRef(f) == f.typ \in {"atom", "bond", "molecule"}
RefFiller(typ, d) == [typ |-> typ, ref |-> d]
IPFSFiller(uri) == IF uri # <<>> /\ validText(uri) THEN {[typ |-> "ipfs_uri", uri |-> uri]} ELSE {}
ScalarFiller(s) == [typ |-> "scalar", scalar |-> s]

FillerValue(f) ==
    Map(<<Entry("type", Uint(FillerTag[f.typ])),
          Entry("value", CASE f.typ = "ipfs_uri" -> Text(f.uri)
                           [] f.typ = "scalar" -> ScalarValue(f.scalar)
                           [] OTHER -> Bytes(f.ref))>>)

\* Each tag is bound to one shape of value.
fillerFromValue(v) ==
    LET typed == {[m |-> m, typ |-> typ] : m \in maps(v, {"type", "value"}), typ \in DOMAIN FillerTag}
        Of(x) ==
            CASE x.typ = "ipfs_uri" -> UNION {IPFSFiller(s) : s \in textField(x.m, "value")}
              [] x.typ = "scalar" ->
                    {ScalarFiller(s) : s \in UNION {scalarFromValue(y) : y \in Field(x.m, "value")}}
              [] OTHER -> {RefFiller(x.typ, d) : d \in digestField(x.m, "value")}
    IN  UNION {Of(x) : x \in {x \in typed : FillerTag[x.typ] \in uintField(x.m, "type")}}

(***************************************************************************)
(* Molecules, atoms and bonds.                                             *)
(***************************************************************************)
NewMolecule(bond, fillers) == IF fillers = <<>> THEN {} ELSE {[bond |-> bond, fillers |-> fillers]}
MoleculeEntries(m) ==
    <<Entry("bond", Bytes(m.bond)),
      Entry("fillers", Array([i \in DOMAIN m.fillers |-> FillerValue(m.fillers[i])]))>>
DecodeMolecule(data) ==
    LET decoded == UNION {maps(v, {"bond", "fillers"}) : v \in Decode(data)}
        fillers(m) == UNION {All([i \in DOMAIN items |-> fillerFromValue(items[i])]) :
                                 items \in arrayField(m, "fillers")}
    IN  UNION {UNION {NewMolecule(bond, f) : bond \in digestField(m, "bond"), f \in fillers(m)} :
                 m \in decoded}

NewAtom(description) ==
    IF description # <<>> /\ validText(description) THEN {description} ELSE {}

\* ParseTemplateVariables: an underscore, the longest run of capitals, and an
\* underscore that no other variable uses.
underscore == 95
IsUpper(b) == b \in 65..90
RECURSIVE VariablesFrom(_, _)
VariablesFrom(s, i) ==
    IF i > Len(s) THEN <<>>
    ELSE LET j == CHOOSE k \in (i + 1)..(Len(s) + 1) :
                     /\ k > Len(s) \/ ~IsUpper(s[k])
                     /\ \A l \in (i + 1)..(k - 1) : IsUpper(s[l])
         IN  IF s[i] = underscore /\ j > i + 1 /\ j <= Len(s) /\ s[j] = underscore
             THEN <<SubSeq(s, i + 1, j - 1)>> \o VariablesFrom(s, j + 1)
             ELSE VariablesFrom(s, i + 1)
ParseTemplateVariables(template) == VariablesFrom(template, 1)

NewBond(template) ==
    LET vars == ParseTemplateVariables(template)
    IN  IF validText(template) /\ vars # <<>> /\ IsInjective(vars) THEN {template} ELSE {}
=============================================================================
