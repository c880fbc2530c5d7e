------------------------------- MODULE Dcbor -------------------------------
(***************************************************************************)
(* The deterministic CBOR profile of go/dcbor: the encoder, and the strict *)
(* decoder that is written apart from it and must accept exactly what the  *)
(* encoder writes.                                                         *)
(*                                                                         *)
(* A byte is 0..255.  An unsigned 64-bit argument is the sequence of its   *)
(* bytes, most significant first and without leading zeros, so it has its  *)
(* full width.  An operator that may refuse returns a set: what it         *)
(* produced, or nothing.  Error messages and offsets are left out.         *)
(***************************************************************************)
EXTENDS Integers, Sequences, FiniteSets, SequencesExt

CONSTANTS
    MaxDepth,   \* the deepest nesting of containers; 64 in the source
    IntBits     \* the width of a signed integer; 64 in the source

Byte == 0..255

\* The bytes of an argument, leading zeros dropped.
RECURSIVE Arg(_)
Arg(bytes) == IF bytes # <<>> /\ bytes[1] = 0 THEN Arg(Tail(bytes)) ELSE bytes
\* The argument that stands for the natural number n.
RECURSIVE ArgOf(_)
ArgOf(n) == IF n = 0 THEN <<>> ELSE Append(ArgOf(n \div 256), n % 256)
ValueOf(arg) == FoldLeft(LAMBDA n, b : 256 * n + b, 0, arg)
\* Whether an argument is at most math.MaxInt64.
FitsInt64(arg) == Len(arg) < 8 \/ arg[1] < 128

(***************************************************************************)
(* Values.                                                                 *)
(***************************************************************************)
Uint(arg) == [t |-> "uint", arg |-> arg]
Neg(arg) == [t |-> "neg", arg |-> arg]
Decimal(e, m) == [t |-> "decimal", exponent |-> e, mantissa |-> m]
Text(s) == [t |-> "text", s |-> s]
Bytes(s) == [t |-> "bytes", s |-> s]
Array(items) == [t |-> "array", items |-> items]
Map(entries) == [t |-> "map", entries |-> entries]
MapEntry(key, v) == [key |-> key, value |-> v]
Null == [t |-> "null"]

\* Int: both halves of a Decimal are integers in this form.
IntOf(i) == IF i < 0 THEN Neg(ArgOf(-(i + 1))) ELSE Uint(ArgOf(i))

\* utf8.ValidString, for sequences of one and two bytes.
validText(s) ==
    \A i \in DOMAIN s :
        \/ s[i] < 128
        \/ s[i] \in 194..223 /\ i < Len(s) /\ s[i + 1] \in 128..191
        \/ s[i] \in 128..191 /\ i > 1 /\ s[i - 1] \in 194..223

\* The magnitude modulo ten.
LastDigit(v) ==
    LET r == FoldLeft(LAMBDA n, b : (n * 256 + b) % 10, 0, v.arg)
    IN  IF v.t = "neg" THEN (r + 1) % 10 ELSE r

\* The last conjunct refuses a mantissa of zero too.
checkCanonical(e, m) == e.t = "neg" /\ LastDigit(m) # 0

(***************************************************************************)
(* NewDecimal, at a width of IntBits: Go wraps, and divides towards zero.  *)
(***************************************************************************)
Wrap(i) == ((i + 2 ^ (IntBits - 1)) % 2 ^ IntBits) - 2 ^ (IntBits - 1)
Quotient(i, n) == IF i < 0 THEN -((-i) \div n) ELSE i \div n
\* Mutant: the product is taken as it comes.
TimesTenWrapped(m) == {Wrap(m * 10)}
TimesTen(m) ==
    LET scaled == Wrap(m * 10) IN IF Quotient(scaled, 10) = m THEN {scaled} ELSE {}

RECURSIVE NewDecimal(_, _)
NewDecimal(exponent, mantissa) ==
    IF mantissa = 0 THEN {Uint(<<>>)}
    ELSE IF exponent < 0
    THEN IF mantissa % 10 = 0 THEN NewDecimal(exponent + 1, Quotient(mantissa, 10))
         ELSE {Decimal(IntOf(exponent), IntOf(mantissa))}
    ELSE IF exponent = 0 THEN {IntOf(mantissa)}
    ELSE UNION {NewDecimal(exponent - 1, m) : m \in TimesTen(mantissa)}

(***************************************************************************)
(* Equal, which compares two maps whatever the order of their entries.     *)
(***************************************************************************)
\* Get: the first entry under the key.
Get(m, key) ==
    LET found == {i \in DOMAIN m.entries : m.entries[i].key = key}
    IN  {m.entries[i].value : i \in {i \in found : \A j \in found : i <= j}}

RECURSIVE Equal(_, _)
Equal(a, b) ==
    /\ a.t = b.t
    /\ CASE a.t = "array" ->
              /\ Len(a.items) = Len(b.items)
              /\ \A i \in DOMAIN a.items : Equal(a.items[i], b.items[i])
         [] a.t = "map" ->
              /\ Len(a.entries) = Len(b.entries)
              /\ \A e \in Range(a.entries) :
                    \E other \in Get(b, e.key) : Equal(e.value, other)
              /\ \A e \in Range(b.entries) : Get(a, e.key) # {}
         [] OTHER -> a = b

(***************************************************************************)
(* The encoder.                                                            *)
(***************************************************************************)
Major(t) == CASE t = "uint" -> 0 [] t = "neg" -> 1 [] t = "bytes" -> 2 [] t = "text" -> 3
              [] t = "array" -> 4 [] t = "map" -> 5 [] t = "tag" -> 6 [] t = "other" -> 7
aiNull == 22

Padded(arg, width) == [i \in 1..(width - Len(arg)) |-> 0] \o arg
writeHead(major, arg) ==
    LET head(ai) == <<32 * major + ai>>
    IN  CASE Len(arg) = 0 -> head(0)
          [] Len(arg) = 1 -> IF arg[1] < 24 THEN head(arg[1]) ELSE head(24) \o arg
          [] Len(arg) = 2 -> head(25) \o arg
          [] Len(arg) \in {3, 4} -> head(26) \o Padded(arg, 4)
          [] OTHER -> head(27) \o Padded(arg, 8)
StringHead(t, s) == writeHead(Major(t), ArgOf(Len(s)))

\* bytes.Compare(a, b) < 0.
Before(a, b) ==
    \E i \in DOMAIN b : /\ i <= Len(a) + 1
                        /\ SubSeq(a, 1, i - 1) = SubSeq(b, 1, i - 1)
                        /\ i > Len(a) \/ a[i] < b[i]

\* What every part produced, one after the other; nothing if one was refused.
Joined(parts) == IF {} \in Range(parts) THEN {}
                 ELSE {FlattenSeq([i \in DOMAIN parts |-> CHOOSE b \in parts[i] : TRUE])}

encodedKey(key) == StringHead("text", key) \o key
\* Mutant: the entries of a map in the order they were given.
SortedEntriesAsGiven(m) == m.entries
SortedEntries(m) ==
    SortSeq(m.entries, LAMBDA e, f : Before(encodedKey(e.key), encodedKey(f.key)))

RECURSIVE encodeValue(_, _)
encodeMap(m, depth) ==
    LET entries == SortedEntries(m)
        Entry(e) == {encodedKey(e.key) \o b : b \in encodeValue(e.value, depth + 1)}
    IN  IF /\ depth + 1 <= MaxDepth
           /\ \A e \in Range(entries) : validText(e.key)
           /\ \A i \in 2..Len(entries) : entries[i - 1].key # entries[i].key
        THEN Joined(<<{writeHead(Major("map"), ArgOf(Len(entries)))}>>
                      \o [i \in DOMAIN entries |-> Entry(entries[i])])
        ELSE {}
\* depth: how many containers hold v.
encodeValue(v, depth) ==
    CASE v.t \in {"uint", "neg"} -> {writeHead(Major(v.t), v.arg)}
      [] v.t = "decimal" ->
            IF checkCanonical(v.exponent, v.mantissa) /\ depth + 1 <= MaxDepth
            THEN Joined(<<{writeHead(Major("tag"), <<4>>)}, {writeHead(Major("array"), <<2>>)},
                          encodeValue(v.exponent, depth + 1),
                          encodeValue(v.mantissa, depth + 1)>>)
            ELSE {}
      [] v.t = "text" -> IF validText(v.s) THEN {StringHead("text", v.s) \o v.s} ELSE {}
      [] v.t = "bytes" -> {StringHead("bytes", v.s) \o v.s}
      [] v.t = "array" ->
            IF depth + 1 > MaxDepth THEN {}
            ELSE Joined(<<{writeHead(Major("array"), ArgOf(Len(v.items)))}>>
                          \o [i \in DOMAIN v.items |-> encodeValue(v.items[i], depth + 1)])
      [] v.t = "map" -> encodeMap(v, depth)
      [] v.t = "null" -> {<<32 * Major("other") + aiNull>>}

Encode(v) == encodeValue(v, 0)

(***************************************************************************)
(* The decoder.  Each operator reads data from position p on and returns   *)
(* what it read with the position after it.                                *)
(***************************************************************************)
Read(v, p) == [v |-> v, p |-> p]

take(data, p, n) == IF p + n - 1 <= Len(data) THEN {SubSeq(data, p, p + n - 1)} ELSE {}

\* Mutant: any width will do.
ShortestOrNot(raw) == TRUE
\* Whether the bytes of an argument had to be that many.
Shortest(raw) == IF Len(raw) = 1 THEN raw[1] >= 24
                 ELSE \E i \in 1..(Len(raw) \div 2) : raw[i] # 0
argument(data, p, ai) ==
    CASE ai < 24 -> {Read(Arg(<<ai>>), p)}
      [] ai \in 24..27 ->
            LET width == 2 ^ (ai - 24)
            IN  {Read(Arg(raw), p + width) :
                    raw \in {raw \in take(data, p, width) : Shortest(raw)}}
      [] OTHER -> {}

\* A count no remaining input can satisfy is refused before anything is read.
count(data, p, ai) ==
    LET Satisfiable(r) == /\ Len(r.v) <= 3
                          /\ ValueOf(r.v) <= Len(data) + 1 - r.p
    IN  {Read(ValueOf(r.v), r.p) : r \in {r \in argument(data, p, ai) : Satisfiable(r)}}

stringPayload(data, p, ai) ==
    {Read(SubSeq(data, n.p, n.p + n.v - 1), n.p + n.v) : n \in count(data, p, ai)}

\* The head at p: its major type, its additional information, and the rest.
Heads(data, p) == {[major |-> b[1] \div 32, ai |-> b[1] % 32, p |-> p + 1] : b \in take(data, p, 1)}
HeadsOf(data, p, types) == {h \in Heads(data, p) : h.major \in {Major(t) : t \in types}}

textKey(data, p) ==
    UNION {{s \in stringPayload(data, h.p, h.ai) : validText(s.v)} :
             h \in HeadsOf(data, p, {"text"})}

decimalInt(data, p) ==
    UNION {{Read(IF h.major = Major("neg") THEN Neg(a.v) ELSE Uint(a.v), a.p) :
                a \in {a \in argument(data, h.p, h.ai) : FitsInt64(a.v)}} :
             h \in HeadsOf(data, p, {"uint", "neg"})}

\* Tag 4 and its array of two integers: one container.
tagValue(data, p, ai, depth) ==
    LET tags == {a \in argument(data, p, ai) : a.v = <<4>> /\ depth + 1 <= MaxDepth}
        pairs == UNION {HeadsOf(data, a.p, {"array"}) : a \in tags}
        counts == {n \in UNION {count(data, h.p, h.ai) : h \in pairs} : n.v = 2}
        exponents == UNION {decimalInt(data, n.p) : n \in counts}
    IN  UNION {{Read(Decimal(e.v, m.v), m.p) :
                   m \in {m \in decimalInt(data, e.p) : checkCanonical(e.v, m.v)}} :
                 e \in exponents}

simple(p, ai) == IF ai = aiNull THEN {Read(Null, p)} ELSE {}

RECURSIVE value(_, _, _)
RECURSIVE elements(_, _, _, _)
elements(data, p, n, level) ==
    IF n = 0 THEN {Read(<<>>, p)}
    ELSE UNION {{Read(<<x.v>> \o rest.v, rest.p) : rest \in elements(data, x.p, n - 1, level)} :
                  x \in value(data, p, level)}

\* The keys ascend in the order of their encodings, and strictly.
InOrder(prevKey, key) == prevKey = {} \/ \E k \in prevKey : Before(encodedKey(k), encodedKey(key))
RECURSIVE mapEntries(_, _, _, _, _)
mapEntries(data, p, n, level, prevKey) ==
    IF n = 0 THEN {Read(<<>>, p)}
    ELSE LET keys == {k \in textKey(data, p) : InOrder(prevKey, k.v)}
         IN  UNION {UNION {{Read(<<MapEntry(k.v, x.v)>> \o rest.v, rest.p) :
                              rest \in mapEntries(data, x.p, n - 1, level, {k.v})} :
                            x \in value(data, k.p, level)} : k \in keys}

arrayValue(data, p, ai, depth) ==
    IF depth + 1 > MaxDepth THEN {}
    ELSE UNION {{Read(Array(x.v), x.p) : x \in elements(data, n.p, n.v, depth + 1)} :
                  n \in count(data, p, ai)}
mapValue(data, p, ai, depth) ==
    IF depth + 1 > MaxDepth THEN {}
    ELSE UNION {{Read(Map(x.v), x.p) : x \in mapEntries(data, n.p, n.v, depth + 1, {})} :
                  n \in count(data, p, ai)}

value(data, p, depth) ==
    LET Item(h) ==
            CASE h.major = Major("uint") -> {Read(Uint(a.v), a.p) : a \in argument(data, h.p, h.ai)}
              [] h.major = Major("neg") -> {Read(Neg(a.v), a.p) : a \in argument(data, h.p, h.ai)}
              [] h.major = Major("bytes") ->
                    {Read(Bytes(s.v), s.p) : s \in stringPayload(data, h.p, h.ai)}
              [] h.major = Major("text") ->
                    {Read(Text(s.v), s.p) :
                        s \in {s \in stringPayload(data, h.p, h.ai) : validText(s.v)}}
              [] h.major = Major("array") -> arrayValue(data, h.p, h.ai, depth)
              [] h.major = Major("map") -> mapValue(data, h.p, h.ai, depth)
              [] h.major = Major("tag") -> tagValue(data, h.p, h.ai, depth)
              [] h.major = Major("other") -> simple(h.p, h.ai)
    IN  UNION {Item(h) : h \in Heads(data, p)}

\* The first item of data, and the number of bytes it occupied.
DecodePrefix(data) == {[v |-> x.v, n |-> x.p - 1] : x \in value(data, 1, 0)}
Decode(data) == {x.v : x \in {x \in DecodePrefix(data) : x.n = Len(data)}}
=============================================================================
