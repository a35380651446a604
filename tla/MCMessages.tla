----------------------------- MODULE MCMessages -----------------------------
(***************************************************************************)
(* Messages on byte strings of a few fields: each field a wrapper knows with *)
(* a default and another value, and what a wrapper must survive: unknown     *)
(* numbers, wrong wire types, long and overlong varints, values wider than   *)
(* 32 bits, deprecated groups and input that ends inside a field.            *)
(***************************************************************************)
EXTENDS Messages

CONSTANT MaxFields

Samples(kind) == CASE kind = "u32" -> {0, 5}
                   [] kind = "bool" -> {0, 1}
                   [] kind = "fixed32" -> {<<0, 0, 0, 0>>, <<7, 0, 0, 1>>}
                   [] kind = "bytes" -> {<<>>, <<24, 0>>}

Known(schema) ==
  UNION {{WriteField(Field(n, WireTypeOf(schema[n].kind), v)) : v \in Samples(schema[n].kind)}
           : n \in DOMAIN schema}

\* Field 3 with the values 2 and 2^10 + 1, the value 1 on two bytes and with a
\* bit beyond the word, a known number as eight raw bytes, and number 12.
Odd == {<<24, 2>>, <<24, 129, 8>>, <<24, 129, 0>>, <<24, 129, 128, 3>>,
        <<9, 1, 2, 3, 4, 5, 6, 7, 8>>, <<96, 1>>}

\* A cut length, a cut fixed32, an endless varint, a group, number 0, and a
\* number wider than 32 bits.
Broken == {<<18, 9, 1>>, <<37, 1>>, <<128, 128, 128>>, <<11>>, <<0>>, <<128, 128, 1>>}

Chunks(schema) == Known(schema) \cup Odd

Strings(schema) ==
  UNION {{FlattenSeq(s) : s \in [1..n -> Chunks(schema)]} : n \in 0..MaxFields}

Ids == {<<0, 0, 0, 0>>, <<1, 0, 0, 0>>, <<0, 2, 0, 0>>}

SampleInputs ==
  [m \in DOMAIN Schema |->
     Strings(Schema[m])
       \cup {c \o b : c \in Chunks(Schema[m]) \cup {<<>>}, b \in Broken}
       \cup (IF m = "Data" THEN {AckBytes(id) : id \in Ids} ELSE {})]
=============================================================================
