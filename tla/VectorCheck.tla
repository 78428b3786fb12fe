---------------------------- MODULE VectorCheck ----------------------------
(***************************************************************************)
(* The reference encoder and decoder of wfc and its check of the test      *)
(* vectors of a source (check.c).  It never runs a compiled program: that  *)
(* the two agree is what MCCompiled checks.                                *)
(*                                                                         *)
(* Encoded octets are described by the stream of their bits, in the order  *)
(* in which bit fields fill them: a message's stream is the concatenation  *)
(* of its fields' streams.  A vector is [values, wire]; values maps the    *)
(* names of caller fields to numbers and, for byte fields, to sequences.   *)
(***************************************************************************)
EXTENDS Schema

\* Bit k (from 0) of a number's width bits, in the order of the stream.
BitRank(protocol, k, width) == IF protocol.bit_order = "msb-first" THEN width - 1 - k ELSE k

NumberStream(protocol, value, width) ==
  [k \in 1..width |-> (value \div 2 ^ BitRank(protocol, k - 1, width)) % 2]

OctetStream(protocol, octets) ==
  FlattenSeq([i \in DOMAIN octets |-> NumberStream(protocol, octets[i], BYTE_BITS)])

StreamNumber(protocol, stream) ==
  MapThenSumSet(LAMBDA k : stream[k] * 2 ^ BitRank(protocol, k - 1, Len(stream)), DOMAIN stream)

Octets(protocol, stream) ==
  [i \in 1 .. Len(stream) \div BYTE_BITS |->
     StreamNumber(protocol, SubSeq(stream, (i - 1) * BYTE_BITS + 1, i * BYTE_BITS))]

\* A scalar's octets; k at most 1..WORD_BYTES.
ScalarOctets(protocol, value, k) ==
  IF protocol.byte_order = "big-endian" THEN BigEndian(value, k) ELSE LittleEndian(value, k)

ScalarNumber(protocol, octets) ==
  Number(IF protocol.byte_order = "big-endian" THEN octets ELSE Reverse(octets))

SdnvOctets(value) == Sdnv(value, CHOOSE k \in 1..SdnvMax : IsSdnvLength(value, k))

\* Bits of a number beyond its field's width are not written.
FieldStream(protocol, field, value) ==
  CASE field.type = "bits"  -> NumberStream(protocol, value, field.width)
    [] field.type = "bytes" -> OctetStream(protocol, value)
    [] field.type = "sdnv"  -> OctetStream(protocol, SdnvOctets(value))
    [] OTHER -> OctetStream(protocol, ScalarOctets(protocol, value, Width(field) \div BYTE_BITS))

\* vector_field_value()
FieldValue(field, values) ==
  IF Has(field, "constant") THEN field.constant
  ELSE IF Has(field, "length_of") THEN Len(values[field.length_of]) ELSE values[field.name]

Encoded(protocol, message, values) ==
  Octets(protocol, FlattenSeq([i \in DOMAIN message.fields |->
    FieldStream(protocol, message.fields[i], FieldValue(message.fields[i], values))]))

-----------------------------------------------------------------------------
(* Decoding: a cursor in bits and the values of the fields before it.        *)

\* How many octets an SDNV at the head of octets takes, 0 if it is none.
SdnvSize(octets) ==
  LET Ends(k) == SdnvEnds(octets, k) /\ \A j \in 1..k-1 : ~SdnvEnds(octets, j)
  IN IF \E k \in 1..SdnvMax : k <= Len(octets) /\ Ends(k) /\ SdnvValue(octets, k) < Modulus
     THEN CHOOSE k \in 1..Len(octets) : Ends(k) ELSE 0

Read(at, bits, value) ==
  [position |-> at.position + bits, values |-> Append(at.values, value), ok |-> at.ok]

Unreadable(at) == [at EXCEPT !.ok = FALSE]

ReadField(protocol, message, stream, at, i) ==
  LET field  == message.fields[i]
      left   == Len(stream) - at.position
      Ahead_(n) == SubSeq(stream, at.position + 1, at.position + n)
      octets == Octets(protocol, Ahead_(left))
      size   == SdnvSize(octets)
      length == IF Has(field, "length_from")
                THEN at.values[FieldIndex(message, field.length_from)] ELSE Len(octets)
  IN CASE field.type = "bits" /\ field.width <= left ->
            Read(at, field.width, StreamNumber(protocol, Ahead_(field.width)))
       [] field.type = "sdnv" /\ size > 0 -> Read(at, size * BYTE_BITS, SdnvValue(octets, size))
       [] field.type = "bytes" /\ length <= Len(octets) ->
            Read(at, length * BYTE_BITS, SubSeq(octets, 1, length))
       [] field.type \in OctetNumbers \ {"sdnv"} /\ Width(field) <= left ->
            Read(at, Width(field),
                 ScalarNumber(protocol, SubSeq(octets, 1, Width(field) \div BYTE_BITS)))
       [] OTHER -> Unreadable(at)

Decoded(protocol, message, wire) ==
  LET stream == OctetStream(protocol, wire)
      after[i \in 0..Len(message.fields)] ==
        IF i = 0 THEN [position |-> 0, values |-> <<>>, ok |-> TRUE]
        ELSE IF ~after[i-1].ok THEN after[i-1]
        ELSE ReadField(protocol, message, stream, after[i-1], i)
  IN after[Len(message.fields)]

-----------------------------------------------------------------------------
SuppliedNames(message) ==
  {message.fields[i].name : i \in {k \in DOMAIN message.fields : Supplied(message.fields[k])}}

\* Exactly the caller fields are assigned, with values that fit them.  (Of the wrong
\* kind is what Malformed stands for.)
Assigned(message, values) ==
  /\ DOMAIN values = SuppliedNames(message)
  /\ \A name \in DOMAIN values :
        LET field == message.fields[FieldIndex(message, name)]
        IN /\ values[name] # Malformed
           /\ field.type # "bytes" => Fits(values[name], field)

\* Mutant: the vector's wire is compared with what its values encode to, not decoded.
VectorEncodes(protocol, message, vector) ==
  /\ protocol.version >= 3 =>
       \A i \in DOMAIN message.fields : message.fields[i].type \notin {"records", "choice"}
  /\ Assigned(message, vector.values)
  /\ Encoded(protocol, message, vector.values) = vector.wire

\* check_vector(), check_vector_v3(): the wire is what the values encode to, and
\* decodes to the values, nothing left.  In versions 1 and 2 the code computes with
\* fixed offsets and a tail; with no field of variable size before the tail these
\* are the cursors of version 3.
VectorAccepted(protocol, message, vector) ==
  LET back == Decoded(protocol, message, vector.wire)
  IN /\ protocol.version >= 3 =>
          \A i \in DOMAIN message.fields : message.fields[i].type \notin {"records", "choice"}
     /\ Assigned(message, vector.values)
     /\ Encoded(protocol, message, vector.values) = vector.wire
     /\ back.ok /\ back.position = Len(vector.wire) * BYTE_BITS
     /\ \A i \in DOMAIN message.fields :
           back.values[i] = FieldValue(message.fields[i], vector.values)
=============================================================================
