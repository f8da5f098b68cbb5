---------------------------- MODULE CodecProofs ----------------------------
(***************************************************************************)
(* What GkcCodec.tla's encode() and decode() do for every well-formed      *)
(* packet: encode() fills the payload it allocates exactly, and decode()   *)
(* gives back the packet that was encoded.                                 *)
(***************************************************************************)
EXTENDS GkcCodec, SequenceTheorems, TLAPS

Octet == 0..255

-----------------------------------------------------------------------------
(* The layout of the payloads, read off the tables. *)

\* A kind other than Log has at most three fields, of fixed sizes, no two of them the
\* same, and encode() allocates the sum of their sizes and one.
FixedLayout(kind) ==
  \/ writes[kind] = << >> /\ allocated[kind] = 1
  \/ \E f \in DOMAIN sizeof : writes[kind] = <<f>> /\ allocated[kind] = 1 + sizeof[f]
  \/ \E f, g \in DOMAIN sizeof : /\ f # g /\ writes[kind] = <<f, g>>
                                 /\ allocated[kind] = 1 + sizeof[f] + sizeof[g]
  \/ \E f, g, h \in DOMAIN sizeof : /\ f # g /\ f # h /\ g # h /\ writes[kind] = <<f, g, h>>
                                    /\ allocated[kind] = 1 + sizeof[f] + sizeof[g] + sizeof[h]

\* Every size is that of a payload's part.
LEMMA Sizes == sizeof \in [DOMAIN sizeof -> 1..48] /\ "what" \notin DOMAIN sizeof
BY DEF sizeof, Configurables, SensorValues

\* The layout of each kind; decode() reads what encode() writes.
LEMMA Layout ==
  ASSUME NEW kind \in Kind
  PROVE  /\ reads[kind] = writes[kind]
         /\ FIRST_BYTE[kind] \in Octet
         /\ kind = "Log" => writes[kind] = <<"level", "what">> /\ sizeof["level"] = 1
         /\ kind # "Log" => FixedLayout(kind) /\ allocated[kind] \in 1..49
<1>1. reads[kind] = writes[kind] /\ FIRST_BYTE[kind] \in Octet
  BY DEF reads, writes, FIRST_BYTE, Kind, Octet
<1>2. CASE kind = "Log"
  BY <1>1, <1>2 DEF writes, sizeof
<1>3. CASE kind \in {"Handshake1", "Handshake2", "Shutdown1", "Shutdown2"}
  <2>1. /\ writes[kind] = <<"seq_number">>
        /\ allocated[kind] = 1 + sizeof["seq_number"] /\ allocated[kind] = 5
    BY <1>3 DEF writes, allocated, sizeof, Configurables, SensorValues
  <2>2. "seq_number" \in DOMAIN sizeof
    BY DEF sizeof
  <2>3. FixedLayout(kind)
    BY <2>1, <2>2 DEF FixedLayout
  <2> QED BY <1>1, <1>3, <2>1, <2>3
<1>4. CASE kind = "GetFirmwareVersion"
  <2>1. /\ writes[kind] = << >>
        /\ allocated[kind] = 1 /\ allocated[kind] = 1
    BY <1>4 DEF writes, allocated, sizeof, Configurables, SensorValues
  <2>2. FixedLayout(kind)
    BY <2>1 DEF FixedLayout
  <2> QED BY <1>1, <1>4, <2>1, <2>2
<1>5. CASE kind = "FirmwareVersion"
  <2>1. /\ writes[kind] = <<"major", "minor", "patch">>
        /\ allocated[kind] = 1 + sizeof["major"] + sizeof["minor"] + sizeof["patch"] /\ allocated[kind] = 4
    BY <1>5 DEF writes, allocated, sizeof, Configurables, SensorValues
  <2>2. "major" \in DOMAIN sizeof /\ "minor" \in DOMAIN sizeof /\ "patch" \in DOMAIN sizeof
    BY DEF sizeof
  <2>3. FixedLayout(kind)
    BY <2>1, <2>2 DEF FixedLayout
  <2> QED BY <1>1, <1>5, <2>1, <2>3
<1>6. CASE kind = "ResetMcu"
  <2>1. /\ writes[kind] = <<"magic_number">>
        /\ allocated[kind] = 1 + sizeof["magic_number"] /\ allocated[kind] = 5
    BY <1>6 DEF writes, allocated, sizeof, Configurables, SensorValues
  <2>2. "magic_number" \in DOMAIN sizeof
    BY DEF sizeof
  <2>3. FixedLayout(kind)
    BY <2>1, <2>2 DEF FixedLayout
  <2> QED BY <1>1, <1>6, <2>1, <2>3
<1>7. CASE kind = "Heartbeat"
  <2>1. /\ writes[kind] = <<"rolling_counter", "state">>
        /\ allocated[kind] = 1 + sizeof["rolling_counter"] + sizeof["state"] /\ allocated[kind] = 3
    BY <1>7 DEF writes, allocated, sizeof, Configurables, SensorValues
  <2>2. "rolling_counter" \in DOMAIN sizeof /\ "state" \in DOMAIN sizeof
    BY DEF sizeof
  <2>3. FixedLayout(kind)
    BY <2>1, <2>2 DEF FixedLayout
  <2> QED BY <1>1, <1>7, <2>1, <2>3
<1>8. CASE kind = "Config"
  <2>1. /\ writes[kind] = <<"configurables">>
        /\ allocated[kind] = 1 + sizeof["configurables"] /\ allocated[kind] = 49
    BY <1>8 DEF writes, allocated, sizeof, Configurables, SensorValues
  <2>2. "configurables" \in DOMAIN sizeof
    BY DEF sizeof
  <2>3. FixedLayout(kind)
    BY <2>1, <2>2 DEF FixedLayout
  <2> QED BY <1>1, <1>8, <2>1, <2>3
<1>9. CASE kind = "StateTransition"
  <2>1. /\ writes[kind] = <<"requested_state">>
        /\ allocated[kind] = 1 + sizeof["requested_state"] /\ allocated[kind] = 2
    BY <1>9 DEF writes, allocated, sizeof, Configurables, SensorValues
  <2>2. "requested_state" \in DOMAIN sizeof
    BY DEF sizeof
  <2>3. FixedLayout(kind)
    BY <2>1, <2>2 DEF FixedLayout
  <2> QED BY <1>1, <1>9, <2>1, <2>3
<1>10. CASE kind = "Control"
  <2>1. /\ writes[kind] = <<"throttle", "steering", "brake">>
        /\ allocated[kind] = 1 + sizeof["throttle"] + sizeof["steering"] + sizeof["brake"] /\ allocated[kind] = 13
    BY <1>10 DEF writes, allocated, sizeof, Configurables, SensorValues
  <2>2. "throttle" \in DOMAIN sizeof /\ "steering" \in DOMAIN sizeof /\ "brake" \in DOMAIN sizeof
    BY DEF sizeof
  <2>3. FixedLayout(kind)
    BY <2>1, <2>2 DEF FixedLayout
  <2> QED BY <1>1, <1>10, <2>1, <2>3
<1>11. CASE kind = "Sensor"
  <2>1. /\ writes[kind] = <<"sensor_values">>
        /\ allocated[kind] = 1 + sizeof["sensor_values"] /\ allocated[kind] = 48
    BY <1>11 DEF writes, allocated, sizeof, Configurables, SensorValues
  <2>2. "sensor_values" \in DOMAIN sizeof
    BY DEF sizeof
  <2>3. FixedLayout(kind)
    BY <2>1, <2>2 DEF FixedLayout
  <2> QED BY <1>1, <1>11, <2>1, <2>3
<1> QED
  BY <1>2, <1>3, <1>4, <1>5, <1>6, <1>7, <1>8, <1>9, <1>10, <1>11 DEF Kind, FIRST_BYTE

\* No two kinds have the same first byte: the factory finds the kind that was sent.
LEMMA FirstBytes == \A k1, k2 \in Kind : FIRST_BYTE[k1] = FIRST_BYTE[k2] => k1 = k2
BY DEF Kind, FIRST_BYTE

\* The middle one of three pieces lies where the first one ends.
LEMMA Slice ==
  ASSUME NEW a \in Seq(Octet), NEW b \in Seq(Octet), NEW c \in Seq(Octet)
  PROVE  SubSeq(a \o b \o c, Len(a) + 1, Len(a) + Len(b)) = b
<1> DEFINE s == a \o b \o c
           t == SubSeq(s, Len(a) + 1, Len(a) + Len(b))
<1>1. s \in Seq(Octet) /\ Len(s) = Len(a) + Len(b) + Len(c)
  OBVIOUS
<1>2. \A i \in 1..Len(b) : s[Len(a) + i] = b[i]
  OBVIOUS
<1> HIDE DEF s
<1>3. Len(t) = Len(b) /\ \A i \in 1..Len(b) : t[i] = s[Len(a) + i]
  BY <1>1
<1>4. t \in Seq(Octet)
  BY <1>1
<1> QED BY <1>2, <1>3, <1>4 DEF s

\* Each of three pieces behind a first byte, found by the lengths before it.
LEMMA Slices ==
  ASSUME NEW fb \in Octet, NEW a \in Seq(Octet), NEW b \in Seq(Octet), NEW c \in Seq(Octet),
         NEW w, w = <<fb>> \o a \o b \o c
  PROVE  /\ w \in Seq(Octet) /\ Len(w) = 1 + Len(a) + Len(b) + Len(c) /\ w[1] = fb
         /\ SubSeq(w, 1 + 1, 1 + Len(a)) = a
         /\ SubSeq(w, 1 + Len(a) + 1, 1 + Len(a) + Len(b)) = b
         /\ SubSeq(w, 1 + Len(a) + Len(b) + 1, 1 + Len(a) + Len(b) + Len(c)) = c
<1>1. w \in Seq(Octet) /\ Len(w) = 1 + Len(a) + Len(b) + Len(c) /\ w[1] = fb
  OBVIOUS
<1>2. SubSeq(w, 1 + 1, 1 + Len(a)) = a
  <2>1. w = <<fb>> \o a \o (b \o c)
    OBVIOUS
  <2>2. <<fb>> \in Seq(Octet) /\ Len(<<fb>>) = 1 /\ b \o c \in Seq(Octet)
    OBVIOUS
  <2> QED BY <2>1, <2>2, Slice
<1>3. SubSeq(w, 1 + Len(a) + 1, 1 + Len(a) + Len(b)) = b
  <2>1. w = (<<fb>> \o a) \o b \o c
    OBVIOUS
  <2>2. <<fb>> \o a \in Seq(Octet) /\ Len(<<fb>> \o a) = 1 + Len(a)
    OBVIOUS
  <2> QED BY <2>1, <2>2, Slice
<1>4. SubSeq(w, 1 + Len(a) + Len(b) + 1, 1 + Len(a) + Len(b) + Len(c)) = c
  <2>1. w = (<<fb>> \o a \o b) \o c \o << >>
    OBVIOUS
  <2>2. /\ <<fb>> \o a \o b \in Seq(Octet) /\ << >> \in Seq(Octet)
        /\ Len(<<fb>> \o a \o b) = 1 + Len(a) + Len(b)
    OBVIOUS
  <2> QED BY <2>1, <2>2, Slice
<1> QED BY <1>1, <1>2, <1>3, <1>4

-----------------------------------------------------------------------------
(* Encoding and decoding. *)

\* The same facts field by field: no field comes twice, a log's text is the last one and
\* every other has a size, and where they end is what encode() has allocated.
Size(kind, i) == IF i <= Len(writes[kind]) THEN sizeof[writes[kind][i]] ELSE 0

LEMMA FieldsOfKind ==
  ASSUME NEW kind \in Kind
  PROVE  /\ Len(writes[kind]) \in 0..3 /\ DOMAIN writes[kind] = 1..Len(writes[kind])
         /\ \A i, j \in 1..Len(writes[kind]) : writes[kind][i] = writes[kind][j] => i = j
         /\ \A i \in 1..Len(writes[kind]) :
              IF writes[kind][i] = "what" THEN kind = "Log" /\ i = Len(writes[kind])
              ELSE sizeof[writes[kind][i]] \in 1..48
         /\ kind # "Log" => allocated[kind] = 1 + Size(kind, 1) + Size(kind, 2) + Size(kind, 3)
<1> DEFINE w == writes[kind]
<1>1. \A i : /\ i \in 1..1 => i = 1
             /\ i \in 1..2 => i = 1 \/ i = 2
             /\ i \in 1..3 => i = 1 \/ i = 2 \/ i = 3
  OBVIOUS
<1>2. CASE w = << >> /\ kind # "Log" /\ allocated[kind] = 1
  BY <1>2 DEF Size
<1>3. CASE \E f \in DOMAIN sizeof : w = <<f>> /\ kind # "Log" /\ allocated[kind] = 1 + sizeof[f]
  <2>1. PICK f \in DOMAIN sizeof : w = <<f>> /\ kind # "Log" /\ allocated[kind] = 1 + sizeof[f]
    BY <1>3
  <2>2. f # "what" /\ sizeof[f] \in 1..48
    BY Sizes
  <2>3. Size(kind, 1) = sizeof[f] /\ Size(kind, 2) = 0 /\ Size(kind, 3) = 0
    BY <2>1 DEF Size
  <2> HIDE DEF w
  <2> QED BY <1>1, <2>1, <2>2, <2>3 DEF w
<1>4. CASE \E f, g \in DOMAIN sizeof : /\ f # g /\ w = <<f, g>> /\ kind # "Log"
                                       /\ allocated[kind] = 1 + sizeof[f] + sizeof[g]
  <2>1. PICK f \in DOMAIN sizeof, g \in DOMAIN sizeof :
               /\ f # g /\ w = <<f, g>> /\ kind # "Log"
               /\ allocated[kind] = 1 + sizeof[f] + sizeof[g]
    BY <1>4
  <2>2. f # "what" /\ g # "what" /\ sizeof[f] \in 1..48 /\ sizeof[g] \in 1..48
    BY Sizes
  <2>3. Size(kind, 1) = sizeof[f] /\ Size(kind, 2) = sizeof[g] /\ Size(kind, 3) = 0
    BY <2>1 DEF Size
  <2> QED BY <1>1, <2>1, <2>2, <2>3
<1>5. CASE \E f, g, h \in DOMAIN sizeof :
               /\ f # g /\ f # h /\ g # h /\ w = <<f, g, h>> /\ kind # "Log"
               /\ allocated[kind] = 1 + sizeof[f] + sizeof[g] + sizeof[h]
  <2>1. PICK f \in DOMAIN sizeof, g \in DOMAIN sizeof, h \in DOMAIN sizeof :
               /\ f # g /\ f # h /\ g # h /\ w = <<f, g, h>> /\ kind # "Log"
               /\ allocated[kind] = 1 + sizeof[f] + sizeof[g] + sizeof[h]
    BY <1>5
  <2>2. /\ f # "what" /\ g # "what" /\ h # "what"
        /\ sizeof[f] \in 1..48 /\ sizeof[g] \in 1..48 /\ sizeof[h] \in 1..48
    BY Sizes
  <2>3. Size(kind, 1) = sizeof[f] /\ Size(kind, 2) = sizeof[g] /\ Size(kind, 3) = sizeof[h]
    BY <2>1 DEF Size
  <2> QED BY <1>1, <2>1, <2>2, <2>3
<1>6. CASE kind = "Log"
  <2>1. w = <<"level", "what">> /\ sizeof["level"] \in 1..48
    BY <1>6, Layout
  <2>2. Len(w) = 2 /\ w[1] = "level" /\ w[2] = "what" /\ "level" # "what" /\ DOMAIN w = 1..2
    BY <2>1
  <2> HIDE DEF w
  <2> QED BY <1>1, <1>6, <2>1, <2>2 DEF w
<1> QED BY <1>2, <1>3, <1>4, <1>5, <1>6, Layout DEF FixedLayout

\* The fields of a packet: their lengths are the sizes of their kinds, and together with
\* the first byte they fill the payload.
LEMMA FieldsOfPacket ==
  ASSUME NEW p, WellFormed(p)
  PROVE  /\ Field(p, 1) \in Seq(Octet) /\ Field(p, 2) \in Seq(Octet) /\ Field(p, 3) \in Seq(Octet)
         /\ \A i \in 1..Len(writes[p.kind]) :
              /\ Field(p, i) = p.value[writes[p.kind][i]]
              /\ writes[p.kind][i] # "what" => Len(Field(p, i)) = sizeof[writes[p.kind][i]]
         /\ \A i \in 1..3 : i > Len(writes[p.kind]) => Field(p, i) = << >>
         /\ Allocated(p) = 1 + Len(Field(p, 1)) + Len(Field(p, 2)) + Len(Field(p, 3))
         /\ Allocated(p) \in 1..255
<1> DEFINE kind == p.kind
           w    == writes[kind]
           v    == p.value
<1>1. /\ kind \in Kind
      /\ v \in [ToSet(w) -> Seq(Octet)]
      /\ \A field \in ToSet(w) : IF field = "what" THEN Len(v[field]) <= 253
                                 ELSE Len(v[field]) = sizeof[field]
  BY DEF WellFormed, Octet
<1>2. \A i \in 1..Len(w) : w[i] \in ToSet(w)
  BY <1>1, FieldsOfKind DEF ToSet
<1>3. ASSUME NEW i \in 1..Len(w)
      PROVE  /\ Field(p, i) = v[w[i]] /\ Field(p, i) \in Seq(Octet)
             /\ IF w[i] = "what" THEN Len(Field(p, i)) <= 253 ELSE Len(Field(p, i)) = sizeof[w[i]]
  <2>1. Field(p, i) = v[w[i]]
    BY <1>1, FieldsOfKind DEF Field
  <2> HIDE DEF w
  <2> QED BY <1>1, <1>2, <1>3, <2>1
<1>4. ASSUME NEW i \in 1..3, i > Len(w) PROVE Field(p, i) = << >>
  BY <1>1, <1>4, FieldsOfKind DEF Field
<1>5. << >> \in Seq(Octet) /\ Len(<< >>) = 0
  OBVIOUS
<1>6. Len(w) \in 0..3
  BY <1>1, FieldsOfKind
<1>7. ASSUME NEW i \in 1..3 PROVE Field(p, i) \in Seq(Octet) /\ Len(Field(p, i)) \in Nat
  <2> HIDE DEF w
  <2>1. Field(p, i) \in Seq(Octet)
    <3>1. CASE i <= Len(w)
      <4>1. i \in 1..Len(w)
        BY <1>6, <3>1
      <4> QED BY <1>3, <4>1
    <3>2. CASE i > Len(w)
      BY <1>4, <1>5, <3>2
    <3> QED BY <1>6, <3>1, <3>2
  <2> QED BY <2>1
<1>8. CASE kind # "Log"
  <2>1. ASSUME NEW i \in 1..3 PROVE Len(Field(p, i)) = Size(kind, i)
    <3>1. CASE i <= Len(w)
      <4>1. i \in 1..Len(w) /\ w[i] # "what"
        BY <1>1, <1>6, <1>8, <3>1, FieldsOfKind
      <4>2. Size(kind, i) = sizeof[w[i]]
        BY <3>1 DEF Size
      <4> HIDE DEF w
      <4> QED BY <1>3, <4>1, <4>2
    <3>2. CASE i > Len(w)
      BY <1>4, <1>5, <1>6, <3>2 DEF Size
    <3> QED BY <1>6, <3>1, <3>2
  <2>2. Allocated(p) = allocated[kind]
    BY <1>8 DEF Allocated
  <2>3. allocated[kind] = 1 + Size(kind, 1) + Size(kind, 2) + Size(kind, 3)
    BY <1>1, <1>8, FieldsOfKind
  <2>4. allocated[kind] \in 1..49
    BY <1>1, <1>8, Layout
  <2> QED BY <1>3, <1>4, <1>7, <2>1, <2>2, <2>3, <2>4
<1>9. CASE kind = "Log"
  <2>1. w = <<"level", "what">> /\ sizeof["level"] = 1
    BY <1>1, <1>9, Layout
  <2>2. Len(w) = 2 /\ w[1] = "level" /\ w[2] = "what" /\ "level" # "what"
    BY <2>1
  <2>3. 1 \in 1..Len(w) /\ 2 \in 1..Len(w)
    BY <2>2
  <2> DEFINE n(i) == Len(Field(p, i))
  <2>4. n(1) \in Nat /\ n(2) \in Nat /\ n(3) \in Nat
    BY <1>7
  <2>5. Field(p, 2) = v["what"]
    <3> HIDE DEF w
    <3> QED BY <1>3, <2>2, <2>3
  <2>6. n(1) = 1 /\ n(2) <= 253
    <3> HIDE DEF w
    <3> QED BY <1>3, <2>1, <2>2, <2>3
  <2>7. n(3) = 0
    BY <1>4, <1>5, <2>2
  <2>8. Allocated(p) = n(2) + 1 + 1
    BY <1>9, <2>5 DEF Allocated, log_allocated
  <2> HIDE DEF n
  <2>9. Allocated(p) = 1 + n(1) + n(2) + n(3) /\ Allocated(p) \in 1..255
    BY <2>4, <2>6, <2>7, <2>8
  <2> QED BY <1>3, <1>4, <1>7, <2>9 DEF n
<1> QED BY <1>8, <1>9

\* What is written has the size allocated for it and begins with the kind's first byte,
\* and each field is read where it was written.
LEMMA FieldsAreRead ==
  ASSUME NEW p, WellFormed(p)
  PROVE  /\ Written(p) \in Seq(Octet) /\ Len(Written(p)) = Allocated(p)
         /\ Written(p)[1] = FIRST_BYTE[p.kind]
         /\ \A i \in 1..Len(writes[p.kind]) :
              ReadField(Written(p), p.kind, i) = p.value[writes[p.kind][i]]
<1> DEFINE kind == p.kind
           w    == writes[kind]
           a    == Field(p, 1)
           b    == Field(p, 2)
           c    == Field(p, 3)
<1>1. kind \in Kind /\ FIRST_BYTE[kind] \in Octet /\ reads[kind] = w
  BY Layout DEF WellFormed
<1>2. /\ a \in Seq(Octet) /\ b \in Seq(Octet) /\ c \in Seq(Octet)
      /\ Len(a) \in Nat /\ Len(b) \in Nat /\ Len(c) \in Nat
      /\ Allocated(p) = 1 + Len(a) + Len(b) + Len(c)
  BY FieldsOfPacket
<1>3. /\ Len(w) \in 0..3
      /\ \A i \in 1..Len(w) : w[i] = "what" => i = Len(w)
      /\ \A i \in 1..Len(w) : w[i] # "what" => sizeof[w[i]] \in 1..48
  BY <1>1, FieldsOfKind
<1>4. /\ \A i \in 1..Len(w) : w[i] # "what" => Len(Field(p, i)) = sizeof[w[i]]
      /\ \A i \in 1..Len(w) : Field(p, i) = p.value[w[i]]
      /\ \A i \in 1..3 : i > Len(w) => Len(Field(p, i)) = 0
  BY FieldsOfPacket
<1>5. Written(p) = <<FIRST_BYTE[kind]>> \o a \o b \o c
  BY DEF Written
<1> HIDE DEF kind, w, a, b, c
<1>6. /\ Written(p) \in Seq(Octet) /\ Len(Written(p)) = 1 + Len(a) + Len(b) + Len(c)
      /\ Written(p)[1] = FIRST_BYTE[kind]
      /\ SubSeq(Written(p), 1 + 1, 1 + Len(a)) = a
      /\ SubSeq(Written(p), 1 + Len(a) + 1, 1 + Len(a) + Len(b)) = b
      /\ SubSeq(Written(p), 1 + Len(a) + Len(b) + 1, 1 + Len(a) + Len(b) + Len(c)) = c
  <2> DEFINE fb == FIRST_BYTE[kind]
  <2>1. fb \in Octet
    BY <1>1
  <2>2. Written(p) = <<fb>> \o a \o b \o c
    BY <1>5
  <2> HIDE DEF fb
  <2>3. a \in Seq(Octet) /\ b \in Seq(Octet) /\ c \in Seq(Octet)
    BY <1>2
  <2>4. /\ Written(p) \in Seq(Octet) /\ Len(Written(p)) = 1 + Len(a) + Len(b) + Len(c)
        /\ Written(p)[1] = fb
        /\ SubSeq(Written(p), 1 + 1, 1 + Len(a)) = a
        /\ SubSeq(Written(p), 1 + Len(a) + 1, 1 + Len(a) + Len(b)) = b
        /\ SubSeq(Written(p), 1 + Len(a) + Len(b) + 1, 1 + Len(a) + Len(b) + Len(c)) = c
    BY <2>1, <2>2, <2>3, Slices
  <2> QED BY <2>4 DEF fb
<1>7. ASSUME NEW i \in 1..Len(w) PROVE ReadField(Written(p), kind, i) = Field(p, i)
  <2>1. CASE i = 1
    <3>1. Before(kind, 1) = 1
      BY DEF Before
    <3>2. EndOfField(Written(p), kind, 1) = 1 + Len(a)
      <4>1. CASE w[1] = "what"
        <5>1. Len(w) = 1
          BY <1>3, <2>1, <4>1
        <5>2. Len(b) = 0 /\ Len(c) = 0
          BY <1>4, <5>1 DEF b, c
        <5> QED BY <1>1, <1>2, <1>6, <4>1, <5>2 DEF EndOfField
      <4>2. CASE w[1] # "what"
        BY <1>1, <1>4, <2>1, <3>1, <4>2 DEF EndOfField, a
      <4> QED BY <4>1, <4>2
    <3> QED BY <1>6, <2>1, <3>1, <3>2 DEF ReadField, a
  <2>2. CASE i = 2
    <3>1. Before(kind, 2) = 1 + Len(a)
      <4>1. 1 \in 1..Len(w) /\ w[1] # "what"
        BY <1>3, <2>2
      <4>2. Len(a) = sizeof[w[1]]
        BY <1>4, <4>1 DEF a
      <4> QED BY <1>1, <1>2, <4>2 DEF Before
    <3>2. EndOfField(Written(p), kind, 2) = 1 + Len(a) + Len(b)
      <4>1. CASE w[2] = "what"
        <5>1. Len(w) = 2
          BY <1>3, <2>2, <4>1
        <5>2. Len(c) = 0
          BY <1>4, <5>1 DEF c
        <5> QED BY <1>1, <1>2, <1>6, <4>1, <5>2 DEF EndOfField
      <4>2. CASE w[2] # "what"
        BY <1>1, <1>4, <2>2, <3>1, <4>2 DEF EndOfField, b
      <4> QED BY <4>1, <4>2
    <3> QED BY <1>6, <2>2, <3>1, <3>2 DEF ReadField, b
  <2>3. CASE i = 3
    <3>1. Before(kind, 3) = 1 + Len(a) + Len(b)
      <4>1. 1 \in 1..Len(w) /\ 2 \in 1..Len(w) /\ w[1] # "what" /\ w[2] # "what"
        BY <1>3, <2>3
      <4>2. Len(a) = sizeof[w[1]] /\ Len(b) = sizeof[w[2]]
        BY <1>4, <4>1 DEF a, b
      <4> QED BY <1>1, <1>2, <4>2 DEF Before
    <3>2. EndOfField(Written(p), kind, 3) = 1 + Len(a) + Len(b) + Len(c)
      <4>1. CASE w[3] = "what"
        BY <1>1, <1>6, <4>1 DEF EndOfField
      <4>2. CASE w[3] # "what"
        BY <1>1, <1>4, <2>3, <3>1, <4>2 DEF EndOfField, c
      <4> QED BY <4>1, <4>2
    <3> QED BY <1>6, <2>3, <3>1, <3>2 DEF ReadField, c
  <2> QED BY <1>3, <2>1, <2>2, <2>3
<1>8. \A i \in 1..Len(w) : ReadField(Written(p), kind, i) = p.value[w[i]]
  BY <1>4, <1>7
<1> QED BY <1>2, <1>6, <1>8 DEF kind, w

\* encode() fills the payload it has allocated exactly, in at most 255 bytes, and
\* decode() of it is the packet that was encoded, whatever its kind and values.
THEOREM DecodeOfEncode ==
  ASSUME NEW p, WellFormed(p)
  PROVE  /\ encode(p) = Written(p) /\ encode(p) \in Seq(Octet) /\ Len(encode(p)) \in 1..255
         /\ decode(encode(p)) = p
<1> DEFINE w    == Written(p)
           kind == p.kind
           ws   == writes[kind]
<1>1. /\ kind \in Kind /\ reads[kind] = ws /\ p = Packet(kind, p.value)
      /\ p.value \in [ToSet(ws) -> Seq(Octet)]
      /\ ToSet(ws) = {ws[i] : i \in DOMAIN ws} /\ DOMAIN ws = 1..Len(ws)
      /\ \A i, j \in 1..Len(ws) : ws[i] = ws[j] => i = j
  BY Layout, FieldsOfKind DEF WellFormed, Octet, ToSet
<1>2. /\ w \in Seq(Octet) /\ Len(w) = Allocated(p) /\ Len(w) \in 1..255
      /\ w[1] = FIRST_BYTE[kind]
      /\ \A i \in 1..Len(ws) : ReadField(w, kind, i) = p.value[ws[i]]
  <2>1. /\ w \in Seq(Octet) /\ Len(w) = Allocated(p) /\ w[1] = FIRST_BYTE[kind]
        /\ \A i \in 1..Len(ws) : ReadField(w, kind, i) = p.value[ws[i]]
    BY FieldsAreRead, Zenon
  <2>2. Allocated(p) \in 1..255
    BY FieldsOfPacket, Zenon
  <2> HIDE DEF w, ws, kind
  <2> QED BY <2>1, <2>2
<1> HIDE DEF w
<1>3. encode(p) = w
  <2>1. encode(p) = [i \in 1..Len(w) |-> IF i <= Len(w) THEN w[i] ELSE 0]
    BY <1>2 DEF encode, w
  <2> QED BY <1>2, <2>1
<1>4. KindOf(w) = kind
  BY <1>1, <1>2, FirstBytes DEF KindOf
<1>5. ASSUME NEW field \in ToSet(ws)
      PROVE  ReadField(w, kind, CHOOSE n \in DOMAIN ws : ws[n] = field) = p.value[field]
  <2> DEFINE n == CHOOSE n \in DOMAIN ws : ws[n] = field
  <2>1. n \in 1..Len(ws) /\ ws[n] = field
    BY <1>1
  <2> QED BY <1>2, <2>1
<1>6. decode(w) = Packet(kind, [field \in ToSet(ws) |->
                                  ReadField(w, kind, CHOOSE n \in DOMAIN ws : ws[n] = field)])
  <2>1. decode(w) = Packet(KindOf(w),
                           [field \in ToSet(reads[KindOf(w)]) |->
                              ReadField(w, KindOf(w), CHOOSE n \in DOMAIN reads[KindOf(w)] :
                                                        reads[KindOf(w)][n] = field)])
    BY DEF decode
  <2> HIDE DEF kind, ws
  <2> QED BY <1>1, <1>4, <2>1
<1>7. [field \in ToSet(ws) |-> ReadField(w, kind, CHOOSE n \in DOMAIN ws : ws[n] = field)] = p.value
  BY <1>1, <1>5
<1> QED BY <1>1, <1>2, <1>3, <1>6, <1>7 DEF w
=============================================================================
