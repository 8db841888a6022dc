------------------------------ MODULE SNMPTypes ------------------------------
(***************************************************************************)
(* The life of one SNMP attribute between a Tango client and the agent:    *)
(*   ska_snmp_device/types.py                                              *)
(* The SNMP type of the object decides what Tango lets clients write, what *)
(* python_to_snmp() makes of it, and what snmp_to_python() makes of what   *)
(* the agent holds.  A byte is the set of its bits, 0 the highest; the     *)
(* widths of Tango's 64-bit integers are constants, to be scaled down.     *)
(***************************************************************************)
EXTENDS Integers, Sequences, FiniteSetsExt

CONSTANTS
    Types,         \* the SNMP types explored
    Values,        \* the integers explored
    SignedMax,     \* 2^63 - 1, the largest DevLong64
    UnsignedMax,   \* 2^64 - 1, the largest DevULong64
    None           \* Python's None

\* Named values, the constraints of an integer, whether clients may write it, and
\* the scaling factor of the device definition, <<n, d>> or None.  In ranges are
\* the ValueRangeConstraints, in others the constraints of other classes, unions
\* and single values, each as the set of intervals that it allows.
SNMPType == [kind : {"bits", "enum", "int"}, names : SUBSET Nat,
             ranges : Seq(Int \X Int), others : SUBSET SUBSET (Int \X Int),
             writable : BOOLEAN, scale : (Nat \X Nat) \cup {None}]

ASSUME ConstantsAssumption ==
    /\ \A t \in Types :
        /\ t \in SNMPType
        /\ IsFiniteSet(t.names)
        /\ t.kind = "int" => t.ranges # <<>>
        /\ t.kind # "int" => t.names # {}
    /\ Values \subseteq Int
    /\ SignedMax \in Nat /\ UnsignedMax \in Nat
    /\ SignedMax < UnsignedMax
    /\ None \notin Int /\ None \notin Int \X Int

\* Each flavour of integer in SNMP has a range of its own, which 64 bits can
\* hold, signed or unsigned.
ASSUME FlavoursAssumption ==
    \A t \in Types : t.kind = "int" =>
        \E i \in DOMAIN t.ranges :
            LET flavour == t.ranges[i]
            IN  /\ flavour[2] <= UnsignedMax
                /\ \/ flavour[1] >= 0
                   \/ flavour[1] >= -SignedMax - 1 /\ flavour[2] <= SignedMax

VARIABLES
    type,      \* the SNMP type of the attribute
    held,      \* what the agent holds, the bytes or integer of the wire
    meant,     \* the value that stands for, as a client or the agent put it
    read       \* the value read in the last poll

vars == <<type, held, meant, read>>

-----------------------------------------------------------------------------
(* The attribute Tango is given                                            *)

\* _range_intersection(), which raises when there is none.
RangeIntersection(a, b) ==
    IF a = None THEN None
    ELSE LET start == IF a[1] >= b[1] THEN a[1] ELSE b[1]
             stop  == IF a[2] <= b[2] THEN a[2] ELSE b[2]
         IN  IF start > stop THEN None ELSE <<start, stop>>

\* reduce(_range_intersection, ranges)
Constrained(t) ==
    LET reduced[i \in DOMAIN t.ranges] ==
            IF i = 1 THEN t.ranges[1]
            ELSE RangeIntersection(reduced[i - 1], t.ranges[i])
    IN  reduced[Len(t.ranges)]

\* The unsigned type and the limits that a range asks for.
RangeArgs(range) ==
    [unsigned |-> range[2] > SignedMax,
     min      |-> range[1],
     max      |-> IF range[2] = UnsignedMax THEN None ELSE range[2]]

\* dtype=int, and no limits.
PlainInt == [unsigned |-> FALSE, min |-> None, max |-> None]

\* Defect: stop >= 2**63 - 1.
IntegerArgsTooEarly(t) ==
    IF t.others = {}
    THEN [RangeArgs(Constrained(t)) EXCEPT !.unsigned = Constrained(t)[2] >= SignedMax]
    ELSE PlainInt

\* The type, min_value and max_value of an integer attribute.  One constraint that
\* is not a range, and the attribute has no limits at all.
IntegerArgs(t) ==
    IF t.others = {} THEN RangeArgs(Constrained(t)) ELSE PlainInt

\* Labels for 0 up to the last named value; those without a name are invalid.
EnumFromNamedValues(names) ==
    [x \in 0..Max(names) |-> IF x \in names THEN "named" ELSE "invalid"]

\* Whether the attribute can be made: a ValueError stops the device.
Buildable(t) == t.kind = "int" /\ t.others = {} => Constrained(t) # None

\* What Tango lets a client write, given those arguments.
TangoAccepts(t, v) ==
    CASE t.kind = "enum" -> v \in DOMAIN EnumFromNamedValues(t.names)
      [] t.kind = "bits" -> v \subseteq DOMAIN EnumFromNamedValues(t.names)
      [] OTHER ->
            LET args == IntegerArgs(t)
            IN  /\ args.min # None => v >= args.min
                /\ args.max # None => v <= args.max
                /\ v \in IF args.unsigned THEN 0..UnsignedMax
                         ELSE (-SignedMax - 1)..SignedMax

-----------------------------------------------------------------------------
(* The conversions                                                         *)

\* 0b10000000 >> bit
Mask(bit) == IF bit <= 7 THEN {bit} ELSE {}

\* Defect: the last byte is cut when the number of bits is no multiple of 8.
EncodeBitsFloor(labels, bits) ==
    [k \in 0..(labels \div 8) - 1 |->
        UNION {Mask(bit) : bit \in {b \in bits : b \div 8 = k}}]

\* The bytes of a list of bits, ceil(labels / 8) of them.
EncodeBits(labels, bits) ==
    [k \in 0..((labels + 7) \div 8) - 1 |->
        UNION {Mask(bit) : bit \in {b \in bits : b \div 8 = k}}]

\* None, which stands for an exception, is no list of bytes.
ASSUME BytesAssumption ==
    \A t \in Types : t.kind = "bits" =>
        \A bits \in SUBSET DOMAIN EnumFromNamedValues(t.names) :
            EncodeBits(Max(t.names) + 1, bits) # None

DecodeBits(bytes) ==
    {8 * p[1] + p[2] : p \in {q \in (DOMAIN bytes) \X (0..7) : q[2] \in bytes[q[1]]}}

\* int(value * factor): towards zero.
Scaled(v, factor) ==
    IF factor = None THEN v
    ELSE IF v >= 0 THEN (v * factor[1]) \div factor[2]
    ELSE -(((-v) * factor[1]) \div factor[2])

\* Defect: an enum value that has no name is let through.
PythonToSnmpUnchecked(t, v) ==
    IF t.kind = "bits" THEN EncodeBits(Max(t.names) + 1, v) ELSE v

\* python_to_snmp(), which raises for an enum value that has no name, and for
\* every value of an unsigned attribute: DevULong64 is not a class, so that
\* issubclass(attr.dtype, BitEnum) is a TypeError.  The scaling factor plays no
\* part in it.
PythonToSnmp(t, v) ==
    CASE t.kind = "bits" -> EncodeBits(Max(t.names) + 1, v)
      [] t.kind = "enum" ->
            IF EnumFromNamedValues(t.names)[v] = "named" THEN v ELSE None
      [] OTHER -> IF IntegerArgs(t).unsigned THEN None ELSE v

\* snmp_to_python()
SnmpToPython(t, wire) ==
    IF t.kind = "bits" THEN DecodeBits(wire) ELSE Scaled(wire, t.scale)

-----------------------------------------------------------------------------
\* The values the MIB allows the object to have.
Legal(t, v) ==
    CASE t.kind = "enum" -> v \in t.names
      [] t.kind = "bits" -> v \subseteq t.names
      [] OTHER ->
            /\ \A i \in 1..Len(t.ranges) :
                t.ranges[i][1] <= v /\ v <= t.ranges[i][2]
            /\ \A other \in t.others :
                \E interval \in other : interval[1] <= v /\ v <= interval[2]

\* What a client may try to write and an agent may hold, if they can.
Candidates(t) ==
    IF t.kind = "bits" THEN SUBSET DOMAIN EnumFromNamedValues(t.names) ELSE Values

Bytes(t) == (Max(t.names) \div 8) + 1

\* The value as the SNMP standard lays it out: bit b in byte b \div 8.
OnTheWire(t, v) ==
    IF t.kind = "bits"
    THEN [k \in 0..Bytes(t) - 1 |-> {b % 8 : b \in {c \in v : c \div 8 = k}}]
    ELSE v

Init ==
    /\ type \in {t \in Types : Buildable(t)}
    /\ held = None
    /\ meant = None
    /\ read = None

Write(v) ==
    /\ type.writable
    /\ TangoAccepts(type, v)
    /\ PythonToSnmp(type, v) # None
    /\ held' = PythonToSnmp(type, v)
    /\ meant' = v
    /\ read' = None
    /\ UNCHANGED type

\* The agent changes the object by itself.
AgentSets(v) ==
    /\ Legal(type, v)
    /\ held' = OnTheWire(type, v)
    /\ meant' = v
    /\ read' = None
    /\ UNCHANGED type

Poll ==
    /\ held # None
    /\ read' = SnmpToPython(type, held)
    /\ UNCHANGED <<type, held, meant>>

Next ==
    \/ \E v \in Candidates(type) : Write(v) \/ AgentSets(v)
    \/ Poll

Spec == Init /\ [][Next]_vars

-----------------------------------------------------------------------------
\* What a client or the agent put into the object is what the next poll reads,
\* through the two conversions, which are written separately.
ReadsBack == read # None /\ type.scale = None => read = meant

\* Of a type with no other constraints than ranges, nothing but what the MIB allows
\* gets into a request: what Tango does not refuse, by the range or labels it was
\* given, python_to_snmp() does.  With a union or a single value among the
\* constraints of an integer neither of them refuses anything.
OnlyLegalIsWritten ==
    meant # None /\ type.others = {} => Legal(type, meant)

\* Whether the ranges of an integer stay within DevLong64.
FitsLong(t) ==
    t.kind = "int" => Constrained(t) = None \/ Constrained(t)[2] <= SignedMax

\* Nothing that the MIB allows is refused, whatever chain of constraints the type
\* has, up to and including the 63-bit boundary.  Past it python_to_snmp() refuses
\* every value.
LegalIsWritable ==
    \A v \in Candidates(type) :
        FitsLong(type) /\ Legal(type, v) =>
            TangoAccepts(type, v) /\ PythonToSnmp(type, v) # None
====
