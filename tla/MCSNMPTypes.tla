----------------------------- MODULE MCSNMPTypes -----------------------------
(* Instances of SNMPTypes for TLC, with DevLong64 scaled down to 5 bits.   *)
EXTENDS SNMPTypes

MCValues == -7..41

\* A signed, an unsigned and a 64-bit unsigned integer, scaled down.
Flavours == {<<-16, 15>>, <<0, 7>>, <<0, 31>>}

\* Constraints of an object, inside, across and outside of those.
Constraint == {r \in {-6, 2, 15, 20, 40} \X {-6, 2, 15, 20, 40} : r[1] <= r[2]}

\* A union, a single value, and both.
Others == {{{<<2, 3>>, <<20, 40>>}}, {{<<5, 5>>}}, {{<<2, 3>>, <<5, 9>>}, {<<5, 5>>}}}

IntegerTypes(chains, others, scales) ==
    {[kind |-> "int", names |-> {}, ranges |-> c, others |-> o, writable |-> TRUE,
      scale |-> s] : c \in chains, o \in others, s \in scales}

Named(kind, sets, writables) ==
    {[kind |-> kind, names |-> n, ranges |-> <<>>, others |-> {}, writable |-> w,
      scale |-> None] : n \in sets, w \in writables}

Chains == {<<f>> : f \in Flavours} \cup {<<f, c>> : f \in Flavours, c \in Constraint}
            \cup {<<f, c, d>> : f \in Flavours, c, d \in Constraint}

\* All of these, enums with gaps, and bits: up to a byte when they are written.
MCTypes ==
    IntegerTypes(Chains, {{}}, {None})
        \cup IntegerTypes({<<f>> : f \in Flavours}, Others, {None})
        \cup IntegerTypes({<<<<0, 7>>>>}, {{}}, {<<1, 10>>, <<5, 2>>})
        \cup Named("enum", SUBSET (0..5) \ {{}}, {TRUE})
        \cup Named("bits", {{0}, 0..3, 0..7}, {TRUE})
        \cup Named("bits", {{1, 3, 8}, {0, 7, 8, 9}}, {FALSE})

\* Bits of more than a byte that clients write.
TwoBytes == Named("bits", {0..9}, {TRUE})
====
