-------------------------- MODULE DeviceDefinition --------------------------
(***************************************************************************)
(* From a device definition file to the attributes of an SNMP device:      *)
(*   ska_snmp_device/definitions.py             load and parse             *)
(*   ska_snmp_device/snmp_device.py             create_component_manager() *)
(*   ska_snmp_device/snmp_component_manager.py  the GET of poll()          *)
(*                                                                         *)
(* The devices of one server process are initialised in it one after       *)
(* another, or by Init commands of clients at the same time.  Each reads   *)
(* its definition relative to the working directory, which belongs to the  *)
(* process and is changed for the duration; it is not changed back when    *)
(* reading fails.  A definition is a list of templates; each stands for    *)
(* the attributes of the cartesian product of its index ranges.            *)
(***************************************************************************)
EXTENDS Naturals, SequencesExt

CONSTANTS
    Device,        \* the devices of the server
    Library,       \* the definitions in device_library, by file name
    Home,          \* those in the directory the server was started in
    NoFile,        \* a file name that is in neither
    Broken,        \* the content of a file that is no YAML
    Mib,           \* the objects of the MIBs: [access, integer, syntax] by name
    Syntax,        \* by name, the syntaxes of indexes: see MibSymbolic
    NoScale,       \* no scaling factor
    NoNumber,      \* a scaling factor that is no number
    Authorities,   \* which of V2Community and V3UserName a device may be given
    MaxObjects,    \* max_objects_per_pdu
    MaxInits       \* bound: initialisations of each device

ASSUME ConstantsAssumption ==
    /\ MaxObjects \in Nat \ {0}
    /\ MaxInits \in Nat
    /\ DOMAIN Home \subseteq DOMAIN Library
    /\ NoFile \notin DOMAIN Library

\* What files can contain, when they can be read.
Contents ==
    ({Library[f] : f \in DOMAIN Library} \cup {Home[f] : f \in DOMAIN Home}) \ {Broken}

\* Lists of templates, in which ranges of indexes are pairs of numbers.
ASSUME ContentsAssumption ==
    \A def \in Contents :
        /\ def \in Seq(ToSet(def))
        /\ \A t \in ToSet(def) : t.indexes \in Seq(Nat \X Nat)

\* The stages in which the working directory matters to a device.
Loading == {"getcwd", "chdir", "open", "restore"}

VARIABLES
    cwd,         \* the working directory of the process
    stage,       \* stage[d]: where device d is
    file,        \* file[d]: its DeviceDefinition property
    authority,   \* authority[d]: which of V2Community and V3UserName it has
    oldDir,      \* oldDir[d]: old_dir of its _chdir()
    definition,  \* definition[d]: the file's contents, from reading to parsing
    attributes,  \* attributes[d]: _dynamic_attrs, by name in the dict's order
    polled,      \* polled[d]: the first poll of all attributes, [raised, values]
    inits,       \* inits[d]: initialisations begun
    overlapped   \* history: another device was loading while d was

device == <<file, authority, inits>>
vars == <<cwd, stage, device, oldDir, definition, attributes, polled, overlapped>>

-----------------------------------------------------------------------------
(* Expansion of a template: [text, fields, object, suffix, indexes, scale].  *)
(* text[1], fields[1], text[2], fields[2], ... is the name with its format   *)
(* fields, which are positions in the index vector.                          *)

\* Defect: the end of a range is not part of it.
ExtendedExclusive(vectors, r) ==
    FlattenSeq([v \in DOMAIN vectors |->
        [k \in 1..(r[2] - r[1]) |-> Append(vectors[v], r[1] + k - 1)]])

\* Each vector with each number of the range a..b, which varies fastest.
Extended(vectors, r) ==
    FlattenSeq([v \in DOMAIN vectors |->
        [k \in 1..(r[2] + 1 - r[1]) |-> Append(vectors[v], r[1] + k - 1)]])

\* itertools.product() of the ranges.
Product(indexes) ==
    LET product[n \in 0..Len(indexes)] ==
            IF n = 0 THEN <<<<>>>> ELSE Extended(product[n - 1], indexes[n])
    IN  product[Len(indexes)]

\* name.format(*index_vars)
FormattedName(t, vector) ==
    FoldLeftDomain(LAMBDA name, i : name \o ToString(vector[t.fields[i]]) \o t.text[i + 1],
                   t.text[1], t.fields)

\* str.isidentifier(): no digit comes first, and no other character is used.
IsIdentifier(t) == t.text[1] # "" /\ \A i \in DOMAIN t.text : t.text[i] # " "

ExpandAttribute(t) ==
    LET vectors == Product(t.indexes)
    IN  [v \in DOMAIN vectors |-> [name |-> FormattedName(t, vectors[v]),
                                   identity |-> <<t.object>> \o t.suffix \o vectors[v]]]

\* What _expand_attribute() raises a ValueError or an IndexError for; the
\* last two are noticed only when there is an element to be formatted.
Expandable(t) ==
    /\ t.indexes # <<>> => t.fields # <<>>
    /\ t.indexes = <<>> => t.fields = <<>> /\ t.suffix # <<>>
    /\ Product(t.indexes) # <<>> =>
        /\ \A i \in DOMAIN t.fields : t.fields[i] \in DOMAIN t.indexes
        /\ IsIdentifier(t)

\* What _build_attr_info() raises for: an object that is in no MIB or that
\* cannot be accessed, and a scaling factor that makes no sense.
Buildable(t) ==
    /\ t.object \in DOMAIN Mib
    /\ Mib[t.object].access \in {"readonly", "writeonly", "readwrite"}
    /\ t.scale # NoScale =>
        /\ t.scale # NoNumber
        /\ Mib[t.object].integer
        /\ t.scale > 0

Parseable(def) ==
    \A i \in DOMAIN def :
        Expandable(def[i]) /\ (Product(def[i].indexes) # <<>> => Buildable(def[i]))

\* The keys of a dict, in order of first appearance.
WithKey(keys, name) == IF Contains(keys, name) THEN keys ELSE Append(keys, name)

Keys(attrs) ==
    LET keys[n \in 0..Len(attrs)] ==
            IF n = 0 THEN <<>> ELSE WithKey(keys[n - 1], attrs[n].name)
    IN  keys[Len(attrs)]

\* A list of attributes becomes a dict by name: the last one of a name wins.
DynamicAttrs(attrs) ==
    LET Winner(n) == SelectLastInSeq(attrs, LAMBDA a : a.name = n)
    IN  [i \in DOMAIN Keys(attrs) |-> attrs[Winner(Keys(attrs)[i])]]

ParseDeviceDefinition(def) ==
    DynamicAttrs(FlattenSeq([i \in DOMAIN def |-> ExpandAttribute(def[i])]))

-----------------------------------------------------------------------------
(* The GETs of a poll                                                        *)

\* _mib_symbolic(): the name of the object that an OID in an answer stands for.
\* Its indexes come back by their syntax in the MIB, and are flattened: an index
\* that a definition writes as text comes back as the characters of it, or as the
\* number it names.  Other indexes come back as they are written.
MibSymbolic(identity) ==
    LET back == Syntax[Mib[identity[1]].syntax]
        Index(x) == IF x \in DOMAIN back THEN back[x] ELSE <<x>>
    IN  <<identity[1]>> \o FlattenSeq([i \in DOMAIN Tail(identity) |-> Index(Tail(identity)[i])])

\* Defect: answers are told apart by the object's name alone.
OwnerByObject(chunk, oid) == SelectLastInSeq(chunk, LAMBDA a : a.identity[1] = oid[1])

\* Which attribute of a chunk oid_attr_map has for an object, by the identity in
\* its definition: the last one, or 0 for none.
Owner(chunk, oid) == SelectLastInSeq(chunk, LAMBDA a : a.identity = oid)

\* An answer for which oid_attr_map has no attribute is a KeyError.
KeyErrors(chunk) == {a \in ToSet(chunk) : Owner(chunk, MibSymbolic(a.identity)) = 0}

\* The names answers are given to, and the objects they were read from, for the
\* answered GET of a chunk of attributes.
ChunkUpdates(chunk) ==
    {[name |-> chunk[Owner(chunk, MibSymbolic(a.identity))].name,
      from |-> MibSymbolic(a.identity)] : a \in ToSet(chunk)}

\* chunked(reads, max_objects_per_pdu)
Chunks(attrs) ==
    {SubSeq(attrs, k, IF k + MaxObjects - 1 < Len(attrs) THEN k + MaxObjects - 1
                      ELSE Len(attrs)) :
        k \in {i \in DOMAIN attrs : i % MaxObjects = 1 % MaxObjects}}

NotPolled == [raised |-> FALSE, values |-> {}]

\* What a poll of attributes comes to when its GETs are answered.  An exception
\* in one chunk leaves poll(), and what the earlier ones have got is lost.
Polled(attrs) ==
    IF \E c \in Chunks(attrs) : KeyErrors(c) # {}
    THEN [raised |-> TRUE, values |-> {}]
    ELSE [raised |-> FALSE, values |-> UNION {ChunkUpdates(c) : c \in Chunks(attrs)}]

-----------------------------------------------------------------------------
Init ==
    /\ cwd = "home"
    /\ stage = [d \in Device |-> "new"]
    /\ file \in [Device -> DOMAIN Library \cup {NoFile}]
    /\ authority \in [Device -> Authorities]
    /\ oldDir = [d \in Device |-> "home"]
    /\ definition = [d \in Device |-> <<>>]
    /\ attributes = [d \in Device |-> <<>>]
    /\ polled = [d \in Device |-> NotPolled]
    /\ inits = [d \in Device |-> 0]
    /\ overlapped = [d \in Device |-> FALSE]

Moves(d, from, to) ==
    /\ stage[d] = from
    /\ stage' = [stage EXCEPT ![d] = to]

\* init_device(), at the start of the server or by an Init command.
BeginInit(d) ==
    LET others == {e \in Device \ {d} : stage[e] \in Loading}
    IN  /\ inits[d] < MaxInits
        /\ \E s \in {"new", "ready", "failed"} : Moves(d, s, "getcwd")
        /\ inits' = [inits EXCEPT ![d] = @ + 1]
        /\ overlapped' = [e \in Device |-> IF e = d THEN others # {}
                                           ELSE overlapped[e] \/ e \in others]
        /\ UNCHANGED <<cwd, file, authority, oldDir, definition, attributes, polled>>

\* _chdir() remembers where it was ...
GetCwd(d) ==
    /\ Moves(d, "getcwd", "chdir")
    /\ oldDir' = [oldDir EXCEPT ![d] = cwd]
    /\ UNCHANGED <<cwd, device, definition, attributes, polled, overlapped>>

\* Defect: the library is looked for relative to the working directory.
ChdirRelative(d) ==
    /\ Moves(d, "chdir", IF cwd = "home" THEN "open" ELSE "failed")
    /\ cwd' = "library"
    /\ UNCHANGED <<device, oldDir, definition, attributes, polled, overlapped>>

\* ... and goes to the library, by its absolute path.
Chdir(d) ==
    /\ Moves(d, "chdir", "open")
    /\ cwd' = "library"
    /\ UNCHANGED <<device, oldDir, definition, attributes, polled, overlapped>>

\* Opening and parsing the file that the name means in the working directory.
\* An exception leaves _chdir() without going back.
ReadFile(d) ==
    LET here == IF cwd = "library" THEN Library ELSE Home
        found == file[d] \in DOMAIN here /\ here[file[d]] # Broken
    IN  /\ Moves(d, "open", IF found THEN "restore" ELSE "failed")
        /\ definition' = IF found THEN [definition EXCEPT ![d] = here[file[d]]]
                         ELSE definition
        /\ UNCHANGED <<cwd, device, oldDir, attributes, polled, overlapped>>

Restore(d) ==
    /\ Moves(d, "restore", "parse")
    /\ cwd' = oldDir[d]
    /\ UNCHANGED <<device, oldDir, definition, attributes, polled, overlapped>>

\* parse_device_definition(), the dicts of the device and its manager, and the
\* assertion on the device's properties, which comes after the first of them.
Parse(d) ==
    LET parseable == Parseable(definition[d])
    IN  /\ Moves(d, "parse", IF parseable /\ authority[d] \in {{"V2"}, {"V3"}}
                            THEN "ready" ELSE "failed")
        /\ attributes' = IF parseable
                         THEN [attributes EXCEPT ![d] = ParseDeviceDefinition(definition[d])]
                         ELSE attributes
        /\ definition' = [definition EXCEPT ![d] = <<>>]
        /\ polled' = [polled EXCEPT ![d] = NotPolled]
        /\ UNCHANGED <<cwd, device, oldDir, overlapped>>

\* The first poll reads all attributes.
Poll(d) ==
    /\ stage[d] = "ready"
    /\ polled' = [polled EXCEPT ![d] = Polled(attributes[d])]
    /\ UNCHANGED <<cwd, stage, device, oldDir, definition, attributes, overlapped>>

Step(d) ==
    \/ BeginInit(d)
    \/ GetCwd(d)
    \/ Chdir(d)
    \/ ReadFile(d)
    \/ Restore(d)
    \/ Parse(d)
    \/ Poll(d)

Next == \E d \in Device : Step(d)

Spec == Init /\ [][Next]_vars
-----------------------------------------------------------------------------
(* Properties                                                                *)

\* The elements a template stands for, and their attributes, as sets.
Elements(t) ==
    LET Indexes == {r[1]..r[2] : r \in ToSet(t.indexes)}
    IN  {e \in [DOMAIN t.indexes -> UNION Indexes] :
            \A k \in DOMAIN e : t.indexes[k][1] <= e[k] /\ e[k] <= t.indexes[k][2]}

Declared(def) ==
    UNION {{[name |-> FormattedName(t, e), identity |-> <<t.object>> \o t.suffix \o e] :
            e \in Elements(t)} : t \in ToSet(def)}

\* One attribute for every name the templates stand for, and no others, each
\* reading one of the objects that the name stands for.
AsDeclared(attrs, def) ==
    LET got == ToSet(attrs)
        declared == Declared(def)
    IN  /\ got \subseteq declared
        /\ {a.name : a \in got} = {a.name : a \in declared}
        /\ \A a, b \in got : a.name = b.name => a = b

\* A device that was loaded while no other was has the attributes of its own
\* file in the library.  Neither a failed load nor overlapping ones before it
\* make a difference.
LoadsItsDefinition ==
    \A d \in Device : stage[d] = "ready" /\ ~overlapped[d] =>
        AsDeclared(attributes[d], Library[file[d]])

\* An initialisation that no other overlaps fails for a mistake in its own file
\* or properties only: an earlier one that failed leaves the process in the
\* library, and that does no harm.
OnlyOwnMistakesFail ==
    \A d \in Device : stage[d] = "failed" /\ ~overlapped[d] =>
        \/ file[d] = NoFile
        \/ Library[file[d]] = Broken
        \/ ~Parseable(Library[file[d]])
        \/ authority[d] \notin {{"V2"}, {"V3"}}

\* Each value is given to an attribute whose identity names the object it came
\* from, and an attribute gets one unless another's identity names its object.
OwnObjects(attrs, updates) ==
    /\ \A u \in updates : [name |-> u.name, identity |-> u.from] \in ToSet(attrs)
    /\ \A a \in ToSet(attrs) :
        (\A b \in ToSet(attrs) : b.identity = MibSymbolic(a.identity) => b = a)
            => \E u \in updates : u.name = a.name

\* However the reads fall into chunks, a poll whose GETs are answered gives an
\* attribute the value of its own object, or raises and gives none to any; it
\* raises only if the definition writes an index otherwise than it comes back.
ReadsOwnObject ==
    \A d \in Device : stage[d] = "ready" /\ polled[d] # NotPolled =>
        IF polled[d].raised
        THEN \E a \in ToSet(attributes[d]) : MibSymbolic(a.identity) # a.identity
        ELSE OwnObjects(attributes[d], polled[d].values)
====
