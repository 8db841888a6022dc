-------------------------- MODULE MCDeviceDefinition --------------------------
(* An instance of DeviceDefinition for TLC: small counterparts of the files in *)
(* device_library, and files with one mistake each.                            *)
EXTENDS DeviceDefinition

CONSTANTS d1, d2, eth0, one    \* the texts "eth0" and "1"

MCDevice == {d1, d2}
Symmetry == Permutations(MCDevice)

MCMib ==
    [upsModel      |-> [access |-> "readonly", integer |-> FALSE, syntax |-> "number"],
     inputVoltage  |-> [access |-> "readonly", integer |-> TRUE, syntax |-> "number"],
     sensorValue   |-> [access |-> "readonly", integer |-> TRUE, syntax |-> "number"],
     outletSwitch  |-> [access |-> "readwrite", integer |-> TRUE, syntax |-> "number"],
     outletEntry   |-> [access |-> "not-accessible", integer |-> FALSE, syntax |-> "number"],
     ifSpeed       |-> [access |-> "readonly", integer |-> TRUE, syntax |-> "octets"]]

\* An index that is text comes back as its characters, and a quoted number as a
\* number.
MCSyntax == [number |-> [x \in {one} |-> <<1>>], octets |-> [x \in {eth0} |-> <<101, 48>>]]

Template(text, fields, object, suffix, indexes) ==
    [text |-> text, fields |-> fields, object |-> object, suffix |-> suffix,
     indexes |-> indexes, scale |-> NoScale]

Scaled(t, scale) == [t EXCEPT !.scale = scale]

Model  == Template(<<"model">>, <<>>, "upsModel", <<0>>, <<>>)
Inputs == Template(<<"input", "Voltage">>, <<1>>, "inputVoltage", <<>>, <<<<1, 3>>>>)
Switch == Template(<<"outlet", "">>, <<1>>, "outletSwitch", <<1>>, <<<<9, 10>>>>)

Quoted == Template(<<"quoted">>, <<>>, "inputVoltage", <<one>>, <<>>)

\* Cells of the sensor table, as in PX4-5917-E7V2.yaml.
Sensor(text, fields, indexes) == Template(text, fields, "sensorValue", <<1>>, indexes)

MCLibrary == <<
    \* scalars and rows of a table, as in UPS.yaml
    <<Model, Scaled(Inputs, 10), Switch>>,
    \* a column picked by a range of one, that is not named; a range that is empty
    <<Sensor(<<"outlet", "Current">>, <<1>>, <<<<1, 2>>, <<1, 1>>>>),
      Sensor(<<"outlet", "Volts">>, <<1>>, <<<<1, 2>>, <<4, 4>>>>),
      Sensor(<<"", " ">>, <<3>>, <<<<2, 1>>>>)>>,
    \* both indexes named, in the other order
    <<Sensor(<<"s", "of", "">>, <<2, 1>>, <<<<1, 2>>, <<3, 5>>>>), Model>>,
    \* an index that varies and is not named; names that meet
    <<Sensor(<<"outlet", "">>, <<2>>, <<<<1, 2>>, <<1, 2>>>>),
      Template(<<"outlet1", "">>, <<1>>, "outletSwitch", <<1>>, <<<<1, 2>>>>), Switch>>,
    \* two attributes of one object
    <<Scaled(Inputs, 10), [Inputs EXCEPT !.text = <<"raw", "">>], Model>>,
    \* an index that is text
    <<Model, Template(<<"speed">>, <<>>, "ifSpeed", <<eth0>>, <<>>)>>,
    \* one that is a quoted number, in a chunk with the number
    <<Quoted, Inputs, Model>>,
    Broken,
    \* a mistake each
    <<Model, [Inputs EXCEPT !.text = <<"input">>, !.fields = <<>>]>>,
    <<[Model EXCEPT !.text = <<"model", "">>, !.fields = <<1>>]>>,
    <<Model, [Model EXCEPT !.suffix = <<>>]>>,
    <<[Inputs EXCEPT !.fields = <<2>>]>>,
    <<[Inputs EXCEPT !.text = <<"", "Voltage">>]>>,
    <<[Inputs EXCEPT !.object = "upsUnknown"]>>,
    <<[Inputs EXCEPT !.object = "outletEntry"]>>,
    <<Scaled(Inputs, NoNumber)>>,
    <<Scaled(Model, 10)>>,
    <<Scaled(Inputs, 0)>> >>

MCAuthorities == {{"V2"}, {"V2", "V3"}}

\* The server was started in a directory with a file of the same name as one of
\* the library's.
MCHome == [f \in {1} |-> <<Inputs>>]
====
