# A TLA+ model of ska-low-itf-devices

The repository holds Tango devices for the equipment of a test facility: power
distribution units, UPSs and sensors that speak SNMP, ProXR relay boards, and
MTA chillers behind an XWeb Evo server. Each of them keeps a picture of some
hardware over a network that fails, in threads that the clients of the device
know nothing about. The modules here say what that picture is worth. Paths
below are relative to `src/src/`.

## The system

| part | state | operations | talks to |
|---|---|---|---|
| `AttributePollingComponentManager` | `_pending_writes`, `_last_polled`; from ska-tango-base: communication state, `_component_state` | `enqueue_write` (Tango thread); `get_request`, `poll`, `poll_succeeded`, `poll_failed` (polling thread) | the device through callbacks, the hardware through `poll` |
| `AttributePollingDevice` | State, dynamic attributes | `_dynamic_is_allowed`, `_dynamic_get`, `_dynamic_set`, `_component_state_changed` | clients, the manager |
| `SNMPComponentManager` | connection parameters | `poll` in chunks: SET, then GET; `from_python` | SNMP agent over UDP |
| `types.py` | none | MIB type to Tango attribute, value conversions | |
| `SNMPDevice`, `definitions.py` | the working directory of the process, the dynamic attributes | load, parse and expand a device definition at every initialisation | files, the MIB compiler |
| `ProXRComponentManager`, `ProXRClient` | one TCP connection per poll | `poll`: writes, then reads, one exchange per relay | relay board |
| `MTAChillerManager` | two threads, shutdown and reconnect events, `_attribute_cache` | `start_communicating`, `stop_communicating`, `_monitor`, `_receive_socket`, `_process_new_alarms` | `XWebEvoClient`, the device through callbacks |
| `XWebEvoClient`, `utils.py` | session, `_command_plgid`, `_socket`, configuration | `start` (`login`, `load_config`, `open_socket`), `close`, `maintain_session`, `get_alarms`, `recieve_socket`, `send_command`, the lookups | XWeb Evo server: HTTP and a websocket |
| `MTAChiller` | communication state, power, fault, State | `init_device`, `delete_device`, callbacks | clients, the manager |

What is hard about them, and what makes them correct:

* **Polling.** The write queue is a dict that one thread pops from the back
  while another assigns into it. A poll can fail between any two exchanges.
  Success and failure are both reported in two steps, and values that did not
  change are not reported at all. It is correct if the queue behaves like a
  last-write-wins mailbox, if values and State agree with the communication
  state, and if both recover after every failure.
* **ProXR frames.** Command and relay share one byte, and an answer names
  neither. It is correct if exchanges stay in step and no code means two things.
* **SNMP types.** Correct if what is written is read back, and if clients can
  write what the MIB allows and nothing else.
* **Device definitions.** Correct if every device gets the attributes that its
  own file stands for, each with the value of its own object, and if the mistake
  of one device does no harm to another in the same process.
* **Chiller connection.** Two threads decide about one connection through one
  event, and with the Tango thread all three report to a device without a lock.
  It is correct if the State ends up telling whether there is a connection, if
  the device reconnects, and if it stops for good when it is told to.
* **Chiller alarms.** Full answers and single messages update the same cache
  and the same subscribers from two threads.
* **Chiller values and commands.** A session and a websocket are replaced while
  one thread receives on the old websocket and another sends a command in the old
  session. It is correct if clients read values of their own chiller that are no
  older than the connection, if they can tell from the outcome of a command what
  became of it, and if everything is right again after a disturbance.

`PROJECT.json` lists the hazards one by one with their lines and the properties
that watch them.

## Modules

| module | models | source |
|---|---|---|
| `WriteMailbox` | what the manager promises for writes | abstract specification |
| `AttributePolling` | manager, device, both `poll` methods, operator, hardware | `ska_low_itf_devices/`, `snmp_component_manager.py`, `proxr_component_manager.py` |
| `PolledReads` | history of what each poll could have read | the same |
| `AttributePolling_proofs` | nine theorems about both | |
| `RelayExchange` | what a poll takes for granted of an exchange with the board | abstract specification |
| `ProXRProtocol` | frames, board and byte streams | `proxr_client.py`, `tests/unit/proxr/proxr_simulator.py` |
| `ProXRProtocol_proofs` | four theorems about it | |
| `SNMPTypes` | one attribute between client and agent | `types.py` |
| `SNMPTypes_proofs` | three theorems about it | |
| `DeviceDefinition` | the devices of a process, from definition files to the first poll | `definitions.py`, `snmp_device.py`, `snmp_component_manager.py` |
| `DeviceDefinition_proofs` | four theorems about it | |
| `ChillerConnection` | monitor, socket and Tango thread, device State | `device_manager.py`, `mta_chiller_device.py`, `xweb_evo_client.py` |
| `ChillerConnection_proofs` | five theorems about it | |
| `ChillerAlarms` | the alarm cache and its two sources | `device_manager.py`, `utils.py`, `mta_chiller_device.py` |
| `ChillerAlarms_proofs` | three theorems about it | |
| `ChillerClient` | session, configuration, websockets, values, commands | `xweb_evo_client.py`, `utils.py`, `device_manager.py`, `mta_chiller_device.py` |
| `ChillerClient_proofs` | three theorems about it | |
| `DataTheorems` | lemmas about numbers, lists and recursion that several proofs use | |
| `MCAttributePolling`, `MCPolledReads`, `MCSNMPTypes`, `MCDeviceDefinition`, `MCChillerAlarms`, `MCChillerClient` | values of constants for TLC | |

Operators whose comment starts with "Defect:" are not part of a model. Each is
a definition with a plausible mistake in it, which some property must notice.

### AttributePolling

The polling thread is a program counter `pc`: `drain` (`get_request`), `connect`
(ProXR only), `poll`, `succeeded` and `update` (the two reports of
`poll_succeeded`), `failed` and `unknown` (the two of `poll_failed`), `sleep`,
`stopping`, `stopped`, and `hung` for a `recv()` that never returns. A single
`popitem()` is a step, because only that is atomic, and so is one exchange with
the hardware. Values are numbers, every new one larger than the ones before, so
that "older" and "newer" can be told apart. `age` stands for `now -
_last_polled`; it saturates above the longest finite period, and `Inf` is the
initial minus infinity as well as the period `.inf`. An exchange that gets no
answer may have reached the hardware or not; one that gets an answer may still
have been refused, since the code looks at no error status. What the hardware
accepts is in `taking` until `TakesEffect`, at any later moment, since "the internal
state of the device as returned by a GET may not have changed yet"
(`snmp_component_manager.py:86-87`). For the same reason as with writes, an answer
to an SNMP GET brings values for any part of the attributes asked for (`Valued`):
for none when it has an error status, for one of two when both name the same
object. `reachable` says whether exchanges come to anything; without it they time
out, are refused, or bring an answer that PySNMP or a conversion raises for. The
variables `stamp`, `latest`, `sent` and `lost` record the fate of writes; only
`stamp` is read, to number the values and to bound them.

`PolledReads` adds two more variables of that kind and constrains nothing:
`omitted`, the attributes that the last answer about them left out, and `held`, all
the values that the hardware held while the last poll was under way. Two properties
need them. `InvalidOnlyIfOmitted`: between polls clients read `ATTR_INVALID` of such
attributes only. `CacheCoherent`: an attribute polled every time shows a value of
`held`, so nothing from before the poll and nothing that a client wrote and the
hardware does not hold.

What ska-tango-base does is modelled from how the code uses it: start and stop
are asked of the poller and noticed between polls; communication states drive
the State except ESTABLISHED, which waits for the power; unchanged values are
not reported.

### ProXRProtocol

Byte by byte, since the properties are about bytes. The board is the simulator
of the repository's tests. A `recv()` returns all that has arrived, or with
`Fragmented` any part of it. Every poll has a connection of its own, whose end
throws away both streams. It implements `RelayExchange`: an exchange is asked,
the board does what it is asked to, the answer comes and is true, or the exchange
fails. That is what `ProXRWrite` and `ProXRRead` of `AttributePolling` are made
from, a request that is carried out or not and answered or not; nothing in a poll
need know of bytes.

### SNMPTypes

An SNMP type is a record of its named values, constraints, access and scaling
factor. Constraints are ranges, or `others` (unions, single values), each the set of
intervals it allows; with one of the others an integer has no limits for Tango.
`PythonToSnmp` is `None` where the code raises, which it does for every value of an
attribute past the 63-bit boundary: its `dtype` is `DevULong64`, which is no class
for `issubclass`. From the type follow the arguments for Tango (`IntegerArgs`,
`EnumFromNamedValues`), what Tango accepts, and both conversions. `OnTheWire` is
the standard's own encoding of bits, written independently of `EncodeBits`. The
64-bit limits are the constants `SignedMax` and `UnsignedMax`.

### DeviceDefinition

A device that is initialised goes through `stage`: `getcwd`, `chdir`, `open` and
`restore` are the steps of `load_device_definition()` that meet the working
directory `cwd` of the process, `parse` is `parse_device_definition()` with the
rest of `create_component_manager()`. It ends `ready` or `failed`, and may be
initialised again. `Parseable` says for what the code raises, and
`ParseDeviceDefinition` what a good definition becomes: lists in the order of the
code, collected into a dict by name. `Product` and `Keys` are recursive functions,
as is `Constrained` of `SNMPTypes`, so that the proofs can see what they compute. A template's name is a list of texts and of the
positions of the indexes between them. `Poll` asks for all attributes in chunks
and looks in `oid_attr_map` (`Owner`) for the `MibSymbolic` form of each answer: the
object and its flattened indexes, as they come back by their syntax. What a
definition writes as text comes back as characters, or as a number if that is what
it names, and without an attribute of that identity the whole poll raises
(`KeyErrors`).
The properties are about sets (`Declared`), written without the order and the
folds of the code. `overlapped` records which loads met another one.

### ChillerConnection

Each manager has a monitor and a socket thread with a program counter each; the
Tango thread has another one, `main`. A report to the device takes three steps
(`ReportComm` or `ReportPower` stores, `Decide` computes the State from what is
stored, `SetState` sets it) and `report[t]` says how far thread t is, since
nothing keeps two threads out of `_update_state` at once. `sock` is the client's
`_socket`; `stale` says that the socket thread is receiving on one that has been
replaced. `link` is the network and the server together: while it is up they
answer within their timeouts. Threads die (`dead`) where the code lets an
exception out. `ConstructorFirst` says whether a connection may be made before
the constructor has returned.

### ChillerAlarms

The server has a set of active alarms, of this chiller and others. The monitor
thread turns an answer, the socket thread a message into updates in `todo`, and
both carry them out in two steps per alarm: cache, then event.

### ChillerClient

The two threads of `ChillerConnection` again, with what they carry and without
State, alarms and stopping. `monitor` is at one request of the client each:
`login`, `config`, `open`, `maintain`, `alarms`. `socket` is the client's
`_socket`, with the messages that the server has sent on it and nobody has
received; `old` is the one that the socket thread is still receiving on after it
was replaced. A message is a function from variables to values; values are
numbered in the order of their changes, so that "older" can be told. The socket
thread processes the datapoints of a message one by one, in any order, while the
monitor may replace everything. `call` is the Tango thread in `_send_command()`.
A command that has been sent is in `requests` until the server carries it out or
refuses it, whether or not anybody still waits for the answer. `past`, `base`,
`replaced` and `fresh` are history; of these, only `past` is read by actions, to
number the values.

## Runs

| run | states | shows |
|---|---|---|
| `polling_snmp` | 1.1M | safety of queue, cache and State, refinement of `WriteMailbox`: two attributes, one always polled and one once, one object per PDU, two writes; answers without values, writes that take effect late |
| `polling_proxr` | 4.0M | the refinement for the ProXR poll, with three writes or changes of the hardware by itself |
| `polling_liveness` | 268k | recovery, convergence, outages noticed, stopping, writes concluded |
| `proxr_protocol` | 13k | eight relays, all states of the board; refinement of `RelayExchange` |
| `snmp_types` | 7k | some 750 types: chains of up to three ranges on both sides of every limit, unions and single values, all enums over 0..5, bits of one and two bytes |
| `chiller` | 204k | two managers in turn, threads that die, a slow constructor: threads gone, socket closed late, DISABLED stays, stopping ends, connections settle, outages are detected |
| `definitions` | 915k | two devices and the process' working directory, eighteen small files: templates like those of the library, indexes that are text, one mistake each |
| `client` | 672k | values are the chiller's own and no older than the connection, outcomes of commands are true, the client recovers |
| `alarms` | 127k | no foreign alarm, no confirmed alarm lost, the cache converges |

Where a monitor has died of an exception, it leaves its socket thread behind,
which then receives on a socket that the Tango thread closes, may report after
DISABLED and may meet the next manager. The properties of `chiller` that this
breaks say so (`Orphaned`).

The other runs end in a counterexample, each for a disagreement between the
code and what a comment, a test or the documentation says of it; `PROJECT.json`
quotes both sides under `findings`:

* `proxr_hang`: a silent board keeps the device from becoming DISABLEd.
* `snmp_two_bytes`: bits from the second byte on are lost when they are written.
* `chiller_unknown`: connected and UNKNOWN.

More of the kind can be seen in the models, without a run of their own:

* An attribute with the period `.inf` "will be polled only once" (`README.md`),
  but `Due` reads it again in every poll that writes it. When that poll fails
  between the two, or the write takes effect after the read, the attribute is not
  read again and keeps its old value. So `AttributesConverge` promises the
  hardware's value for finite periods only.
* "This determines how many OIDs will be stuffed into an SNMP Protocol Data Unit"
  (`snmp_component_manager.py:68`): with so many that the agent answers `tooBig`,
  `_snmp_cmd` passes over the error status, the poll succeeds without values, and the
  device is ON with attributes that stay INVALID.
* Attributes with unsigned 64-bit objects can be read and not written: in
  `snmp_types`, `PythonToSnmp` is `None` for all their values.
* For an integer with a union or a single value among its constraints, `snmp_types`
  has clients write values that the MIB does not allow; `OnlyLegalIsWritten` leaves
  such types out. What PySNMP itself refuses when the object is made fails the poll
  and is part of `reachable`.
* In `definitions`, one index written as text makes every poll of its device raise,
  so that it never gets a value. None of the library's files has such an index.
* An accepted write is thrown away when the poll fails before sending it:
  `get_request` has emptied the queue, and nothing puts it back. `enqueue_write`
  says "Queue an attribute value to be written on the next poll."
  `NoWriteVanishes` counts these writes in `lost`.
* When `get_alarms` fails right after a connection was made, the handler asks for
  a reconnection and reports nothing: the State is ON while there is no
  connection. `manual_test_reconnect` expects UNKNOWN after a minute without
  network.
* In `definitions`, two loads that overlap can end with one device finding no
  file, or a file of the same name where the server was started: without
  `~overlapped`, `LoadsItsDefinition` and `OnlyOwnMistakesFail` are violated. The
  devices of a server are initialised one after another at its start; Init
  commands of clients are not kept apart.
* A name that leaves out an index that varies, or that an earlier template has
  used, silently replaces the earlier attribute, where the documentation has "one
  attribute is created for each element of the cartesian product". Of two
  attributes that read the same object in one chunk, the first gets no value, and
  the device is ON with that attribute INVALID.
* A command that the server refuses, or does not answer in a minute, ends like
  one that succeeded: `_send_command` swallows the exception. It may also be
  carried out later, after a command that was given later.
* In `client`, a value received on the replaced websocket can be newer than the
  first message of the new one, which then takes clients back to the older value
  until the newer one comes again.
* `proxr_protocol` with `NumberOfRelays = 9` violates `AnsweredWriteTookEffect`:
  switching relay 9 on is the code for reading relay 1. With `Fragmented = TRUE`
  it violates `HeardIsTrue`: what is left of a split answer becomes the next one.
* `snmp_types` with writable bits named 0 and 3 only violates
  `OnlyLegalIsWritten`: the entries that fill the gap can be written, since
  `python_to_snmp` returns before it looks for them.
* `CloseClient` and `MonitorCloses` of a manager that never connected: `close()`
  of None raises, and `delete_device` ends before it reports DISABLED.
* `ConnectKills`: the OSError of a websocket connect ends the monitor, and with
  it all reconnection.
* In `alarms`, an answer made before an alarm and applied after its message
  hides the alarm until the next poll; and `cache` and `event` can end up
  different, when the two threads write one in the one order and the other in
  the other.

### Bounds

* Two attributes: the properties of the queue are about one attribute or a pair.
* `MaxStamp`: with three writes one of an attribute is in the queue, one in the
  request and one sent (`polling_proxr`, where `ImplementsMailbox` is about their
  order). Two are enough for what `polling_snmp` and `polling_liveness` are about
  besides, one that is overtaken or lost and the one that follows; the order of any
  number is proved. It also keeps a client from writing faster than the queue is drained, in
  which case the drain in `get_request` would not end.
* `MaxAge` 1: a period is zero, one tick, or infinite. Longer ones only delay.
* `MaxObjects` 1 where the order of exchanges matters; 2 in the liveness run.
* `MaxStarts` 2: one Init command, so that a manager and its successor meet.
* `MaxRaises` 2: two alarms, or one that is raised, ended and raised again.
* `MaxInits` 2: a device is loaded, or fails, and is loaded once more, in every
  order with another device. `MaxObjects` 2 with up to seven attributes gives full
  and partial chunks. The files are small, but of every kind in the library, and
  each check of the code has a file that fails it alone.
* `MaxChanges` 1 and `MaxCommands` 1 (whose execution is another change): one
  value that is known before, one that changes while a websocket is replaced, and
  one that a command changes. Reconnections, broken websockets and expired
  sessions are not bounded; a websocket holds the messages of those changes.
* Alarms and relays: the codes a device knows are treated alike; two known ones
  and one unknown, this chiller and another. All eight relays.
* `Drift` is TRUE in `polling_proxr` only. That the hardware changes by itself makes
  no difference to the other properties, which compare with what it holds at the
  time; `CacheIsCoherent` is proved for both.
* `SignedMax` 15 and `UnsignedMax` 31 stand for the 64-bit limits; TLC's own
  integers have 32 bits.

The models never stop of themselves (the network can always change), so
deadlock is checked in every run but `definitions`, where all devices may have
been initialised as often as the bound lets them.

### Fairness and assumptions

* Threads are scheduled (weak fairness of each thread's actions), time passes,
  a client request that was admitted is carried out. Clients, the operator, the
  network and the hardware owe nothing.
* `AttributesConverge` has two hypotheses of its own. `KeepsAnswering(a)`: the
  hardware is fair to an attribute that it is asked for again and again; one that it
  always leaves out never gets a value. And what it has accepted has taken effect
  for good: values are compared with what the hardware holds, which moves until then.
* HTTP requests and `recieve_socket` have a timeout of a minute in the code, so
  their steps are fair. The `recv()` of ProXR has none: `hung` has no way out,
  and the liveness run of polling is therefore about SNMP.
* The server owes `client` no answer, no change and no command carried out. It is
  assumed to send the values of all variables first on a new websocket, as in the
  recorded messages of `tests/mta_chiller/response_data.py` (`"first":1`), to
  deliver messages of one websocket in order, and to carry out a request once at
  most. Its configuration does not change, and an answer to a login that is not
  an error has a session. `ClientRecovers` excepts a manager of which a thread has
  died of an exception, since nothing starts it again.
* The recovery properties start from "from some point on reachable and asked to
  poll" and its counterparts: nothing is promised under a network that keeps
  flapping.
* `ConstructorFirst`: `init_device` starts the monitor before the constructor
  has assigned the fields its reports use. Three network round trips normally
  take longer than the rest of the constructor. Where they do not, the monitor
  dies or its report is overwritten. `chiller` explores both; the two runs with
  counterexamples set it to TRUE, so that they show something else.
* The constants have assumptions, which TLC evaluates in every run.
  `FlavoursAssumption` (`SNMPTypes`): one of the constraints of every integer type
  keeps it within 64 bits, signed or unsigned, as the base types of SNMP do; it is
  what `_attr_args_from_integer_type` chooses between. `BytesAssumption`: `None` is
  no list of bytes. `ContentsAssumption` (`DeviceDefinition`): a file that can be
  read is a list of templates whose ranges are pairs of numbers, as `_expand_attribute`
  unpacks them. `VariablesAssumption` (`ChillerClient`): the server has exactly one
  variable of each name of a `Detail` for the chiller, as in
  `tests/mta_chiller/response_data.py`; the code matches values to attributes by that
  name alone: two variables of a name would overwrite each other in the cache, and
  none would leave it empty. Elsewhere they only keep `None` apart from values.
* A chiller that sends nothing for a minute makes `recieve_socket` time out and
  the connection be made anew; for the model that is a `link` that is down.

## Proofs

Every safety property of the runs that end in no counterexample is a theorem of
its specification, for every value of the constants that the assumptions allow.
Each proof has the same shape: an inductive invariant, which TLC has checked on
the instance of the run first, one step of proof for each action, and the
property as one of its clauses or a consequence.

**`AttributePolling_proofs`**: any attributes, periods, transport, chunk size
and number of writes.

* `TypeCorrect` is inductive by itself. Lemmas about `Assign`, `Overlay` and
  chunks say what the dict operations do to sequences of entries.
* `WriteOrder` is inductive given `TypeOK`. It has to speak of the queue and the
  request together, and of `sent` and `lost` as well as `latest`. `QueueSteps`
  first reduces the many actions to the four that touch writes: enqueue, pop,
  transmit, everything else.
* `SentMonotone` and `MailboxRefined` follow from `WriteOrder` step by step;
  `BatchesInOrder` and `WritesAccountedFor` are inductive on top of it.
* `StateMatchesComm` needs `StateInv`: what communication state, power and State
  are at each `pc`, since the two callbacks are remembered separately.
* `InvalidOnlyIfOmittedAlways` needs `UnreadInv`, that an attribute without a value
  has an infinite age, and `OmittedInv`: it is therefore in the request, in its
  response, or was left out of an answer, on every path from the drain to the report.
* `CacheIsCoherent` needs `CoherenceInv`: an attribute polled every time is in every
  request, and is still to be read, was left out, or has a response that the hardware
  held since the request was built. Both are theorems of `ReadSpec`, which
  `ReadRefines` shows to be `Spec` with a history, so that what is proved of `Spec`
  can be used.

`SentMonotone` proves an action property, `SentNeverRegresses`, that no run
checks: `ImplementsMailbox`, which every polling run checks, is the stronger one.

**`ProXRProtocol_proofs`** assumes at most eight relays and answers in one piece,
both of them necessary (see above). `InStep` is the invariant: the streams are
empty while no request is open, else they hold that request or its answer, and the
answer to a write is there only when the relay has switched. From it follow the
three properties and, step by step, `ExchangeRefined`. `DecodeCode` is the
arithmetic of the three ranges.

**`ChillerConnection_proofs`**: any number of managers. `ConnectionInv` adds to
the properties where each thread can be inside a report (`ReportsInPlace`), that
managers and threads are made in turn (`MadeInTurn`), that whoever has passed a
join finds the joined thread over for good (`JoinsHold`), that there is a
`_socket` wherever the reconnect event is or will be clear (`ConnectedBefore`),
and what the last report of a stopped device is (`StoppedReports`). The last is
why nothing speaks up later: at `stopped` there is no other thread that could be
inside a report. In doing this the overlapping cases of the state matrix
(`OpState`) had to be put in the order in which the code tests them.

**`ChillerAlarms_proofs`**: any codes and chillers. `FromThePast` traces every
update on its way back to an alarm that there was; `StillHeld`, `Cached` and
`ConfirmedCached` follow an alarm that stays from one answer to the next while the
other thread only ever raises (`TodoIs`). The half-done update (cache written,
event not yet) is what the clauses except.

**`ChillerClient_proofs`**: any configuration, changes and commands. Commands and
values share no variable but those of the session, so there are two invariants.
`CommandInv`: a command is in one request at most, and in none once it is done
(`RequestedOnce`); what the Tango thread has been told is so (`CallIs`) and what it
has told the client (`OutcomeIs`). `ValueInv`: all numbers on the way are values
that the variable has had. `FreshInv`, for the age of values: the first message of
a websocket is about all variables and stays first until the socket thread takes it
(`AllComeFirst`), and while it is processed what is not yet cached is still in
`batch` (`FirstProcessed`), which a replacement of the websocket must not spoil
(`SinceConnection`, `InPlace`).

**`SNMPTypes_proofs`**: any types and values, any widths of the 64-bit types.
`ConstrainedExactly` says that the reduced range is the intersection of all of
them; from it `LegalIsWritableAlways`, of types up to 63 bits (`FitsLong`), whatever
their other constraints, and `OnlyLegalIsWrittenAlways`, of types with nothing but
ranges. The other two theorems have one hypothesis
each, and each of these is what the code gets wrong: `OneByteWhenWritten` (writable
bits fit into a byte; without it `snmp_two_bytes` is violated) and
`NoGapsWhenWritten` (they leave no gap; without it see `OnlyLegalIsWritten` above).
The integers and enums of these theorems need neither.

**`DeviceDefinition_proofs`**: any devices, files and number of initialisations.
`LoadInv` says that two devices which are loading know of each other (`LoadsMeet`),
so that one which knows of none is in the library when it opens its file
(`InLibrary`), has its own contents (`HasItsFile`) and becomes ready with them
(`LoadedAlone`), wherever a failure has left the process. `ParserIsRight` is about
the parser alone: for every definition `ProductIs` gives the vectors of the index
product, `AllExpandedAre` the attributes of all templates, `DictIs` one of them for
each name. `PollIsOwn` with `ChunksCover` and `UpdatesAre` says the same of the
answers to a poll, for any chunk size and any syntax of indexes (`MibSymbolic` is
never expanded): with `KeyErrorsAre`, either every answer finds an attribute of its
identity, or some index is written otherwise than it comes back. How a name is formatted, and which
definitions are refused (`Parseable`), the proofs leave open.

**`DataTheorems`** has what the proofs about data need. Induction comes from
`WFMin` of the library, by way of sets of numbers (`AllNumbers`, `Upwards`), since
a rule over predicates cannot be instantiated. `Recursion` says that a primitive
recursive function exists; only then is the equation by which a model defines one
known to hold, and `Upwards` proves what it computes.

Only model-checked is liveness: ten properties of `polling_liveness`, `chiller`,
`client` and `alarms`, since the prover has no rule for fairness.

## Not modelled

* Finding, fetching and compiling MIBs, which is PySNMP's; a MIB is a map from
  objects to their access, to whether they are integers and to the syntax of their
  indexes. What PySNMP takes an index for that it cannot read by that syntax.
* The placeholders that a reply may carry instead of values, with an error status or
  for an object that the agent does not have: `snmp_to_python` passes them on as they
  are, and to the manager they are values, which an attribute with the period `.inf`
  keeps. The models take them for no value.
* Arguments of Tango attributes that a definition overrides.
* How Tango reads properties and makes dynamic attributes.
* The walk through the JSON of XWeb answers (what is taken from them is
  modelled), wording and logging.
* The type declarations, the package files, and the definitions of the library,
  which are data: `MCDeviceDefinition` has small ones of the same kinds.
* Strings and opaque floats: libraries convert them.
* Websockets that a reconnection leaves open, beyond the last one: they and their
  reader threads accumulate in the library. The processor time of the spinning
  socket thread.

## Plan

Done, in this order: `WriteMailbox`, `AttributePolling` and its proofs;
`ChillerConnection`; `ChillerAlarms`; `ProXRProtocol` and its proofs; `SNMPTypes`;
`DeviceDefinition`; `ChillerClient`; `RelayExchange` with its refinement; the
proofs for the three chiller modules, `SNMPTypes` and `DeviceDefinition`.

Next:

1. An abstract `DeviceState` specification (DISABLE, UNKNOWN, ON) that the polling
   device implements, and the chiller device as far as it does, with the
   refinement proved from `StateInv`.
2. A composition of `RelayExchange` with the ProXR poll of `AttributePolling`,
   which have only their reading in common so far.
3. What `Parseable` accepts, as a lemma: every object has an index vector that its
   name can be formatted with.
