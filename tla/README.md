# TLA+ models of go-iot-client

go-iot-client is a Go library of clients for industrial devices: Modbus (TCP,
RTU over TCP, RTU, ASCII), Mitsubishi MELSEC 3E, Omron FINS, Allen-Bradley
EtherNet/IP and Siemens S7. Each client has one connection, one mutex, and a
loop that repeats a request on a fresh connection when an attempt fails. These
modules model the clients with the network and the device around them, check
them with TLC, and prove with TLAPS, for instances of any size, every safety
property that the runs check of the clients, of the mock server and of the Modbus
frames, but for one: that damage to a frame is noticed. Modbus over TCP, Omron,
Siemens and Mitsubishi with their devices are each proved to implement an abstract
service, which says all that their callers may count on.

## 1. Inventory

| Component | Code | State | Operations |
|---|---|---|---|
| Modbus client | `clients/modbus/stub_clients.go` | `mu`, `conn`, `transID`, `retry`, `unitID`, `timeout`, wire mode | Open, Close, Connected, reads, Write, setters |
| Modbus on serial lines | the same file: `RtuClient`, `AsciiClient`, `serialDial` | the same, over a port that outlives its closing | the same |
| Modbus frames | the same file | none | requests, checksums, the three readers of replies, the checks of a PDU |
| Allen-Bradley client | `clients/plc/allen_bradley_client.go` | `mu`, `conn`, `session`, `retry`, `slot`, `timeout` | the same, and a session registration per connection |
| Mitsubishi client | `mitsubishi_client.go` | `mu`, `conn`, `maxRetries`, version, route, timeouts | the same; reconnects after a failed attempt |
| Mock MELSEC server | `mock/server.go` | listener, `mu`, `words`, `failNextRequest` | a goroutine per connection; SetWord, GetWord, FailNextRequest, Close |
| Omron FINS client | `clients/plc/omron_fins_client.go` | `mu`, `conn`, `retry`, `da1`, `sa1`, `unitAddress` | the same, and a handshake per connection that assigns `da1` |
| Siemens client | `clients/plc/siemens_client.go` | `mu`, `handler`, `client`, `connected`, `retry` | the same, over the library gos7 |
| Results, errors, retry policy | `core/`, `result.go` | none | `Normalize` |
| Interface and aliases | `clients/` | none | `IoTClient` |

How they interact. Goroutines of the application share a client; all that a
client does with its connection happens under `mu`, which a request holds
through all its attempts and the pauses between them. Client and device
exchange one request and one reply at a time on a TCP connection (a serial line
for RTU and ASCII). In the tests the Mitsubishi client talks to the mock server,
whose connections share its registers under its own mutex.

What is hard. (1) *Late answers*: a reply may come after its deadline; most
protocols here have no identifier to tell it by, so the client must not use the
connection again. (2) *Repetition*: a request that timed out may have been, or
may yet be, executed. (3) *Death of idle connections*: the client learns of it
from the next request. (4) *State read before the mutex*: sessions and node
addresses go into a command before its connection exists. (5) *Open and Close
between calls* replace the connection others are about to use. (6) *Waiting*:
one attempt that never ends would stop everybody. (7) *Numbers that wrap*:
transaction identifiers, register numbers, lengths.

What makes each part correct: no socket but the one in use is held; the
connection in use carries only the exchange of the call that holds the mutex; a
read that succeeds returns what the device reported to that call, and a write
that succeeds was executed; a call is executed at most once per attempt; a call
fails only after more faults than its retries; every call returns. For the mock
server: requests are atomic, and an injected failure hits one of them. The
hazards of PROJECT.json name the lines where each of these could go wrong.

## 2. Modules

| Module | Stands for | Built on |
|---|---|---|
| `Wire` | TCP connections of one client: dial, close, messages both ways | |
| `DataService` | what a client and a device of single values promise | |
| `BlockService` | the same for runs of registers, which others write too | |
| `TransferService` | the same for transfers in several parts | |
| `ModbusClient` | Modbus over TCP and RTU-over-TCP, and its device | `Wire`, `DataService` |
| `WireProofs` | lemmas about connections and queues | `Wire` |
| `SerialModbusClient` | the Modbus client over a serial line | `ModbusClient` |
| `ModbusFrames` | one Modbus exchange in bytes, for any checksums | |
| `ModbusChecksums` | the two checksums | |
| `ModbusClientProofs` | theorems, on TCP, on a serial line, of frames | `SerialModbusClient`, `WireProofs`, `ModbusFrames` |
| `AllenBradleyClient` | EtherNet/IP client and its device | `Wire` |
| `AllenBradleyProofs` | theorems | `AllenBradleyClient`, `WireProofs` |
| `OmronFinsClient` | FINS/TCP client and its device | `Wire`, `DataService` |
| `OmronFinsProofs` | theorems | `OmronFinsClient`, `WireProofs` |
| `SiemensClient` | S7 client, with gos7 and the device around it | `Wire`, `TransferService` |
| `SiemensProofs` | theorems | `SiemensClient`, `WireProofs` |
| `MelsecMessages` | requests and replies of MELSEC, and their effect on registers | `Wire` |
| `WordServer` | the mock server with atomic requests | `MelsecMessages` |
| `MockServer` | the mock server as coded, word by word | `MelsecMessages`, `WordServer` |
| `MitsubishiClient` | the MELSEC client | `MelsecMessages` |
| `MitsubishiSystem` | client and server composed | `MitsubishiClient`, `WordServer`, `BlockService` |
| `MelsecLengths` | lengths in MELSEC frames | |
| `MelsecProofs` | theorems about lengths, lemmas about requests and registers | `MelsecLengths`, `MelsecMessages`, `WireProofs` |
| `MockServerProofs` | theorems, of the refinement above all | `MockServer`, `MelsecProofs` |
| `MitsubishiProofs` | theorems | `MitsubishiSystem`, `MelsecProofs` |
| `MC...` | instances for TLC | |

**Connections.** `link[k]` is a connection, "up" while both ends hold it, "cut"
when the other end has closed it and the client does not know, "down" when the
client has closed it. Requests outlive the socket, as the device may have them
in its buffers; replies do not. An identifier is free again when nothing of the
old connection is left, so `Conns` bounds what coexists, not how often a client
dials.

**Calls.** A member of `Calls` is one goroutine making one method call. `pc` is
where it is: before the mutex ("blocked", for Allen-Bradley also "build", where
the command is put together), inside the loop of attempts ("attempt", "await",
"registering" for Allen-Bradley, "greeting" for Omron, "reconnecting" for
Mitsubishi), or returned ("ok", "failed" after the last
attempt, "rejected" for an error that is not retried). `mu`, `conn`, `session`,
`transID`, `maxRetries` and `attempt` are the fields and the loop variable of
the code. The steps that the network or the device can come between are actions
of their own; what happens inside one critical section with nothing observable
between is one action. A failed attempt closes the connection and goes to the
next attempt in one action (`AttemptFailed`); the pause in between is not a
state, as nothing but time passes in it.

**Deadlines** are abstract: a dial, a write or a read may fail at any time.
**Frames** are abstract in the clients: a reply is "normal", an "exception" of the device,
"garbled" (recognisably bad) or a "misfit" (sound, but not the answer). Requests
and replies name the call they serve. No client tells replies apart by that name;
only the device, to find the operation, and the properties read it, and the Modbus
client reads through it the kind of the operation, which stands for the function
code of the reply (`Fits`). A reply of the Allen-Bradley device has what a read
finds in it: a value, the status words of an error, or nothing. The handshake of
Omron, when it assigns a node, always assigns that of the device. `ModbusFrames` has the
frames themselves, byte by byte, and what the readers make of them whole,
damaged or cut short; `MelsecLengths` has the lengths that the code keeps in 16
bits.

**Serial lines.** `SerialModbusClient` takes all of `ModbusClient` but the dial,
the end of a read and the environment: opening the port again gives the same line
with the same device, losing the port does not take from the device what it was
asked, a read ends with a frame or with the port, and noise may put on the line
what nobody sent.

**gos7.** The S7 protocol is in a library outside this repository. `SiemensClient`
has the client's own code and takes from gos7 that a transfer is a number of
exchanges on one connection, any of which may fail, and that it may end an idle
connection without a word.

**History.** `seen` (what the device reported to a call), `hits` (how often it
executed a request of the call) and `faults` (what the call met: failed dials,
passed deadlines, ends of connections, errors of the device) are written along
and read by no action of the program. `budget` is sendPDU's local copy of the
policy; in the Mitsubishi client, which has no copy, it is history. `faults` is
counted up to the first one beyond the budget, which keeps it finite. One attempt
may be charged more than one fault, when its connection is ended after it was
refused, say; that makes the properties about masked faults slightly weaker.

**Variants.** Definitions commented as "Variant" are the code with one mistake
in it (the connection kept, the loop once too often, the mutex not released...).
No specification uses them; each property of each run is shown to fail when a
variant takes the place of the definition it varies.

## 3. Runs

All run with deadlock checking. Where all calls have returned the environment
still has steps (a setter may be called), so the systems never stop.

| Run | Bounds | Question |
|---|---|---|
| `modbus_rtu_over_tcp` | 3 calls, 2 connections, 1 block, 1 retry | No identifiers: is every reply that of its call, every socket closed, every failure caused by enough faults, every repetition by a fault? |
| `modbus_tcp` | 2 calls, 2 connections, identifiers modulo 2, up to 1 retry, fairness | Does the inductive invariant of the proofs hold when identifiers wrap, does all this implement `DataService`, and does every call return? |
| `modbus_serial` | 2 calls, 1 line, 1 retry, noise, fairness | What is left of it on a serial line: is the client in step until there is noise or the port is lost while a request is out, and does every call return unless the device is silent? |
| `modbus_frames` | one exchange; reads of 1 to 4 bytes and of more than 2^17, coils, writes of 1 and 123 registers; every bit turned, every byte lost | Is a whole reply taken whole, and a damaged one never for a wrong value? |
| `allen_bradley` | 2 calls, 2 connections, 2 handles, up to 1 retry, a device that does not check handles, fairness | Are sockets, sessions and replies in step, do retries hide faults, and does every call return? |
| `allen_bradley_stale_session` | a device that checks handles; **violation** | Do they, when the handle matters? |
| `allen_bradley_errors` | a device that does not check; **violation** | Is a read or a write that succeeded executed? |
| `omron_fins` | 2 calls, 2 connections, up to 1 retry, another route, a device that checks nodes, fairness | Are sockets, handshakes and replies in step, does it implement `DataService`, does only the stale node defeat the retries, and does every call return? |
| `siemens` | 2 calls, transfers of 2 exchanges, up to 2 retries, fairness | Is what a call reports that of one attempt, do retries hide faults, does it implement `TransferService`, does every call return? |
| `mock_server` | 2 connections, 2 registers, runs of 2 that wrap, fairness | Does the word-by-word server implement the atomic one, and is every request done with? |
| `mitsubishi_system` | 2 calls, 2 connections, 1 register, 1 retry | Client and server: replies in step, failures masked, nothing leaked, and do they implement `BlockService`? |
| `mitsubishi_live` | 2 calls, both kinds of version, fairness | Does every call return? |

Why the bounds are enough to be interesting. Two calls are needed for one to
meet what another left behind; the third of `modbus_rtu_over_tcp` is an Open or
a Close between them. Two connections let an abandoned request coexist with the
connection in use. One retry already separates the first, a repeated and the
last attempt; `siemens` has one in the middle, and the theorems of section 5 are
about any number. SetRetryPolicy is called with a negative number
(and in the safety runs with 1) at any moment that the mutex is free. Identifiers
modulo 2 wrap within a call. Two registers are the fewest on which half a write
can be seen, and runs that begin at the second wrap. A transfer of two exchanges
is the shortest that can fail in the middle. The register of `mitsubishi_system`
makes every run of registers one word; with two registers and one call the same
configuration holds too (141 152 states), and the theorem is about any number.
`modbus_frames` has an odd and an
even length, the lengths around the wrap of ReadString, both limits of a write,
and two write addresses, one of them the coil 131 whose echo a single bit turns
into a shorter frame with a matching checksum. Symmetry is used on calls,
connections and handles, in safety runs only. In `allen_bradley` the device does
not check handles, because with one that does a call can fail without a fault;
`allen_bradley_stale_session` is that case. In `omron_fins` the device checks
nodes, because that is where a stale node bites. With both kinds of device
(`Devices = BOOLEAN`) both configurations hold too, in 566 084 states for `omron_fins`
and 615 175 for `allen_bradley`; they are left at one kind to stay quick. The device
of `allen_bradley` forgets the session of a connection when nothing is left of it, and
gives an error status words only while somebody can read them; neither can be told
from outside, and both keep the number of states down.

What the two violations say. *Stale session*: the Allen-Bradley client copies
`c.session` into a command before it connects, and all attempts send the same
bytes. Against a device that checks handles, a command that had to connect by
itself, and any retry after a reconnection, is refused, and the call fails
without a fault to blame; the docs list reconnection with retry for this client
(`doc/migration/parity-matrix.md:45`, `doc/api/README.md:70`). *Errors*: the
client looks at no status of a reply. `Write` drops it, so a refused write succeeds;
`readRaw` asks only that it be long enough, so a refused read succeeds too if the
error has extended status words, which are returned as the value. The trace is that
of a read. `doc/api/README.md:71` says that error codes are handled. The first is run with a
device that checks handles, which is how EtherNet/IP defines a target; the device
is outside this repository, and the constant `Devices` makes the assumption
explicit.

## 4. Fairness

`Progress(i)`, the steps of a call that holds the mutex, is weakly fair: on TCP
every dial has a timeout and every exchange sets a deadline, so each of these steps
ends, by failing if by nothing else. `Enter(i)`, the steps of a call that waits
for the mutex or has not reached it, is strongly fair: a `sync.Mutex` that keeps
coming free is handed to a goroutine that waits for more than a millisecond (its
starvation mode), but it is not free all the time. Nothing is assumed of the
device, the network, the callers or the mock server. In `mock_server` the
goroutines of the server run (weak fairness) and get the mutex (strong).

A serial port has no deadline. Its read timeout makes `Read` return no bytes and
no error, and `io.ReadFull` asks again, so in `SerialModbusClient` a read that
waits for a frame ends only when the port is gone. `EveryCallReturns` is false
there; `ReturnsUnlessSilent` is what remains: either every call returns, or from
some moment on the call with the mutex waits for a device that says nothing.

## 5. What is proved

Every theorem is about any sets of calls, connections, values and registers, any
number of retries and any policies. They rest on the named assumptions of the
modules only: NoConn, NoCall and NoVal are outside their sets (for Allen-Bradley NoVal is no
status word either), the modulus of
identifiers, the number of registers and that of exchanges in a transfer are
positive, policies are integers, the mode is one of the four, a byte of a frame is
one. The theorems about frames have hypotheses besides, named below.

| Module | Theorem | Property |
|---|---|---|
| `ModbusClientProofs` | `InductiveInvariant` | `Inductive` |
| | `TypeCorrect` | `TypeOK` |
| | `NoSocketLeaks` | `OneSocket` |
| | `RepliesInStep` | `StreamInSync` |
| | `ReadsAreFresh` | `ReadFresh` |
| | `WritesTakeEffect` | `WriteTookEffect`, in no run |
| | `RetriesMaskFaults` | `RetryMasksFaults` |
| | `ExecutionsBounded` | `AttemptsBounded` |
| | `NoNeedlessRepetition` | `OnceWithoutFaults` |
| | `LateTakesAFault` | `LateOnlyAfterFault` |
| | `Implementation` | `ImplementsService` |
| | `SerialInStep` | `InStepUntilDisturbed` |
| | `WholeReplies` | `WholeReplyTaken` |
| | `StringsWhole` | `StringWhole` |
| `AllenBradleyProofs` | `TypeCorrect` | `TypeOK` |
| | `ConnectionsStayInStep` | `ConnectionInStep` |
| | `SessionIsOfConnection` | `SessionOfConnection` |
| | `ReadsAreFresh` | `ReadFresh` |
| | `PolicyKept` | `RetriesAsAllowed` |
| `OmronFinsProofs` | `TypeCorrect` | `TypeOK` |
| | `ConnectionsStayInStep` | `ConnectionInStep` |
| | `OnlyTheStaleNodeDefeatsRetries` | `RetryMasksFaultsUnlessStale` |
| | `Implementation` | `ImplementsService` |
| `SiemensProofs` | `FaultsMasked` | `RetryMasksFaults` |
| | `WholeTransfers` | `TransferOfOneAttempt` |
| | `Implementation` | `ImplementsService` |
| `MockServerProofs` | `ServerTypes` | `TypeOK` |
| | `ServerIsAtomic` | `ImplementsWordServer` |
| `MitsubishiProofs` | `SystemTypes` | `TypeOK` |
| | `NoReplyLeftOver` | `ConnectionInStep` |
| | `ReadsAreFresh` | `ReadFresh` |
| | `WritesTakeEffect` | `WriteTookEffect`, in no run |
| | `PolicyKept` | `RetriesAsAllowed` |
| | `Implementation` | `ImplementsService` |
| `MelsecProofs` | five limits of lengths | below |

That a write which succeeds was executed, `WriteTookEffect`, has no run of its
own: the abstract services demand it of every return, and `modbus_tcp` and
`mitsubishi_system` check that they are implemented.

None of these properties is inductive by itself. Each proof module has its own
`Inductive`, a conjunction of named parts with a comment on each, one lemma per
operator that several steps need, and one step or lemma per action of `Next`.
`WireProofs` has what they all need: what the operators of `Wire` do to the
states and queues of connections.

### Modbus

`ReadFresh` is about the moment a reply is taken, and holds because the only
reply on the connection in use is that of the waiting call (`StreamInSync`) and
because a normal reply on any connection reports what the device told that call
(`Traced`). `StreamInSync` survives a failed attempt because the connection is
dropped, and a new one because a free identifier is empty; it needs that a closed
connection holds no reply (`SocketHeld`) and that the call with the mutex is the
one inside the loop (`LockHeld`). `OneSocket` needs that the connection in the
field is open. `RetryMasksFaults` needs an account kept during the call: each
failed attempt has been charged a fault, and so has the present one if its
connection is dead or its reply will be refused (`FaultsCharged`). `Inductive` is
the conjunction; the run `modbus_tcp` checks it.

How often the device executes a call is a matter of counting: what was executed,
and the requests of the call that are still on some connection, which the device
may execute yet. `Accounted` adds to `Inductive` that no connection holds more
than one request (`OneRequest`), that the sum of both never exceeds the attempts
begun, or those the call was allowed once it has returned (`Counted`), and that a
call that met no fault and succeeded left nothing behind (`CleanReturn`).
`OneRequest` makes the requests of a call as many as the connections they are on,
so `FiniteSetTheorems` can count them; the set is finite because it grows by one
connection at a time, whatever `Conns` is.

`Implementation` says that the specification implements the abstract
`DataService`: initial states map to initial states, and each action to a step of
the service (a call, an execution by the device, a return) or to a stutter.
`Accounted` allows the execution, as the service executes a call no more often
than it may; one more invariant, `Blank`, that only reads carry a value back,
allows the return.

The serial line takes one invariant more, `Quiet`: a port that the client does
not hold, or that is gone, has nothing left to answer. It holds because a read
without a deadline ends only with a frame or with the port, so that no attempt is
given up while the device may still answer it. It ends with noise, or with a port
lost while the device has a request; a port lost between requests leaves nothing to
answer (`LostBetweenRequests`). Under it every step of the serial client is one of
the TCP client (`SerialAsTCP`), except the Open that closes and reopens the same
port; hence `Inductive` holds until then.

### Modbus frames

`ModbusFrames` takes the checksums as parameters, so that what is proved holds
whatever they compute (`ChecksumsFit`: a uint16 and a byte), and `ModbusChecksums`
gives them to TLC. The argument is that each reader undoes its framing. `TCPLine`,
`RTULine` and `TextLine` say where the bytes of an answer stand on the line;
`WholeTCP`, `WholeRTU` and `WholeASCII` that the reader finds the answer there and
stops at the last byte. On RTU that needs the length the reader computes from the
function code and the count (`RTUSizeWhole`); in ASCII that digits are neither
spaces nor ends of lines and have their values (`DigitFacts`, `HexFacts`,
`TrimmedWhole`). `WholeReplies` supposes reads of at most 127 registers
(`ShortReads`): beyond, the count of a reply wraps in its byte and `readRegisters`
refuses it (section 6).

`StringsWhole` is about damaged replies too, so nothing is known of the line but
that it holds numbers; whatever a reader makes a PDU of (`TakenType`), the checks of
`readRegisters` leave only the length asked for. `ExchangeInv` is the invariant of
both: until the call is over, the answer on the line is one to the request, in the
frame of the mode, or harmed.

### Allen-Bradley

Here a connection has two kinds of exchange, and a reply to a registration
carries what the field `session` is to become. So `StreamInSync` says, besides
which call a message is of, that its kind is the one the call waits for, and that
the handle on its way is the one the device has for that connection.
`SessionHeld` takes it from there: once nobody is registering, the field is that
handle, as long as the device serves the connection. That a command is never
ahead of the registration follows: the call that waits for its reply holds the
mutex, so nobody is registering, so the connection has its handle. Nothing here
makes the handle *in a command* the right one, which is the violation of
`allen_bradley_stale_session`.

`ReadFresh` promises less here than for the other clients: a read that succeeds
returns what the device answered to that very read, which may be the status words of
an error, as the client takes them for data. `Traced` says of every reply on the wire
that what it has for a read was answered to that read.

`PolicyKept` has two halves. The bound on executions is `Tallied`, the count of
the Modbus client with registrations left out. That retries hide faults is proved
for devices that do not check handles, `~ checks`, as in the run: `Charged`
charges each failed attempt, and a reply in which a read finds nothing, after which
the call is not repeated, with all the faults it had retries for.

### Omron

The account of faults is that of the Modbus client, and the hard part is what it
may leave uncharged. A reply that refuses a command is a failed attempt without
a fault only if the command bears a node that is not the one of its connection.
So `StreamInSync` says that the command on the connection bears the node the call
read when it was built, and that a connection the device has ended carries no
request; `HandshakeFirst` that the device has seen the handshake of every
connection whose handshake was answered; and `FaultsCharged` that an attempt that
failed, or is bound to fail, is charged, or else the call is `Stale`. That a
call once stale stays so is what lets the account stop there.

In the refinement a handshake on the wire is nothing to the service, so its steps
are stutters, and the only request of a connection is either a handshake or one in
flight (`OneRequest`, `Countable`). A return is a step of the service because of
`AllReported`: a reply the client may take while it waits for a command is one the
device gave when it executed that command, as the answer of a handshake cannot
meet a call that waits for a command (`StreamInSync`). `Unset`, that a call
without a result has no value, does for writes.

### Siemens

A transfer is a row of exchanges, so the invariant has the progress of the attempt
going on: `Progressed(i)` says of each part behind it that the device has served
it in this attempt, and that a read has in its buffer what was served. It is kept
because the only answer on the connection is that to the part asked for
(`InStep`), and is what the device did for that part (`Answers`); a failure
forgets what was served, goes back to the first part and drops the connection. On
the last part it becomes `TransferOfOneAttempt`. Requests on connections that were
given up may still be executed; `Traced` says that they are of reads and writes,
so that this changes memory and nothing else. The assumption that NoVal is no value
of the device is there because a buffer that has not been filled holds it.

`TransferService` gives one call at a time the turn, which is `mu` here, keeps what
was served to it in this attempt (`served`) and whether its next part may be served
(`Asking`, a request on the connection in use), and counts, for each call and part,
the requests of attempts that were given up, here the connections that hold them
(`GivenUp`). Dials, ends of connections and replies are stutters; an attempt that
fails makes a stray of the request it may have out. For that the request on the
connection in use must be for the next part that the service has not served:
`Unserved`, that nothing from the part at hand on was served but perhaps that part
itself, and `Unanswered`, that not even this was while its request is out. A
connection holds one request at most (`OneRequest`) and the connections given up
are finitely many (`Countable`), so that serving a stray takes exactly one off its
count. `Served` is the conjunction, with `Inductive`. A read returns what the
service has for it by `Progressed`.

### Mock server

The server works word by word, and a request takes effect, for `WordServer`, when
it takes the mutex. From then until it lets the mutex go the words of the concrete
server may be half written; the mapping gives `WordServer` the registers with the
rest of the running write already stored, so the steps of the loop are stutters,
and `StoreOneFirst` is the lemma that storing one word and then the rest is
storing the rest. `MutexHeld` says that one goroutine at most is in its loop, and
`InOrder`, for reads, that what it has copied is still what the registers hold. A
request may name no register twice, `RegFacts`, as runs are no longer than the
registers are many; without that the order of its words would matter.

### Mitsubishi client and server

Three places may hold the one exchange of a connection: the requests, the server's
goroutine (`job`), the replies. `OneMessage` says that they hold one message
between them, `InStep` that on the connection in use it is that of the call that
awaits it, and `Traced` that every request is the one its call sends and every
successful answer found what `hits` and `seen` say, on abandoned connections too,
where the server goes on. The reconnection after a failed attempt is a step of its
own with a dial of its own; `LockHeld` says that it begins without a connection, so
that `OneSocket` survives both dials. A reply that is too short, which the client
does not retry, cannot occur: a request for no words is never sent, and an answer
has as many words as were asked for. `Counted` is the count of the Modbus client
with the goroutine's request as one more copy.

To their callers, client and server are `BlockService`. Its registers are those of
the server, a call's requests in flight are the connections that hold one, in the
request queue or in `job` (`Copies`), and the server's step under its mutex is the
execution: of a read, which finds all its words at that moment, and of a write,
which leaves its own words in its run of registers and all others as they were
(`StoredWhole` in `MelsecProofs`, for runs that wrap too). Dials, replies and
reconnections are stutters; a request that an injected failure hits, or that the
server has not taken when its connection ends, is lost. SetWord, called by a test, is the service's own
step, so nothing else changes a register. The invariant is `Served`: `Counted`
makes the copies finitely many, and `Unset`, that a call has no words before it
returns, lets a write and a read of no words return without any. As `MockServer`
implements `WordServer`, this stands on the server as coded, word by word.

### Lengths in MELSEC frames

Arithmetic alone, for every length a caller may ask for:

| Theorem | Limit |
|---|---|
| `WriteWordsPanicLimit` | `writeWords` stays inside its payload exactly up to 65535 words, and panics beyond |
| `WriteLengthLimit` | a frame announces its true length exactly up to 32761 words |
| `ReadStringLimit` | `ReadString` asks for enough words exactly up to 131070 bytes |
| `HandleReadPanicLimit` | the mock server fills a reply inside its buffer exactly up to 32767 words |
| `ReplyLengthLimit` | and announces its true length exactly up to 32766 |

The first says where `doc/api/README.md:69`, by which reads and writes return a
Result and avoid panics, ends.

### Only model-checked

Liveness (`EveryCallReturns`, `HandlersFinish`, `ReturnsUnlessSilent`), which is
out of the prover's reach, as fairness is about ENABLED. `DamageNoticed`, which is
about what the checksums compute: folds over bytes, whose induction is out of
reach, and the bit operations of Bitwise. The two violations stay with TLC by
nature.

## 6. What else the models say

- A read of more than 127 Modbus registers cannot succeed: a reply counts its
  bytes in one byte, the code compares it with twice the registers, and so
  refuses every reply (`stub_clients.go:454`).
- `ReadString` of the Modbus client asks for too few registers from 131071 bytes
  on and returns a shorter string without an error; `StringWhole` ends there.
- On RTU a damaged frame can be taken for a shorter one with a sound checksum
  (unit 3, the echo of coil 131 written off). `writeCoil` rejects the result, but
  after `sendPDU` has returned: no retry, and three bytes stay on the connection.
  The clients' models assume that a reply that parses is read to its end; on TCP
  damage of this kind does not happen, on a serial line it is a case of `Noise`.
- The Omron client reads `da1` for a command before the handshake that assigns
  it. With a device that checks nodes, the first command of a client that was not
  opened fails with all its retries; `RetryMasksFaultsUnlessStale` says that this
  is the only such case.
- On a serial line the client may take the answer to an attempt that was given up
  for that of the next, or of the next call, once there was noise, or once the port
  was lost while a request was out: closing and reopening it (`stub_clients.go:522`
  and 663) reaches the same device, which still answers. `InStepUntilDisturbed` says
  that only these two do this.
- The extended status words of an error are taken for data by the Allen-Bradley reads:
  two of them make a value for `ReadInt16`, one already an empty string for
  `ReadString`. `ErrorsReported` is violated by it.
- `bytesToRegisters` pads an odd slice with `append`, which may write into the
  caller's array (`stub_clients.go:702`). No module has Go's slices.

## 7. Not modelled

- **gos7**: its protocol, and what it leaves open when a Connect fails, as
  `openLocked` drops the handler without closing it (`siemens_client.go:350`).
- **Frames of FINS, EtherNet/IP and S7** but for the verdict on them. The offsets
  of a FINS reply are those of the code; no device is there to compare them with.
- **Damage to requests**: devices take a request as it was sent or not at all.
- **Values**: conversion of integers and floats; the zero bytes that `ReadString`
  cuts off; parsing of addresses, which appears as an "invalid" call.
- `Connected` and `GetWord` change nothing. `SetTimeout`, `SetUnitID`, `SetSlot`,
  `SetRoute`, `SetRackSlot`, `SetSerialMode`, `SetReadWriteTimeout` change bytes
  of frames, lengths of deadlines and parameters of the next dial, all abstract.
  The Mitsubishi client reads its two timeouts without the mutex; with deadlines
  that may pass at any time this has no effect here.
- `autoClose` of the Modbus client is never set in the code.
- Results, wording of errors, request counters and durations.

The service promises no order: a request abandoned on a closed connection may be
executed after its call has returned and after later calls, so a late write can
overwrite a newer one. The models contain this (requests outlive sockets), and
`AttemptsBounded` bounds it and `LateOnlyAfterFault` says that it takes a fault,
but no property excludes it, as the code cannot.

## 8. Plan

Done: every client and the mock server, their runs, the refinements and proofs of
section 5.

Worth adding: an abstract service for Allen-Bradley, which would promise less than
the others, as a read or a write may succeed without having been executed; and the two
refinements of `MockServer` and `MitsubishiSystem` joined into one, with the
word-by-word server under the client.
