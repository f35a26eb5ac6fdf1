# A TLA+ verification of unframeo

unframeo is a command-line client, in Go, for Frameo photo frames. It pairs
with a frame, finds it on the local network or reaches it through the vendor's
grid and a relay, and sends, lists, fetches, hides and deletes photos. These
modules model the parts of it where goroutines, timeouts, late answers and
crashes meet; TLC checks them on small instances and TLAPS proves their
safety properties for every value of the constants. `PROJECT.json` maps every definition to
the lines of source it stands for.

## The system

| component | source | state | operations | what is hard |
|---|---|---|---|---|
| grid connection | `internal/sdg/grid.go` | table of pending calls, next id, cause, done, socket | `call`, `deliver`, `handle`, `shutdown`, `Close`, two loops | replies late, repeated, after a call gave up; a shutdown from any of three goroutines overtaking everything |
| bring-up, keepalive | `grid.go`, `conn.go` | sequence number and time of the last ping, round trip, deadline | `negotiate`, `awaitControl`, `sendPing`, `notePong`, the ticker | pongs of earlier pings, a number that wraps, a grid that talks for ever, a deadline left behind |
| racing the servers | `grid.go`, `conn.go` | one goroutine, socket and watcher per server, a results channel | `Dial`, `dialOne`, `closeLateWinners`, `watchCtx` | late winners, cancelling the losers but not the winner |
| reaching a frame | `cmd/unframeo/main.go`, `grid.go`, `forward.go`, `local.go`, `pairing.go` | a lookup, a dial in the background, a relay, a tunnel | `connect`, `Grid.Connect`, `Grid.Pair`, `DialLocal` | fallback, disposing of what was opened for nothing, contexts that end on return |
| peer connection and client reader | `peer.go`, `conn.go`, `frameo/client.go` | nonce counter, two bounded queues, two read loops | `Send`, `Recv`, `Close`, `await` | back-pressure both ways, writes cut short, who drops what at the end |
| photo download | `frameo/media.go` | header, bytes so far, attempt | `GetMedia`, `getMediaOnce`, `discardPending` | answers to abandoned requests, restarts, deadlines between any two messages |
| messages in parts | `frameo/multipart.go` | parts held per message | `split`, `add`, `reset` | order, repetition, integer widths, abandoned messages |
| configuration | `config/config.go`, `main.go` | file, temporary file, a copy per process | `Load`, `Create`, `Save`, `AddFrame`, `RemoveFrame` | death between two system calls, two processes |
| uploads, listing, deleting | `media.go`, `client.go` | id of the awaited acknowledgement | `SendPhoto`, `DeleteMedia`, `SetMediaVisible`, `ListMedia`, `GetInfo` | late acknowledgements, answers told apart only by type |
| discovery | `mdns/mdns.go`, `mdns/collect.go` | records per instance, a bounded packet queue | `browse`, `absorb` | records in any order, dropped datagrams |
| get and send: files | `main.go`, `download.go` | the disk, a temporary directory, a budget | `cmdGet`, `getTarget`, `writeWhole`, `cmdSend`, `resolveSources`, `download` | death between two system calls, a full disk, two processes, names that collide, a budget over several URLs |
| tunnel | `conn.go`, `handshake.go`, `crypto.go`, `nonce.go`, `pairing.go` | keys, a counter, the stage of the handshake | `handshakeAny`, `sendMESG`, `recvMESG`, `runPairing` | who is at the far end, nonces that must not repeat, a wrong code |
| encodings, presentation | `packet.go`, `frame.go`, `types.go`, `errors.go`, ... | none | pure functions | |

How they interact: a command loads the configuration, reaches the frame
(discovery and `DialLocal`, or the race for a grid connection, a call on it and
a relay), and gets a `Peer`, whose read loop feeds the client's, whose queue
feeds the one operation that runs. A write that fails, a read that fails and a
`Close` all end in the same `shutdown`, which closes the channels the others
wait on. Contexts are turned into closed sockets by `watchCtx`.

What makes each correct: a caller of the grid gets its own reply or the true
cause, and always returns; a round trip is of one ping; a dial fails only when
every server has, and leaves nothing behind; the frame reached is the one asked
for; messages are never reordered and never lost from the middle; a photo
returned is that photo; what is confirmed was done; a configuration or a photo
on the disk is never half written; a tunnel is with the peer it is taken to be
with, and no nonce serves twice.

## Modules

**CallService, Grid, GridProof.** `CallService` is what a caller of the grid is
promised: it asks, and gets the answer to what it asked, a failure while the
connection is up, or the end of the connection; and it always returns when the
connection ends, or, once its request is written, when its context does. The
write itself is not covered by the context: it has no deadline after bring-up
(`grid.go:128`) and holds `sendMu` (`conn.go:140-144`), so a grid that does not
read holds up its writer and everybody behind it until the connection ends.
`Grid` is the code: `cpc` is where each call
is in `Grid.call` (register under the lock, send, select, forget), `pending`,
`nextID`, `err` and `stage` are the fields of `Grid`, `buf` and `closed` are
the reply channels, `waiters` the table `shutdown` took away, `tpc` the two
loops, and `writer` who holds `sendMu`. A section under the lock is one action; every
channel operation is another. A `select` is one action per case, all enabled
when several cases are ready. `Service` is `CallService` under the refinement
mapping at the end of `Grid`.

**Tunnel, GridPing, BringUp, TunnelProof.** `Tunnel` is `handshakeAny` packet by
packet, the messages after it and the pairing exchange, over a sequence of
connections (`plan`); `conn` and `tun` are the two ends, with their keys and
counters. Cryptography is symbolic: a box records the keys, the nonce and the
plaintext it was made with (`sealed` keeps all of them), and opens for the same
keys and nonce. `made` numbers the random keys. The far end is external, follows
`sdgtest`, and may be another one than was meant, show another code, hang up or
say nothing. Between the two there may be a stranger, external too: a relay, or a
device that was reached by mistake. It takes packets off and puts others in
(`MeddlesWithClient`, `MeddlesWithFarEnd`) while the handshake and the pairing
last: boxes it has seen, of this connection or an earlier one, and boxes made with
a key of its own; it passes on what it can read and says what it likes, that a
pairing has succeeded for one, but it knows no code. What the client then relies on are its own checks: the key
in WELC, that COOK and REDY open, and the comparison of the result. `strange` says
whether it has put in anything on this connection. `GridPing` is what a grid connection does with the tunnel:
bring-up in order (version, ping, pong), then the ticker and the reader.
`deadline` is the deadline on the socket, renewed by every read and write while
`StepTimeout` is in force; `reads` counts towards `maxBringUpMessages`. Instants
are the numbers of pings, so a round trip is a pair: which ping the clock was
started for, and which ping the pong answers. `BringUp` composes the two and has
the specification.

**DialRace.** `rpc` is where each server's goroutine is, `results` the channel,
`left` what `closeLateWinners` still waits for. `watcher` has the stages of the
goroutine in `watchCtx`: `new` before its select, `parked` in it, `late` if it
was stopped before it got there. `killedBy` records which of them closed a
socket.

**Reach.** `connect` in each of its ways (`-net auto`, `local`, `relay`, a
server named with `-server`) and `cmdPair`. `pc` is where the command is,
`dial` the background dial and its channel, `closer` the goroutine that
disposes of the grid. Who holds the key in a handshake, and who knows a pairing
code, is a choice made when a connection is opened (`who`).

**Discovery** is the lookup in front of it, and `Reach` extends it: `packets`
is the bounded queue, `collector` what the records taken so far add up to,
`found` what `Lookup` returned. A datagram is one of those that devices may
send, in one piece or several, with other devices mentioning the frame or
listing it in their own queries; one that finds the queue full is dropped.
`LookupIsTrue`, which relates the lookup to where the command is, is in `Reach`.

**Peer.** From the wire to the application: `wire`, the read loop of `Peer` and
its queue, the read loop of `Client` and its queue, `await`. Outbound, any
number of senders, the mutex, the counter, and a frame that takes bytes at its
own pace or not at all. `dropped` records what a loop threw away.

**Download.** A batch of photos as `cmdGet` fetches them. The client takes
messages off its queue until the photo is complete or its deadline fires, at
any moment. The frame is external: it follows `frameotest/fakeframe.go`, which
records what a real frame was seen to do: it stops in the middle of an answer,
starts over, and gets rid of a stalled answer, whole or in part, before the
next one. Whether it names the photo in its answers (`echoes`) is chosen at the
start. A header, a segment or a finished photo
that cannot be used ends the call (`EndsUnfit`); pieces stand for bytes, so which
one that is, is a choice. `Unbroken` and `Told` are the limits of what the client can tell: a frame
that names no photo is believed, which is safe while it was asked for one only;
and a header that names another photo is ignored without forgetting the header
before it. A photo asked for again after another one is therefore not safe: a
late header of the first time is taken, the header of the other photo behind it
is ignored, and the segments behind that fill the transfer, with the size of
one photo and the bytes of the other. `get a b a` reaches this when the frame is
slow enough; `RightPhoto` leaves such batches out.

**Client** extends `Download` with the other requests of a connection and holds
the specification of both. `program` is what is asked for: photos, then
uploads, deletions, changes and listings. `req` and `sent` say how far the
requests are, `outcomes` what was reported of each; `open`, `files`, `library`
and `did` are the frame. The commands stop at the first failure; this user of
the client goes on, so that late confirmations meet the next request.

**Reassembler.** `split` and the reassembler, with the limits as constants.
A position in a message is a product in integers wide enough for it; the
mutant takes it modulo `IntMax + 1`, as 32 bits would.

**Files.** `get` and `send` by system call, in processes that may be killed on
one disk: the choice between a file and a directory, the name of a photo, the
temporary file, its write, close and rename; the arguments of a send made into
files, downloads with the budget they share, the copy that is one byte too long,
the judgement of what came, and the deferred cleanup. Contents are lengths, and
for an answer whether it is text. The connection to the frame works or not.

**ConfigStore.** The file, the temporary file and the inodes behind them; each
process is a command between two system calls. `trust` is what frames know of
this client, `filed` what was reported saved, `overlap` that two commands have
run at once, then or before.

**GridProof, PeerProof, DialRaceProof, ConfigStoreProof, ReachProof, ClientProof,
FilesProof, TunnelProof** hold the theorems (see Proofs).

The `MC` modules give symmetry sets and the constants that a `.cfg` cannot
write. The files that end in `_arrived`, `_stopped` and `_race` are second runs of
the same module.

## Runs

| run | bounds | shows |
|---|---|---|
| `grid` | 2 calls, 2 ids, 1 message | `ChannelsSafe`, `OwnReply`, `WokenReportCause`, `TableForgets`, `EverybodyLeaves`; `Grid` implements `CallService` with its fairness |
| `bringup` | a grid; a pairing and then a call; a local transfer and then a call; 2 far ends and a stranger, 2 codes, 1 message; numbers modulo 3, a wire of 2, 4 pings of which 2 unanswered, 2 messages in bring-up | `NonceOnce`, `CountersRise`, `TunnelAgrees`, `PairedTogether`, `RttOfOnePing`, `SetupEnds` |
| `peer` | 2 senders with 2 messages, 3 inbound, queues of 1 | `DeliveredInOrder`, `WireReadable`, `SendReturns`, `LoopsEnd` |
| `peer_arrived` | 1 sender, 4 inbound | violated: `ArrivedIsDelivered` |
| `dial` | 3 servers | `FailsOnlyIfAllFail`, `WinnerOutlivesRace`, `RaceSettles` |
| `dial_stopped` | the same | violated: `StoppedWatcherIsHarmless` |
| `reach` | 2 hold frames, two devices, 2 addresses, a packet queue of 1 | `RightFrame`, `LookupIsTrue`, `CallerKeepsIt`, `ReachSettles` |
| `client` | 2 photos of different length, one with a thumbnail; the same photo twice; 4 requests; or a photo and 3 requests; 2 attempts, a queue of 1 | `RightPhoto`, `NoFalseRefusal`, `AnsweredIsDone`, `BatchEnds`, the types |
| `parts` | 4 messages of 4 to 7 bytes (7 is over the limit), 2 bytes in a part, 2 places, integers to 7 | `ReturnedWhole`, `HeldAddsUp`, `NotPushedOut` |
| `config` | 2 processes, 2 frames, 2 names, 2 keys, 2 commands each | `DiskUsable`, `PairedIsFiled`, `FramesKnowUs`, `IdentityStable` |
| `config_race` | the same with 1 command each | violated: `UsableAtRest` |
| `files` | 2 processes, 3 photos, 5 command lines, a photo of 2 bytes, a budget of 2, answers of 0 to 4 bytes | `FinishedIsWhole`, `SavedIsThere`, `SentIsWhole`, `DiskGivenBack` |

Why the bounds are enough to meet the interesting cases. Two calls give every
confusion of one call's reply, channel or entry with another's, and one message
under way at a time still comes late, after a call gave up, and repeatedly. Two
connections, one after the other, give a nonce every chance to come again, and the
stranger boxes of the first to repeat on the second; two far ends and two codes
give the right and the wrong of each. Ping numbers
modulo 3 put a wrap within the four pings, and a queue of one is full as soon as it
holds anything. Three servers give a winner, a late winner and a failure. Two
photos give one late answer for the other, and two attempts a late answer for
the same one; the thumbnail gives the photo that is complete before its answer
is. An upload in two segments, two changes of the same photo and a listing give
a late confirmation for each of the others, and a listing after them; one photo
before three requests gives late segments among the confirmations. A frame with
a routable and a link-local address, and another device, give every order of
the records of a lookup and every wrong sender. Four messages contend for two
places. Two commands per process give pair and pair again, pair and forget, and
a restart after a crash in either. Three photos, two with the same date and ids
that differ in their sign only, give every collision of names; a photo asked for
twice, a full and a preview copy and two processes give every reason for one
file to take the place of another; answers up to two bytes over the budget give
the boundary from both sides, in the first URL and in the second.

What the three violated properties show is in `PROJECT.json` under `findings`:
a message dropped although it had arrived, a stopped watcher that closes the
winner, and two processes that share a temporary file. Each states a comment of
the source that the code does not keep in that interleaving.

## Fairness

Goroutines run: every step a goroutine can take by itself is weakly fair. A
step that waits for somebody else is fair only as far as a timer makes it so:
step timeouts in bring-up and handshakes, the write deadline of `Peer.Send`,
the deadline of an attempt at a photo, the window of a lookup. Nothing is
assumed of the grid, of relays, frames or the network. A call on the grid has
no timer but its caller's context, so `ReachSettles` has the premise that the
call is not waited for indefinitely, and `CallService` promises a return only
to a caller whose connection ends, or who gives up when the request is out. No
fairness is assumed of a write the grid has to take (`SendRequest`, `Refuse`,
`Ping`), only that it fails once the socket is closed or the network reports a
break. Where Go picks one of
several ready cases of a select the model allows each. One property relies on
the choice: that a lookup ends under a flood of datagrams (`ReachSettles`), for
which the deadline must win against a ready packet some time; Go chooses at
random. `BringUp` is fair to the goroutine that dials and to its step deadlines,
and assumes nothing of the far end, the ticker or the reader. `Files` and
`ConfigStore` have no liveness and no fairness: their processes may die anywhere.

## Proofs

Every invariant and every action property that a passing run checks is also a
theorem. Each proof module states its inductive invariant, proves that `Init`
implies it and that every step keeps it, with a lemma for each action or group
of actions, and derives the properties from it. All hold for every value of the
constants that the named assumptions of the modules allow.

`GridProof`: types, `OwnReply`, `ChannelsSafe`, `WokenReportCause`,
`TableForgets`, and that every step of `Grid` is a step of `CallService` or a
stutter. None of the four is inductive: that a reply goes to its own call depends
on ids being unique among calls, requests and replies under way (`IdsInv`); that
a channel is closed once depends on each channel having one owner, the table, the
reader or the shutdown, at any time (`OwnerInv`); that a woken call finds a cause
depends on nobody seeing an empty closed channel while the connection is up
(`CauseInv`); and that a finished call is among the channels still to be closed
only if it gave up depends on the owner again. The refinement needs in addition that what a caller is given was
asked for (`AskedInv`). Assumed: that the null value is not a call, and that the
bounds are natural numbers.

`DialRaceProof`: types, `FailsOnlyIfAllFail`, `WinnerOutlivesRace`, for any finite
set of servers. The accounts are the matter: a server is in the results channel
once, and after its goroutine has ended (`OnceInv`); while the race is
open, the results received are those of the servers taken out of it, all of them
errors (`CountInv`); a failure means that every server ended in an error, a winner
that its own connection came up (`DecidedInv`); and a watcher fires only while it
may (`WatcherInv`).

`PeerProof`, of `Peer`: types, `WireReadable`, `DeliveredInOrder`, for any finite
set of senders and queues of any length. Outbound: who holds the mutex, counters
that rise with the wire (`NonceInv`), and a cut message that brings the connection
down (`CutInv`). Inbound: up to some message everything is past the client's read
loop in order, and behind it everything follows without a gap, until a loop has
thrown something away; then only the first part is left to say (`OrderInv`).

`PeerProof`, of `Reassembler`, which that read loop feeds: types, `ReturnedWhole`,
`HeldAddsUp`, `NotPushedOut`, for any messages, lengths, part sizes and limits
that fit the integers. What is held of a message is parts of it, and `have` is the
number of positions they cover (`PartsInv`). Parts do not overlap, because the
offset is a true product (`Apart`); so a new part adds its length (`FilledMore`),
and `have` reaches the size only when no part is missing (`FilledAll`): the code's
test of a sum is a test of completeness, and the loop that joins the parts runs to
the last and returns the message (`JoinedIs`). That a size can be reached with a
part missing, which the code tests for once more, does not occur with parts made
by `split`.

`ConfigStoreProof`: types, `DiskUsable`, `PairedIsFiled`, `FramesKnowUs`,
`IdentityStable`, for finitely many processes and frames and at least as many
names as frames (the code counts on until a name is free). What the disk holds is
what the one command under way makes of what it found, step by step of its save
(`SerialInv`, `FiledInv`), and every configuration anywhere was paired under its
own identity (`KnownInv`).

`ReachProof`: types, `RightFrame`, `CallerKeepsIt`, and `LookupIsTrue`. `IInv`
says what a command can have in hand at each point of `connect`. For the lookup
(`LookupInv`): where an instance is, its own device said so, the addresses under
a host name are of that host (`Known`), and the frame has not been emitted. A
datagram keeps this record by record, for any number of them.

`TunnelProof`: `NonceOnce`, `TunnelAgrees`, `PairedTogether`, `CountersRise`, for
any plans, far ends and codes, and whatever the stranger puts in. Of all boxes the
two ends ever sealed, either the plaintext of a kind is always the same, or its keys
or its nonce are new with every box, and a box with a key of this connection was
made in it (`SealedInv`). A packet under way was sealed by one of the two ends, on
this connection or an earlier one, or with the stranger's key, and then it says
nothing that verifies and is not the result awaited (`WireInv`). So a COOK that opens
is from who was named in WELC, a REDY that opens from who opened the VOCH, and the
two ends agree unless the client took the stranger for somebody it wanted
(`AgreeInv`). The result awaited can be told neither from the response nor by one
more scalar on it (`PairInv`), so it comes only from who took the mask off with the
code. `CountersRise` is of connections the stranger leaves alone.
The counters on the wire lie between what
the far end has taken and what the client will use next (`CounterInv`). Assumed:
the long-term keys are not among the numbered ones.

The same module shows that `BringUp` implements `GridPing` (`BringUpPings`), and
`RttOfOnePing` from an invariant of the latter (`PingInv`): the pings sent are
three stretches, those answered, those whose pongs are on the wire, one each and
in order, and those the grid has yet to answer; and at most `Outstanding` are
unanswered. A pong therefore carries the number of the last ping only if it is the
pong of that ping, as long as `Outstanding` is no more than the period of the
numbers. That is the bound of the model, a pong less than 2^32 pings late; beyond
it the property is false of the code.

`FilesProof`: `FinishedIsWhole`, `SavedIsThere`, `SentIsWhole`, `DiskGivenBack`,
for finitely many photos. What is on the disk under a name is of the photo and the
copy the name says (`NamesInv`), temporary names belong to one process, and a photo
still to be fetched is counted, failed or saved (`WantedInv`). Between two
arguments of a send, what its directory takes and what is left of the budget make
up the budget; an answer being judged is at most one byte over (`BudgetInv`); and
a temporary file is there only while its process is about it, or was killed
(`TempInv`).

`ClientProof`: types, `AnsweredIsDone`, `RightPhoto`, `NoFalseRefusal`, for any
photos, programs and lengths. Of the requests: the messages to the frame are those
of the requests in order, without a gap behind what the frame is receiving
(`PipeInv`), so the frame finishes requests in order and stores uploads whole
(`DeedInv`); what it keeps is what the last granted request about a photo made of
it (`LibraryInv`); there is one listing at a time and it is of the request being
made (`AnswerInv`, `OneListing`).

Of the photos: the line is what the client has not read, in its queue and on the
wire, and behind it the segment the frame has stopped at, if any. Along the line a
segment follows its header or the segment before it, whatever lies between
(`LineInv`); this survives a frame that gives an answer up, in whole or in part,
because it gives up the end of the line only. Nothing on it is about a photo not
asked for yet (`GottenInv`), and from the first message about a photo that was
asked for without another in between, nothing about another follows
(`OrderInv`). So what the client has gathered is the beginning of the photo of its
header, and the next segment to come goes on where it ends (`GatherInv`); when the
size is reached, it is the photo. The premises are those of the properties: no
other photo came between (`Unbroken`), and a frame that names no photo was asked
for one only (`Told`); the bytes of a frame that names none are never too many
either way, because no header of its is ignored.

What is computed over data of any length, the sum of the files of a send, the
records of a datagram, the join of the parts, is proved by induction over natural
numbers. The induction rules of the library take operators and cannot be used
here; `NatSetInduction` says the same of a set of numbers, and is derived from `<`
being well-founded. A recursive function is first shown to exist, by giving it;
any function that satisfies its equation then has the values wanted.

Only model-checked: liveness (`EverybodyLeaves`, `SetupEnds`, `SendReturns`,
`LoopsEnd`, `RaceSettles`, `ReachSettles`, `BatchEnds`), and with it the fairness
part of the refinement of `CallService`, which are beyond the prover; and the three
violated properties, which are refuted by a run.

## What is left out

Cryptography itself (a box opens for the keys it was made with and nobody else),
packet layouts, protobuf encodings, formatting of output, logging, generated
code: they keep no state. Power failures in `ConfigStore` and `Files`: processes
die, the file system keeps the order of its operations. A pairing that the frame
accepted and this side never saved: nothing is wrong on this side, the user pairs
again. `IdBound` stops the call ids of `Grid` before they wrap at 2^32. Answers to
a listing that was given up: the code waits for a listing as long as its context
lasts, and the commands end with it. In `Files`, the extension and the capture date of what `send`
downloads, which only label the upload. In `Discovery`, `Browse` for the command
`discover`, which is the same loop without an end, the choice of interfaces, and
the encoding of queries. The components marked `not_modelled` in `PROJECT.json`
are listed there with the reason.

## Plan

Done: the grid connection (first, because everything else stands on the way it
shuts down), its abstract service and the safe half of the refinement; the
tunnel under it; the connections to frames, the race, the configuration,
downloads, parts, the way to a frame, the lookup, the requests that are
confirmed, and the files of `get` and `send`; and a proof of every safety property
and action property of theirs.

Next: `ConfigStore` and `Files` as implementations of abstract stores, in which a
name holds one whole version after another; the safe half of what `Peer` promises
as an abstract channel; and, should the client learn to forget a header when it
sees one of another photo, `RightPhoto` without `Unbroken`.
