# Verification of The Beacon

TLA+ models of the programs in `src/`, the TLC runs that check them on small
instances, and proofs, checked by TLAPS, that hold for every instance. Modules
are named after what they model; names of state and operators follow the C and
Arduino code. `PROJECT.json` maps every definition to the lines it stands for.

## 1. The system

A Beacon is four boards and a browser.

| component | code | state it keeps | operations | talks to |
|---|---|---|---|---|
| LoRa board, inbox | `beacon_lora.ino` | flash file, `inboxHasData`, `line[300]`, `g_radioOK` | `setup`, `loop`, `handleP4Line` (fetch, ack, send), `inboxAppendStr`, `inboxSendToP4`, `inboxClear` | hub, by serial line |
| LoRa board, mesh | `beacon_lora.ino`, `mesh_types.h` | `seenIds`, `rxFlag`, the radio's buffer | `sendMeshMessage`, `handleReceivedPacket` | other boards, by radio |
| hub, serial links | `uart_links.c` | three `linebuf`, `s_last_seen`, `s_env_json` | `rx_task`, `lora_poll_task`, `uart_links_send_lora`, `get_nodes`, `get_env` | LoRa board, media board, weather station (not in `src/`) |
| hub, message log | `msg_log.c` | ring, next id, chunk files | `msg_log_init`, `msg_log_append`, `msg_log_since` | called by `rx_task` and the portal |
| messages page | `messages.html`, `http_portal.c` | cursor `since`, bubbles | `poll`, `doSend`, `/api/messages`, `/api/send` | message log, serial link |
| archive reader, cache | `zim_reader.c` | `s_cc`, `s_cc_total`, `s_cc_mtx` | `zstd_blob_copy` | called by `zim_worker` tasks |
| archive reader, lookup | `zim_reader.c` | `s_dkeys` | `zim_find`, `dk_insert`, `dk_try` | SD card |
| archive reader, serving | `zim_reader.c`, `sd_mount.c` | one `FIL` per archive and its position, `sd_lock` | `zim_serve_path`, `serve_blob`, `send_uncompressed`, `zim_search`, `zread` | SD card, called by `zim_worker` and `search_handler` |
| archive reader, decompression | `zim_reader.c`, `zstddeclib.c` | buffers of one cluster, `ZSTD_DStream` | `decompress_cluster`, `send_zstd_stream`, `ZSTD_decompressStream` | |
| portal web server | `http_portal.c` | `s_zimq`, copies of requests | `root_handler`, `zim_worker`, `serve_file`, `search_handler`, `url_decode`, `html_escape` | archive reader, browser |
| media server | `http_media.c` | `s_mediaq` | `root_handler`, `media_worker`, `send_media` | browser |
| media board links | `uart_links2.c` | one line | `hb_task`, `status_relay_task` | weather station, hub |
| forecast board | `forcast.ino` | ring of six pressures | `loop`, `generateForecast` | display |
| captive DNS | `dns_server.c` | one buffer | `dns_task` | browser |
| SD, Wi-Fi, start-up, other pages, zstd | | | | |

What is hard here: three hub tasks write to one serial line without a lock, and
nothing on that line is numbered; lines outgrow buffers on both sides; both
boards restart and lose RAM but not flash; the radio has one buffer and one
flag; several workers share two caches, a queue and the position of every open archive;
the decoder keeps output back while the hub's loop looks at its input alone; times
are read half by half while they are written; the message log loses power
between any two of its steps. `PROJECT.json` lists each hazard at its line
with the properties that would notice it.

What makes each component correct:

- link: no message is emptied from the inbox unless the hub has logged it or it
  came after the dump; messages and sends keep their order; the inbox drains;
  the badge tells whether the board talks; what was accepted is transmitted, unless
  something fails or the board obeys another command on the same line.
- mesh: a message is stored by those it is for, once, not by its sender; a flood
  stays small and ends.
- message log: numbers grow and are never given twice, the card stays within its
  cap, a page that polls sees everything the ring holds.
- cluster cache: each buffer has one owner, the sum is the clusters in the slots and within
  the budget, the memory behind it within about twice the budget, the page sent is the page
  asked for, the least recently used goes first, every read ends.
- lookup: a search finds exactly what the card has.
- pool: each copy of a request has one owner, each request one answer, the
  server task never waits for the workers.
- serving: the answer is made of the page that was asked for, whatever others read.
- decompression: all bytes of the content, once and in order, from every cluster
  that is not damaged.
- badges and weather: online means heard lately; the weather is one line's text
  with that line's time; no status line is lost to a heartbeat.
- media ranges, names, forecast, search, text: the functions they claim to be, at
  the ends of files, buffers, rings, lists and counters.

## 2. Modules

| module | models | state and actions |
|---|---|---|
| `LoraLink` | serial link and inbox, both ends | `inbox` (file and flag), `lineBuf`, `toLora` / `toP4` (the wire: bodies and newlines one way, whole lines the other, which get lost or come damaged), `rx` (what `rx_lora` is doing with a dump), `pc` (a writer between its two writes), `fresh`, `logged`, `air`. One action per step: `Poll`, `PortalSend`, `EndLine`, `HubReads`, `HubReadsTail`, `HubLogs`, `HubAcks`, `Expire` on the hub; `ReadBody`, `HandleFetch`, `HandleAck`, `HandleSend`, `HandleNothing`, `HearPacket`, `Heartbeat` on the board; `LoseWord`, `LoseReply`, `GarbleReply` (bytes missing inside a dump that still parses), `HubRestart`, `BoardRestart` |
| `Mailbox` | what the link promises: messages enter the log for the first time in the order the board accepted them | refined by `LoraLink` (`accepted <- accepted`, `delivered <- logged`) |
| `MsgLog` | message log, `/api/messages`, the page's polling | `job` is the append that holds the mutex: `Begin`, `Write`, `Roll`, `DeleteOldest`, `CapDone`, `Insert`; `Ask`, `Answer`, `Show`, `LoseRequest`, `Reload`; `PowerLoss` at any step, followed by `msg_log_init` |
| `Mesh`, `MCMesh` | the flood | `seen`, `buf`, `flag`, `relay`; `Originate`, `Receive` (handler up to the pause), `Relay` (after it), `Restart` |
| `ZimCache`, `MCZimCache` | `zstd_blob_copy` under several workers | `slot`, `total`, `heap`, `holder` (the mutex), per worker a stage, and while it unpacks the size of its buffer: `Request`, `Hit`, `Miss`, `Grow`, `Unpack`, `UnpackTooBig`, `UnpackFails`, `Lock`, `EvictForRoom`, `EvictForSlot`, `Store`, `Free`, `Answer` |
| `ZimLookup`, `MCZimLookup` | `zim_find` and the table of keys | `table`, `find`; `Begin`, `Probe`, `Read`, `Insert`, `Confirm`, `Exhausted`, `Return` |
| `WorkerPool` | both web servers' hand-over to workers | `waiting`, `httpd`, `queue`, `hand`, `copies`, `answers`; `Connect`, `Purge`, `Handle`, `Return`, `Begin`, `Enqueue`, `Refuse`, `CompleteRefused`, `Take`, `Complete` |
| `ArchiveServer`, `MCArchiveServer` | extends `WorkerPool` with what is served: the portal from socket to answer | `job` (the locals of `zim_serve_path`), `sd` (holder of `sd_lock`), `seekedTo` (the position of the archive's file); server task: `ServePage`, `OpenFile`, `SendFile`, `SearchSeeks`, `SearchReads`; worker: `Reject`, `Found`, `Resolve`, `Hop`, `Resolved`, `ReadCluster`, `ServeCopy`, `SeekPiece`, `ReadPiece`, `EndPieces` |
| `ZstdStream`, `MCZstdStream` | one cluster through the hub's loops and the decoder | `hub` (the loop's locals), `out`, `zds`, `ring`, `call`; the hub: `Refill`, `KeepInput`, `Grow`, `Enter`, `Leave`, `End`; one action per turn of `ZSTD_decompressStream`: `LoadHeader`, `DecodeAll`, `BeginFrame`, `ReadEnd`, `ReadDirect`, `ReadTooLittle`, `Load`, `Flush`, `Broken` |
| `NodeStatus` | status lines and heartbeats, from the station and the media board to `/api/status` | `relay`, `port`, `seen` (`s_last_seen`, in two words), `env`, `mtx`, per port an `rx` task, `api` (one request); `WriteStatus`, `RelayLine`, `RelayEnd`, `Heartbeat`, `ReadLine`, `StoreSeen`, `LockEnv`, `FreeJson`, `CopyJson`, `StoreTime`, `StoreStatus`, `Ask`, `ReadSeen`, `ReadEnv` |
| `MediaFile` | `send_media`: a range of one file | `asked`, `answer`, `body`; `SendHead`, `SendPiece`, `SentAll` |
| `DnsServer` | `dns_task`: packet after packet in one buffer | `buf`, `reply`; `Handle` |
| `Forecast` | `forcast.ino` | its globals; `Read`, `Pass` |
| `SearchPage` | `search_handler`, `zim_search` | `search` (the locals of both); `Begin`, `NoPage`, `NoHits` (memory for page and hits), `NextArchive`, `Bisect`, `Scan`, `ReadFails` |
| `PortalText` | `url_decode` in place, `html_escape` into a buffer | `text` and `conv` (the string, where it is read and written, the buffer's size); `DecodeQuery`, `DecodePath`, `url_decode`, `EscapeText`, `html_escape`, one action per turn of a loop |
| `SmallParts`, `MCSmallParts` | the last five, one of which runs while the others rest | `part` |

Theorems and their proofs are in modules of their own, which extend the modules they are
about: `LoraLinkProofs`, `MsgLogProofs`, `MeshProofs`, `ZimCacheProofs`, `ZimReaderProofs`
(`ZimLookup` and `ZstdStream`), `ArchiveServerProofs` (with `WorkerPool`),
`NodeStatusProofs`, `SmallPartsProofs` (`Forecast`, `MediaFile`, `DnsServer`, `SearchPage`,
`PortalText`).
Section 4 says what they prove.

How the data is abstracted: a message is the number of its acceptance (history:
the wire carries no numbers), a text is one of five kinds that the code tells
apart, sizes count messages, records or clusters, a key is a short sequence. The
blocks of a zstd frame say where they begin in the frame and in its content.
Variables marked as history are read by properties and bounds alone. A buffer of the
cluster cache has two sizes, of what is in it and of what was allocated. In `NodeStatus` a
copy that had no memory is a value of its own for each line (`Lacks`), NULL in the code.

Granularity. Arduino's `loop` is one task, so a handler of the LoRa board is one
step; only reading a line is separate from handling it. Hub tasks preempt each
other at every call that another task can observe: a line is written in two
steps, a dump is logged item by item, the mutexes of the cache are steps of
their own, `f_lseek` and `f_read` are two, a 64-bit time is read and written by
halves in any order. `msg_log_append` holds one mutex throughout, and is split because
power may be lost in it. Code under a mutex that touches nothing else is one
step.

## 3. Runs

`tlc -config <run>.cfg <module>`; the numbers are distinct states.

| run | module | shows | states |
|---|---|---|---|
| `link_safety` | `LoraLink` | `TypeOK`, `AckCoversItsDump`, `SendsInOrder`, refinement of `Mailbox` (`FirstDeliveriesInOrder`), with every kind of fault | 3.7 million |
| `link_live` | `LoraLink` | `FlagTracksFile`, `Drains`, `BadgeOn`, `SendsTransmitted`, with losses, damaged dumps, restarts and lines that share a newline | 992 000 |
| `msglog` | `MsgLog` | `IdsAhead`, `NoSkip`, `DiskBounded`, `CaughtUp` | 613 000 |
| `mesh` | `MCMesh` | `RightBoards`, `FloodBounded`: four boards in a line | 1.2 million |
| `mesh_ring` | `MCMesh` | `AtMostOnce`, `FloodEnds`: more messages than the ring holds | 380 000 |
| `zimcache` | `MCZimCache` | `Accounted`, `OneOwner`, `RightBlob`, `EveryReadEnds` | 308 000 |
| `zimlookup` | `MCZimLookup` | `FindsRight`, `FindEnds` | 222 000 |
| `archive` | `MCArchiveServer` | `OneOwner`, `RightAnswer`, `AnsweredOnce`, `ServerStaysFree`, `EveryRequestEnds` | 41 000 |
| `zstd` | `MCZstdStream` | `Unpacked`, `WindowKept`, `NeverStalls` | 697 000 |
| `status` | `NodeStatus` | `OnlineOnlyIfHeard`, `WeatherOfOneLine`, `WeatherWithBadge`, `StatusArrives` | 619 000 |
| `parts` | `MCSmallParts` | `RightBytes`, `OwnQuestion`, `TrendSpansAnHour`, `ReadingsOnTime`, `ListsRight`, `TextKept` | 420 000 |

`link_echo` shows where the code and its own documentation part (section 6).

Every invariant of the proofs was checked by TLC on the constants of these runs before it
was proved. `TypeOK` of `MsgLog`, `Mesh` and `ZimCache`, `RingSorted` and
`NextIdBeyondDisk` of `MsgLog` are parts of those invariants and have no run of their own.

### Bounds

- `link_safety`: a trim happens from the third stored message on (`InboxMax = 2`),
  and a dump of three does not fit the hub's line (`HubLine = 2`). A boot
  message, a packet, two sends, their notices and replies reach both. One fault
  of any kind, one split line and one line on each direction of the wire
  are enough for a second dump or ack to meet a changed file; the invariant of
  the proof does not depend on any of them. The fault `garble` is left out here: a damaged
  dump is acknowledged with messages missing, and `FirstDeliveriesInOrder` does not hold of
  what then comes again. It is in `link_live`, and `AcksAreSafe` is proved with it.
- `link_live`: `InboxMax = HubLine = 5`, so a dump always fits: the case that does
  not is described in section 6. One message of the portal, with a text that answers itself
  (`echo`) or is a command (`ack`; to the board `fetch` is no different, and a text too long for
  its line is in `link_safety`), and one pair of lines without a newline between them
  (`MaxSplits = 1`), which is all a send needs to get lost. No packets: each would be one more
  item, and the replies and the boot messages are already those. Two faults allow a restart after a
  loss or a damaged dump. File
  operations do not fail here: a truncation that fails leaves a file whose flag
  is down, by design of `inboxClear`.
- `msglog`: ring of three, answers of two, chunks of two, a cap of two, five
  messages and two faults: the ring wraps, answers are cut, chunks roll over
  and are deleted, and power may be lost twice, or once after the card refused a record.
- `mesh`: `Ttl = 1` on a line of four means that the fourth board is out of
  reach; a "To" box holds a board's id, a name, or a name that begins with
  hexadecimal digits. One restart.
- `mesh_ring`: three messages and a ring of two, so that ids are forgotten
  while copies are still about; `Ttl = 1`, so a forgotten message can come back.
- `zimcache`: two slots and a budget of five; clusters of size 1, 1, 5 and 6
  make both ways of evicting happen, and the one beyond the limit. The first allocation is
  three: a small cluster fills a third of it, the larger ones make it double. Four reads of
  two workers allow a race, its duplicate, and an eviction after it.
- `zimlookup`: archives of five and three keys, a table of two entries, keys
  below, at and beyond the length the table keeps, also keys that are absent.
- `archive`: two workers, a queue of one and three sockets: the queue fills, both
  workers are busy and a socket is purged, then used again. A page in two pieces (a
  read can fail before and after the first), a compressed page, a redirection that
  is followed (`MaxHops = 1`) and one that takes a hop too many. Nothing limits the
  number of requests, so this run is also checked for deadlock.
- `zstd`: header, block header and checksum of two bytes, blocks of up to two,
  a window of two, an input buffer of four and an output buffer of two that grows:
  every boundary falls everywhere. Frames of up to four blocks, raw or compressed,
  also empty ones, with and without checksum and content size; clusters with
  a byte too many, and cut ones. Contents longer than the ring make it start again.
  `WildCopy = 0` is the tightest ring.
- `status`: `OfflineAfter = 2` and a lower word of two values, so that halves change
  during a read; two lines, which are short, just fit the buffer of three, fill it once and
  leave nothing of themselves, or leave an end of one character; one heartbeat. Each parse and
  each copy may fail for want of memory.
- `parts`: files of none, one and five bytes and ranges that end before, at and behind
  them; packets of every length of 12 questions, a buffer with room for one of them
  and its answer; a ring of three, a counter of eight values and seven readings; two libraries, with
  every term of up to three of four letters, and every failing read or allocation; texts of up to
  four characters, cut at every place when they come in a query, and every turn of the
  loops that convert them.

Deadlock is checked except in `mesh`, `mesh_ring`, `zimcache`, `zimlookup`, `zstd`,
`status` and `parts`, where the number of requests, messages or lines is bounded, or
a single cluster is unpacked, and the system stops when it is used up, as a quiet
network does.

### Fairness

Tasks of FreeRTOS that are ready run, `loop` comes round, timers and `setInterval`
fire: weak fairness of each task's step. Strong fairness is assumed where a step
waits for something others take and give back again and again: `Answer` of
`MsgLog` (the log's mutex), `Hit`, `Miss` and `Lock` of `ZimCache` (its mutex;
FreeRTOS hands a mutex to waiters in order), `Handle` of `WorkerPool` (the server
turns to each readable socket in rounds), and `HandlerRuns` of `ArchiveServer` (the
server task waits for `sd_lock` among others). Who holds `sd_lock` reads and gives it
back. Beyond that nothing is assumed of the workers in `ArchiveServer`, except as the
premise `WorkersRun` of `EveryRequestEnds`: their sends end by `send_wait_timeout`.
In `NodeStatus` the relay and the `rx` tasks run; station, heartbeats, pages and time
need not. Faults, packets and people are never fair. `LoraLink` assumes nothing of
the portal or the radio. `ZstdStream` and `SmallParts` have no liveness properties.

## 4. Proofs

Every safety property and action property of the runs is proved for all values of the
constants. Each proof module holds one inductive invariant for each thing it follows, one
lemma per action that keeps it, and theorems that draw the properties from it. The only
assumptions are the `ASSUME`s on the constants
(`LinkAssumption`, `LogAssumption`, ...): sizes are numbers and not zero where the code has
a size, an archive is sorted, the blocks of a frame follow one another. TLC evaluates them in
every run.

### `LoraLinkProofs`

- `AcksAreSafe` (`AckCoversItsDump`), `TypeCorrect` (`TypeOK`), from `LinkInvariant`, for every
  fault. What a damaged dump lacked, though it still parsed, is excepted (`spoilt`): the hub
  cannot know of it.
  `AckCoversItsDump` is not inductive: nothing in it says why a new ack is safe.
  `LinkInv` follows a dump back to where it was taken: a dump on the wire carries
  everything of the inbox up to its `upto` (`DumpsCovered`); the `rx_lora` task holds what is
  left of one, and that together with the log covers the inbox up to `upto` (`TaskCovered`);
  when nothing is left, the ack covers it. It is preserved because the log only grows, what
  enters the inbox later is numbered beyond every `upto`, and trimming, clearing, failing and
  restarting only take messages out of the inbox.
- `SendsGoOutInOrder` (`SendsInOrder`), from `OrderInvariant`: on the whole way of a request,
  from the portal's counter over the wire and the board's line to the air, requests ascend.
- `LinkDeliversInOrder` (`FirstDeliveriesInOrder`), if `"garble"` is not among the faults: the link implements `Mailbox`, each step
  being a step of it or a stutter. `DeliveryInvariant` has what this takes: log, dump in
  hand, dumps on the wire and file are copies of the inbox from old to new, and
  each holds whatever an earlier one held and the log has not (`Before`).
- `FlagTellsTheFile` (`FlagTracksFile`), if `"fs"` is not among the faults. This is the condition of
  `link_live` too, and it is needed: `inboxClear` lowers the flag also when the truncation failed.

### `MsgLogProofs`

- `NumbersNeverComeBack` (`IdsAhead`) and `NothingIsSkipped` (`NoSkip`), from `LogInvariant`.
  Why the number recovered after a power loss is new rests on the newest chunk alone,
  which is all that `msg_log_init` reads: at each step of an append `Recoverable` says that it gives
  the next number, unless the card refused the latest record; `DiskBehind`, that every number on
  the card is older, holds also then, so the next record that is written makes up for it. What
  follows a power loss before that is excepted (`damaged`). For `NoSkip`: an answer on its way has all of the ring from
  where it was asked for up to its last message (`Covering`), and the browser is behind what it shows.
- `CardStaysWithinCap` (`DiskBounded`), by an invariant of its own, `SizeInv`: the size in RAM
  is never below the file's, full chunks only grow by a message whose roll-over
  the power cut off, and such messages are counted (`Room`).

### `MeshProofs`

`OnlyTheRightBoards`, `StoredAtMostOnce`, `FloodIsBounded` (`RightBoards`, `AtMostOnce`,
`FloodBounded`), from `MeshInvariant`: every packet in a radio has lost a hop for each board
on its way (`Heard`), so what is stored was within reach. What a board has stored or
sent once more often than it restarted is in its ring (`Counted`); the ring forgets only when
it is full of others, and its ids differ, so it does not forget while the messages are no more than its places.

### `ZimCacheProofs`

`EveryBufferHasOneOwner`, `BudgetIsKept`, `RightClusterIsSent` (`OneOwner`, `Accounted`,
`RightBlob`), from `CacheInvariant`: a buffer carries the number of the read it was allocated for, so
a worker's is nobody else's, and from there it only goes to a free slot or back to the heap (`Works`,
`Cached`). Sums over the slots are functions of partial sums (`AddUp`): as folds
they could not be reasoned about, so a change of one slot shifts those behind it. `BudgetIsKept` says
two things. `s_cc_total` is the sum of the clusters in the slots and within the budget; and their
buffers, which keep what they were allocated, take at most twice that and a first
allocation for every slot. A buffer has doubled only because the cluster filled half of it, which
the invariant keeps for every worker and every slot.

### `ZimReaderProofs`

- `SearchesAreRight` (`FindsRight`), from `FindInvariant`: the key is never below `lo` nor
  from `hi` on (`Between`), and what the table holds is true of the card (`TrueEntry`). The
  lemmas behind it: `Less` is a strict total order, and a kept start of a key decides as the
  whole key does, whenever `FromTable` lets it decide.
- `SearchesHalve`, from the same invariant: what can be proved of `FindEnds` without fairness. Each
  step of a search ends it, brings the comparison nearer to its end, or leaves at most half of the
  places, and another worker's step does not touch it. TLC found the same on the constants of
  `zimlookup`, and the opposite with `NarrowedStuck` for `Narrowed`.
- `StreamUnpacks`, `StreamKeepsWindow`, `StreamNeverStalls` (`Unpacked`, `WindowKept`,
  `NeverStalls`), from `StreamInvariant`. None of the three is inductive. `StreamInv` keeps
  account of the input (`InputCounted`: what the decoder has taken, what is in the hub's buffer and what is
  not yet read make up the cluster) and of the content (`OutputCounted`: what is out and what is
  in the ring make up what was decoded). `EndSeen` says that the end of the frame
  is seen by the call that reads it, or its last byte was kept back; without that byte the loop
  would stop for lack of input while output is left in the ring. `Progress` and
  `HubReady`: a call is made with input and room, and takes or gives something. `RingHolds`
  has the bytes of this lap of the ring and of the lap before, which began again only where
  the next block might not fit; as the ring is a window and two blocks long, the places of the next
  block are outside the window. The proof does not need `WildCopy`, which is any number.

### `ArchiveServerProofs`

- `RequestHasOneOwner` (`OneOwner`), from `PoolInvariant`: who has a socket, at every step of
  the server task, the queue and the workers.
- `RightPageIsSent` (`RightAnswer`) and `EveryoneIsAnswered` (`AnsweredOnce`, an action
  property), from `AnswerInvariant`: what has been sent on a socket so far, for each step of its
  owner, and that the position of the archive's file is moved by the holder of `sd_lock` alone
  between its seek and its read.

### `NodeStatusProofs`

`OnlyHeardBoardsAreOnline`, `WeatherIsOfOneLine`, `WeatherComesWithTheBadge`
(`OnlineOnlyIfHeard`, `WeatherOfOneLine`, `WeatherWithBadge`, action properties), from `StatusInvariant`: a word of
`s_last_seen` that is not of the last time is owed by a task that took the time just now (`Owes`,
`Fresh`), so what a request has read is that time unless the board was heard since it
asked (`Answers`); every line is in one place until it is handled (`OnTheWay`). Weather that is
missing for want of memory is still of one line, with that line's time (`Lacks`).

### `SmallPartsProofs`

All from `PartsInvariant`, which has an invariant for each part.

- `ReadingsComeOnTime`, `TrendsSpanTheRing`, `RangesAreRight`, `QuestionIsOwn`, for any width of
  `millis()`, any file, any packet. The ring of pressures holds the readings of this round up to
  `historyIndex`, and behind it those of the round before (`Ring`); what `send_media` has sent is the
  range's head and the bytes from its first on (`Sent`).
- `SearchListsRight` (`ListsRight`), for any archives, queries and caps, from `SearchInv`. `Bisected`: titles below
  `lo` are below the term, those from `hi` on are not. `Scanned`: the counters `scanned` and `n` are the
  numbers of entries and pages read that begin with the term, and each of those pages is listed.
  `Behind`: of every archive that was left, what is listed is what should be. These three need lists in
  order, memory for the hits and reads that do not fail (`Orderly`); that hits are pages and ascend (`HitsRight`) does
  not. The lemmas are about `strcmp`'s order: below a title that is below the term everything is
  (`BeforeGoesDown`), and titles that begin with the term stand together (`MatchesTogether`), so
  the scan may stop at the first that does not (`ScanEnds`). No induction over a list is needed, because
  `ListsRight` is stated with positions and numbers of positions, and a step changes one position.
- `TextIsKept` (`TextKept`), for any text, cut anywhere, and any buffer of at least 7 bytes, from `TextInv`. What
  `url_decode` has still to read is as it came, although it writes into the same string: the place it
  writes at is never behind the one it reads at (`DecodeInv`). What it has written are the first
  characters of the text, and it reads at the encoding of the next (`InStep`), until it meets a
  character that was cut (`CutShort`), from where on nothing is claimed. Where the k-th character was encoded
  is a number of characters before it (`From`), so a turn moves it by one term (`FromIs`, `CountNext`).

### Only model-checked

Liveness: `Drains`, `BadgeOn`, `SendsTransmitted` (`LoraLink`), `CaughtUp` (`MsgLog`), `FloodEnds`
(`Mesh`), `EveryReadEnds` (`ZimCache`), `FindEnds` (`ZimLookup`), `ServerStaysFree`,
`EveryRequestEnds` (`ArchiveServer`), `StatusArrives` (`NodeStatus`). It rests on fairness, thus on
`ENABLED`, which the prover does not handle.

## 5. Not modelled

- `zim_open_one` and the registry: they run once, before any request. The archives are
  constants of the models.
- The altitude command (`uart_links_send_status`): one line written, which no code in
  `src/` reads. `set_name`: the board understands it, nothing sends it.
- The entry that `api_send_handler` logs, and with it the order of what was sent and
  what came in; the length of the pages that `search_handler` and `api_archives` put together.
- `send_dir_list` and `serve_small` of the media server: single answers of `WorkerPool`'s
  server task.
- SD mounting, Wi-Fi and start-up: driver calls in a fixed order. `sd_lock` is
  always innermost; a call under it is one step, except where seek and read matter.
- zstd is third-party, and with its headers nine tenths of the lines under `src/`. Its streaming
  interface, which the hub's loops depend on, is `ZstdStream`. What a block decodes to
  (entropy coding, sequences, matches, checksums, dictionaries, skippable frames) is
  not modelled: a block gives its bytes or an error. The header of a frame has one
  size, and is given to the decoder in one piece or in parts.
- In `NodeStatus` a parse or a copy of a line may lack memory; that cJSON lacks it while
  `api_status_handler` puts its answer together (`http_portal.c:305-316`) is not modelled. When
  `uart_links_send_lora` has no memory for a line it writes nothing, and the portal still answers
  ok: to the link that is a line lost (`LoseWord`). `search_handler`'s buffer of 32 768 bytes is
  taken to hold its page.
- Random ids of messages are taken to differ; a message heard only in part fails
  the radio's checksum and is lost.
- What the other pages do in a browser; the layout of the display.

Any share of modelled lines over all of `src/` is small for one reason, the vendored
library; of the program's own code most is modelled.

## 6. Where code and documentation differ

Run `link_echo`: an ack empties the whole inbox, also a reply to `/echo` that was
appended after the dump (`beacon_lora.ino:171`). `messages-help.html:88-89`:
"Within a few seconds a reply comes back from your own radio."

More that can be seen by changing a configuration:

- A dump beyond `linebuf[1100]` never parses, is never acknowledged, and suppresses
  heartbeats (`uart_links.c:78`, `beacon_lora.ino:355`). `messages-help.html:82-84`:
  "radio online means the radio is powered and talking to Beacon." `link_echo.cfg` with
  `Texts = {"plain"}`, `HubLine = 2`, `MaxPackets = 2`, `MaxSends = 0` and the property
  `BadgeOn`.
- A send that the portal answered ok is lost although nothing failed. `messages-help.html:54-55`:
  "type your message, press send. Every Beacon radio in range hears it". `SendsTransmitted`
  excepts these cases by `Overruled`; `EverySendHeard` is the promise without the exception.
  - A text equal to a command's word is taken for the command (`beacon_lora.ino:233-236`):
    `link_echo.cfg` with `Texts = {"ack"}` and the property `EverySendHeard`.
  - The body of a poll or of an ack comes between the body of the send and its newline, which
    are two writes (`uart_links.c:25-26`); the board obeys the poll or the ack and the send is dropped
    with it: `link_echo.cfg` with `Texts = {"plain"}`, `MaxSplits = 1` and the property
    `EverySendHeard`. With `MaxSplits = 0` it holds.
- With a newest chunk that is empty, because power was lost when it had just been
  created, the ids start at 1 again (`msg_log.c:69`), where the comment at line 68 says
  "recover the highest id written so far". `msglog.cfg` with `FaultKinds = {"empty"}`,
  `MaxAppends = 3`, `MaxFaults = 1`, `ChunkMax = 1`, `SPECIFICATION Spec` and the
  invariant `NextIdBeyondDisk`. `IdsAhead` excepts it by `damaged`.

Seen while modelling, and promised otherwise nowhere:

- A dump that lost bytes from inside one string to inside a later one parses, for there is no
  checksum; what is left is logged, the whole is acknowledged and emptied
  (`uart_links.c:52-65`). `AckCoversItsDump` excepts the messages lost so.
- Numbers of records that the card refused are given out again if power is lost before another
  record is written (`msg_log.c:136`), to pages that have passed them: `NoSkip`
  excepts it by `damaged`.
- The cluster cache holds more memory than `ZIM_CCACHE_BUDGET`: a buffer keeps the size to which it was doubled
  (`zim_reader.c:287-294`, `304`), and only the cluster's bytes are counted. By `Accounted`
  with the numbers of the code (12 MB, 8 slots, first allocations of 256 KB) that is at most
  26 MB, of 32. "`AddUp` of `Allocated` within `Budget`" is violated in `zimcache`.
- Without memory for the hits a search says that nothing matches (`http_portal.c:173-175`), and
  with a failing read it lists what it had found: the page does not tell. `ListsRight` excepts
  both by `search.failed`.
- When `strdup` has no memory for a line (`uart_links.c:43`) or for the page's copy
  (`uart_links.c:143`), a station that is online is shown without weather. `WeatherWithBadge` allows
  it (`Weathers`).
- `zim_reader.c:185` says of an equal comparison settled by the table "Shouldn't
  happen"; action `Confirm` of `ZimLookup` is that case and is taken for every short key
  that is asked for again.
- When `send_uncompressed` finds no memory, or a read fails in the middle of a page,
  the request gets no answer, or a part of one (`zim_reader.c:472`, `478`, `576`):
  `AnsweredOnce` excepts it by `stopped`. `serve_file` takes a read that fails for the end
  of the file and ends the answer as if it were whole (`http_portal.c:127`).
- The 500 of `zim_reader.c:577` goes out with the `Cache-Control` that `serve_blob` has set.
- `decompress_cluster` returns a cluster that is cut as if it were whole; the blob's
  bounds are checked against what there is.
- While the upper half of `s_last_seen` changes, every 49 days, a page may show an
  online board as offline once; the opposite, `OnlineOnlyIfHeard`, does not happen.
- A status line that just fits the hub's buffer is lost if a heartbeat comes
  between it and its end: `StatusArrives` asks for room for the heartbeats.
- `bytes=-0` gets the whole file and `bytes=5-3` a 416; RFC 9110 gives neither a meaning,
  and `RightBytes` leaves both out.
- A list of titles that is not in the order of `strcmp`, or with more than
  `ZIM_SEARCH_SCAN_CAP` entries of other namespaces first, hides pages from a search;
  `ListsRight` says what still holds then.

## 7. Plan

Done, in this order: `LoraLink` with `Mailbox`, `MsgLog`,
`Mesh`, `ZimCache`, `ZimLookup`, `WorkerPool`; then `ArchiveServer` on `WorkerPool`, `ZstdStream`,
`NodeStatus`, and the small parts.

Every safety and action property of the runs is proved. Worth an abstract specification and a
proof later: a log without a card, refined by `MsgLog`.

Worth a model later: `LoraLink` with `MsgLog` and the page, from the air to the bubble.
