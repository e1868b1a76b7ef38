# HMap in TLA+

HMap is an IPv4/IPv6 network scanner. `HMapc` (C, derived from ZMap) sends
probes from several threads and collects the answers; `Yarrp` (C++) traces
routes; `runner.py` strings them together. This directory holds TLA+ models of
their own core logic, the TLC configurations that check them on small instances,
and TLAPS proofs of the properties that matter most.

Paths below are relative to `src/HMapc/` unless they start with `src/`.

## 1. Inventory

### The parts and how they interact

`main` (src/hmap.c) parses options, calls `blocklist_init`, counts the lines of
a target list or generates one from seeds, and calls `start_hmap`. That creates
the iterator (the cyclic group and one shard per sender), the receiver thread,
waits for it, creates the senders and the monitor, joins them all, and writes the
metadata. The threads share two global structs, `xsend` and `xrecv`, and talk
through their flags and counters, most of them without a lock. A sender takes a
target, combines it with suffixes and has the probe module build packets; the
receiver has the probe module validate each answer, looks it up in a bloom
filter, may send the next packet of an exchange, counts, filters, and hands the
result to an output module.

| Part | State | Operations | Talks to |
|---|---|---|---|
| scan threads (hmap.c, send.c, recv.c, recv-pcap.c, monitor.c, iterator.c) | `xsend`, `xrecv`, `shard->state`, `it->complete`, three mutexes, the pcap handle | `start_hmap`, `send_run`, `recv_run`, `shard_complete_cbi`, `monitor_run` | shards for targets, recv for responses |
| target permutation (cyclic.c, shard.c) | generator, offset, per-shard `current`, `params.last`, quotas | `make_cycle`, `shard_init`, `shard_get_current_...`, `shard_get_next_...` | blocklist (index to target) |
| address constraint tree (lib/constraint.c, lib/blocklist.c) | binary tree, painted counts, radix array | `blocklist_init`, `constraint_set`, `constraint_paint_value`, both lookups | shard, target list |
| target list (ip_target_file.c) | per-thread `FILE`, `first`, `last`, `current`, port and index counters | `ip_target_set_thread_pos`, `ip_target_file_get_ip`, `ip_target_list_get_ip`, `recover_thread_file_params(_)` | send_run, blocklist |
| target generation (hmap.c, lib/tga.c) | list of seeds, hash set of subspaces, generated targets | `seed2vec`, `hierarchical_cluster`, `HashSet_insert`, `target_generation` | target list |
| IID modules (iid_modules/) | the suffix | `global_init`, `get_current_iid` | send_run |
| probe modules (probe_modules/) | per question of the DNS modules: `qnames`, `dns_packets`, shared by all senders | `make_packet`, `validate_packet`, `process_packet`, tcp_scan's answers | send_run, handle_packet |
| response handling (recv.c, lib/bloom.c, filter.c, expression.c, fieldset.c) | bloom filter, counters of `xrecv` | `handle_packet` | probe modules, output modules |
| output modules, redis (output_modules/, lib/redis.c) | result buffer, connection | `init`, `process`, `close`, `redis_push_strings` | handle_packet, the redis server |
| validation, randomness | AES keys | pure computation | probe modules, cyclic.c |
| configuration, sockets, logging, metadata | - | option parsing and system calls | everything |
| Yarrp (`src/Yarrp/`) | target list and permutation, one packet frame, histogram of near routers, trace file | probing loop (main), listener thread, fill probes | - |
| runner and tools (`src/runner.py`, `src/tools/`) | - | process pipeline | HMapc, Yarrp |

### What is hard about it

* **Unlocked communication.** The receiver polls `xsend.complete` and then
  `xsend.finish`; the senders poll `xrecv.complete`; the monitor adds up the
  shards' counters while the senders count. The DNS modules' senders free and
  rebuild question buffers that all of them share. Yarrp's two threads build
  packets in one frame.
* **Start and end of the threads.** Capturing must begin before the first
  probe; the receiver must outlive the last probe by the cooldown; nobody may
  use a closed pcap handle or a freed shard; and the whole must end. Yarrp's
  main frees after a wait what its listener uses.
* **Limits**: `--max-results`, `--max-runtime`, `--max-targets` and
  `--max-packets` are checked at different places of nested loops.
* **Splitting without communication.** Machines of a sharded scan share only a
  seed, and between them must probe every target once.
* **Numbering of the allowed targets**, divided between a radix array and the
  counts in a tree, after networks were painted over one another in any order.
* **Two positions in one list**: a counter of lines and a file offset, moved by
  different calls through rewinds for each port and index.
* **The network** loses, repeats and reorders answers, and some answers are
  rejected only after the bloom filter has recorded them.
* **Partial failures**: a pipeline to the redis server that breaks in the middle.
* **Pointers in a message** that may lead anywhere, in loops too.

`PROJECT.json` lists the hazards at their lines with the properties aimed at them.

### What makes each part correct

* *Scan threads*: every target is probed (without limits), no limit is exceeded,
  the cooldown counts from the last probe, totals are exact, no resource is used
  outside its lifetime, the scan ends.
* *Permutation*: each allowed target is handed out exactly once over all threads
  of all machines; quotas add up; lines of a list are partitioned.
* *Constraint tree*: the last network painted decides; the tree is canonical;
  indexes and allowed targets correspond one to one.
* *Target list*: only own and allowed lines; every one with every port and
  index; the walk ends.
* *Target generation*: every merged seed lies in a subspace, the set keeps each once,
  and the targets are exactly the addresses of the subspaces written out.
* *Probes*: addresses keep their prefix, answers to a probe pass the checks that
  the same module makes, a packet carries its own question.
* *Response handling*: a response is counted and output once, repeats are
  recognised, only first answers are answered.
* *DNS parsing*: stays inside the length that the code computes for the message (8
  bytes too many, section 6), ends, returns the name that is there.
* *Redis output*: no result is lost or written twice, as far as the server and
  the connection allow.
* *Yarrp*: each target once at each TTL, whole packets, nothing used after it was
  freed.

## 2. Modules

| Module | Models | Extends / uses |
|---|---|---|
| `Scan` | the threads of one scan | |
| `ScanProofs` | proofs about `Scan` | `Scan`, `TLAPS` |
| `Shard` | the permutation and its split over machines and threads | |
| `ShardProofs` | proofs about `Shard` and `TargetFile`, and that the one's split is the other's input | `Shard`, `TargetFile`, `TLAPS` |
| `Palette` | what painting networks over one another promises | |
| `Blocklist` | blocklist_init and the constraint tree | `Palette` (refinement) |
| `BlocklistProofs` | proofs about `Blocklist`, the refinement included | `Blocklist`, `TLAPS` |
| `TargetFile` | a thread's walk over its lines of a list | |
| `Tga` | from seeds to generated targets | |
| `TgaProofs` | proofs about `Tga` | `Tga`, `TLAPS` |
| `SendProbe` | from a target to its packets: suffixes, streams, make_packet | |
| `SendProbeProofs` | proofs about `SendProbe` | `SendProbe`, `TLAPS` |
| `Recv` | handle_packet | |
| `RecvProofs` | proofs about `Recv` and `RedisOutput` | `Recv`, `RedisOutput`, `TLAPS` |
| `DnsResponse` | the sections, records and names of a DNS response | |
| `DnsResponseProofs` | proofs about `DnsResponse` | `DnsResponse`, `TLAPS` |
| `RedisOutput` | the redis output modules' buffer and pipeline | |
| `Yarrp` | the IPv6 tracer's two threads | |
| `YarrpProofs` | proofs about `Yarrp` | `Yarrp`, `TLAPS` |
| `MC*` | constants for TLC | the module of that name |

The modules meet at their constants. `Scan` knows of a shard only how many
targets it has (`Targets`) and its quotas (`MaxHosts`, `MaxPackets`); `Shard`
says which targets those are and computes the quotas (`Quota`). `Shard` knows of
the blocklist only a function from indexes to packed targets (`Lookup`) that
never gives the address zero; `Blocklist` computes that function (`LookupIndex`)
and checks and proves that it is one to one and that zero is blocked
(`IndexBijection`).
`TargetFile` is given the first and last line of each thread; `Shard` computes
them (`ListFirst`, `ListTotal`), and `ShardProofs` proves that they partition the
list and meet what `TargetFile` assumes of them (`SplitFeedsWalk`). The list may be
the one that `Tga` writes. `Scan` counts a probe where `SendProbe` makes it, and a response where `Recv` lets it pass the filter;
`SendProbe` decides whether the answer to a packet passes the checks on port and
id that `Recv` takes as passed (`AnswersAccepted`). `Recv` starts from a class of
DNS response; `DnsResponse` is how the response is taken apart, and `RedisOutput`
what happens to the result.

### Scan

One program counter per thread: `mpc` (start_hmap), `spc[s]` (send_run and its
completion callback), `rpc` (recv_run), `npc` (monitor_run). A step of a thread
ends where another thread can see or change what it uses: a lock, an unlock, a
read or a store of a shared word. `shard_complete_cbi`'s additions are a read
(`CbRead`) and a store (`CbWrite`), so that a missing lock would lose updates;
`xsend.finish` and `xsend.complete` are stored in two steps; the monitor's sum
over the shards takes one step per shard. Stores become visible in the order in
which they are made, as on x86.

The order of the stores to `xsend.finish` and `xsend.complete` is a constant,
`StoresSwapped`: nothing between them (no lock, no call, no atomic) keeps a
compiler from exchanging them. gcc 12 keeps the source's order at -O0 and -O1
and exchanges them at -O2. The default is the development build, without `-O`
(`CMakeLists.txt:8`, `:48`); -O2 is set at `CMakeLists.txt:60` for
`-DENABLE_DEVELOPMENT=OFF`, with which "release builds should be built"
(README.md:58). The other shared words are stored and read with calls or
locks in between that the compiler cannot move them across.

| Code | Actions |
|---|---|
| `start_hmap` | `CreateRecv`, `WaitLock`/`WaitPeek` (the spin on recv_ready), `SpawnSender`, `SpawnMonitor`, `JoinSender`, `SendersJoined`, `JoinRecv`, `JoinMonitor`, `Finish` |
| `send_run` | `SendLock`, `SendInit`, `SendInitFail`, `SendTarget`, `SendCheck`, `SendOk`, `SendRetry`, `SendGiveUp`, `SendDryrun`, `SendNextTarget` |
| `shard_complete_cbi` | `CbLock`, `CbRead`, `CbWrite`, `CbFinish`, `CbComplete`, `CbUnlock` |
| `recv_run`, recv-pcap.c | `RecvInit`, `RecvInitFail`, `RecvReady`, `RecvPacket`, `RecvDispatched`, `RecvResults`, `RecvSent`, `RecvCooldown`, `RecvLock`, `RecvClose`, `RecvComplete` |
| `monitor_run` | `MonLoop`, `MonLock`, `MonTest`, `MonPcapStats`, `MonUnlock`, `MonRead`, `MonStore`, `MonAbort`, `MonSleep` |
| `log_fatal` in any of them | `Fatal` |
| the clock | `Tick` |

A response is the fact that one that passes the output filter arrives; the
number of them is bounded (`Responses`). Clocks are kept as the time since the
event they are compared with, and saturate just above the limit. `sinceSend` and
`late` are history variables that no action reads. `--dryrun` is chosen in
`Init` and changes which threads exist and whether `sendto` is called.

### Shard

All threads of all machines run in one model, sharing generator and offset (the
seed). `FindPrimroot` searches upwards from a random candidate for a number
coprime to the factors of the group's order as cyclic.c does, and raises the
known primitive root to it. `GetNext` is the loop of
`_shard_get_next_ipvx_port_index` with the loops over unused port slots around
it, written as the first element of the arc that ends it, and counts what it
passed. A thread whose arc has no index leaves `shard_init` at
`PMAP_SHARD_DONE`; the first target it is then given comes from index -1, whose
lookup may yield anything, so both outcomes are actions.
The walks are not cut short by the quotas: that is `StopSending` and
`SendNextTarget` of `Scan`.

### Blocklist and Palette

A tree is the function from its leaves to their values. `ConstraintSet` is the
recursion of `_set_recurse`: split on the way down (`Put`), merge on the way up
(`Merge`). The recursion is a recursive function over the depth, so the module
has no RECURSIVE operator. An entry of a list is the set of addresses and the
length it denotes; reading one, failing to parse one, the end of each list and
the final block of the address zero are actions. `IgnoreInvalidHosts` is FALSE
whatever the command line says (section 6).

`Palette` is the abstract specification: a color for each address, and painting
a set of addresses replaces their colors and no others. `Blocklist` implements
it under the mapping "the color of an address is what `LookupIpvx` finds", with
the history variable `top` naming the networks painted last, so that each entry
must have exactly its own effect.

### TargetFile

One thread, any of `Senders`, with a list whose lines are each allowed,
blocked or malformed; the kind of every line, the thread, where the lines come
from (a file, or the targets of the TGA module, `tga`) and
`--ignore-filelist-error` are chosen in `Init`. The two loops of
`ip_target_file_get_ip` are `GetIp`/`NextIndex`/`NextPort`/`Through`/`Read`
(the first line of a call) and `GoOn`/`GoOnNextPort`/`GoOnThrough`/`Reread` (the
loop behind an unusable line). They differ in the code and so they do here: the
second knows nothing of indexes and tests what `dst_ip` happens to hold.
`HandOver` is the return to `send_run`. Counts of probes saturate at 2 (`MaxHanded`).

### Tga

The part of `main` between opening the seed file and starting the scan. A line is
skipped or read as a seed (`SkipLine`, `Seed`: `seed2vec` fills groups and "::"),
the seeds are sorted (`Sort`), and the two loops of `hierarchical_cluster` are
`Outer`, `MergeNext`, `ClusterEnd`, `InnerEnd`, with the outer index jumping as
in the code. Each result is inserted (`Insert`) into the set with its chains and
its doubling (`HashSet_resize`), and `Generate` writes out one subspace,
`NextBucket` goes on, `GenerateEnd` stops at the end of the table or beyond the
capacity. An address is a string of digits; a subspace has a star where seeds
differ. The bound `Len - 1` of the outer loop is computed modulo `SizeMod`, which
stands for 2^64: without seeds it wraps, and the code's loop then makes 2^64 - 1
empty rounds (section 6). A seed that is near no other one is in no subspace, in the
code and so in the model.

### SendProbe

What a sender does for one target. `NextIid` ORs the next suffix of the IID
module into `dst_ip`, which keeps the bits of the suffix before; `LastIid`,
`LastStream` are the ends of the loops over `--iid-num` and `--probes`. A row of
`ProbeModules` says which number a module adds to the validation word for port
and id, whether it exchanges the addresses and whether it has labels. A DNS
module whose label is made per packet takes the steps `MakeLabel`, `FreeQname`,
`domain_to_qname`, `FreePacket`, `NewPacket`, `FillPacket`, `CopyPacket` on the
shared arrays; two senders interleave them. `ub` stands for the use of freed
memory, after which nothing is said. `overlapped` is a history variable: two
senders were inside the buffers of one question at once. The checks of packet.h
(`check_src_port`, `check_dnsa_txid`) are applied to what was sent, with C's
remainder (`CRem`).

### Recv

`handle_packet` for any sequence of packets the network can deliver. A row of
`ProbeModules` gives the classes of packets a module accepts, the ones that are a
success and what enters the bloom key. `HandlePacket` chooses a packet and ends
in `Truncated`, `Reject`, `RejectLate` (rejected after the look-up), `DropRepeat`,
`Answer` (the stateful modules) or `Accept`; `fs_add_system_fields` and `Finish`
are the rest of the function, in two steps, because the last sender's
`SendComplete` may come between the two reads of `xsend.complete`. The bloom
filter is a set of bits, with a hash (`Hash`) under which keys collide.

### DnsResponse

`dns_process_packet`'s walk over the four sections. `Record` starts the next
record, `get_name_helper` takes one step per label or pointer (`Label`,
`Pointer`, `EndOfName`), with the recursion for pointers kept as a level, since
each call returns at once what the deeper one returned. `process_response_question`
and `process_response_answer` complete the record, `RdataName` the types whose
data is a name; `NextSection` and `Finish` are the loops' ends and the fields
`dns_unconsumed_bytes` and `dns_parse_err`. The 29 modules have 29 copies of this
code; the copies of the name and question parsers are the same, and those of
`process_response_answer` differ in the types they know, which the rows `dns` to
`dns6afe` say. Bytes, types and lengths are few (`Byte`, `TypeOf`), so that all
messages of a length can be tried; the UDP header's length, by which
`payload_len` is too large, is kept.

### RedisOutput

`process` stores a result and, when the buffer is full, starts a push:
`redisAppendCommand` for each result, then `redisGetReply` for each. `FlushFailed`
leaves the fill as it is; `Close` pushes what is left. The server and the
connection are external: `Execute`, `Refuse`, `ConnectionLost`. Replies that were
not read stay in the pipeline and are taken for those of the next push.
`FreedAgain` is the call of `freeReplyObject` for a reply that was freed before.

### Yarrp

Main: `Take` picks the next index of the walk (`IPList6` in order or permuted,
`SubnetList`, `RandomSubnetList`), the skips of `loop` follow in the code's
order, then `probe`, in a step per field of the frame (`SetHlim`, `SetDst`,
`SetPayload`, `MakeTransport`, `Send`), then the count, and in the end the wait
and the deletions `DeleteStats`, `FreeFrame`, `Cancel`. The listener: `Receive` an
answer, `Fill` with the same `probe`, `Write`, `AddProbe` and `AddRouter`, the
timeouts of select, `Interrupt`. Timeouts are counted only while main waits: while
probes go out, the listener hears them itself. An answer quotes a packet of
`Quotable`: one that was sent, or one of another instance or an earlier run
(`foreign`), which the IPv6 listener takes, too.

A target is a block and an offset; an offset the block does not have, a negative one
too, stands for something that is not in the list. A permuted walk of subnets counts its
probes modulo `CountMod`, 2^32, (`Counted32`), and its offset is shifted as an int
(`Shifted`): `word` is the number of prefixes that 32 bits hold, 2^(granularity-32),
bits beyond them are lost and from half of them on the offset is negative; where the
shift itself is undefined, `shiftKeeps` is either outcome.

## 3. Runs

| Run | Instance | Shows |
|---|---|---|
| `scan_complete` | 2 senders with 2 and 1 targets, cooldown 1, with and without `--dryrun`, stores in source order | `CooldownHonoured`, `TotalsExact`, `EveryTargetProbed`, `MonitorOver`, `CompleteIsFinal`, and under fairness `ScanEnds` |
| `scan_limits` | 2 probes per target, quotas (1,1) targets and (2,1) packets, 1 result of 2, runtime 1, failures of initialisation, sendto and pcap, monitor's abort, stores swapped | the inductive invariant `IInv` on every path |
| `scan_cooldown` | stores swapped | violation of `CooldownHonoured` (section 6) |
| `shard_walk` | 2 machines with 3 threads, group of 17, 12 slots of 3 ports in 2 bits, 8 seeds for generator and for offset | `ExactlyOnce`, `QuotasExact`, `ListPartition` |
| `blocklist` | 5-bit addresses scanned to 4 bits, 1 low bit, radix of 2 bits, up to 4 of 34 entries | `TreeCanonical`, `IndexBijection`, `ListAgreesWithIndexes`, refinement `TopColorShows` |
| `list_walk` | 5 lines for 2 threads, 2 ports, 3 indexes, all kinds of lines | `InStep`, `OnlyAllowedOwn`, `EachTargetOnce`, and under fairness `WalkEnds` |
| `tga` | addresses of 4 binary digits in 2 groups, up to 5 lines, 3 seeds kept, capacity 5, table of 1 | `SeedsCovered`, `SetExact`, `TargetsExact`, `Ends` |
| `probe` | 2 senders, all 38 probe and 7 IID modules, 6-bit addresses, 2 questions, 5 ports | `OwnLabel`, `AddressShape`, `AnswersAccepted` |
| `recv` | 14 probe modules, one at least of every row that differs, 3 hosts, 4 bits of bloom filter, 3 packets | `Accounting`, `BloomExact`, `AnswersOnce`, `OutputExact` |
| `dns_response` | all parsers, every message of up to 14 bytes with up to 7 free ones, 4 values of a byte, 2 nested pointers, names of up to 3 bytes | `InBounds`, `NameExact`, `Tiling`, `Ends` |
| `redis` | buffer of 3, up to 8 results and 3 faults | `OverflowAfterFailure`, `ListSound`, `Ends` |
| `yarrp` | every kind of list with minttl 0 to 2 and maxttl 1 to 3, subnets that fit the int and the 32 bits and that do not; traces with 3 answers, fill mode up to the greatest hop limit and beyond it, neighbourhood, interrupt, another instance | `ProbedExactly`, `TracesFollow`, `NeighborhoodLearned`, `QuietShutdown` |

Each module's `TypeOK` is a conjunct of one of its invariants where it has no run
of its own (`Accounting`, `AddressShape`, `SetExact`, `InBounds`,
`OverflowAfterFailure`, `ProbedExactly`, `IInv`).

### Bounds, and why they are enough

* Two senders give every race of the scan: sender against sender in the
  callback, sender against receiver, and against the monitor. Shards of
  different sizes let one finish early. The targets must outnumber the quotas
  for the quotas to bind, and two probes per target put the packet quota in the
  middle of a target. Per-thread quotas as small as these occur on one machine
  of a sharded scan, where `--max-targets` is divided by all subshards.
* Cooldown 1 separates "complete was seen" from "the cooldown has passed" by a
  tick; clocks saturate one above it, and nothing compares them further up.
* The group of 17 is the smallest of cyclic.c's table. Its order 16 is not
  divisible by six subshards, nor is the quota or the list of 8 by 6, so each
  remainder is met; 12 slots with 3 of 4 ports used leave skipped slots, and some
  arcs without any target. Scans with so few targets per thread are reachable:
  hmap.c's test for too many senders counts unused port slots and blocked lines
  as targets.
* In `blocklist` the radix array has entries larger than, equal to and smaller
  than a leaf; networks have every length from 0 to the scanned length and one
  more; four entries suffice to split, cover, uncover and merge a leaf again.
* Five lines for two threads is the least `main` gives to two senders (it drops
  to one at two lines per sender), and splits as 3 and 2.
* In `tga` five lines of which three are kept reach `SEED_MAX_CAPACITY`;
  addresses of four digits may differ in fewer, as many and more digits than
  `HAMMING_THRESHOLD` (2 of 4 here, 3 of 32 in the code); a table of one bucket is resized
  at the first insertion and again; two subspaces of four addresses exceed the
  capacity of 5.
* In `probe` two senders share one question and not the other, so that they meet
  and miss; the words of the addresses put some of the windows of ports and ids
  across the wrap. The packets a pair of buffers holds at once never exceed the
  four cells.
* In `recv` every key shares bits with others, so that two first answers make a
  false positive of a third, which three packets reach; one host's word is where
  the window of acknowledgements wraps.
* In `dns_response` four byte values are the end of a name, a label and two
  pointers, which reach header, question and answers; pointers nest as deep as
  the limit and one more; a name can fill the buffer; one of the two domains asked
  for ends with a dot, so that its question has an empty label.
* In `redis` eight results fill the buffer of 3 twice, with two left for close,
  and three faults break one push, then another, then close.
* In `yarrp` maxttl is a power of two and not, blocks have different sizes, and
  TTLs are counted modulo 4, so that they wrap, also for a fill mode of 4, which
  stands for one above 255; `MAXNULLREADS` and the wait keep their order. Three answers
  make a fill probe that is answered again, and a router heard of twice. `CountMod` is 8
  and subnets have up to 5 targets at up to 3 TTLs, so that counts wrap within a subnet
  and between two, and to zero, which ends the program; a word of 4 prefixes holds
  every offset, the first half or more than one turn of them, of 2 likewise, and 0 is a
  granularity of at most 32.

Deadlock is checked in every run except `recv`, `probe` and `redis`, whose
instances stop when the bounded supply of packets, targets or results is used
up; elsewhere a stuttering action marks the states in which the program may stop.

### Fairness

`Scan!Fairness` is weak fairness of each thread and of the clock: the kernel
schedules runnable threads and time passes. No failure is forced to happen or
not to happen. Main spins on `recv_ready_mutex`, and the monitor locks it in
each round, so the two places at which the receiver takes it need strong
fairness: it is granted the mutex if that is free again and again. Nothing is
assumed for the monitor or main beyond weak fairness. In `TargetFile`, `Tga` and
`DnsResponse` weak fairness is one thread running on. `RedisOutput` assumes it of
the module and of the server's `Execute`: that the server answers, as long as it
is connected, is an assumption about an external program, without which
`redisGetReply` blocks. `Recv`, `SendProbe` and `Yarrp` assume none.

## 4. Proofs

All of the following hold for every value of the constants that the modules'
assumptions allow: any number of senders, targets, probes, retries, limits,
faults or none; any number of lines, ports and indexes; any hash into the bloom
filter; any cyclic group, subshards and ports; any address length and any lists of
networks; any message. Each invariant named here is inductive: there is one lemma
per action, or per group of actions that touch the same variables, and a frame
lemma for what a group leaves alone. TLC found each of them to hold on the
instance of the module's run before it was proved.

* **`ScanProofs`** proves that `IInv` is inductive (`ScanInductive`) and derives
  type correctness, `RecvOutlivesSenders`, `PcapHandleValid`, `CaptureBeforeProbe`,
  `OneLateProbe`, `ResultsCapped` and `QuotaKept`, the action property
  `CompleteIsFinal`, and for `~StoresSwapped` also `CooldownHonoured`. The properties are not inductive alone. `IInv` adds
  - `LockInv`: each mutex is held exactly by the thread whose program counter
    says so, which gives mutual exclusion of the callbacks and of the receiver's
    close and the monitor's `pcap_stats`;
  - `CompletionInv`: `it->complete[s]` follows the callback's position, only the
    callback that saw all of them set goes on to store finish and complete, and
    after that every sender is behind its loop;
  - `FinishInv`: unless the stores are swapped, from the store of `xsend.finish`
    on the last `sendto` is at least as old as it. With `RecvInv` (what the receiver has seen at each point
    of its loop) this turns "finish is longer ago than the cooldown" into "the
    last probe is";
  - `StartInv`: the order in which threads come to exist;
  - `LoopInv`: what a sender between its checks and its `sendto` may rely on,
    from which the quotas and the single late probe follow.

  `IInv` is an invariant of run `scan_limits`. `EndInv` adds what the end of a
  scan rests on: `JoinInv` (whom main has joined), `MonInv`, and `ProgressInv`
  (targets scanned and left add up to the shard, each scanned target was sent all
  its probes, and without faults and limits nothing but an empty shard ends a
  sender's loop). From it follow `EveryTargetProbed` and, if main joins the
  monitor, `MonitorOver`. `TotalInv` says that each total is the sum over the
  senders behind their store, and that what a sender has read before its store is
  still the total, which `it->mutex` guarantees; `TotalsExact` is what remains of it
  when all have added. Sums are folds of the community modules over a recursive
  function with CHOOSE; `SumStep` and `SumRemove` show that the function exists on
  finite sets and that any element may be taken out first, by looking at a minimal
  subset for which it fails (`MinimalSet`) in place of induction.
* **`ShardProofs`** proves `ListPartition`: with `ListCount = S * Q + R`,
  `R < S`, the range of a subshard ends where the next begins, the first begins
  at 0 and the last ends at `ListCount`; hence ranges are disjoint and cover the
  list. The invariant of the specification says that a subshard past
  `shard_init` holds its computed range. `QuotasExact` is proved of the quotas in
  the same way: any subshards together have the quotient each and one more for each
  below the remainder (`QuotaSum`). Its lemmas about sums are the first of those in
  `ScanProofs`, repeated, since neither module can extend the other.

  `ExactlyOnce`, that all threads of all machines together hand out each target of
  the scan once, is proved for every group in five steps.
  - *Powers.* The recursive function in `Powm` exists and is the only one
    (`PowersExist`, `PowersAgree`); the powers of sums and products of exponents
    follow (`PowmSum`, `PowmProduct`).
  - *The generator.* `CandidateFound` and `CoprimeIs` say that `find_primroot` ends
    at a candidate coprime to the group's order; such a one has an inverse
    modulo the order (`CoprimeInverse`, by Bezout's argument), so that the power of
    the known primitive root it yields generates the group as well
    (`PrimrootGenerates`). A generator's powers have the period of the order
    (`PowmPeriod`) and are distinct within one (`PowmDistinct`: they are as many as
    the elements they reach).
  - *The arcs.* The ranges of exponents of the subshards do not overlap and cover one
    period (`ArcsApart`, `ArcsCover`).
  - *A step.* `GetNextIs` says what the loops of `_shard_get_next_...` return: the
    first element of the rest of the arc that stands for a target, or none.
  - *The invariant.* `HandInv` says that there are exponents `cs` at which the
    threads stand and that what was handed out is, once each, the targets of the part of
    each arc that lies behind its `cs[i]` (`Account`, `WalkedTo`).

  `GroupAssumption` is what this rests on, a statement about the table of cyclic.c:
  for every number of targets there is a group that is large enough (the
  `assert(0)` behind the loop of `get_group`), its `known_primroot` generates it and
  its `prime_factors` are those of its order. TLC evaluates it on the instance's
  group; that it holds for the larger ones of the table is a matter of computation.

  A section of the module is about `TargetFile`, whose names differ from those of
  `Shard` for that reason. It proves `InStep` and `OnlyAllowedOwn`. The invariant
  keeps the counter within the thread's lines, strictly below the end wherever a
  line is about to be read; the file position equal to it; `dst_ip` empty or one
  of the thread's own lines, and allowed where it is about to be handed out; and
  every target handed out allowed and own. `PosIsFirst` shows that
  `ip_target_set_thread_pos`, which counts lines of all earlier threads, leaves
  the file at the thread's first line. `EachTargetOnce`
  follows from `OnceInv`: the targets that the walk has passed, in its order by
  port, index and line (`Behind`), have been handed out, and exactly they, once
  each, if no line is malformed; a line that is given up is not an allowed one.
  All this assumes that the ranges of the threads are non-empty, in order and inside
  the list (`TargetFileAssumption`), and `SplitFeedsWalk` shows that of the ranges
  that `shard_init` computes under its own assert that the list has a line for each
  subshard.
* **`BlocklistProofs`** proves all four properties of `Blocklist`, for every length
  of addresses, every radix and all lists of networks in every order. A tree's shape
  (`Shape`: a leaf on the path to each address, none below another) and its being
  canonical (no two sibling leaves of one value) are kept by `ConstraintSet`: `Put`
  breaks the second at most where it painted (`DifferBut`), and each `Merge` of the
  climb moves that place one level up, until it is repaired or at the root.
  `ConstraintSetKeeps` says so together with the colors (`Shows`): those of the
  addresses painted are the value, the others are as before. `PaintKeeps` carries this over the fold that
  paints an entry of several addresses. From it follow `TreeCanonical`, that
  `Blocklist` implements `Palette` step by step (`TopColorShows`), and
  `ListAgreesWithIndexes`. For `IndexBijection`, counting by
  leaves is counting addresses (`SizesCount`, `Counted`), the radix array lists
  the whole prefixes without repetition (`ArrayIs`), a leaf as large as a prefix is a
  union of them (`BigIsWhole`), and the descent of `_lookup_index` keeps the rank
  of what it looks for among the addresses below the node (`TurnKeeps`,
  `LookupFinds`).
* **`RecvProofs`** proves `Accounting`, `BloomExact`, `AnswersOnce` and
  `OutputExact`. Its invariant says that the filter is the union of the bits of
  the first answers' keys and holds all the bits of every key looked up
  (`BloomInv`), so that a key in `firsts` is never taken for new again; that a key
  is answered only in the step that makes it a first answer (`AnswerInv`); and where the
  packet in hand, between the two steps of the end of `handle_packet`, is counted
  already (`VerdictInv`, `UniqueInv`, `CooldownInv`, `OutputInv`). That a module's
  row is well formed is shown for all of the modules' rows (`RowsOK`).

  A section of the module is about `RedisOutput`, whose names differ from those of
  `Recv` for that reason. It proves `OverflowAfterFailure` and `ListSound`. Until
  close a flush is tried when the buffer has just become full and never again
  after one that failed (`FillInv`). What was pushed and not refused, in the list
  and in the pipeline (`Pushes`), increases at most twice, the second time from
  the closing flush on (`TwiceInv`); and a result that left the buffer is in the list or,
  in the closing flush, still on its way, or was refused in a reply that is
  still to be read (`KeptInv`).
* **`SendProbeProofs`** proves `AddressShape` (from `ShapeInv`: the suffixes ORed
  into `dst_ip` so far, and that a sender's packets for a target have grown with
  their suffix number), `OwnLabel` and `AnswersAccepted`. For `OwnLabel`,
  `CellInv` speaks of the shared arrays as long as no two senders have met in a
  question: a pointer dangles only between the two calls of the sender inside that
  question, others are NULL or point to live cells of their own, and what the
  sender inside has built is of its own label. `AnswersAccepted` is the arithmetic
  of packet.h: a remainder does not wrap around inside the window (`ModAdd`), and
  C's remainder is the mathematical one there.
* **`TgaProofs`** proves `TypeOK`, `SetExact`, `TargetsExact` and `SeedsCovered`,
  for every base and length of addresses, threshold, capacity and size of the first
  table. The invariant has three parts.
  - `ListInv`: the seeds and subspaces. Ahead of the clustering loops the list is still
    that of the sorted seeds, and the seeds of the cluster at hand match its subspace
    (`ClusterInv`). Merging keeps what matched (`MergeFacts`), and the stars of
    the result are the differences that `hamming_distance` counted, so that the
    threshold bounds them although a cluster has any number of seeds (`FewStars`). The
    bound of the outer loop wraps only for an empty list (`LastIndexIs`).
  - `TableInv`: every bucket has, at one place each, the inserted subspaces of its
    hash (`Placed`). `Put` keeps that, `Rehash` rebuilds it for the new
    capacity key by key (`RehashPlaced`), and so a look-up finds exactly what was inserted
    (`ContainsExact`).
  - `TargetInv`: each address is a target as often as it matches one of the places that
    the traversal has passed (`Times`, `Matching`, `Visited`). It rests on
    `GenerationLists`: `target_generation` lists the addresses that match a
    subspace, once each, which follows from what its recursion gives for the last
    `k` positions (`Fits`); `Power` bounds how many they are.

  `SeedsCovered` combines the three: once the traversal has passed the whole table, the
  subspace that a merged seed matches is among those counted, so the seed is a target.
* **`YarrpProofs`** proves `TracesFollow`, `NeighborhoodLearned`, `QuietShutdown`
  and `ProbedExactly`. What a thread that met no other one inside `probe` has stored so far
  is its own probe's (`OwnInv`), and a fill probe under construction continues a
  packet that an answer may quote, of this process or another (`FillInv`,
  `QuotableGrows`); a TTL's probes are counted only after an
  answer from it (`LearnInv`); while main waits, the listener's timeouts are those
  since the last packet (`WaitInv`, `ClockInv`).

  `ProbedExactly` rests on the walk, of which nothing is assumed but that blocks are
  sequences of numbers, of a quarter of `CountMod` at most where they are subnets, as an
  int bounds them (`YarrpAssumption`). Every position is in a block, also where the
  count wraps (`BlockFacts`); in an exact walk it does not wrap (`EndIs`), the block is the only
  one (`BlockUnique`), and an offset is what it is after the shift (`QuotientFits`,
  `TargetFits`). A block's target and TTL are quotient and remainder of
  the offset by `TtlsEach`: in a permuted walk because the mask then has as many bits
  as maxttl (`LogExact`, `ExactAddress`). So positions and the places they are sent
  to, `Place`, correspond one to one (`PlaceOnce`, `PlaceExpected`, `PlaceOnto`).
  `VisitInv` says that the bags of what was probed and skipped have no repetitions,
  nothing in common, and together the places of the positions taken, `CountInv` that
  `count` lags behind them by the probe under way. A walk that is not `Exact` is
  claimed nothing of but its types (`AddressType`).
* **`DnsResponseProofs`** proves `InBounds`, `Tiling` and `NameExact`, for every message,
  well-formed or not, that has room for both headers. `RestInv` keeps `data` and `data_len` at what the
  records have left, `NameInv` the window and the buffer of `get_name_helper`,
  `CallInv` what its callers have checked before; `TileInv` and `CountInv` say that
  the records found tile the message and that each section before this one is
  complete unless an error was seen. `NameExact` compares `get_name_helper` with a
  walk over the message that has neither buffer nor counters (`Read`). That walk
  exists although pointers may form loops, since each of its steps follows
  one more pointer, of which there are at most `MAX_LABEL_RECURSION`, or moves forward (`Depth`,
  `WalkExists`). `WalkInv` says that what is in the buffer and what the walk finds
  from here on, joined by dots, are the whole name (`Coming`), which each of
  `Pointer`, `Label` and `EndOfName` keeps, with its byte counts; a name that is
  given up was malformed or longer than the buffer (`GivesUp`). That the first question
  shows the domain asked for rests on `domain_to_qname`: each length in it leads to
  the next one or to the end (`QnameShape`), so the walk over a repeated question
  collects the domain up to its first empty label (`AlongQuestion`, `EchoShown`).
  `LeastNumber` (a set of numbers has a least one) and `Numbers` (a set with zero and
  successors has all) stand where induction would be used. `DnsAssumption` says of
  the domains that they are C strings, sequences of bytes other than zero and of
  dots, and not empty, which module_dns.c asserts (`domain_len > 0`, line 609).

A recursive function is used in a proof only after it is shown to exist: what its
equation says up to a bound is true of some function (by induction on the bound,
or by looking at the least bound for which there is none) and two such functions
agree. The modules define powers that way (`Pow2`, `Power`) and write no `2 ^ n`, of
which the provers know nothing.

Only model-checked: liveness (`ScanEnds`, `WalkEnds`, the three `Ends`), which is
beyond this proof system. Every invariant and every other action property that a
passing run checks is proved.

## 5. What is not modelled

* *Left out*: AES and validation words (computation on 128-bit words); packet
  layout and checksums (byte formats); CSV and JSON output and the packed
  record's layout (formatting); option parsing (hopt.c is gengetopt's generated
  code); sockets, gateway discovery and logging (system calls); the PF_RING build
  (needs a library that is not part of the repository; the default build is
  modelled); the vendored libcperm; runner.py, which starts one program after the
  other and waits for each, and the offline tools.
* *Data*: src/probe_modules/module_dnsz.h, 65,557 lines and nearly half of the
  implementation's, is a table of data that no file includes.
* *Copies*: the 29 DNS modules repeat one file of some 1,600 lines. Each has its
  row in `SendProbe`, `Recv` and `DnsResponse`, at its own lines, which says where
  it differs; what they share is modelled once, at the lines of one of them. Their
  tables of types and field descriptions, and the texts they print, are not
  modelled.
* *Within modelled parts*: the rate control of send_run (a busy loop with no
  effect on state); the numbers in the monitor's status line; strings of
  blocklist entries kept for logging; lines of a target list that exceed
  `fgets`' 64-byte buffer, which would be counted twice there and once by `wc -l`;
  filter expressions other than the two that are always there; the contents of a
  DNS record's data other than names; messages shorter than the headers (see
  below).
* *Yarrp*: the IPv4 tracer and its listener, which have the structure of the IPv6
  ones; the reading of an input file, which keeps one address
  of each /64; entire-Internet and testing mode; the sleep between probes.

## 6. Where code and documentation disagree

A run that TLC must find violated:

* **`scan_cooldown`**: the optimised release build (`-DENABLE_DEVELOPMENT=OFF`;
  the default is a development build without `-O`) stores `xsend.complete` before
  `xsend.finish`. A receiver that reads both between the two stores subtracts a
  finish time of zero, finds the cooldown over, and stops capturing while answers
  to the last probes are still on their way. The window is one instruction wide,
  or a time slice if the sender is preempted there.

Observations without a run. In the scan:

* A sender whose `send_run_init` fails returns (src/send.c:262) without its
  completion callback, and with `send_mutex` held, so `xsend.complete` is never
  set. When the other senders had taken the mutex before it, main joins all
  senders and then waits for a receiver that goes on for ever.
* If the receiver's initialisation fails, `recv_ready` is never set and main
  spins at src/hmap.c:301.
* The monitor stores its own sum into `xsend.sendto_failures`
  (src/monitor.c:306), to which the callbacks add: the reported number counts
  failures twice or misses some. `iterator_get_fail` adds these 64-bit counters
  into 32 bits (src/iterator.c:140).
* With `--quiet` and no status file main does not join the monitor
  (src/hmap.c:385) and frees the iterator and the blocklist while the monitor may
  still read the shards: `MonitorOver` fails with `WaitMonitor = FALSE`.

In the choice of targets:

* A thread whose arc holds no index is given index -1 (src/shard.c:203).
* A blocked line at the end of a thread's lines makes the walk skip the remaining
  indexes (src/ip_target_file.c:169); two malformed lines in a row repeat the
  previous target under `--ignore-filelist-error` (:178).
  `EachTargetOnce` states what holds nevertheless.
* `--ignore-blacklist-error` (README.md:276) has no effect: src/hmap.c:1179
  passes the flag to `blocklist_init` before hmap.c:1184 sets it.
* An entry longer than `--max-len` is not painted (lib/blocklist.c:192), so a
  blocked host inside a scanned prefix does not block the prefix; README.md:120
  does not say so.
* The branches of src/ip_target_file.c for the end of the file are unreachable
  as long as the file does not change (`InStep`).
* A seed file with nothing but comments and empty lines makes
  `hierarchical_cluster` (lib/tga.c:127), which src/hmap.c:1097 calls without a test,
  compare its index with 2^64 - 1: the program is busy for longer than anyone
  waits. `Ends` is restricted to runs with a seed.
* One seed more than `SEED_MAX_CAPACITY` is kept, since the size is compared with `<=`
  before one is added (src/hmap.c:1079), and a seed that no other one is near is not
  a target.
* The generated targets may exceed `TARGET_MAX_CAPACITY` by one subspace, since
  it is compared with `<=` before one is written out (src/hmap.c:1113), and hold
  an address once for each subspace it lies in (`TargetsExact`).
* With several suffixes per prefix, each keeps the bits of those before
  (src/send.c:359); only the random module gives different ones (`AddressShape`).

In probes and answers:

* Two senders that build a packet for the same question at once, with a label
  made per packet, may send each other's label or use freed memory (`OwnLabel`
  holds only as long as they do not meet).
* Where the window of source ports or ids wraps around, answers to the scan's own
  probes are refused; dnsr takes its source port by the question's index, which
  may lie outside the range that is checked (`AnswersAccepted`).
* dnsf, dnsaf, dnsafe and dns6af exchange source and destination; dns6afe does not.
* In tcp_scan a FIN-ACK has the key of the data segment before it and is dropped
  as a repeat (src/probe_modules/module_tcp_scan.c:159, src/recv.c:94), so the
  connection is not closed; packets that are rejected after the look-up in the
  bloom filter hide later ones with their key (`OutputExact`).
* Of the DNS modules only module_dns checks that a response is long enough and
  repeats the question; in the others the length that is left for the records
  wraps around for a message without a whole header, which `DnsResponse` excludes.
* In all of them `payload_len` is `udp_len` counted from the DNS header on
  (src/probe_modules/module_dns.c:969), though it counts the UDP header too: the
  records end with the message, but a pointer may lead, and the name behind it extend, up
  to 8 bytes beyond it (:244). `InBounds` is about the length that the code uses.
* After a failed flush the redis buffer is full and the next result is stored
  behind its end, since `==` no longer holds (`OverflowAfterFailure`); what was
  already pushed is pushed again, and the reply is freed twice (`ListSound`).

In Yarrp:

* With a maxttl that is not a power of two a permuted walk misses TTLs and looks
  behind the end of the targets (src/Yarrp/iplist.cpp:292); `SubnetList` steps by
  /48 whatever the granularity; `ProbedExactly` says which settings are exact.
* "upper bits are offset into subnet", says src/Yarrp/random_list.cpp:81 of a
  permuted walk, but the offset is an int that is shifted by 64-granularity bits before
  it is widened (:88). From 2^(granularity-33) on the result is negative, the sign fills
  the upper word, and the probe leaves the subnet: with a granularity of 48 the
  second half of a /32 becomes a part of another /32. Bits beyond the 32nd are lost, so
  that in a larger subnet some prefixes are probed repeatedly and others not at all.
  The default granularity is 50. `Exact`, the premise of `ProbedExactly`, excludes such
  subnets: the property fails for them (`Shifted`).
* "Support multiple simultaneous instances", says src/Yarrp/CHANGES:32, and the IPv4
  listener skips what is "not from this yarrp instance" (src/Yarrp/listener.cpp:66).
  The IPv6 listener takes every answer that quotes the magic number
  (src/Yarrp/listener6.cpp:123): it records those to another instance's probes or an
  earlier run's, learns from them, and in fill mode continues their traces
  (`Quotable`, `TracesFollow`).
* A permuted walk counts probes in 32 bits (src/Yarrp/random_list.cpp:66, :77,
  src/Yarrp/subnet_list.h:29): with more of them it leaves subnets out, and with a multiple
  of 2^32 the program prints its usage and ends (src/Yarrp/yarrp.cpp:253). A subnet's
  prefixes are `1 << (granularity-m)`, an int (src/Yarrp/subnet.cpp:49), undefined
  from 2^31 on; so is the shift at random_list.cpp:88 for a granularity of at most 32.
  The model has subnets of up to 2^30 prefixes.
* The fill probes of the listener and the probes of main mix in the one frame
  (src/Yarrp/trace6.cpp:92); an answer from a target is continued at the address
  `::` (listener6.cpp:131).
* fillmode is an int that nothing bounds by 255 (src/Yarrp/yconfig.h:39), the hop
  limit a byte: with a greater one a trace goes on at the hop limit 0
  (`TracesFollow`).
* A comment says the listener should "block until main thread says we're ready"
  (listener6.cpp:55), but only trace4.cpp:29 takes the lock. SIGINT ends the
  listener and not the probing loop (listener6.cpp:85).

## 7. Plan

Modelled, in this order: `Scan`, `Shard`, `Blocklist` with `Palette`,
`TargetFile` (with the proofs of section 4), then `Recv`, `SendProbe`, `Tga`,
`DnsResponse`, `RedisOutput`, `Yarrp`.

Of the properties that the runs check, those of liveness stay without a proof.

There is one run per question. Further compositions (`Scan` over `Shard`, `Shard`
over `Blocklist`) multiply state spaces that are checked apart without adding a
shared variable: the parts meet in constants and sequential calls only.
