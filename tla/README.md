# Verification of shardingsim

TLA+ models of the parallel transaction generator and its receiver, checked
with TLC on small instances and, where it is possible, proved with TLAPS for
every instance. Paths are relative to the repository, whose code is the
reference for every definition; `PROJECT.json` gives the lines each one models.

Contents: [the system](#the-system), [the modules](#the-modules),
[the runs](#the-runs), [fairness](#fairness), [the proofs](#the-proofs),
[divergences](#divergences-from-the-documentation), [limits](#limits),
[plan](#plan).

## The system

Two programs. The **generator** (`main.c`) creates `count` signed transactions
in OpenMP threads, cuts them into batches, and submits each batch either to an
in-process callback or, by default, to the **receiver** (`src/receiver.c`) in
a ZeroMQ request. The receiver unpacks the batch, optionally verifies each
transaction, counts, and answers `OK:<accepted>|<rejected>`.

| Part | State | Operations | Talks to |
|------|-------|------------|----------|
| batch plan (`main.c` 92-106, 164-173) | the command line, `num_batches` | clamps, bounds of a batch, nonce of a transaction | the loop over the batches |
| worker threads (`main.c` 158-237) | loop counter (in libgomp), `thread_submitted[tid]`, one REQ socket each | claim a batch, create and pack, send, receive or time out, count | receiver over ZeroMQ; main thread at the barrier |
| main thread (`main.c` 117-156, 239-263) | wallets, contexts, sockets | set up, join, close, sum, print | all worker threads |
| receiver (`src/receiver.c`) | `total_received`, REP socket | receive, test prefix, unpack, verify, count, reply | all REQ clients |
| transport (libzmq) | each REQ socket's lock-step state, pipes | send, receive, close | both programs |
| transactions (`src/transaction.c`) | none | create (three ways), sign, verify, expire, serialize (two forms) | wallet, hashes, protobuf |
| wallets (`src/wallet.c`) | keys, address, nonce; a file | create, save, load, next nonce, sign | OpenSSL, the file system |
| hashes (`src/blake3.c`, `src/common.c`) | hasher state | init, update, finalize | transaction hash |
| wire format (`proto/`) | none | pack, unpack (generated) | both programs |
| utilities (`src/common.c`) | log level, benchmark counters | hex, strings, memory, statistics | everything |

What is hard about it, and what makes each part correct:

- *Submission.* The programs share no state and agree on nothing but replies.
  A wait may time out while its reply is on the way, the receiver may die and
  come back, several threads and other clients interleave, and the generator
  ignores what `zmq_send` returns. Correct means: a batch is received at most
  once; the figure printed is never more than what the receiver had; nothing is
  printed before every thread is done; a receiver that answers everything gets
  everything; and the program ends.
- *Plan.* `int` arithmetic on user input, a short last batch, a nonce that may
  wrap. Correct means: each index is created once, by one batch, with a nonce of
  its own, and nothing overflows inside the loop.
- *Set-up.* Every one of four acquisitions per thread may fail, each has its own
  way out, and the arrays of pointers start uninitialised. Correct means: what is
  acquired is given back once and nothing else is, and no call on any way out can block
  but one: `zmq_ctx_destroy` after the loop, for as long as a request is still queued.
- *One batch.* Five calls of signing may fail, a failure is ignored, proto3 drops
  zeros, the receiver's buffer is of a fixed size while numbers are of variable
  length on the wire, and the thread may give up waiting at any time, or never have sent
  at all. Correct means: what arrives is what was created, exactly the unsigned are
  rejected, no message is cut, no resource is lost or released twice, and a batch that
  was sent is counted only after its verdicts.
- *One transaction.* It has two serialized forms, a lifetime that is added in 32 bits,
  and 0 for "never". Correct means: each form gives it back, what was cut short is not
  taken for signed, and it lives exactly its blocks, as far as the sum does not wrap.
- *Hasher.* Chunks are flushed late, values are merged on a stack. Correct means:
  the digest is a function of the whole input, however it was cut into calls, and
  no two inputs share one (up to collisions of the compression function).
- *Wallet file.* It is truncated, then written without a look at the results, and it
  holds the nonce. Correct means: whoever gets a key from the file gets the address
  and the nonce that were saved with it, and no nonce that a save recorded is
  handed out again, across crashes. No program of the repository calls this code
  yet; it is part of the library that the header files offer.

## The modules

| Module | Models | Extends / uses |
|--------|--------|----------------|
| `BatchPlan` | clamps, number of batches, bounds, nonces; operators only | |
| `PlanLoop` (`MCPlanLoop`) | the loop over the batches in program order, command line chosen in `Init` | `BatchPlan` |
| `ReqRep` | REQ and REP sockets of libzmq (external) | |
| `Generator` | worker threads and main thread | `ReqRep`, `BatchPlan` |
| `Receiver` | the receiver process, its death and restart | `ReqRep` |
| `Simulator` | both programs, other clients, history, all properties of the pair | `Generator`, `Receiver` |
| `Submission` (`MCSubmission`) | the abstract specification of one run | |
| `Resources` | memory blocks and handles: held, released, misused | |
| `Setup` | `main` before and after the loop | `Resources` |
| `Wire` | the protobuf encoding: fields, presence, defaults, sizes; operators only | |
| `Transaction` | the operations on one transaction; operators only | `Wire` |
| `BatchWork` | one batch from creation to verdict | `Resources`, `Transaction` |
| `TransactionLife` (`MCTransactionLife`) | one transaction: created, serialized, damaged, read back, expired | `Transaction`, `Hex` |
| `Hex` | bytes as hexadecimal text; operators only | |
| `WalletFile` (`MCWalletFile`) | a wallet, its nonce and its file, with crashes | `Hex` |
| `Blake3` | the hasher | |
| `PlanLoopProofs`, `SubmissionProofs`, `SimulatorProofs`, `SetupProofs`, `BatchWorkProofs`, `TransactionLifeProofs`, `WalletFileProofs`, `Blake3Proofs` | theorems about the modules they are named after; those about `BatchPlan` are in `PlanLoopProofs`, those about `Transaction` and `Wire` in `BatchWorkProofs` | TLAPS |

### Generator and ReqRep

A thread `t` is at `pc[t]`: `"claim"` (asking libgomp for an iteration of the
`omp for`), `"send"` (the batch is packed), `"recv"` (inside `zmq_recv`) or
`"barrier"`. `cur[t]` is its `b`, and `next` is libgomp's shared counter under
`schedule(dynamic)`. `Claim` stands for the iteration up to the packed
message, which no other thread can see; `SendBatch` is `zmq_send`, and its two
outcomes - accepted, or refused with EFSM because the last reply is still
awaited - are those of `ZmqSend`; the program treats them alike. `RecvReply` and
`RecvTimeout` are the two ends of `zmq_recv`; the former counts the batch the
thread works on *now*, as line 222 does, whichever batch the reply belongs to.
`SubmitInProcess` is the branch of `--in-process`; `use_zmq` is chosen in the initial
state, so that every run has both modes. The main thread is at
`phase`: `JoinThreads` (the barrier), `CloseSocket` (one turn of the loop of lines
242-245), `Report` (lines 250-254).

`net` holds every message on its way as a record of its sender, the batch it
carries and how far it has come: in the sender's pipe, in the receiver's
inbox, being worked on, or a reply. `ZmqClose` waits for the pipe to drain: a
REQ socket keeps libzmq's default, infinite linger, and it is
`zmq_ctx_destroy` that blocks.

### Receiver and Simulator

`Deliver` is libzmq moving a request to the REP socket, `Recv` is `zmq_recv`,
`Answer` the rest of the loop body. A request of form `"batch"` unpacks;
`"garbled"` has the prefix and does not (it is answered `OK:0|0`); `"other"` lacks
the prefix (`UNKNOWN`). Only foreign clients send the last two. `Crash` is the
death of the process at any point: its inbox and the request it works on are
lost, its counter too, and any subset of the replies not yet read; requests still
in a client's pipe survive. `Simulator` runs both and adds history variables:
`sent` (requests that `zmq_send` accepted), `deliveries` and `receivedFrom` (what
any incarnation of the receiver has counted), `credit[b]` (the batch on whose reply
`b` was counted) and `missed`.

### Submission

Each batch is `"open"`, `"counted"` or `"missed"`. `Receive` receives a batch once;
`Count(b, c)` counts an open batch against a received one `c` that is at least as
large and not used up; `Miss` gives a batch up; `Submit` is receive and count in
one (in process); `Report` needs every batch to have ended. That `c` need not be
`b` is the promise the code really keeps: see the first
[divergence](#divergences-from-the-documentation). `Simulator!S` instantiates it:
`received` is the batches with a delivery, `spent` the credits, `outcome` is read
off `credit` and `missed`, `reported` is `phase = "done"`.

### Setup, Resources, Blake3

In `Setup` and `BatchWork`, `pc` names the next call and each action is
one call with its ways to end. `Resources!Exchange(out, held, in)` releases, uses
and acquires, and records in `misused` whatever was released or used while not
held. In `Setup`, `thread_ctxs` and `thread_socks` hold `"garbage"` until they are
written, so that a way out which visited one entry too many would be seen. `queued` is
the threads of which a request is still in the pipe after the loop. libzmq hands such
a request over at any time or never (`Transfer`, not a step of `main`), and
`zmq_ctx_destroy` returns only when the context has no open socket and no queued
request (`Destroyable`): `DestroyContext` waits, as in `ReqRep!ZmqClose`.
In `Blake3` the compression function is a term of its arguments and the i-th
input byte is named i, which loses nothing because the code never branches on
a byte; the buffer, the late flush, the counter test that decides how far the stack
is merged, and `finalize` are as in the code. `AddChunkCv` writes the code's `1 << m` as
a function `power`, which the provers can unfold.

### Wire, Transaction, BatchWork, TransactionLife

`Wire` takes the fields of the two messages from the descriptors of the generated
code. A packed message is a function from field numbers to values: `Pack` leaves out
what proto3 leaves out, `Unpack` restores defaults, and `TransactionSize` adds up
what libprotobuf-c writes. `Transaction` has an operator for each function of
`transaction.c`; a transaction is a record, and a signature names how it was
made, by whom, and from which hash. `main` and the receiver repeat the conversions of
`transaction_serialize_pb` and `transaction_deserialize_pb` line by line, so `pb_of` and
`pb_to_tx` are `to_pb` and `from_pb`.

In `BatchWork` two sequential processes work on one batch. `pc` is where the thread is
(`"begin"`, the calls of signing, `"pack"`, `"recv"`, `"free"`, `"done"`) and `stage` how far the
message has come in the receiver (`"unsent"`, `"sent"`, `"verify"`, `"answered"`).
`PackTx` packs one transaction and adds its size to `pb_size`; `VerifyTx` is one turn of the
receiver's loop. `req_state` is the state the thread's socket was left in by the batches
before: while it awaits an earlier reply, `SendMessage` is refused with EFSM and nothing
is sent. `ReadReply` is the reply to this batch, or, to a batch that was refused, the late
one to an earlier batch; `TimeOut` gives up, whatever the receiver is doing, and the
thread frees its batch while the receiver goes on.

In `TransactionLife` the caller is free to create, serialize and read back in any order.
The hexadecimal form is the digits of the structure's memory, made and read by the
operators of `Hex`: `BytesOf` is that memory, byte by byte, and `StructOf` reads it as
the structure again. Both are parameters, of which `MemoryAssumption` says only that
they undo each other on transactions the library makes, since the structure is packed.
`Damage` is what may happen to a form on its way: a protobuf message loses its end (cut at a
field boundary it is still a message), a text loses its end, or one of its characters is
misprinted. A text of another length or with a character that is no digit is refused; a
digit in place of another is accepted, for the form has no checksum, and no property says
otherwise. `height` is the block height that a caller passes to
`transaction_is_expired`; `last_block` remembers, without wrap, what the
transaction was made for.

### Hex and WalletFile

A wallet is a record of the fields of `struct Wallet`; a file is a record of its four
lines, with a missing line and a line cut before its value read alike, as
`wallet_load` reads them. `OpenToSave` is `fopen`, which truncates; what `fprintf`
prints stays in the stream's buffer until `CloseSaved`, or a `Crash` at any moment,
leaves some beginning of the text (`Prefixes`): a shorter name or address, a nonce
without its last digits, a key without its end. `Load` keeps what `wallet_load`
keeps; the key handle is lost when the text of the key cannot be read.
`handed_out` and `recorded` are history: the nonces handed out since the wallet was
loaded, and those of each key at the end of its last `wallet_save`. `wallet_set_nonce`
takes back the nonces it goes behind, which is what it is for.

Some modules contain operators under the heading "Faulty variants": slightly wrong
versions of a definition, each of which violates one of the properties. They are
not part of any specification; they show that the property bites.

## The runs

Deadlock is checked in every run but `Submission`, whose actions are used up once
every batch has ended, and `WalletFile`, where the two keys are used up. Programs that stop have an explicit step that stutters.

| Run | Question | Instance |
|-----|----------|----------|
| `PlanLoop` | Do the batches partition the transactions, with distinct nonces and no overflow? | a 5-bit `int`: all 32 counts, 8 values of `--batch` on both sides of both clamps, 3 base nonces of which 2 wrap |
| `PlanLoop_overflow` | Is every count honoured? (no) | the same |
| `Simulator_safety` | Do the books of the two processes agree, and does each mode implement `Submission`? | both modes, 2 threads, 7 transactions in 4 batches (the last one short), 1 foreign client, 1 crash |
| `Simulator_liveness` | Does the loop end with no help from the receiver? If a dead receiver is restarted: is the figure printed, and is every request that survives received? | both modes, 2 threads, 5 transactions in 3 batches, 1 foreign client, 1 crash |
| `Simulator_late_reply` | Is every counted batch one that was sent? (no) | 1 thread, 2 batches, no crash |
| `Simulator_gone` | Is the figure always printed? (no) | 1 thread, 2 batches, a receiver that is not restarted |
| `Submission` | Does the abstract specification say what it should? | 4 batches, one short |
| `Setup` | Does each way out give back everything once, and does `main` end unless a request stays queued for ever? | 3 threads, both modes, any of them with a request left in its pipe |
| `Blake3` | Is the digest a function of the input, and injective? | blocks of 2, chunks of 4, up to 34 bytes, cut in every way, both modes |
| `BatchWork` | Does a batch arrive uncut and intact and get the right verdicts, whatever fails? | 3 transactions, both modes, with and without PEM text and `--verify`, amounts and nonces that are 0, small, and the largest (the nonce wraps inside the batch), a socket that may await an earlier reply, a timeout at any point of the wait |
| `TransactionLife` | Does each transaction come back as it was, and live its blocks? | 3 ways of creation, 2 forms, every cut, every character misprinted as a digit or as none, amounts that overflow when added, 3 first heights and 3 lifetimes around the wrap of a one-byte expiry |
| `WalletFile` | Can a wallet be trusted that comes from a file? | 2 keys, nonces up to 3, a name of 5 characters cut to 4 that then ends in a blank, every cut of every line |

Why the bounds are enough:

- *Simulator.* `threads_arg = 2` and `batch_arg = 5` with `MAX_BATCH_SIZE = 2`
  exercise the clamp. Two threads are the fewest that race for `next`, for the
  receiver and for the barrier; four batches let a thread time out, have its next
  send refused, read the late reply in a third batch and go on; the short last batch
  tells a count of `batch_size` from a count of `txs_in_batch`, and a credit from an
  earlier, larger batch from one of a later, smaller one. One crash splits
  every run into a time before and a time after it, and crashes can hit at every
  point; the proofs cover any number. The foreign client occupies the receiver and
  brings in the two replies the threads never get.
- *PlanLoop.* In a 5-bit `int` the ceiling overflows for the counts within
  `batch_size` of `INT_MAX`, as it does in 32 bits, and there are no more nonces than
  ints, so that they wrap. The theorems hold for every width.
- *Setup.* With three threads the one that fails has threads on both sides, and so has
  the one whose request stays queued.
- *Blake3.* 34 bytes are nine chunks, so that the stack is merged after an odd and an
  even number of chunks several times over and the last chunk, the last block and
  both together are empty, partial and full.
- *BatchWork.* Three transactions can fail in signing independently of each other. The
  receiver's buffer is just as long as `BatchWorkAssumption` wants it, so that one byte
  more on the wire is a violation; that the real buffer is long enough for the real
  batch is a theorem (`TwoMegabytesSuffice`). `UINT64_MAX` is 2^30 - 1, the largest
  of the form that TLC can compute with; it takes a varint of five bytes.
- *TransactionLife.* Every number is one byte and an address is one byte, so that
  `MCTransactionLife` can write a transaction as twelve. From the heights 252 to 255 the
  lifetimes 0, 1 and 3 end before the wrap, at it and beyond it, and from height 0 a
  lifetime of 0 is `TX_NO_EXPIRY`; as many blocks go by as the longest lifetime lasts.
  `CutPb` cuts at every field, `CutText` after every character.
- *WalletFile.* One address byte has all that the two digits can do; a nonce of one
  digit more or less is a division by the members of `POWERS_OF_TEN`, which TLC gets as
  1, 2 and 4 so that four nonces suffice for a number to lose two digits. Two keys
  are the fewest for a file of one and a wallet of the other. The proofs hold for
  every length, key, name and power.

What each property says stands as a comment above it. Those of `Simulator`, from
the strongest: `ImplementsSubmission`; `CreditSound` with `LateReplyOnly` (every
counted batch has a received batch of its own behind it, and it is another one
only when that one was given up and this one never sent);
`SubmittedWithinReceived`, `ReportIsExact` and `QuietRunSubmitsAll` (the figure);
`CountedAtMostOnce`; `ReportComesLast`; `LockStep`; and `IInv`, which is what the proofs
rest on.

## Fairness

- `GeneratorFairness`: weak fairness of every thread and of the main thread. The
  operating system runs runnable threads, and a thread blocked in `zmq_recv` is
  released by `ZMQ_RCVTIMEO` (`main.c` 149). A step of a thread in `"recv"` is the
  reply *or* the timeout, so fairness does not promise that a reply which exists
  is read. `zmq_ctx_destroy` has no timeout: `CloseSocket` is simply not enabled while
  the pipe is not empty.
- `ReceiverFairness`: a running receiver answers what it works on and libzmq delivers
  (weak fairness), and its REP socket takes requests of all clients in turn
  (strong fairness per client: taking a client's request is disabled while
  the process works on another one, and REP sockets are fair-queued).
- `ReceiverComesBack` says that the receiver is fair and that a dead one is started
  again. It is not part of a specification but the antecedent of the two properties
  that need it (`ReportsIfRestarted`, `SurvivorIsReceived`); `LoopEnds`, in the same
  run, does without. `MaxCrashes` bounds the deaths.
- `Setup!FairSpec`: weak fairness of `main` alone, a sequential program that runs on
  while no call blocks. Of the receiver nothing is assumed, so a request may stay
  queued for ever. `EndsOrAwaitsReceiver` says that this is the only thing that can
  keep `main` from its end, and then in the `zmq_ctx_destroy` after the loop; that it does
  is what run `Simulator_gone` shows.

## The proofs

`tlapm` checks every proof. The assumptions are the named `ASSUME`s of the modules:
limits of the `int` and of the clamps (`LimitsAssumption`), a command line of ints,
at least one thread, foreign clients that are not integers, finitely many batches,
addresses that are not the coinbase marker, a `NULL` that is no number, a buffer that
holds the largest batch, a structure that its bytes determine (`MemoryAssumption`), chunks
of a whole number of blocks.

Every safety property that a run checks is also a theorem: for each, TLC says that
it holds of the instance, and the theorem that it holds for every value of the constants.

**Plan** (`PlanLoopProofs`). `NumBatchesIsCeiling` characterises
line 106 when the sum fits, `OverflowPlansNothing` when it does not (the number of
batches is then not positive), and `InsideTheLoop` shows that no expression of the
loop body wraps. `Consecutive` puts the bounds of neighbouring batches next to each other.
From these, `BatchesPartition` (the first batch starts at 0, each where the one before
ended, the last ends at the total; none is empty or larger than the batch size; so they
cover each index once) and `NoncesDiffer`, and for the loop
`PlanCreatesAll`, `PlanCreatesOnce` and `PlanNeverOverflows`.

**The pair** (`SimulatorProofs`). `Invariance` proves `Spec => []IInv`. The properties
alone are not inductive: that no two batches share a credit depends on where the
replies are. `IInv` adds

- `ClaimInv`: who works on which batch; each claimed batch is concluded or held by
  exactly one thread, and is sent at most once, by the thread that holds it;
- `MessageInv`: every message of a thread carries a batch that the thread has sent
  and either works on or has given up, counted by the receiver if and only if the
  message is a reply, and not credited to any batch yet - an unread reply is
  worth one credit;
- `CountInv`: what a thread has counted, *plus* an unread reply, is within what the
  receiver had from it, and lies within the transactions of the batches left
  behind, which is what keeps `thread_submitted` within its `int`.

`InitEstablishes` and `NextPreserves` follow, one lemma per action and conjunct. From
the invariant: `TypeCorrect`, `SocketsInLockStep`, `ReceivedAtMostOnce`,
`CreditsAreSound`, `LateRepliesOnly`, `NeverOvercounts`; and with the further invariant `CloseInv`
(sockets already closed have nothing in their pipes) `ReportIsLast`.

The figure is a sum over threads, what it stands for a sum over batches. `TotalsInv` says
that the two are equal at all times, and that the figure, once summed, is the first.
`CountingKeepsTotals` is its heart: as a batch joins the counted ones, the counter of its
thread grows by the batch's size. Hence `FigureIsExact`. For `QuietRunIsComplete` the
counted batches are then all of them, and the lemmas about the plan, through the
instance `Plan` of `PlanLoopProofs` with this run's command line, add them up to the count.

**Refinement** (`SimulatorProofs`). `Implements` proves
`Spec => ImplementsSubmission`: initial states map to initial states, and each action
maps to a step of `Submission` or to a stutter (`StepMapsToStep`). Reading a reply maps
to `Count(cur[t], m.batch)`; that its guard holds is `MessageInv`, and that `m.batch`
is at least as large is the order in which batches are claimed.

**The abstract specification** (`SubmissionProofs`). `BooksBalance` (as many batches
spent as counted, by cardinality), `ReportSettles` (no outcome changes after
the report) and `CountsWithinReceipts`. The last one compares two sums: the invariant is that the
counted batches come to no more than the spent ones, which are among the received ones.
It rests on lemmas about the sum of a function over a finite set, which the community
modules define by a fold: adding an element adds its value, a subset of non-negative
values comes to no more. They are proved by induction on finite sets, itself obtained
from the well-founded order of strict subsets (`WFMin`), because the library's
induction theorems take an operator as a parameter; `SimulatorProofs` uses them through
the instance `Books`.

**Set-up** (`SetupProofs`). `SetupInvariance` proves that what `main` holds is, at each
step, the set `Held`: a function of `pc`, the two loop counters and the pointers
written. A lemma per action shows that its exchange turns `Held` into `Held'`
(`BooksKept` does the common part). `QueueInv` adds that only threads whose context is
still to be destroyed after the loop can have a request queued. Hence
`SetupTypeCorrect`, `NeverMisuses`, `LeavesNothing` and `OnlyRequestsBlock` (no context is
destroyed before its socket is closed, and on the way out of a failed connection nothing is
queued: the safety half of `EndsOrAwaitsReceiver`), for every number of threads.

**One batch** (`BatchWorkProofs`). The invariant of `BatchInvariance` has four parts:
`HeldInv` (what is held, as a function of `pc` and `stage`), `CreatedInv` (each transaction has the
nonce of its place, and its signature, if any, is made from its own hash),
`PackedInv` (the i-th message is that of the i-th transaction, and the sizes so far are
at most as many times the largest element) and `VerdictInv` (what was unpacked is what was
packed; each verdict is that of the transaction in its place; the counts are the
cardinalities; the thread counts a batch that was sent once it is answered).
`CountedAreJudged` is then what a count is worth: for a batch that was sent, a verdict on
each transaction or a receiver that could not unpack; for one that was refused, no
verdict at all. The heart of the proof are three facts about data, for every value: `from_pb`
after `Unpack` after `Pack` after `to_pb` gives a transaction back, zeros and missing
signature included; a size grows with its numbers, so that no transaction is
longer than `LargestPb`; and two offsets below a modulus lead to different nonces.
`TwoMegabytesSuffice` evaluates the assumption on the buffer for the code's constants:
256 transactions, addresses of 20 bytes, signatures of 48.

**One transaction** (`TransactionLifeProofs`). `LifeInvariance` says that a transaction has been
made in one of the three ways for the `last_block` on record (`Made`), that its form is the
form of it, whole or damaged, and that the copy is what reading this form gives. The
theorems are then facts about the operators. `CopiesFaithful` rests for the protobuf form on
the round trip through `Pack` and `Unpack`, and for the hexadecimal form on `TextCopy`: two
digits give their byte (`TwoDigits`), so the text of any bytes passes the tests of length
and digits and gives these bytes again (`TextOfBytes`, `BytesOfText`), and
`MemoryAssumption` takes them back to the transaction. `CutIsRefused`: the field cut off
last is the signature. `LivesToItsLastBlock`: the arithmetic of the expiry in `2^w`, for
every `w` and every lifetime, a sum that wraps to 0 or beyond included (a
`last_block` of `NULL` must be told from a number, which is why `NULL \notin Nat` is assumed).

**The hasher** (`Blake3Proofs`). The model computes with functions that are defined
recursively and with a fold, and says nothing about them but their equations. Each is
unfolded in three steps: a function with these equations exists for every length
(`LeftToRightExists`, `LinksExist`, by `NumberInduction`), so the chosen one has them,
and two such functions agree (`LeftToRightAgree`). The fold over the stack needs only
stacks of up to two values (`MergeSmall`), since no others occur. The invariant `HashInv`
says: of the `done` bytes taken, the `c` chunks hashed are on the stack, paired and the pairs
merged from left to right, with an unpaired chunk above them if `c` is odd (`StackOf`); the bytes
after them are in the buffer, no more than a chunk of them, and at least one unless nothing was
taken; what is left of the call's input comes next. `StackGrows` carries `StackOf` over a flush: the
counter test of `add_chunk_cv` merges nothing when `c` is even and the whole stack when
it is odd. `FinalizeIsDigest` shows that stack and buffer come to `DigestOf` of all bytes.
Hence `TwoValuesSuffice` and `DigestIsOfTheWhole`, for every size and length.
`DigestInjective` goes down the tree of a digest: the root gives the mode, the kind and
number of the last pair give the number of pairs (`LastTells`), the pairs their chunks
(`PairTells`), a chunk its blocks, by the length of its chain (`LinksInjective`), and
the last block its bytes, by its length (`PaddedInjective`); equal pieces make equal
inputs (`EqualPieces`). `DigestIsBinding` is the case of neighbouring inputs. What is
assumed of the compression function is that it is a term, so that it has no collisions.

**The wallet file** (`WalletFileProofs`). `HexRoundTrip` shows that the digits of
a byte give it back, for arrays of every length, and that `wallet_parse_address`
takes such a text for an address. `WalletInvariance` then carries `WalletInv` and
`FileInv` through every action: the file is at all times a beginning of what was saved
last, so a key in it stands behind a complete nonce; and a nonce that is
recorded for a key is below the nonce of the wallet that holds the key *and* of the file
from which the key could be loaded. Neither alone is inductive, since `Load` turns the
second into the first and `CloseSaved` the first into the second. Hence
`KeyedWalletsAreWhole`, `SavedWalletsReturn`, `RecordedNoncesStay`, `LoadsNeverSkip`.

Only model-checked: the liveness properties `LoopEnds`, `ReportsIfRestarted`, `SurvivorIsReceived`
(run `Simulator_liveness`) and `EndsOrAwaitsReceiver` (run `Setup`). Liveness under fairness is
out of the prover's reach. The three runs that show a divergence rest on TLC's counterexamples.

## Divergences from the documentation

Three runs show the code doing something else than the README says.

1. `Simulator_late_reply`: after a timeout the socket still awaits the reply. The
   thread's next `zmq_send` fails with EFSM unnoticed, and its `zmq_recv` may return
   the late reply, on which the thread counts a batch that was never sent. The
   figure stays within what was received (`SubmittedWithinReceived`), because the
   batch whose reply it was went uncounted and is at least as large.
2. `Simulator_gone`: the sockets are closed with infinite linger before the figure is
   printed. When the receiver is gone for good and a request is still queued,
   `zmq_ctx_destroy` does not return and nothing is printed.
3. `PlanLoop_overflow`: for a count close to `INT_MAX` the ceiling overflows to a
   negative number; the program creates no transaction and exits with 0.

Met while modelling, without a run of their own:

- `blake3_hasher_init_keyed` sets a flag and does not use the key
  (`include/blake3.h` 32: "Initialize with key"). `Blake3` models the flag.
- The digest differs from BLAKE3 in a further compression with the ROOT flag and,
  from seven chunks on, in the shape of the tree (`include/transaction.h` 109 and
  `README.md` 57 call it BLAKE3). It still commits to the input (`DigestCommits`), and
  as a by-product the stack never holds more than two values (`StackStaysSmall`).
- `wallet_create_named` computes a seed from the name (`wallet.c` 81-85;
  `include/wallet.h` 34: "derives keys from name hash") and then generates a random
  key: the address depends on the name alone, the key does not.
- A batch that the receiver could not unpack, or rejected in part, is answered with
  `OK` and counted in full; one that was never sent may be counted on a late reply (the
  first run above). `BatchWork` has all of these steps; `CountedHaveVerdicts` says what is
  left of the promise.
- `main.c` 98 takes a recipient of 40 hexadecimal digits for an address, through
  `wallet_parse_address`; a sender of that form is a name and is hashed (line 119).
- `wallet_save` returns true whatever became of its writes, and a wallet that was
  loaded has no public key (the file does not hold it), although `public_key_len`
  and `public_key` are fields of the structure.
- `transaction.h` 62-68: an expiry computed from height 0 and lifetime 0, or one
  that wraps to 0, is `TX_NO_EXPIRY`: the transaction never expires. One that wraps to
  more than 0 has expired when it is made. `LivesItsBlocks` states both.
- `proto/blockchain.proto` has two messages, the generated `blockchain.pb-c.c` eleven: it
  was generated from another version of the file. The two that are used agree.

## Limits

- *External code.* libzmq, libgomp, OpenSSL and protobuf-c are modelled from how
  the programs use them.
- `Simulator` assumes that the receiver has the memory to unpack a well-formed
  batch, and that creating and packing a batch succeeds (`safe_malloc` ends
  the process otherwise); both failures are steps of `BatchWork`.
- The deaths are those of the receiver. A generator that is killed prints nothing, so
  there is no figure to be right; that its last requests may still be received is
  not modelled.
- Time is not modelled: a timeout may happen whenever a thread waits, which covers
  every delay, `--sleep-ms` included.
- How a compiler lays out `struct Transaction` is not modelled, only that the layout is
  packed: its bytes say all there is to it. A hexadecimal text in which one digit
  has become another reads as another transaction; whether that one still verifies
  depends on the signature, about which nothing is claimed.
- Hashes and the compression function are injective terms: collisions are outside
  the model.
- A crash of the wallet's process leaves a beginning of the new text in the file. A loss
  of power, after which a file system may show the old content again, is not
  modelled; names hold no line breaks, which would be read as further lines.
- A wallet whose file was cut before the key keeps its name, address and a smaller
  nonce, and could hand out nonces again if it were used without a key. The properties
  are about wallets with a key, because only these can sign with it.
- The name of a wallet is cut to 63 characters and trimmed when loaded, so that
  re-creating a wallet from its loaded name may give another address. No code does so.
- Not modelled, with the reason: `wallet_sign` and `wallet_verify` (no caller, no state;
  the steps are those of `transaction_sign` and `transaction_verify`); logging and
  time of `common.c` (formatting); the benchmark counters and
  `count_leading_zeros` (no caller); digests longer than 32 bytes (no caller); nine
  messages of the generated protobuf code (no caller, and no `.proto` source); the
  Makefile and the scripts.

## Plan

Done: the plan loop, the pair and its refinement, set-up, the hasher, one batch, the
life of a transaction, the wallet file; and a proof of every safety property that
is checked. What could follow:

1. A receiver that runs out of memory inside `Simulator`, which weakens
   `SubmittedWithinReceived` to batches that were unpacked; `BatchWork` has the step
   (`UnpackFails`) for one batch.
2. The refinement of one batch: `BatchWork` as what happens inside one iteration and one
   `Answer` of `Simulator`, so that the two levels are connected by a theorem and not
   only by their common source.
3. The benchmark counters of `common.c`, once a program uses them.
