# TrustedARI in TLA+

A verification development for the Python reproduction of TrustedARI in this
repository (`src/`): an agent **A** and a relay **R** jointly act as one TLS 1.3
client of an unmodified provider **S**. Neither of them alone holds the session
keys; A alone reads the response; R can later bill for a number in that response
without having seen the rest of it.

The modules are written from the code, not from the paper and not from the
repository's README. Where code and documentation disagree, the model follows the
code and a run shows the disagreement (see *Disagreements*).

## 1. The system

| component | state | operations | talks to |
|---|---|---|---|
| channel (`channel.py`, `Chan`) | two FIFO queues, `bytes_sent`, `msgs_sent` | `send`, `recv` | shared object of A's and R's threads |
| two-party runner (`channel.py`, `run_two_parties`) | two threads, `out`, `err` | start, join, join, decide | its caller; the threads it starts |
| provider S (`tls_provider.py`) | transcript, four secrets, four sequence numbers, `established` | `on_client_hello`, `on_client_finished`, `on_query` | called by R in R's thread |
| handshake (`handshake.py`) | locals of `agent_handshake` and `relay_handshake` | one joint run | channel, 2PC engine, S |
| application run (`examples/_lib.py`, `demo.py`) | results of the two handshakes, the record, the response | handshake, query, response, billing | everything above |
| query assembly (`query.py`) | segments, plan, table of merged ranges; BCD nibbles in `i2s` | `make_segment`, `plan_assembly`, `ldc`, `shc`, `assemble`, `i2s`, `query_record` | 2PC engine |
| billing (`billing.py`) | window, scan position, automaton (string, escape, depth), accept bit | `select_window`, `verify_billing` | 2PC engine, the response of the run |
| 2PC engine (`twopc.py`) | mode and mode stack, split counter, two OT objects | share, open, AND, add, conversions, field arithmetic | channel, OT |
| oblivious transfer (`ot.py`) | base choices and seeds, the columns of the running batch | `base_init`, `recv_start`, `send`, `recv_finish` | channel |
| circuits (`circuits.py`), curve, utilities | none of their own | SHA-256, HMAC, HKDF, AES, GCM, ECtF; points; local crypto | engine; `py_ecc`, `cryptography` |
| example services | quota and charges of the sub2api station | subclassed provider, `charge` | application run |

How they interact. A and R are two threads. They share one `Chan` and nothing
else; each `recv` asserts the tag of the message it takes ("protocol desync") and
raises after 300 s without one. R calls S directly. An exception ends the thread it is raised
in; the runner collects it in `err` and the peer finds out when its own `recv`
expires.

What is hard about it:

* **interleaving**: `send` rebuilds two shared counters without a lock;
* **lockstep of two programs**: the halves of the handshake, of the engine and of
  the OT are different functions whose sends and receives must match one for one.
  Openings, sharings and OT batches in both directions share one queue per direction;
* **failure**: a check that fails in A only clears a flag nobody reads, a record
  that does not open raises in R, a party that died is noticed only by time;
* **order of state changes**: the sequence numbers of S move before the record is
  judged, the transcript is never reset, the commitment must precede the reveal;
* **edges**: equal x-coordinates in ECtF, blocks of the billing window, backward
  scanning of text that is only unambiguous forwards, lengths 0 and full, `log2(0)`,
  carries between BCD digits, padding and counters at block boundaries;
* **annotations**: in mode "sim" every object carries its true value, and some
  operations compute from it without asking whether it is there.

What makes each component correct, in a sentence: the channel counts what was
sent; the runner returns in bounded time and reports the root cause; S never uses a
nonce twice, accepts nothing twice and answers only after a Finished; the handshake
ends in keys all three share, or in an agent that knows it failed; no other than
the wanted provider ever answers a query; the agent is charged at most once and
only for an answer it has read; the two parties make sharings of the same
segments; the assembled query is the concatenation of its parts at least cost;
the billing circuit knows the depth of every byte and accepts what is written in
the response; every operation of the engine leaves shares of what it is meant to
compute, in both backends; the two sides of an AND never wait for each other.

## 2. Modules

| module | models | extends |
|---|---|---|
| `Chan` | `Chan.send` (put, two loads and a store per counter), `Chan.recv` | |
| `Runner` | `run_two_parties` with time, two threads that use the channel | `Chan` |
| `ChannelProofs` | proofs about both | `Runner` |
| `Provider` | the fields and the three handlers of `TLSProvider` | |
| `ProviderDriver` | `Provider` under a caller that knows every secret | `Provider` |
| `ProviderProofs` | proofs about `ProviderDriver` | `ProviderDriver` |
| `Handshake` | `agent_handshake`, `relay_handshake`, one action per `recv` | `Provider` |
| `Pipeline` | handshake, query and response of one application run | `Handshake` |
| `Settlement` | the main thread: `run_app` after the run, the station's charge | `Pipeline` |
| `AppRun` | what an application run promises, without protocol | |
| `PipelineProofs` | proofs about `Pipeline`: order, keys, how a run ends; `Settlement` implements `AppRun` | `Settlement` |
| `Segments` | `make_segment` by both parties, in both backends | |
| `Assembly` | `plan_assembly`, `ldc`, `shc`, `assemble` | |
| `Decimal`, `Dabble` | the decimal register, and `i2s` that implements it | |
| `QueryProofs` | proofs about `Segments`, `Dabble` and `Assembly` | `Segments`, `Dabble`, `Assembly` |
| `Billing` | `select_window`, `_dec_window`, the scans, the accept bit | |
| `BillingProofs` | proofs about `Billing` | `Billing` |
| `Engine` | the operations of `PC` on shares and annotations, `use` | |
| `EngineProofs` | proofs about `Engine` | `Engine` |
| `Adder` | `PC.add` by its rounds | |
| `AndTree` | `eq_const`, `eq_const_bits`, `_fold_and` | |
| `Hkdf` | SHA-256 padding, HMAC, the precomputed pad states | |
| `Gcm` | `gcm_encrypt`, and the window `_dec_window` decrypts | |
| `CircuitProofs` | proofs about adder, tree, HMAC and GCM | `Adder`, `AndTree`, `Hkdf`, `Gcm` |
| `OT` | `and_bits` in mode "ot", `_ensure_ot`, all of `OTExt` | |
| `OTProofs` | proofs about `OT` | `OT` |
| `MC...` | values of the constants for TLC, reference definitions | |

`MCQuery` and `MCCircuits` put modules that do not interact into one run: a
variable `job` names the one that moves, from any of its initial states, while
the others rest.

### How state and actions correspond to the code

**Chan.** `q` is the pair of `queue.Queue`s, whose operations are atomic. `sent`
is the pair of tuples `bytes_sent`, `msgs_sent`. `send` is `Put`, then for each of the
two tuples `LoadFirst`, `LoadSecond` (the two entries of the tuple display, each
an attribute read of its own) and `Store`. The peer's thread may run between any two of
these. That is what CPython allows: the display runs byte code by byte code, and the
interpreter lock may be handed over between them. `true` and `serial` are history.

**Runner.** `thread`, `err`, `joining` and `result` are the threads, the list and
the position of the caller; the threads send and receive by the actions of `Chan`,
so every interleaving of the counters happens under the joins. Time is an integer
and passes only when no timer is due, so a timer fires when it is due but anything
may happen in the same instant before it. The threads may do anything, hang included.

**Provider.** A curve point is its discrete logarithm modulo a prime `Q`, so
`y * CKS` is a product and `x(P) = x(-P)` is kept. A secret is the record of all it
was derived from (label, x-coordinate, transcript), an AEAD record opens under the
key and the sequence number it was sealed with. The handlers keep the code's
order: the number moves before the record is judged; `on_client_hello`
resets `hs_seq_*` only; the transcript is only ever appended to. An assertion or a
missing key (`AttributeError`) leaves what has been assigned before it.

**Handshake.** `pc[s]` is the `recv` side `s` waits in, and an action is one
`recv` with everything up to the next. Both key schedule phases run under
`MODE_SIM`, as in the code: the owner of an ECtF input ships it in the clear (tag
"sim.t"), both sides derive the same annotated value, and opening it yields the value
when both derived the same and garbage otherwise. All early returns, the missing
one included (A goes on after a failed check, and skips the `recv` of "cfok"), are
as in the code. `Desync` and `Expire` are the two exceptions of `recv`.

**Pipeline** continues both scripts through `build_query`, `query_record`, the
call of `on_query` and the response. The "sim.t" messages A sends for its template
segments are one message; the openings inside AES are one exchange of "op", the
opening of ciphertext and tag another.

**Settlement.** `stage` is where the main thread stands between
`run_two_parties` and the charge: `Locate` is everything up to `select_window`,
`VerifyHonest` and `VerifyForged` are the two verifications, each with new
threads, `Charge` the station's `charge` with the assertions behind it. Every
exception ends in `"failed"`. All three are calls of `run_two_parties`, which raises
`TimeoutError` when both joins have expired and a thread is still alive: `JoinsExpire`
for the run, at any point of it, and `TimesOut` in the verifications, where it also
stands for a `recv` that expires. `late` records it. The threads are daemons and go on,
so S may still answer the query of a run that has been given up; it stays uncharged. What a verification answers is taken from what
`Billing` shows of it: a right claim in a prefix window is accepted, in a suffix
window it may be rejected, another number of the same length is rejected, a number
of another length is an assertion. `charged` is what has left the quota.

**AppRun** has five steps: `Answer` (by a vouched provider only), `Deliver`,
`Read`, `Charge` (what was read), `Fail` (from any state but the end). The mapping
in `Settlement` takes `phase` from `answered`, from A's `pc` and from `stage`, the
bill from `total` and the payment from `charged`; every protocol step is a stutter
but the two that answer and deliver.

**Segments.** Both parties run `make_segment` for the parts of a template, each in
its thread. `theta`, the side and, for `Xs`, a passed `g` decide who sends; `Legal`
is what the docstring asks of the callers. A byte is a bit. `ctr` is `_split_ctr`,
one per party, and `_det` any fixed function of it.

**Assembly.** Bytes are the values the shares join to. `PlanWidth` is one round of
the outer loop of the DP, `Merge` one round of `assemble`. `cost` adds up
the multiplexed bytes of every `shc` that is really run; `Cheapest` is the least that any
order of merging neighbours costs, by recursion over the cuts that are still there.

**Dabble.** `round` rounds of the loop over the bits: add 3 to every nibble that is
5 or more, then shift left through all digits. Powers of 2 and 10 are constants
given by their recurrences, which keeps recursion out of the module.

**Billing.** A response is written down byte by byte with the truth about each
byte (depth, inside a string), known from how it is composed and not from any
scan. The bytes are the ones the automaton tells apart, by name (`"Q"` a quote, `"B"` a
backslash, `"open"`, `"close"`), the separators and figures of the response, and `"x"`.
Strings are escaped as `json.dumps` writes them, which is the assumption `TextsAssumption`:
every quote stands behind an active backslash and none is left over at the end. `Wire` is what decrypting the record body yields: the response, the content
type byte and whatever the tag turns into. The scans are the code's, one action
per byte; `d` is 8 bits wide.

**Engine.** Both parties run the same program, so an operation is one action that
gives both shares and both annotations. The program is arbitrary: two registers,
any operation on them next, any backend switch between. `x` is the value an object
is meant to have. An operation is one of three kinds, as in the code: it cannot fail
(`Gets`), it asserts that its operands are annotated (`Needs`), or it takes a missing
annotation for something else (`Trusts`, after which `fate` is `"mixed"` and nothing
more is claimed). `AndOt`, `B2AOt` and `FMulOt` are the sums of masks and products of
the code; a circuit that is a model of its own or a fixed one (the adder) is any
sharing of its result. Widths are small: words of `W` bits, a prime `P`, GF(2^W).

**Adder** and **AndTree** are the loops over values, a round of ANDs per step.

**Hkdf.** A chaining state is the sequence of blocks compressed so far, which makes
equal digests equal inputs. **Gcm.** A byte is the set of atoms it is the xor of:
text bits and bytes of the block cipher output for a counter; GHASH is the blocks
it is fed.

**OT.** Group elements are logarithms, hashes are tuples, a bit of a pseudorandom
column is a free atom and a sum of bits the set of its atoms. `Enter` is the start of
`and_bits`, the other actions are one `recv` each. A wrong mask uncovers anything.

## 3. Runs

All of them are exhaustive; deadlock checking is off because every one of these
programs ends (a deadlock proper is excluded by the liveness properties named).

| run | states | what is asked |
|---|---|---|
| `channel` | 1 761 667 | Do the unlocked counters ever claim too much (`NeverOvercounts`)? Are they exact if no two sends overlapped (`ExactWhenSerial`)? Does the caller end with what happened: outputs only from two parties that returned, never the echo of another exception (`OutcomeTrue`)? Does it come back (`CallerReturns`)? |
| `chan_exact` | violated | "The channel counts transferred bytes". |
| `provider` | 2 390 | Any order of calls, two hellos, good and bad records again and again: no nonce twice (`NonceOnce`), nothing accepted twice (`NoReplay`). |
| `pipeline` | 58 368 | Keys agree, between R and S as well (`KeysAgree`), only the wanted provider answers (`AnsweredOnlyIfVerified`), commitment before reveal (`CommitFirst`), messages fit the scripts (`Lockstep`), A can read the answer (`AnswerReadable`); a fitting provider is paid for its answer (`ServedIsPaid`), everything ends whatever happens (`Settles`), and the run implements `AppRun` (`ImplementsApp`). |
| `pipeline_desync` | violated | The assertion of `recv`. |
| `settlement_forged` | violated | The example's comment that the under-reported claim is rejected. |
| `billing` | 836 736 | The window fits (`WindowFits`), the scans know the depth (`ForwardExact`, `BackwardExact`), right claims are accepted forwards (`HonestForward`), accepted claims are written there (`AcceptedIsThere`), forged counts of full length are rejected (`ForgedRejected`). |
| `billing_prefix`, `billing_rev` | violated | The README's and the comment's claims on forged values and on the backward scan. |
| `query` | 144 273 | Every range is the text of its parts without a gap (`RangeIsText`), at the cost of the cheapest of all merge orders (`CostIsLeast`), and assembly never stops halfway (`WholeQuery`). What two threads make of a template joins to the owner's contents and lengths (`SegmentsAgree`), and neither waits for ever (`SegmentsMade`). All numbers come out in decimal (`DecimalOut`), and `i2s` implements a decimal register (`DoublesRegister`). |
| `circuits` | 70 888 | Shares join to the value meant, whatever the program and its backend switches (`Rejoins`); annotations are true and equal on both sides (`Annotated`); a program that stays in "sim" never misses one (`SimAlone`). The adder's carries are those of written addition (`WrittenSum`), the AND tree is equality (`EqualExact`), HMAC over precomputed pads is HMAC (`QuickIsPlain`), a window decrypts to its slice (`WindowIsSlice`), no keystream byte is used twice (`KeystreamOnce`), GHASH sees different blocks for different records (`TagBinds`). |
| `ot` | 505 825 | The shares join to the AND (`AndCorrect`), of each pair one payload opens (`OneOpens`), the next message is the one waited for (`TagsFit`), and both sides finish (`AllDone`). |

### Bounds, and why they are enough

* `channel`: `RecvT` 1 and `JoinT` 2 keep the code's proportion of 300 to 600, and
  `MaxTime` 5 is longer than both joins. One message per side, of two lengths and two
  tags: an update is lost by two overlapping sends, and a thread can wait, be
  served, expire and meet a wrong tag. `chan_exact` uses `Chan` alone.
* `provider`: two hellos and two sequence numbers: a reset and a replay need no more.
* `pipeline`: a group of order 5 has scalars with different and with equal
  x-coordinates (the exceptional case of ECtF) and sums that vanish (excluded as
  in the code, where it would be the point at infinity). Two names and two
  authorities separate both checks. New and used provider objects; timeouts that may
  fire at any `recv`, joins that may expire at any point, verifications that may run out
  of time. The totals 9, 12, 20 and 21 with a quota of 20 are below,
  at and above the quota and on both sides of the digit a claim of eight less loses.
* `billing`: blocks of 4 bytes and a tag of 2 (16 and 16 in the code); echoed
  strings with braces, quotes, backslashes and even runs of them, the billed key and the
  escaped text of a whole pair; long ones push the pair behind the middle, which selects
  the suffix window, once with a closing quote as its first byte; counts of one
  and two digits give prefixes and equal lengths.
* `query`: templates of up to four parts of every kind, with heights 0, 1, 3 and
  lengths empty, partly filled and full, which take `ceil(log2(hm))` through its steps;
  for the sharing, up to two of ten parts that cover every `theta`, empty and full
  contents and either side passing `g`; 11 bits and three digits, so 1000 to 2047
  overflow the digits (the code: 16 and 5).
* `circuits`: words of two bits, the prime 3, GF(4), one nested with-block. Two
  registers suffice because no operation takes more than two objects, and the state
  has no depth bound: TLC reaches every pair of objects there is. The adder has five
  bits, so its last round overshoots; trees have one to five leaves, so that there
  are odd levels at every height; hash blocks have four bytes, keys none to four, texts
  none to nine, which passes every padding boundary twice; AES blocks have
  two bytes, texts none to four.
* `ot`: two base transfers, one-bit ANDs, and two of them, the second without a
  base phase. A second AND of one side may start while the first of the other is
  running.

### Fairness

* `Runner`: weak fairness of the caller, of time and of expiring timers; nothing
  at all of the two parties, which is what "hangs" means.
* `Settlement`: weak fairness of each party's next step as long as the process waits for
  it, which includes the expiry of a `recv` on a peer that has ended, and of the main
  thread. A thread of the operating system is scheduled, and `queue.get(timeout=...)`
  returns. A `recv` that expires with the peer still at work ("early"), joins that expire
  and a verification that runs out of time (`late`) may happen and never have to.
  `ServedIsPaid` excludes the runs in which one did; `Settles` owes nothing to the joins,
  since `JoinsExpire` gets no fairness.
* `Segments` (each thread), `OT`, `Assembly`, `Dabble`: the program goes on when it can.

## 4. What is proved

Each theorem holds for every value of the constants that the named assumptions allow,
and rests on those assumptions only. For each component there is one inductive
invariant; it was checked by TLC on the component's run before it was proved.

### Channel and runner (`ChannelProofs`)

For every set of tags and of lengths, every bound and every timeout:

* `Counting`, `NoOvercount`: `Spec => []NeverOvercounts`. It is not inductive: a store is
  harmless only because the tuple being stored was. `CountInv` adds what a thread
  has put and not yet stored (`Pending`): a counter plus the pending part of its
  owner is at most the traffic, and the same of each tuple under construction in
  the entries loaded so far.
* `SerialExact`: `Spec => []ExactWhenSerial`. While no two sends have overlapped, at most
  one side is inside `send` (`OneSends`), so the bounds of `CountInv` are equations: a
  counter plus what is pending is the traffic (`CounterExact`), and what has been loaded
  is still what the counter says (`TupleExact`).
* `RunsChan`: `RSpec => Spec`. Each thread action is an action of `Chan` or leaves
  its variables alone, so what is proved of the channel holds under the runner
  (`RunCounts`, `RunExact`).
* `TrueOutcome`: `RSpec => []OutcomeTrue`. The invariant `RInv` ties `thread` to `err`
  (`ErrorsFit`: a side has an entry exactly if its thread failed, and no two) and
  `result` to both (`ResultFits`): an exception that is reported is the first of the
  list, so no other party failed before it, and outputs were decided with no thread
  alive and no entry in the list, which dead threads never add to.

### Provider (`ProviderProofs`)

For every group order and number of hellos and records:

* `NeverTwice`, `NeverReplayed`: `DriverSpec => []NonceOnce` and `=> []NoReplay`.
  `SealedFits` and `AcceptedFits` say where in the space of keys and numbers the used ones
  lie: under application keys, below the present number; under handshake keys, over
  transcripts no longer than the present one, and below the present number if the key is
  the present one. A second hello resets the handshake numbers but makes the transcript
  longer, hence the key new; the application numbers are never reset.

### Protocol run and settlement (`PipelineProofs`)

For every group order, every set of names and authorities, and every choice of sides
whose timeouts fire early:

* `InScript`: `PSpec => []Lockstep`.
* `NoMisrouting`: `PSpec => []AnsweredOnlyIfVerified`.

The argument is worth a paragraph, because the code has no check that would do it:
`agent_handshake` goes on after a failed verification, no caller looks at `ok`,
and neither R nor S know. What protects the agent is one message. The two
scripts fix the order of the tags, and what is under way is always the piece of
the sender's script between what the receiver has read and what the sender has
sent (`Lockstep`). An agent that rejected did not read "cfok", so it is one
message behind; the message it takes for a template share is "cfok", the
assertion of `recv` ends its thread, and R, which needs an opening from A before
there is a record, never gets one. The inductive invariant `PInv` is `Lockstep`
with types, the honesty of the flight under way (`FlightHonest`), `a.ok =>
Vouched` and the theorem itself. Each message a party sends has a lemma about the
queue (`FitsTail`, `FitsConcat`, `PassQueues`), each action is one step.

* `RunsAsPromised`: `SSpec => ImplementsApp`. `MInv` adds to `PInv` what the main
  thread relies on: behind `located` A has ended well, S has answered and a total was
  read, and nothing is charged before the stage says so. That A's end means an answer
  is `ReadMeansAnswered`, again from `Lockstep`: A has read the whole script of R, whose
  last message follows the answer. `Quiet`, `Reads` and `Serves` are all that a protocol
  step can be to `AppRun`.
* `RunsPipeline`: `SSpec => PSpec`, so the theorems on the protocol hold with the
  settlement around it (`RunInStep`).

### Keys (`PipelineProofs`, second part)

Under the same assumptions:

* `KeysAgreeAlways`, `CommitFirstAlways`, `AnswerReadableAlways`.

`Lockstep` knows the tags of the messages under way; `KInv` adds what they say.
`AgentSaid` and `RelaySaid` fix the value of every message that matters by its number in
the script of its sender (the opened handshake hash, the shares of the application secrets,
the commitment, the reveal, R's verdict, the sealed response). They are stated with
the sender's *present* fields: every field is assigned before the first message that
carries it and not again while one that carries it is unread, which is what most of this
part proves. `AgentKnows`, `RelayKnows` and `ProviderKnows` then give each
secret as a function of the x-coordinates and the transcripts it was derived from, point
by point. The three agree where the theorem wants them to because a secret is opened to one
that both parties derived alike or to garbage, and a record under garbage does not open: R's
`ok` is S's acceptance of A's Finished, which happens only if the handshake keys are equal,
hence the transcripts behind them, hence the application keys. The commitment comes before
the reveal because R reaches "cf" only by the `recv` of "com".

### How a run ends (`PipelineProofs`, third part)

Under the same assumptions, the group order being prime (`PrimeAssumption`; `curve.py:17`
is the order of secp256k1):

* `RunNeverStuck`: `SSpec => []NeverStuck`, when a response has a number to report and the
  bound `MaxSeq` is at least 2. Until the application is over, a party or the main thread
  can go on, without a join having to expire (`GoesOn`, which repeats the guards of the
  actions since the prover has no ENABLED).
* `FitRunOnTrack`: `PSpec /\ Fit => [](Early \/ (NoDesync /\ ...))`: with a provider the handshake
  is meant for, no message is out of place and no thread dies.
* `FitRunIsPaid`: `SSpec /\ Fit => []FitPays`, the safe half of `ServedIsPaid`, with its
  exemptions: a time limit of the run or of a verification, and a number that cannot be paid.

`EInv` is to the start of the handshake what `KInv` is to the rest: `AgentFirst` and
`RelayFirst` give the first messages of both scripts as fields of their senders, `AgentDerives`
and `RelayDerives` what the receivers make of them, `ProviderCounts` the record numbers S
is at. It shows that the joint share R asserts in A's hello is the one R has computed
(`HelloFits`) and that the Finished it holds cannot make S raise (`FinishedFits`). What is
left are two recvs that wait for each other. `NoCircle` excludes them by counting: with both
queues empty each side would have read all the other has sent, and no two control points
of the two scripts fit that.

`TrackInv` is for the run with a fit provider. Both parties have the ECtF output of
`Mul(k, y)` and `Mul(l, y)`; their sum is S's own `Mul(y, k + l)` (`SharesMeet`), and their
x-coordinates differ because those of `k` and `l` do and the order is prime (`StayApart`); so all three
derive from the same x-coordinate (`JointPoint`) over the same two hellos (`JointHello`). Hence
the flight decrypts and verifies (`FlightRight`), S accepts the Finished (`FinishedRight`) and
the query (`QueryRight`), the agent is never a message behind (`InStep`), and a `recv` that fails
is one that gave up early (`NoneDesyncs`, `OnlyEarly`). `PaysInv` carries this through
the main thread: the honest claim opens the response (`HonestOpens`), so what fails after that
is the window, the quota or the length of the forged claim.

### Billing (`BillingProofs`)

For every block size, tag length and tag, all strings and counts that `json.dumps` can
write:

* `WindowAlwaysFits`: the arithmetic of `select_window`, by division with rest.
* `ForwardDepth`, `BackwardDepth`: the two scans. A response is taken to pieces
  (`Piece`, joined by `PieceJoin`): a piece starts and ends outside of a string, its depth
  starts at one number and ends at another, and its strings are escaped (`Fair`). On such a
  text the set of bytes behind an active backslash exists (`Strings`) and is what a scan
  finds byte by byte: `FwdRight` says that the automaton's string bit, escape bit and
  depth are those of the next byte, `EscRight` the same of the forward pass for the
  escapes, and `RevRight` that going backwards from the end with the right escapes keeps
  the string bit and the depth right. The two premises of `BackwardDepth` are where the
  code fails without them (see *Disagreements*): the tag decrypts to nothing the automaton
  reacts to, and the window does not start inside a string.
* `HonestAccepted`, `AcceptedThere`, `NoForgery`. The key occurs once outside of strings
  (`KeyAt`), so a claim that is accepted at depth 2 is written behind it, and a claim of
  as many figures as the true one agrees with it figure by figure.

### Circuits (`CircuitProofs`)

* `AddsRight`, for every width: `AdderSpec => []WrittenSum`. `PrefixesRight` gives `g[i]`
  and `p[i]` their meaning after the rounds so far: a carry generated within the last `l`
  places and propagated since, all `l` places propagating. A round joins two such
  stretches; when `l` has reached the width they cover everything below.
* `TreeIsEquality`, for every width: `TreeSpec => []EqualExact`. `LevelsAgree`: at every
  level, all bits are 1 exactly if the words are equal; `Pairs` keeps that, the odd last bit
  included.
* `QuickAlways`, for every block size and every length of key and text: a text that
  starts with a block compresses to what the rest compresses to from that block's state
  (`CompressedJoin`), and padding it is padding the rest as text of that state
  (`PaddedJoin`), because padded texts are whole blocks (`PaddedIs`).
* `KeystreamFresh`, `WindowRight`, `TagsBind`, for every block size and all lengths: which
  block of the keystream covers a byte is a division with rest, unique because no counter is
  used for two blocks; a window of whole blocks decrypts under the same counters; and the
  blocks GHASH is fed determine the text and the associated data, the lengths behind
  them telling padding from content.

### Engine (`EngineProofs`)

For every width of a word, every prime of the field and every polynomial of GF(2^W), under
the assumptions of `Engine`: `Num` numbers the words as binary numbers do, `P` is prime with
`Inv` its inverses and at least half of `M` (so the modular reduction of `fld_to_bits`
subtracts at most once, as the code does for the 256 bits of secp256k1), and `GfAssumption`: the
polynomial is irreducible, which those of AES and GCM are.

* `EngineInvariant`: `Spec => []EngInv`, and from it `SharesRejoin`, `AnnotationsAreTrue`
  and `SimulationIsWhole` for `Rejoins`, `Annotated` and `SimAlone`.

`EngInv` says of each register that it is `Meant`: typed, joining to the history value `x`,
and with the same annotation on both sides, `x` or none. This holds until an operation
has taken a missing annotation for a value; in a program that never left "sim" the
stack is empty and no annotation is missing. An operation has one lemma about its result
(`AndMeant`, `FInvMeant`, `FldToBitsMeant`, ...) and one about the step (`AndKeeps`, ...),
which goes by one of three: `GetsKeeps`, `NeedsKeeps`, `TrustsKeeps`. The work is in the former:

* words under xor are a group of exponent two (`XorLaws`), from which the masks of `AndOt`
  cancel (`AndMasked`);
* residues are treated through congruence (`Cong`), since products and rests together are
  beyond the solver: the masks of `B2AOt` and `FMulOt` cancel, and the bit-wise identity
  x0 ^ x1 = x0 + x1 - 2 (x0 & x1) gives `B2AMeant`;
* `FInvMeant`: opening the product with a joint random number and inverting it gives
  shares of the inverse (`InverseOfProduct`), because inverses modulo a prime are unique;
* `FldToBitsMeant`: two shares below `P` with a carry at `M` and the one conditional subtraction
  are the residue (`Reducing`);
* GF(2^W): the powers and partial sums of `gf128_mul` exist and are unique (`PowThere`,
  `PowOnce`, by well-founded recursion over the places), hence the product is additive in
  both arguments, commutes with `xtime` and, by expansion into unit words (`Linear`),
  is commutative and associative. `GInverseOfProduct` then does for `aes_sbox` what
  `InverseOfProduct` does for `finv`.

### Oblivious transfer (`OTProofs`)

For every number of base transfers, of ANDs and of bits in each:

* `OTInvariant`: `Spec => []OTInv`, and from it `SecureAnd`, `Oblivious`, `OneOrder`.

`OTInv` has two parts. The base phase goes through a fixed row of stages (`Start`,
`FirstHalf`, `Middle`, `SecondHalf`), each of which says where both sides stand, what is
under way and how many seeds have been opened. Behind it come the rounds, where the sides
are no longer in step: one may have finished its AND and started the next while the other
still needs the last two messages of the one before. `Rounds` numbers all messages of
a side through (`Stream`) and says that a queue is the piece of the stream
between what has been received and what was sent, that a side is at most one AND ahead, and
that the rows collected so far are the columns of the peer. The masks of an AND are gone
from the sender's variables when it is a step ahead; `MaskOf` recovers them from its output,
which is what lets the payload still under way be described. `SharesJoin` is the algebra:
both masks cancel from the sum of the two outputs.

* `OTNeverStuck`: `Spec => []NeverStuck`, the safe half of `AllDone`. In every state one side
  has a step (`GoesOn`), or both have computed all ANDs and no message is left. In the
  base phase the stage names the side; in the rounds one of the two has received less than
  the other has sent, because a queue is as long as its piece of the stream. `Counted`
  adds that a side inside an AND has one left to compute.

### Segments (`QueryProofs`)

For every set of templates that `make_segment`'s docstring allows and every modulus:

* `SegShares`: `SegSpec => []SegInv`, and from it `SegAgree`: `SegSpec => []SegmentsAgree`.

A side goes through stages: the bytes of part `n` are stage `2n - 1`, its length stage `2n`
(`Halves`). `SegInv` says, for some counters `C[k]`, masks `H[k]` and stages under way
`W[s]` (`Coupled`), that a share held is the one the mask and the counter of its stage give
(`Kept`; `ByteShare`, `LenShare`), that each side's `_split_ctr` is the counter of its stage
(`Counted`), and that a queue holds, in order, the messages of just those stages that the
sender is through with and the receiver is not (`Flow`). A mask is chosen when its
message is sent; `MaskKept` shows that the other side cannot have used another one by then.
A message (`Note`) is what its stage says under the tag of its stage.
A step is one of four kinds (`Quiet`, `Gives`, `Takes`, `Pushes`): without a message, as the
sender, as the receiver, or the sending half of a pad exchange. `BytesJoin` and `LensJoin` are
the algebra.

* `SegNeverStuck`: `SegSpec => []NeverStuck`, the safe half of `SegmentsMade`. A recv that
  finds a message finds one with its own tag; one side has a step, or both are through and
  nothing is under way. Of two unfinished sides the one behind goes on: what it waits for was
  sent in a stage that the other one is through with. If they are in the same stage, one of
  them is its sender, or both send a pad before either waits (`OtherGoesOn`).

### Decimal (`QueryProofs`)

For every width of the number and every number of digits:

* `Digitwise`: `DabbleSpec => []DabbleInv`, and from it `DecimalForm`:
  `DabbleSpec => []DecimalOut`.

`DabbleInv` says what a round needs to know of the rounds before: the nibbles are the
digits of the bits read (`DigitsRight`), the register holds the others at its top
(`RestRight`), and the two parts make up the width (`PowersFit`, which has to be
carried along because powers are known by their recurrence only). `NextBit` is the
lemma about the register: the bit shifted out is the next bit of the number.
`DabbledDigit` is the one about a nibble: dabbled and doubled it is the last
digit of its double, and its top bit is the carry. `DigitStep` joins them: the
carry out of the lower digit is the one that doubling the whole number makes,
so no carry has to travel further than one digit in a round.

* `IsRegister`: `DabbleSpec => DoublesRegister`, the refinement of the decimal register.
  The value written in the digits (`Written`) is a recursive function; that it is the
  number the digits come from is shown for the least number of digits that could refute
  it (`Least`, `WrittenIs`), and `OneMore`, `DoubleLast` and `ReadNext` carry a round over to
  it.

### Assembly (`QueryProofs`)

For every number of segments, every set of parts and every width of a shared length that
`AssemblyAssumption` allows:

* `AssemblyInv` is inductive, and from it follow `Assembled`: `Spec => []RangeIsText`,
  `AssemblyCheapest`: `Spec => []CostIsLeast`, and `AssemblyNeverHalfway`: `Spec => []NeverHalfway`.

`AssemblyInv` says that the widths `plan_assembly` has filled in hold a best split inside their
range (`Filling`, `Best`), that the plan consists of merges of neighbouring ranges (`Splits`),
each behind those of both its halves (`Sorted`), that a range is there when it is a single part or
its merge has been done (`There`), that the cost paid so far is what the DP charges for the merges
done (`Paid`), and that
every range merged so far is the texts of its parts (`Merged`): the texts fill its row
from the front, its share of the length is theirs, a length that is public is the full one,
and one that is shared comes with a part that is not fixed. The last is what the edges rest on:
behind such a part the sum of the heights is not 0, or `plan_assembly` would have
raised, so that the bits of the distance (`LevelsIs`) are enough for any gap except a full row
with nothing to its right, where the rotation moves nothing but padding. For `RangeIsText` any
plan of neighbours would do.

For `CostIsLeast` it matters which. The reference, `Cheapest`, knows nothing of ranges: it
merges the cuts between the parts away in any order. `CheapIsCheapest` shows that it equals the
entry of the DP for the whole template, by two bounds:

* `CheapIsLow`: no order costs less, because a merge costs at least what the table has for the
  new segment beyond what it has for the two halves. The costs of the segments that a set of
  cuts leaves are added up along the template (`Weighs`); `ByCuts` is the induction over the sets.
* `CheapIsHigh`: the DP's own order is one of the orders, by induction over ranges (`ByHalves`):
  two halves that are joined independently leave one cut, whose merge costs `Delta` (`MergeCostIs`).

That the cost really paid is the one of the DP rests on `Declared`: a range that
`plan_assembly` takes for one of public length has one at run time. `NeverHalfway` is the safe half
of `WholeQuery`: the plan puts a merge behind those of its halves, so none finds an operand
missing, and its last merge is the whole template.

* Sums, powers of two, joined texts and `emit` are recursive functions; `Recursion` shows that
  such a function on an interval exists, `Upto` is the induction over one. `EmitThere` builds
  `emit` by growing width, `EmitsSplits` goes by the narrowest range that could refute it.
* `LdcMerged` and `ShcMerged` are the two concatenations, on rows of bytes (`FillBehind`,
  `FillRotated`); `SegmentMerged` is `make_segment`.

### What is only model-checked

* Liveness (`CallerReturns`, `ServedIsPaid`, `Settles`, `WholeQuery`, `SegmentsMade`,
  `AllDone`): beyond the prover. What is proved of `WholeQuery`, `SegmentsMade` and
  `AllDone` is their safe half: the program never gets to where it cannot go on
  (`NeverHalfway`, `NeverStuck` of `QueryProofs`, `NeverStuck` of `OTProofs`). Likewise for
  `Settles` (`RunNeverStuck`) and for `ServedIsPaid` (`FitRunIsPaid`); that the fair threads
  do get there stays with TLC.

## 5. Disagreements

Shown by a run:

1. `channel.py:29`: two overlapping sends lose an update; the module comment says
   the channel counts the transferred bytes (`chan_exact`).
2. `handshake.py:187`: after a failed verification "cfok" stays unread and the
   next `recv` is a desync (`pipeline_desync`). The theorem above rests on it.
3. `billing.py:207`: the byte behind the claimed digits is not compared, so a
   strict prefix of the billed number is accepted when the window is made for it
   (`billing_prefix`).
4. `billing.py:46`: a suffix window contains the type byte and the encrypted tag, and
   the backward scan starts in them (`billing_rev`).

5. `billing.py:206`: a claim of another length than the window is an assertion in
   both threads, not a reject. `sub2api_relay.py:95` says the under-reported total must
   be rejected; when it has a digit less, `run_app` raises, and the honest claim it
   accepted before is not charged (`settlement_forged`).

Seen while modelling, without a run of their own:

* `channel.py:67`: a TimeoutError hides the exception of one party when the other
  is still alive; `channel.py:56` says it is surfaced to the caller.
* `demo.py:49` prints "cert name ... verified" whatever `a.ok` is.
* `README.md:27` and the demo's module comment say that ECtF, SHC and the parser run on the real OT
  engine; the code that calls them runs all of them under `MODE_SIM`.
* `billing.py:151`: `_escapes` starts outside a string although the suffix window may start
  at a closing quote; it then misses the escapes behind it, and a right claim is rejected
  whatever the tag decrypts to. `billing_rev` meets it too: it is what remains when
  `MCTagByte` has only "x".
* `query.py`: `i2s` returns a segment with a shared length, whereas a template has
  to declare it with a public one for the plan to be the cheapest.
* `circuits.py:561`: `gcm_open` is called the decryption path billing uses; billing
  has `_dec_window` instead, and `gcm_open` has no caller.
* `twopc.py:455`, `510`, `544`, `256` and `circuits.py:299` go on without an annotation
  in mode "sim" where `and_bits` raises. The programs of this repository share
  everything they use in "sim" in "sim", so it does not happen to them.

## 6. Not modelled

* The rounds of SHA-256 and AES, the S-box's affine map and the mixing of columns:
  straight-line code without state, checked against vectors by the repository's tests.
  Their compositions are in `Hkdf` and `Gcm`, the products and inversions they
  rest on in `Engine`.
* The messages of `b2a`, `fmul` and `ectf_x_add` in mode "ot": the same pair of OT batches
  as in `and_bits`, which `OT` has with its messages; `Engine` has their arithmetic.
* Point encoding and decoding, DER and JSON: library calls.
* The templates and bodies of the other two example services, which are data; they
  print what `run_app` returns. The web page.
* A mode stack after an exception in `use` (`twopc.py:109`): nothing in `src/` catches
  it, so no such object is used again.
* Contents longer than `h`, and an `Xs` segment with `g` on both sides: outside what
  `make_segment` asks of its callers.

Cryptographic strength is not a question these models can ask.
