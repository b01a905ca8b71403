# StrataTrace in TLA+

StrataTrace (`src/src/stratatrace`) is an IPv4 traceroute. It sweeps a path with
one fixed flow and a few other flows, looks for places where the answers
disagree (*differential boundary probing*, DBP), samples those places until a
requested detection bound is met (*confidence-bounded adaptive probing*, CAP),
and reports hops, classified segments and coverage certificates.

This directory holds TLA+ modules that model the measurement, the raw-socket
backend it asks for probes, the packets between them, and the program around
both; TLC configurations that check them on small instances; and proofs checked
by TLAPS.
In the modules and below, `controller.py:369` stands for line 369 of
`src/src/stratatrace/controller.py`, and likewise for the other source files;
`README.md` and `docs/ALGORITHM.md` quoted in claims are those of `src/`.

## 1. The system

| Part | State it keeps | Operations | Hard behaviour |
|---|---|---|---|
| **Controller** `controller.py` | observations, baseline counter, next sample id, cache of drawn flow tokens, warnings; locals of the loops of `run` | `run`: `_baseline`, `_flow_canaries`, `_find_regions`, `_probe_regions`, kernel control, report | replies decide where loops end; a budget that may refuse any bundle; Ctrl-C at any statement; facts computed before and used after adaptive sampling |
| **Raw backend** `backend.py` | probe id counter, probe count, sockets; per batch: outstanding probes, observations, deadline | constructor, `send_batch`, `run_tcp_connect_control`, `close` | late, duplicated, reordered and foreign replies; id wrap; a socket, send or receive failure half way; the deadline |
| **Packets** `packet.py` | none | build UDP/ICMP/TCP probes; parse, correlate and compare replies; ICMP extensions | headers rewritten on the way, short quotations, checksum compensation, 16- and 32-bit wraps, malformed lengths |
| **Statistics** `stats.py` | none | `required_samples`, `miss_probability_bound` | two rounded computations of one bound; drawing without replacement |
| **Data model** `model.py` | none (value types) | `terminal`, `answered`, serialisation | |
| **Command line** `cli.py` | the backend it holds, the exit code | checks, constructor, `run`, printing, `finally: close` | which exception ends in which exit code; Ctrl-C at any statement, twice |
| **Report** `report.py` | none | rendering | |
| **Scripted backend** `backend.py` | per-TTL call counts | deterministic `send_batch` | |

The controller calls the backend synchronously, one batch at a time; the
backend hides threads of control that are not the program's: the network, the
host's TCP stack and the user's Ctrl-C. Nothing is stored on disk and nothing
runs concurrently inside the program, so crash recovery does not arise. What makes it hard is that the
evidence is collected in phases, each phase decides from a prefix of the
evidence, and the report mixes decisions made early with evidence that arrived
late.

What makes each part correct:

* *Controller, ledger*: never more than `max_probes` probes on the wire, also
  when a batch dies half way; bundles sent whole or not at all; the split into
  baseline and adaptive probes exact; no raw probe after the kernel control.
* *Controller, evidence*: a sample is one flow in one phase and meets each TTL
  at most once; nothing is probed beyond a known terminal; the flows counted in
  a certificate are different flows.
* *Controller, report*: every edge belongs to a segment; no class says more
  than the network did; a silent gap between visible hops is found; a
  measurement that nothing cut short completes every region it opened.
* *Backend*: one entry for each probe of a batch, in order: silence, or a reply
  to that very probe; a reply that can be recognised is not thrown away; batches
  end, whatever keeps arriving.
* *Packets*: a reply is attributed to a probe of this session only, as far as its
  correlation method can tell; probes of one flow look alike to a router that
  hashes headers; evidence taken out of an extension was put into it.
* *Command line*: the exit code tells the outcome, no socket is left open, an
  interrupted measurement is shown.

## 2. Modules

| Module | Models | Notes |
|---|---|---|
| `TraceConfig` | `TraceConfig` and its `validate`, the value spaces | constants, with the assumptions the proofs use |
| `Observations` | probe specs, replies, the list of observations and the queries on it | |
| `Boundaries` | `_find_regions`, clustering of `_probe_regions` | pure operators |
| `Segments` | `_summarize_hops`, `_classify_region`, `_summarize_segments`, `_summarize_silent_tail` | pure operators |
| `TraceController` | `TraceController.run` | state machine |
| `BoundedMeasurement` | what a measurement promises, without its phases | abstract specification |
| `TraceProperties` | type invariant, safety, action and liveness properties, the refinement mapping | |
| `TraceClaims` | statements of the documentation that the code does not always keep | |
| `Packets` | probes on the wire, the packets that may answer them | mostly the world outside |
| `Correlation` | `parse_icmp_response`, `parse_tcp_response`, `_matches_flow`, `_mutations` | pure operators |
| `RawBackend` | `RawIPv4Backend`: constructor, `send_batch`, `close` | state machine |
| `ProbeBatch` | what `send_batch` promises its caller | abstract specification |
| `TraceProcess` | `cli.main`, `TraceController.run` as `main` sees it, and the backend | composes `RawBackend` |
| `Checksums` | Internet checksum, the ICMP probe with its compensation word | pure operators |
| `Coverage` | `required_samples`, `miss_probability_bound` | pure operators |
| `Extensions` | `parse_icmp_extensions` and its object parsers | pure operators |
| `MCTraceController`, `MCRawBackend`, `MCTraceProcess`, `MCArithmetic` | networks, paths and inputs for TLC | |
| `EvidenceLemmas`, `TraceController_proofs`, `TraceLimits_proofs`, `TraceReport_proofs`, `TraceSampling_proofs`, `RawBackend_proofs`, `TraceProcess_proofs`, `Arithmetic_proofs` | lemmas and theorems | TLAPS |

The modules form three stacks: `TraceController` on the evidence operators;
`TraceProcess` on `RawBackend` on `Correlation` on `Packets`; and the pure
algorithms under `MCArithmetic`. The first two meet in the contract of a batch:
`RawBackend` implements `ProbeBatch`, and `ProbeBatch` is what
`TraceController` takes for granted in its operator `Replies`. They are not
composed into one specification: the product of their states is out of
reach, and the contract is all that the controller knows of the backend.

A few operators whose
comment starts with *Fault:* (`RegionFromZero`, `FitsLoosely`, ...) are plausible
wrong versions of a neighbouring definition, kept so that each property can be shown to
notice one. Nothing in the specification uses them.

### Correspondence: the controller

| Code | Model |
|---|---|
| `self.observations` | `obs`, a set. Sample ids grow and a sample meets a TTL once (theorem `SamplesMatched`), so a set keeps what the list says: the order of the observations of one TTL is the order of their ids |
| `backend.probe_count`, packets on the wire | `sent` |
| `self.baseline_probe_count`, `self._next_sample_id` | `baselineCount`, `nextSample` |
| `self._variant_cache`, `self._used_variant_values` | `tokens`, variant to token; the used values are its range |
| `FlowKey` | the variant number; `TokenOf` gives its token. Variant 0 is the main flow |
| a place in `run` and the loops it calls | `pc`, with `round`, `start`, `sweepLimit`, `terminalTtl`, `canary`, `work`, `fixedLeft`, `nextVariant` for their locals |
| one iteration of a loop that sends | one action: `SweepChunk`, `CanaryChunk`, `FixedSample`, `VariedSamples` |
| `_send` returning `False`, capacity 0 | `SweepRefused`, `CanaryRefused`, `FixedRefused`, `VariedExhausted` |
| `_variant_flow` drawing a new token | `BeginCanary`, `DrawToken` (rejected draws change nothing and are not steps) |
| `except KeyboardInterrupt` | `Interrupt`, `InterruptBeforeCount` |
| `BackendError` out of `send_batch` | `BackendFails` |
| everything after the try block | `Summarize`, and the operator `Report` |

Interrupts. `Interrupt` may happen in every stage of the try block. With a batch
in flight, any number of its probes may have gone out and all of its answers are
lost, because `observations.extend` runs only when `send_batch` returns.
`InterruptBeforeCount` is the Ctrl-C between `extend` and the addition to the
baseline counter (378-380). A Ctrl-C between `regions = _find_regions` and the
replacement for `--global-cap` (129-131) leaves the regions of the detection
instead of the global one; the same report follows from an interrupt before
`DetectRegions`, after which `Summarize` finds them, so the detection is one
action. A second Ctrl-C, after the try block, is in `TraceProcess`.

The network. `net` gives, for each TTL and flow token, the set of outcomes a
probe may meet; each probe draws from it independently. That covers loss, rate
limits, load balancing by flow, route flaps during the measurement, header
rewrites, unreachable messages from the middle of the path and destinations
that answer under another address. `net` does not change during a run; a route
change is an outcome set with several members.

Two branches of the code are not actions because no state reaches them. The
refusal at 641-642 follows a capacity computed from the same two numbers;
`VariedSamples` sends without the test, and `BudgetRespected` is checked and
proved on that action. The second `MUTABLE` branch (1003) repeats the condition
of the first (982), since only mutation regions carry that reason.

Abstractions. RTTs, ICMP types, extensions, MPLS labels, wire identifiers,
reason texts and outcome histograms are left out: no decision reads them. Of the
statistics the controller uses two results: `required_samples`, the constant
`Required`, and for which numbers of samples the computed
`miss_probability_bound` is within the request, the constant set `Enough`. The
two are independent, because rounding lets them disagree: 0.2 and 0.64 have
`Required = 2` and `2 \notin Enough`. A segment is
a record without texts, so that coalescing duplicate claims is what a set does.
Warnings are tags. Two fixed-only regions over the same TTLs are one window,
because the second visit finds all its samples taken or the same exhausted
budget.

### Correspondence: packets and correlation

A 16-bit field is a number below `Word`, a 32-bit one a pair of such numbers, so
that identifications, sequences and acknowledgements wrap as on the wire. An
optional field is a set of at most one value. A packet on the wire (`wire`) is
all that the parsers look at; who sent it, the probe it answers (`cause`) and
what was rewritten on the way (`altered`) stand beside it for the properties.

| Code | Model |
|---|---|
| the three probe builders | `Image`: protocol, IP identification, destination, ports or identifier, TCP sequence, payload tag |
| `parse_icmp_response`, `parse_tcp_response` | `ParseIcmp`, `ParseTcp`: a set with one parsed reply, or empty for `PacketParseError` |
| `_matches_flow`, `_mutations` | `MatchesFlow`, `Mutations` |
| the observation built in `send_batch` | `Evidence` |

The world (`RepliesTo`) may rewrite identification, destination, ports and
sequence of a probe before it is quoted, quote less than eight bytes of its
transport header, eight, or the payload too, and answer it directly. Strangers
are probes of other programs: they may share our IP identifications and, on TCP,
the half of the session that a sequence carries, but not the whole session.

### Correspondence: the raw backend

| Code | Model |
|---|---|
| `_next_probe_id`, `_allocate_probe_id` | `nextId`, `FollowingId` |
| `probe_count` | `probeCount` |
| `send_socket`, `icmp_socket`, `tcp_socket` | `sockets` |
| `outstanding` of `send_batch` | `outstanding`, a sequence of probes in the order sent |
| `observations` of `send_batch` | `observations`, probe id to evidence |
| `deadline` | `late`, set by `TimePasses` once |
| the sockets `select` returned, not yet read | `readable` |
| everything in flight | `flying`, the probes a reply may still come for |

One action per statement that touches the world: `OpenSocket`, `SendProbe`,
`Select`, `Receive`, `Finish`, and the failures `OpenFails`, `LateSocketFails`,
`SendFails`, `ReceiveFails`, `Interrupted`. `flying` needs no copies and no
order: a probe in it may be answered any number of times, at any time, also in a
later batch, or never, which is loss, duplication, delay and reordering at once.
A probe leaves `flying` after `Lifetime` further probes. With 16-bit ids that
is a packet that lives for less than 65535 probes, and it is the
only thing assumed about time.

### Correspondence: the program

`TraceProcess` adds `main`: `stage` is the place in `main` or in `run`, `held`
whether `main` has its backend, `exit` the exit code. `run` is reduced to what
`main` can see: batches, the answers of the target among their results
(`arrivals`), the kernel control, the result, `close`. Ctrl-C is `InterruptRun`
where `run` catches it, `InterruptMain` elsewhere, `InterruptCleaning` in the
`finally` clause; `CodeOf` is the list of `except` clauses.

### Correspondence: the pure algorithms

`Checksums` works on bytes of `Base` values, so that sums, carries and the
compensation are those of the code at a smaller width; nothing in the module or in
its proofs depends on the width. `Coverage` takes the
two probabilities as fractions of one denominator, so that `BoundMet` compares
`(1 - p)^n` with the request in whole numbers. The code computes with rounded
logarithms and powers. For fractions of a small denominator its results are far
from any whole number or from the request, except at a tie, where `(1 - p)^n` is
the request itself: there the quotient may come out at `n` or on either side of it
(`Computed`), and the power on either side of the request (`WithinBound`). So
`RequiredSamples` is a set of outcomes: the ceiling of each quotient the division
may give, and one at least. Draws without replacement are counted in the order in which
`_variant_flow` draws them, as falling products (`Draws`). `Extensions` works on words of four
bytes, because each offset the code uses is a multiple of four; a word is a
record of every reading the code may take of it, and what is extracted is told by
its place.

## 3. What TLC checks

A run of the controller explores every network of its set, every answer, every token drawn, every
interrupt and every failure. The configuration constants are those of the code,
made small. `CHECK_DEADLOCK FALSE` is set in every configuration because each
system stops: a measurement in `done`, in `failed`, or drawing tokens from an
empty pool (see `claim_stops`); the backend when it failed and is closed, the program
when it has exited, a question of `arithmetic` when it is answered.

| Run | Bounds | Shows |
|---|---|---|
| `measurement` | 20 networks of 3 to 10 hops, 10 TTLs, 2 rounds, 3 fixed and 3 varied samples, chunks of 2, 3 tokens, ample budget; 134 702 states | the evidence is coherent, regions and limits fit each other, the report claims no more than the evidence, no class says more than the network does, wide silent gaps are reported with their exact ends, every step leaves less to do |
| `budget` | 7 networks of 2 to 6 hops, 6 TTLs, 11 probes; 6 357 states | the bound on probes, the split of the ledger, the cover of the path, the refinement, termination |
| `global_cap` | 6 networks, 4 TTLs, one variant per batch, kernel control on, three samples required of which only four are enough; 13 220 states | the whole path is sampled completely, grounded classes, kernel control last |
| `backend` | 2 hops, ids 1 to 3, 4 probes, batches of 1 and 2, 4 rewritings, 3 quotations, 6 strangers, the three protocols; 56 720 states | the contract of a batch, no recognisable reply lost, batches return |
| `process` | 2 hops, ids 1 to 3, 4 probes, every failure, Ctrl-C at every stage; 191 563 states | exit codes, sockets, the partial result, the program ends |
| `arithmetic` | bytes of 10 values, sixteenths, up to five samples, pools of 10 tokens, extensions of up to two objects, or of one and a header that no object fits, and three words of noise; 38 788 states | checksums, the sampling bound, extensions |
| `claim_*` | one network each, or the inputs of `arithmetic` | a documented statement fails, see section 5 |

### Why these bounds

* Ten TTLs hold paths of three to six hops with room beyond their end
  for the tail and the guard, and two of ten hops that reach `max_hops`. Every margin
  is clipped at both ends in some network, two regions overlap (`Mixed`, `Rising`),
  and a chunk of two makes sweeps of whole and of partial chunks.
* Two rounds reach the three cases of `sweep_limit`: the full range, a known
  terminal, the last visible TTL with its guard. Three samples leave a window
  one adaptive fixed sample short of its target and the canary one variant of
  three, so that a CAP batch of two is full and the next one partial.
* With 11 probes the second sweep of the six-hop path is refused, the canary of
  paths of four hops and more, a fixed bundle on three hops, and a varied batch
  on two, after one cut to the capacity left; some paths meet the budget exactly.
* Gaps of 5, 6 and 8 TTLs make windows of 7, 8 and 10 TTLs: the widest that is
  sampled whole, the narrowest that is sampled at five TTLs, and a wider one. In
  `Broad` flows part at seven TTLs in a row, so that a window of nine is
  sampled for both axes at five TTLs.
* Three tokens are as many as `Required`, so each run that needs three variants
  uses up the pool.
* `backend`: three ids and four probes, from any first id, so that ids wrap in
  every position and the last probe has the id of the first; with `Lifetime` 3 a
  reply to the first probe may arrive in the third batch but not meet its
  namesake. The session's lower half is the largest 16-bit value, so the
  acknowledgement of an id `Word - 1` carries into the upper half. One stranger
  shares that half and one does not; both share an id with us.
* `process`: the same backend on one router and the target, with fewer
  rewritings, because what matters is which exception comes from where.
* `arithmetic`: ten values of a byte give words of two digits, odd and even sizes
  around the smallest probe, sums that carry more than once; quarters, halves, 9/16 and
  three quarters have bounds of one to five samples, among them ties at one
  sample (a half and a half), at two (a half and a quarter, a quarter and 9/16)
  and none; a pool of ten tokens is larger than most of them need and, with its main flow
  and the misses taken off, smaller than some. Extensions follow a legacy quote of 32 words
  and one whose length field says one word; objects have payloads of none, one and two words,
  and names end in the middle and at the end of a word.

### Properties

Ledger and evidence:

* `TypeOK`: one type invariant; its content is that TTLs, regions and windows stay
  inside the path.
* `BudgetRespected`: `sent <= MaxProbes` and no observation that was not sent.
* `SplitExact`: the baseline counter counts the observations of the two baseline
  phases, and an interrupt can only leave it short.
* `SamplesCoherent`: a sample id is one flow and one phase, once per TTL.
* `LimitNeverGrows`: the limit recomputed after sampling never exceeds the one
  the regions were found for.
* `NoProbePastTerminal`: once a sweep met a terminal, no phase probes beyond it.
* `KernelControlLast`: no probe after the kernel control.
* `StepsRunOut`: five natural numbers, compared in order, are smaller after each
  step: the stages ahead, the passes of the loop under way, the parts of a pass,
  the steps of the loop inside it, the tokens still to draw. No loop of `run` goes
  on for ever, whatever is answered.

Report:

* `PathCovered`: every edge between reported hops lies in a segment.
* `HopsProbed`: every reported hop was probed on the main flow.
* `RegionsCompleted`: a measurement that neither met the budget nor was
  interrupted takes all the samples of every region, so that only the bound computed
  for them may keep a certificate away. It is about the shared windows: each
  region counts complete samples over its own TTLs. `claim_rounding` shows the
  certificate that stays away.
* `CoverageByDistinctFlows`: unless the budget cut a bundle, a certified flow
  coverage rests on as many different tokens as required. `claim_flows` shows
  that the condition on the budget is needed.
* `OpaqueHidesAHop`, `SilentTailIsSilent`: what OPAQUE and SILENT_TAIL rest on in the
  evidence of all flows and phases.
* `DirectEdgesAreClear`: at both ends of a direct edge outside the regions one
  responder answered every probe of every phase. Only where a region begins or
  ends may an adaptive sample disagree with the edge beyond it.
* `ClassesAreGrounded`: what each class says of the network itself, not of the
  observations. UNSTABLE needs a TTL where the main flow alone may meet two
  responders, MULTIPATH one where two different other flows meet different
  ones (or one flow that does, if the budget made a window reuse a variant),
  MUTABLE a rewrite, OPAQUE and SILENT_TAIL a main flow that may stay silent in the
  gap and all along the tail, INTERMITTENT a flow that may, DIRECT ends that
  answer. UNKNOWN says nothing. It does not say that MULTIPATH has a stable main
  flow: `claim_responder` refutes that.
* `SilentGapsReported`: completeness of the detection, for gaps no flow can see
  into. Neither an interrupt nor a refused bundle hides such a gap; only
  `--global-cap`, which replaces the regions, may.

Backend and correlation:

* `BackendTypeOK`: shapes; observations belong to outstanding probes.
* `KeepsContract`: the refinement of `ProbeBatch`. A result has one entry per
  probe, in order, and each is silence, a reply to that very probe that says
  what the network said and invents no rewrite, or one of three coincidences
  that `Chance` spells out: a short quotation is told by its IP identification
  alone, which strangers share and devices rewrite, and TCP tells sessions by 16
  bits.
* `RepliesRecognised`: completeness of the correlation. A reply whose payload
  tag, sequence, or identification with port survived the path is kept, if it
  arrives while its probe waits.
* `BatchReturns`: a batch ends, however many strangers keep the sockets busy.

Program:

* `ExitCodeTells`: 0 needs a printed result and an answer of the target; 1 a
  printed result without, or the crash of section 5; 3 a privilege error; and
  who pressed Ctrl-C sees 130, or 2 if something else failed too.
* `SocketsReleased`: no socket is left open, unless Ctrl-C fell into the
  constructor or into closing.
* `PartialResultShown`: Ctrl-C during the measurement still prints what there is.
* `ProcessEnds`: the program ends.

Arithmetic:

* `EchoHeadersStable`: an ICMP probe of even payload has the same first eight
  bytes whatever it is tagged with, and a right checksum. `HeadersAccepted`: a
  sealed header sums to all ones.
* `CertifiedFromRequired`: the loop that counts samples and the certificate that
  compares a power, each rounded on its own. Whichever way the roundings go: a
  certificate meets the bound exactly, the loop takes one sample too many at
  most, and samples that reach the required number lack their certificate only if
  they are just that many and a tie. `RareOutcomesMet`: each number of samples that
  may be required, derived for independent draws, misses an outcome seldom enough
  in draws without replacement that leave out the main flow.
* `ExtensionsRecovered`, `NothingCutOff`: what a sender put into an extension is
  taken out object by object and field by field, a malformed object ends the list
  and costs nothing before it, nothing is read outside its object.

`ImplementsMeasurement` is the refinement of `BoundedMeasurement`: `spent` is
`sent`, `kept` is the number of observations, `stage` collapses `pc`, `kernel`
is `control`.

### Fairness

`FairSpec` adds weak fairness of `Proceed`, the controller's own steps. The
controller waits for nothing but `send_batch`, and the receive loop there ends
with its deadline (backend.py:294-304), so a step that is enabled happens.
Interrupts and failures are outside `Proceed`: possible, never due.
`Termination` needs no more. It holds with more tokens than a measurement
draws; `claim_stops` is the same specification without that margin.

The backend's `FairSpec` has weak fairness of `SendProbe`, of `TimePasses` and of
`Deliver` (`select`, reading, returning): `sendto` blocks for no peer, the clock
runs, and the process is scheduled. It does not assume that anything arrives or
stops arriving. `FairProcess` has weak fairness of the program's own steps and of
the clock. Failures and Ctrl-C are never due.

## 4. What is proved

For every value of the constants that meets the assumptions:

| Module | Theorem | Statement |
|---|---|---|
| `TraceController_proofs` | `MeasurementIsInvariant` | `Spec => []MeasurementInv` |
| | `TypeCorrect` | `Spec => []TypeOK` |
| | `ProbesWithinBudget` | `Spec => []BudgetRespected` |
| | `SamplesMatched` | `Spec => []SamplesCoherent` |
| | `ControlAfterProbes` | `Spec => KernelControlLast` |
| | `ControllerImplementsMeasurement` | `Spec => ImplementsMeasurement` |
| `TraceLimits_proofs` | `PathIsInvariant` | `Spec => []PathInv` |
| | `LimitStays` | `Spec => []LimitNeverGrows` |
| | `NothingPastTerminal` | `Spec => NoProbePastTerminal` |
| | `ReportedHopsProbed` | `Spec => []HopsProbed` |
| | `SplitStaysExact` | `Spec => []SplitExact` |
| | `MeasurementRunsOut` | `Spec => StepsRunOut` |
| `TraceReport_proofs` | `ReportIsInvariant` | `Spec => []ReportInv` |
| | `PathIsCovered` | `Spec => []PathCovered` |
| | `OpaqueIsGrounded` | `Spec => []OpaqueHidesAHop` |
| | `TailIsSilent` | `Spec => []SilentTailIsSilent` |
| `TraceSampling_proofs` | `SamplingIsInvariant` | `Spec => []SamplingInv` |
| | `RegionsAreCompleted` | `Spec => []RegionsCompleted` |
| | `CoverageIsDistinct` | `Spec => []CoverageByDistinctFlows` |
| | `SilentGapsFound` | `Spec => []SilentGapsReported` |
| | `DirectIsClear` | `Spec => []DirectEdgesAreClear` |
| | `ClassesGrounded` | `Spec => []ClassesAreGrounded` |
| `RawBackend_proofs` | `EvidenceMeaning` | what a parsed packet says of a probe |
| | `BackendTypeCorrect` | `Spec => []BackendTypeOK` |
| | `BackendKeepsContract` | `Spec => KeepsContract` |
| | `RecognisableRepliesKept` | `Spec => []RepliesRecognised` |
| `TraceProcess_proofs` | `ExitCodeAlwaysTells` | `ProcessSpec => []ExitCodeTells` |
| | `SocketsAlwaysReleased` | `ProcessSpec => []SocketsReleased` |
| | `PartialResultAlwaysShown` | `ProcessSpec => []PartialResultShown` |
| `Arithmetic_proofs` | `EchoProbeStable` | the compensated probe, for every tag and every even size |
| | `EchoProbesLookAlike` | `Spec => []EchoHeadersStable` |
| | `HeadersAreAccepted` | `Spec => []HeadersAccepted` |
| | `ObjectsInside` | the walk through an extension, for every sequence of words |
| | `EveryObjectTaken` | the same walk takes all of any number of objects |
| | `FieldsRecovered` | the fields of any interface object a sender lays out |
| | `ExtensionsAreRecovered` | `Spec => []ExtensionsRecovered` |
| | `NothingIsCutOff` | `Spec => []NothingCutOff` |
| | `CertificatesMeetBound` | `Spec => []CertifiedFromRequired` |
| | `RareOutcomesFound` | `Spec => []RareOutcomesMet` |

Assumptions, which TLC evaluates in every run that uses them:

* controller: `ConfigAssumption` (the lower bounds of `validate`; its upper
  bounds are not needed; of `Required` and `Enough` only that they are a positive
  number and a set of numbers, whichever way they were rounded), `ValueAssumption` (the destination is a responder, no
  responder is `None`) and `NetworkAssumption` (each TTL and token has at least
  one outcome). Nothing is assumed about the tokens: the pool may be empty,
  infinite or contain the main flow's token;
* backend: `WireAssumption` (shapes; words have more than two values),
  `BatchAssumption` (a packet lives for fewer probes than there are ids, and a
  batch is no longer than that) and `StrangerAssumption` (no other program uses
  our session);
* program: `ProtocolAssumption` (the flows of a trace share its protocol);
* arithmetic: `ChecksumAssumption` (a byte has more than eight values, so that
  the type of an echo request is one, and the stable checksum is neither of the
  two zeros of ones' complement), `CoverageAssumption` (fractions strictly
  between zero and one, and a
  `SampleBound` at which every bound is met, which some number is because the
  powers of a proper fraction vanish), `InputAssumption` (identifiers, lengths
  and TTLs fit their fields; names of interfaces are as long as the format allows;
  the objects of an extension, the words in each and the words quoted are any
  numbers).

**The ledger and the samples.** None of the three safety properties is inductive
alone. `MeasurementInv` adds

* `LoopsInBounds`: in each stage, the locals of the loop under way are in range
  (a sweep has a TTL to send, a window is open, the canary has its token);
* `SamplesOlder`: every sample id in `obs` is below the next one, so the bundles
  of `FixedSample` and `VariedSamples` are new;
* `SweepUnderWay`: a sweep shares one id over several chunks, so its
  observations so far have TTLs below `start` and its flow and phase;
* `EveryProbeRecorded`: inside the try block `sent = Cardinality(obs)`. It makes
  the test of `_send`, which counts observations, a test of probes sent, and
  it needs `SamplesCoherent`: a bundle already in the set would not grow it.

Each action has a lemma that it preserves the invariant. Those that send share
`DeliverFacts` (a new bundle grows the evidence by its size) and `SendStep`; each
batch has a lemma that its bundle is new and well formed (`SweepBatch`,
`CanaryBatch`, `FixedBatch`, `VariedBatchIsNew`); an interrupted batch uses the
same facts through `InFlightIsNew`. `EvidenceLemmas` has the facts about the
operators: minima and maxima of finite sets, the analysis limit, regions and
windows inside the path. The refinement maps each sending action to
`SendBundle`, the three cuts to `CutShort`, `RunControl` to `EndProbing`,
`Summarize` to `ReportResult`, and every other action to a stutter.

**How far a measurement probes.** `PathInv` is inductive beside `MeasurementInv`.
It says that the terminal known is one the main flow met; that the sweep under
way, the limit and the windows stay before it; that the sweep left nothing out
behind it; and that the main flow was swept over every TTL up to any that was
probed. The heart is `LimitKept`: observations within the limit do not move
the recomputed limit outwards, by cases on whether the limit came from a
terminal, from the last answer or from neither. `SplitExact` rests on the
freshness of bundles and on each stage sending probes of its own phase.

**How long it runs.** `MeasurementRunsOut` is the safety part of `Termination`: with
`StepsRunOut`, a measurement of which no step is missing is finite. Stages only
go forward. Inside a stage a step finishes a pass (a round, a canary, a window taken
off the list), goes to the next part of one, takes a chunk or a sample of it, or
gives a variant its token; `Left` orders these five and each lemma says which of
them its action lowers. That they are natural numbers is
the other half: the work of a window and the variants without a token are finite
sets (`WorkIsFinite`, `TokenlessIsFinite`), a sweep has a TTL left to send
(`SweepUnderWay`), and canaries are counted up to their number
(`CanariesCounted`), which `MeasurementInv` does not say. Rejected draws of
`_variant_flow` are no steps, so what is left to assume is what `claim_stops` is
about: that a draw meets an unused token.

**The report.** The regions of a report are found from the sweeps and canaries
and for the limit of that moment; its classes, ends and gaps are taken from all
observations and for the limit of the end; an interrupt may come before, between
or after. `ReportInv` is what the two have in common:

* every observation is one that the network gives for its TTL and some flow, the
  main one if it is the main flow's (`FromNetwork`), and the canaries never ran
  on the main flow;
* without a terminal, the limit is a TTL where the main flow met an answer
  (`LimitMet`), so a silent tail begins at a hop the main flow saw;
* the regions are those of the baseline, or the global one, for a limit that
  the report's does not exceed (`RegionsFor`); there are none before detection,
  and as long as there are none nothing was sampled beyond the baseline
  (`RegionsOfBaseline`). This is why finding them after an interrupt, from all
  observations, finds the same.

The rest is about the definitions of `Boundaries` and `Segments`, with
`ReportInv` as hypothesis. `SuspicionIsCovered` (every edge at a suspicious TTL
lies in a region) gives `CoverFollows` and `UnsuspectedIsClear`; a hop without a
responder is suspicious (`InvisibleIsSuspicious`), so the edges outside regions
have ends. `OpaqueRegionHides` finds the hidden hop, and `ClassMeans` says what
each class needs of the observations.

What the adaptive samples may add to that is part of `SamplingInv` (below).
`AdaptiveInside` keeps them inside the regions, so a TTL that lies in none has
its baseline alone, and that was unsuspected (`DirectFollows`).
`AnswersOfTokens` ties each observation to the outcomes of the very token its
variant drew, which takes a class from the observations back to the network
(`ObservedOnToken`). For MULTIPATH it gives two flows only if the two
observations are of two variants: the same variant met one TTL twice only after
the budget refused a bundle (`FlowsOnce`), and different variants have different
tokens (`TokensDistinct`). For INTERMITTENT each of the three ways to the class
is traced to a probe without an answer: the family of a visibility region
(`FamilySawSilence`), a TTL that answered and did not, and signatures that
differ although no TTL shows two responders (`SignaturesMissAnswers`).
`RegionIsGrounded` and `TailIsGrounded` put them together.

**Certificates.** Sampling is spread over loops that know little of each other:
the canaries number variants from 1, each window numbers them from where its
complete samples end, a region counts what windows and canaries happened to
complete over its own TTLs. `SamplingInv`, inductive beside `ReportInv`, is why
the count is still right:

* `TokensDistinct`: the token cache is injective and never holds the main flow's
  token, so different variants are different flows;
* `FlowsOnce`: until the budget refuses a bundle, a variant probes a TTL in one
  sample only, so different complete samples are different variants. The proof
  of a varied bundle needs `WindowsFresh` (windows that vary share no TTL, and
  at the TTLs of a window not left yet only canaries and the window itself
  varied) and `CanariesInOrder` (each canary covered `1..limit`, so the complete
  samples a window starts with count at least the canaries, and it starts
  numbering behind them). `claim_flows` is what happens when the budget breaks
  the second;
* `WindowCounts`: complete samples plus what the loop under way still has to
  take reach the target;
* `RegionsServed`: a region has its samples already or a window that contains its
  TTLs is still to be worked. At the end no window is left.

None of this assumes that the samples required are enough for the certificate;
`RegionsAreCompleted` is about the samples, and `CoverageIsDistinct` about the
regions that did get a certificate.

`SilentGapsFound` needs of this only that no region is global. A gap between
two TTLs that always answer is a maximal run of TTLs where the whole baseline was
silent (`GapIsRun`, because the main flow was swept over all of it), for any
limit the detection may have used; its margin of one puts the visible ends on
the region's ends (`RegionOfGap`), the windows' five TTLs include one inside the
gap, and no later answer can come from there, so the region is classified
OPAQUE (`SilentRegionIsOpaque`).

**The contract of a batch.** `BackendInv` strengthens the type invariant with
`FlyingOurs`: ids are handed out in a circle, and each probe that may still be
answered has the id that lies its age behind the next one. As its age is below
`Lifetime` and the circle longer, ids in flight are distinct (`IdsDistinct`), on
both sides of a wrap. `BatchInOrder` ties the probes out to the batch asked for;
`KeptTruthful` says that what has been kept of it is already as the contract
wants the result, so that `Finish` maps to the return of `ProbeBatch`.
The lemmas on correlation show for each kind of packet (an ICMP error that quotes a
probe, a direct answer) and for each thing that may be rewritten what the parsers
make of it; `EvidenceMeaning` is their sum. A packet is attributed to the probe
that caused it, or to another one by a coincidence named in `Coincidence`. This
is the contract that `TraceController` relies on in `Replies`: one entry for each
probe of a batch, silence or an answer to that probe.

`RecognisableRepliesKept` is the converse: a packet that kept a field the
parsers trust (payload tag, sequence, or identification with destination and
port) is attributed (`ErrorRecognised`, `AnswerRecognised`), and to the probe
that caused it, because ids out are distinct. It needs `BackendInv`: the
invariant is what makes `outstanding[i].id` name one probe.

**The program.** `ProcessInv` adds to `BackendInv` what each place in `main` and
`run` implies about the sockets, the result and the Ctrl-Cs seen so far
(`StageInv`, `OutcomeInv`), and that an answer counted as the target's came from
it, which follows from `KeptTruthful` when a batch returns.

**Arithmetic.** The algorithms are recursive functions, and a recursive function is
one chosen among those that satisfy its recursion. So each part of
`Arithmetic_proofs` shows first that such a function exists, then what each of
them satisfies, both by a least counterexample (`LeastCase`), which needs no
induction rule.

* *Checksums.* `Means(n, a)`: `a` is a word, congruent to `n` modulo `Full`, and
  zero only if `n` is. Adding the carry once keeps the meaning and makes the
  number smaller (`OnceKeeps`), so folding ends in it (`FoldedMeans`), and there
  is only one (`MeaningUnique`). A word put where zeros were adds itself to the
  sum (`WordAdds`); with the complement of the sum that gives all ones
  (`SealedSums`), with the compensation word the complement of the stable
  checksum (`CompensationIs`), for a probe whose words end at even bytes.
  `claim_checksum` is the odd case.
* *Extensions.* A well-formed object is at least a word long and ends inside the
  packet, so the walk ends (`WalkExists`), and what it takes from a word on lies
  behind that word (`WalkInside`). `FieldsInside` follows the fields of an
  interface object, with all the places where the parser gives up. Conversely,
  objects written one behind the other are all taken (`EveryObjectTaken`), and an
  interface object that a sender laid out yields each field from its place
  (`FieldsRecovered`), which is where the padding of names matters.
  `ExtensionsAreRecovered` joins the two for whole packets. `Block` says that one sequence stands in
  another, and concatenation keeps it (`BlocksJoin`), so what holds of an object
  alone (`ObjectsFit`) holds of it inside the packet. A body of any number of
  objects is taken apart by a least counterexample (`BodiesPlaced`), and the walk meets each of
  them (`BodyFills`). As each word tells the object and the field it was
  meant for, and no two objects share a word, nothing is left out, and nothing
  taken for something else (`FilledIsRecovered`).
* *The bound.* Another sample keeps a bound that is met, and leaves no tie
  (`BoundKept`): so there is a least number that meets it, and a tie at no other
  (`LeastExists`). The quotient of the logarithms lies just below that number, or
  at it if it is a tie (`QuotientIs`), and however it is rounded, the number
  required is the least one, or one more at a tie (`RequiredNearLeast`). Without replacement the chance to miss
  shrinks at each draw: what is left of the misses over what is left of the
  pool is at most `1 - p` because the main flow, which is not drawn, is none
  of those that show the outcome (`MissesBounded`).

**Only model-checked.** Liveness: that a step which is enabled is taken
(`Termination`, `BatchReturns`, `ProcessEnds`) is beyond the prover; of
`Termination` the part that is a safety property is `MeasurementRunsOut`. Every
invariant and every action property that a passing run checks is also proved.

## 5. Where the documentation and the code disagree

Each is a run that TLC refutes; those of the controller, except the first, by a
measurement nobody interrupted.

* `claim_interrupted`: a network that balances flows over two routers. The
  window gets its fixed and varied samples, Ctrl-C follows, and the result says
  "partial, non-certified" next to a certified MULTIPATH segment
  (controller.py:161, 1032).
* `claim_responder`: two classes promise that the main flow met one responder
  only. The property asks of a report that it keeps one of the two promises at least, and
  the counterexample keeps neither. The second TTL answers any flow as B, as C, or not at
  all. The sweeps meet B and silence, the canary C, the fixed sample C, the
  variants B. The TTL has a flow region, MULTIPATH from the variants alone (970), and
  a visibility region, INTERMITTENT because that is asked (985) before the
  responders of the main flow are (992). No UNSTABLE region stands beside them:
  only a change between sweeps opens one.
* `claim_rounding`: two samples required, and a computed bound that only three
  meet, as for 0.2 and 0.64. The loop stops at two, with budget left (614);
  the certificate compares the computed bound, 0.6400000000000001, with 0.64
  (1035) and is withheld, and the report calls the region BUDGET-LIMITED
  (report.py:119).
* `claim_flows`: two regions overlap, the budget cuts the canary between them.
  The joint window has no complete varied sample and starts at variant 1, the
  canary's. For the first region, which the canary did complete, variant 1
  counts twice, and the region is certified with one flow fewer than required
  (613).
* `claim_stops`: as many variants required as tokens in the pool; the draw at
  342 (or 354) never meets an unused one. With 16 384 ports this takes a very
  small `--min-detectable-prob`, which `validate` accepts.
* `claim_checksum`: with an odd `--payload-size`, which `validate` accepts, the
  compensation word of an ICMP probe straddles two words of the checksum.
  `build_icmp_echo_probe` computes it for one, compares, and raises
  `AssertionError` (packet.py:269-270). Nothing catches it: a traceback, and the
  exit code of an unreached target.

Effects met on the way that contradict no statement clear enough to be a run:

* The order of tests behind `claim_responder` has one more: a visibility region
  without a visible ingress is INTERMITTENT although no TTL changed its
  visibility (986).
* A tail is "through the configured maximum" also when the budget ended the
  first sweep early (183, 876); `docs/ALGORITHM.md` speaks of the maximum TTL
  actually probed, which is what it ends at.
* The window around a silent hop samples the hop before it again and may meet
  another responder; the edge further left, in no region, stays DIRECT from the
  majority at that hop. `DirectEdgesAreClear` says how clear such an edge is.
* Ctrl-C in the constructor leaves the sockets opened so far open, since it
  handles `OSError` only (backend.py:132-151) and `main` has no backend yet; they
  last until the process ends.
* A kernel control whose socket cannot be created raises out of `run` and costs
  the result of a finished measurement.

## 6. What is not modelled

* `report.py`: formatting of a finished result. The scripted backend: a
  deterministic stand-in for the network used by tests. Argument parsing, JSON
  serialisation and the shell tools keep no state and decide nothing.
* Of `packet.py`: the bytes of headers and options apart from the ICMP checksum,
  transport checksums of UDP and TCP, the byte order `prepare_for_raw_socket`
  adapts to, malformed IP headers (`parse_ipv4` refuses them, which here is a
  packet that parses to nothing).
* Of the mutations, the source address and the DSCP bits: they are compared like
  the destination, and never used to attribute a reply.
* Round-trip times and TTLs of replies: measured, never read by a decision.
* Of the kernel TCP control: addresses, durations and error texts. Which result of
  `connect_ex` gives which of its five outcomes is the table `ControlStatus` of
  `TraceProcess`; which result it is, is the world's choice.
* Of closing: a `close()` that raises. The code lets the exception out of `run` or
  of the `finally` clause; here closing a socket succeeds.
* Of `stats.py`: `wilson_interval`, which describes a finished sample, and
  rounding away from ties, for probabilities so close to each other's powers
  that a double cannot tell them apart.

## 7. Plan

Done, in this order: configuration and observations, detection, classification,
the controller with its properties and networks, the bounded measurement and its
refinement; the proofs of the ledger; packets and correlation, the raw backend
and the contract of a batch with its refinement and proof; the program around
them and its proofs; checksums, coverage and extensions; the proofs of how far a
measurement probes, of what it reports and of its certificates; the proof that
no recognisable reply is lost; the proofs of the arithmetic; that a
measurement runs out of steps and that every extension is recovered.

Left: sockets whose closing fails.
