# TLA+ verification of the norxs safety path

This directory holds the formal model of the safety-relevant part of
`sotif-plausibility-gate`: the plausibility gate that screens perception
candidates, the safety arbitrator that turns sensor faults into a safe state,
the degradation matrix it consults, and the ring buffer that carries both
components' commands to the M7 safety supervisor, one by one and together; and
of its two security extensions, the hybrid authentication of peers and the
verification of V2X messages. TLC checks small instances; TLAPS proves the main
safety properties for all values of the constants.

`PROJECT.json` lists the components, runs, mutants, the source lines each
definition models, the findings, the hazards and the theorems.

Paths below are relative to `src/`. `FV` stands for
`formal-verification/vendor/autosar-soa-gateway`. The gate is built against the
copy of that gateway under `sotif-gate/vendor-autosar-soa-gateway`, which
differs from `FV` in `ComputeRequiredState()` and in comments only; the map
names the gate's copy, and `FV` where the two differ.

## 1. Inventory

| Component | State | Operations | Concurrency and failure | Correct if |
|---|---|---|---|---|
| **Degradation matrix**: `SafetyArbitrator::ComputeRequiredState()` (`FV/src/SafetyArbitrator.cpp`, and an older copy under `sotif-gate/vendor-autosar-soa-gateway`) | none; reads fault bitmask, mandatory mask, fault counts | one pure function, and the command limits of each state | - | every lost sensor gets at least the restriction it demands; one more fault never relaxes state, speed or braking |
| **SafetyArbitrator** (`FV/src/SafetyArbitrator.cpp`) | per domain: health, heartbeat stamp, fault count (atomics); bitmasks; current state; last command; transition log (ring of 32); two counters; listeners | `Init`, `RegisterListener`, `IngestFault` / `InjectFault` / `IngestSoaEvent`, `RecordHeartbeat`, `Arbitrate` (`ScanTimeouts`, `UpdateBitmasks`, `ComputeRequiredState`, `ExecuteTransition`, `LogTransition`, `SendCommandToM7`), `DrainTransitionLog`, getters, five `Validate*` comparisons | 10 ms loop against handlers in other threads, "lock-free — safe from any thread"; timeouts; 32-bit wraps; the ring may refuse the command | the state in force is the one the matrix demands for the sensors' health, is relaxed only with cause, comes back to full operation, and the log explains it |
| **IpcBridge** (`FV/src/IpcBridge.cpp`, identical copy in sotif-gate) | ring in shared SRAM: head, tail, slots with E2E header; `seqCounter_` | `Init`, `Send`, `VerifyE2e` | the M7 reads while the A53 writes; gate and arbitrator share one instance; full ring; wrap of indices and of the 8-bit counter | FIFO; nobody writes a slot the M7 may read; every published slot passes `VerifyE2e` |
| **SotifPlausibilityGate** (`sotif-gate/src/SotifPlausibilityGate.cpp`) | config, replay guard (two atomics), last reject reason, three counters | `Init`, `Evaluate` (three checks, guard, counters, `EscalateToSafeState`), `IngestSoaEvent`, static adaptor | the fields are atomics but `Evaluate` is not atomic; stale, replayed, non-finite candidates; `Init` may come again | nothing implausible, stale or replayed is accepted; the guard never regresses; each rejection sends one command that explains itself |
| **M7 supervisor** | not in the repository | reads, verifies and releases slots; obeys the last command | runs concurrently on another core | external |
| **SpdmProtocolEngine** (`pqc-signature-extension/vendor/zonal-zero-trust-auth`) | handshake state, pending nonce and client id, authenticated id | `ProcessAuthRequest`, `ProcessAuthResponse`, `Revoke`, `Reset` | out-of-order messages; crypto failing at each step; retry after failure | only the peer that was challenged, with the nonce it was sent, gets authenticated; secrets are gone after `Revoke` / `Reset` |
| **HybridAuthGate** (`pqc-signature-extension/src`) | none of its own | `ConfirmHybrid` | window between classical and hybrid confirmation; id, key and nonce come from the caller | no session outlives a failed PQC check |
| **V2xTrustVerifier**, **V2xNetworkAdapter** (`v2x-trust-extension/src`) | last trust status, initialised flag | `VerifyChain`; `Init`, `Deserialise`, `Serialise`, `Receive`, `Transmit` (the last two always fail) | crypto failing in each step; clock read once per frame | an advisory is emitted exactly for a fully trusted chain, and the status says so |
| **SoftwareCryptoProvider** (`.../src/CryptoPlatformInterface.cpp`) | LFSR of the nonce source | SHA-256, ECDSA stub, HKDF, nonces | - | nonces do not repeat early |
| **PQC KEM extension** (`pqc-kem-extension/src`) | none | every call refused | - | - |
| **SoaServiceManager, NetworkAdapter** | headers only | hand events to handlers | - | external |
| **Verification harness** (`formal-verification/harness`) | none | walks 32 fault masks and their 211 superset pairs through the compiled class; two models of its own | - | its models are the two copies of the matrix |
| **Build, CI, SBOM tool** | none at run time | - | - | - |

How they interact: the middleware hands sensor events to
`SafetyArbitrator::IngestSoaEvent()` and perception candidates to
`SotifPlausibilityGate::IngestSoaEvent()`. The safety loop calls `Arbitrate()`
every 10 ms. Both components call `IpcBridge::Send()` on the **same** bridge
instance with a 24-byte command of the **same** service and event id; the M7
reads the ring. Accepted candidates go to the arbitrator's `Validate*` calls,
whose wiring is the integrator's. The security extensions (SPDM with the PQC
signature, V2X) share no state with the safety path.

The hard parts, listed with their lines as hazards in `PROJECT.json`: combined
sensor losses; long sequences of legal reports that undo a restriction;
timeouts against late heartbeats; counters at their wrap; the ring at its
limit; producer and consumer interleaving in it; two producers; the replay
guard read and written in separate steps; commands lost and never repeated;
flipped bits in shared memory; reports, heartbeats, cycles and drains that
overlap at the atomics they share; handshakes whose frames are late, repeated
or swapped while the crypto platform fails at any call; a chain of certificates
judged against a clock that may step back.

## 2. Modules

| Module | Models | Correspondence |
|---|---|---|
| `DegradationMatrix` | `ComputeRequiredState()` in both versions, the limits of `ExecuteTransition()`, the trigger domain | a constant-level module: bitmasks are sets of domain numbers; `Matching` collects the rows that apply and `MostSevere` is the chain of `Escalate()` calls. Braking is the share of `kMaxSafeDecelMps2` in percent |
| `MCDegradationMatrix` | the enumeration of its inputs as a state machine that adds a fault or wears a domain out | extends the harness, which fixes the mandatory mask to 0. `walkFaults`, `walkMandatory`, `wornOut` are the inputs, `MaskDomains` and `LatchDomains` the domains that may fail and wear out |
| `SafetyArbitrator` | every public call as one action; `Arbitrate` is the whole cycle | one variable per field; the clock is the age of each heartbeat; `reported` (domains that sent a report other than kFailed in this cycle) and `wrapped` (domains whose fault count went from 2^32 - 1 to 0) are history variables |
| `SafeStateAuthority` | abstract specification of the arbitrator, as listeners and M7 see it | every change of the state takes the next command number, and nothing else does; `SafetyArbitrator!ImplementsAuthority` is the refinement |
| `MCSafetyArbitrator` | instances, and a comment of the code that does not hold | the comment of `Arbitrate()` on decreasing severity |
| `IpcBridge` | `Send()` in six steps, one per access to the shared ring; the M7 in two | `pc`, `event`, `myHead` are the call's program counter, argument and local variable; a CRC is the data it was computed over |
| `CommandQueue` | abstract specification of the bridge: a bounded FIFO | `IpcBridge!ImplementsQueue` is the refinement |
| `SotifPlausibilityGate` | `Init()` and `Evaluate()` in eight steps, one per atomic field it touches | `pc`, `candidate`, `reason`, `seq` are the call's locals; `sent` is the command handed to the bridge; `accepted` is a history variable |
| `MCSotifPlausibilityGate` | candidates on both sides of every threshold, three configurations | |
| `SafetyGateway` | arbitrator, gate, bridge and M7 together: two senders, one bounded ring, the answer of `Send()` | the arbitrator is `SafeStateAuthority`, the gate what its module shows (one numbered command per rejection), the bridge the bounded FIFO it implements, the M7 a reader that obeys in order; `heard` and `refused` are history variables |
| `E2eCrc` | the generated table, the byte-wise loop, the slot's protected region and what flipped bits do to its verification | a word is the set of its one bits, exclusive or the symmetric difference; the loops are recursive functions, so that they can be proved about |
| `DamagedBridge` | `IpcBridge` with slots made of bytes, flipped bits and an M7 that drops what does not verify | what flipped bits add to a CRC depends on their positions only (`DamageAdds`, proved), so `damage` is the set of these |
| `CrcDivision` | the reference of the CRC: a division of polynomials | `Power` by squaring and `Remainder` by adding powers up: nothing of the table or of the loop is in it |
| `MCIpcBridge` | the instance, with the bytes of its slots | |
| `ArbitratorThreads` | `IngestFault`, `RecordHeartbeat`, `Arbitrate` and `DrainTransitionLog` cut at each access to a shared field, one domain | `pc`, `step`, `drain` are program counters; locals of the calls are variables; `Torn` is a struct that is being assigned; `standing` (a hard failure that no later report and no wrap of the count has ended) and `overlapping` are history variables |
| `VerificationHarness` | the harness's reference model, its model of the code before F-02, and its drive of a fresh arbitrator | both models run through one table of rows; the drive is the health and counts that its reports store, the bitmask of these, and the state required for it |
| `SpdmProtocolEngine` | the handshake: every call, every early return, every failure of the crypto platform | a signature is who signed which nonce and id; `challenged` is a history variable |
| `HybridAuthGate` | `ConfirmHybrid()` on that engine, with peers, network and caller | the caller passes on what it captured at `ProcessAuthRequest()`; `trusted` and `rejected` are history variables |
| `PeerSession` | abstract specification of the two | `HybridAuthGate!ImplementsSession` is the refinement |
| `V2xTrustVerifier` | `VerifyChain()` with a platform that may fail in any step | constant-level: a certificate is a record, a signature is who signed what |
| `V2xNetworkAdapter` | the adapter's five calls, with vehicles, radio and clock | `frame` and `event` are the caller's buffers; `reading`, `faulted`, `signed` are history variables |
| `AdvisoryFeed` | abstract specification of the adapter | `V2xNetworkAdapter!ImplementsFeed` is the refinement |
| `MCV2xNetworkAdapter` | certificates of the run | |
| `*Proofs` | the theorems of section 5 | |

`SafetyArbitrator`, `ArbitratorThreads` and `VerificationHarness` extend
`DegradationMatrix`, `HybridAuthGate` extends `SpdmProtocolEngine`, and
`V2xNetworkAdapter` extends `V2xTrustVerifier`. `IpcBridge` instantiates
`CommandQueue`, `SafetyArbitrator` and `SafetyGateway` instantiate
`SafeStateAuthority`: the first implements it, the second builds on it. The
numbers that `SafetyGateway` gives to commands are the arbitrator's and the
gate's own; the E2E counter of the ring stays in `IpcBridge`.

Calls are atomic in `SafetyGateway`. In particular the M7 does not read between
`SendCommandToM7()` and the store of `currentState_` a few lines later, a window
in which the M7 is ahead of what the arbitrator reports.

What is abstracted: log texts, DTC codes, latencies and time stamps; the byte
layout of commands and events; the value of the CRC (in `IpcBridge` it is the
pair it was computed over; `DamagedBridge` looks at its bits); floats (integers
on a scale, with `NaN` for a value that is not finite; the candidate's three
actuation fields, which no check reads, are left out). `IngestSoaEvent()` adds only a length check to what it wraps. The
constant-argument checks of `Send()` are left out, both callers satisfy them.
A step of `Evaluate()` may contain two relaxed loads (flag and number of the
guard); this is exact for one caller, and with several it only removes
interleavings, so multi-caller instances are used to find violations, never
to show their absence.

In `ArbitratorThreads` memory is sequentially consistent, reading the clock and
storing it as a heartbeat is one step, a reporter's own domain is the only one
that changes, and `clock_gettime()` does not fail (on failure
`GetMonotonicMs()` returns 0). In `HybridAuthGate` and `V2xNetworkAdapter`
cryptography is perfect: a signature verifies exactly for who signed what, a
nonce is never drawn twice, a key stands for its hash. Peers and vehicles are
honest; frames may be late, repeated, damaged, or put together from others.

## 3. Runs

| Run | Question | Result |
|---|---|---|
| `matrix` | over every fault bitmask of eight domains, mandatory mask and set of worn-out domains: does the required state meet every demand, is it monotone, and are the harness's two models the two copies of the code? | holds |
| `older_matrix` | is the copy that sotif-gate vendors monotone, as its comment says? | **no**: F-02, fixed in one copy only |
| `arbitrator` | with reports, heartbeats, silence and cycles of two domains in any order, and fault counts that wrap: do counts agree with health, the state with the matrix, the last command with the demand of each published fault, is a restriction neither kept nor dropped without cause, and does the arbitrator implement `SafeStateAuthority`? | holds |
| `arbitrator_live` | beside the slot of `kInvalid`, with a log shorter than the history: is silence faulted, does full operation return, does the drained log explain the state? | holds |
| `unrecovered` | does the severity decrease only when a sensor has recovered, as the comment in `Arbitrate()` asks? | **no**: a degraded report takes a failed domain out of the bitmask, and full operation returns with no sensor nominal |
| `threads` | with one reporting thread, the loop and a drain interleaved at every shared field: does a hard failure last, is nobody timed out without silence, are drained records complete and continuous? | holds; the failure until its count wraps; of the drain, for what was in the log when it began, but the oldest slot, and beside one transition |
| `masked_failure` | does it last with two reporting threads, "safe from any thread"? | **no**: a heartbeat that has read the count 0 revives the domain |
| `bridge` | with sender and M7 interleaved at every access, across both wraps, and bits of a slot flipping: ownership, contiguous counters, acceptance of what is intact, refusal of what is not, FIFO? Is the CRC the division its table stands for? | holds |
| `gate` | with every candidate at every age, any order and reconfiguration in between: nothing implausible or replayed accepted, guard monotone, each rejection one explained command? | holds |
| `gateway` | with both senders on one ring of three commands: does every transition reach the M7, and does the M7 end up with what the arbitrator believes in force? | holds, unless the ring refused the command or the gate spoke last |
| `hybrid` | with frames late, repeated, swapped and damaged, and crypto failing anywhere: do session, token and caller agree, does no session outlive a failed post-quantum check, does the shipped provider trust nobody, does trust mean two signatures? | holds |
| `v2x` | with frames put together from any parts, and any clock: does the status tell what was published, is the verdict the first failure, do advisories come from signed messages of pseudonyms in force? | holds |

Properties worth reading first: `RestrictionJustified` and
`ReleasedWithCause` (the two directions of "no change of restriction without
cause", over several cycles), `CountsMatchHealth` (why a heartbeat may revive a
domain with count 0, and when it should not), `LogExplainsState` (two counters and a ring, advanced at
different places), `M7MeetsDemand` (what the M7 obeys against what the
arbitrator believes, through ring, refusals and rejections), `CountersContiguous`
and `ImplementsQueue` (the ring), `DamageDetected` (what the unusual CRC is good
for), `AcceptedInOrder` and `CommandExplained` (the gate), `FailureKept` (what
survives when reports, heartbeats and cycles overlap), and the refinements
`ImplementsSession` and `ImplementsFeed`.

### Also met while modelling

Statements of the repository that the models do not bear out, beside `older_matrix`
and `masked_failure`.

* Arbitrator, `unrecovered`. "State severity must never decrease without all
  sensors recovering" (`FV/src/SafetyArbitrator.cpp:625`) stands eight lines
  above the call that executes every de-escalation the matrix yields. The run
  refutes even the weaker `NeverRelaxedUnrecovered`. To the letter the comment is
  refuted by every partial recovery, too: out of MRC when the radar recovers and
  the lidar stays failed.
* Arbitrator, fault counts. A count is a `uint32_t` that `fetch_add` takes from
  2^32 - 1 to 0 (`:192`, `:307`). The next heartbeat (`:217`) then makes a domain
  nominal that has never reported anything but failures, and the mandatory latch
  (`:372`) drops. Before the wrap neither can happen: the properties on counts
  and restrictions name it (`wrapped`, and `standing` in the threads) as the only
  exception besides a report, and without that exception TLC refutes them. What it takes
  is 2^32 failures without a nominal report, 16 months at one a cycle. The
  code's own "never recover via timeout" (`:300`) and "consecutive faults"
  (`FV/include/SafetyArbitrator.hpp:98`) do not mention it.
* Arbitrator, mandatory domains. "Whose loss immediately triggers MRC"
  (`FV/include/SafetyArbitrator.hpp:248-249`), "Loss triggers MRC if true"
  (`:192`): MRC takes three counted faults of some mandatory domain, and one that
  falls silent is counted once however long the silence lasts. A cycle that
  sees a mandatory IMU failed once commands reduced dynamics.
* Arbitrator, other. `kFullOperation`, "All sensors nominal"
  (`FV/include/SafetyArbitrator.hpp:137`), is commanded with a degraded sensor.
  Slot 7 (`kInvalid`) can receive neither report nor heartbeat, times out 100 ms
  after `Init()` and is in every fault bitmask from then on. `RecordHeartbeat()`
  is said to reset the fault counter (`:270`) and never writes it.
* Arbitrator, threads. A timeout that is being promoted while a nominal report
  arrives may overwrite it, and its count may survive as 1, so that later
  heartbeats do not revive the domain: conservative, until the next report.
  `DrainTransitionLog()` loads the count twice, so that with a buffer of more
  than 32 it may return 33 records. It loads the head before the count: a
  transition that is counted and not yet in the log makes it return one record
  more than there are, in place of which stands whatever the slot held, before
  the log is full one that was never written. `DrainedAllButOldest` says nothing
  of that record, and that all records which were there are sound. `GetLastCommand()` may copy a command while
  it is being assigned.
* Bridge. The CRC that is called CRC-16/ARC (`FV/src/IpcBridge.cpp:23` and
  `:96`) has the generator x^16 + x^15 + x^13 + 1 (`CrcDivides`, proved), because
  a register that shifts right needs the reflected 0xA001. The standard check value for "123456789" is 0xBB3D, the code
  computes 0xAFAD. It is a good CRC for these slots all the same: it detects
  every error of one, two or three bits, of any odd number of bits, and every
  burst of at most 16 in the bytes it protects (section 5). But an M7 with a standard implementation
  would accept nothing, and no test holds the code against the check value.
* Bridge and gate. `Send()` is a "lock-free SPSC" enqueue
  (`FV/src/IpcBridge.cpp:6`) that gate and arbitrator call on one instance. With
  two elements in `Senders` TLC refutes `M7AcceptsAll`: called from two threads
  both fill the same slot. No comment of the gate names the restriction.
* Gate. `kInvalidInput` is for a "non-finite field"
  (`SotifPlausibilityGate.hpp:121`), but NaN in lateral acceleration,
  deceleration or steering angle is looked at by no check. A rejection asks for
  reduced dynamics at 30 km/h, a "conservative" command (`:54`), also after a
  minimal risk condition at 20; after a rejection nothing but the arbitrator's
  next transition lifts the restriction. `Evaluate()` is said to return false
  only before `Init()` (`:167-170`) and returns `kInvalidArgument` for each
  rejection. The gate numbers its commands from 0 where the arbitrator reserves
  0 for "no command issued" (`FV/src/SafetyArbitrator.cpp:505`), and
  `sequenceNum`, a "Monotone command counter"
  (`FV/include/SafetyArbitrator.hpp:178`), is two series on one channel. With
  two callers TLC refutes `AcceptedInOrder`, `GuardNeverRegresses` and
  `CommandExplained`: both threads pass the comparison before either stores, or
  one overwrites the reason that the other is about to send. Nothing in the
  repository calls `Evaluate()` from two threads, nor forbids it.
* SPDM. A challenge has no timeout: without a response the engine stays in
  `kChallengeSent` until its owner resets it. `Revoke()` leaves
  `authenticated_client_id_` behind, and success leaves nonce and id pending;
  `TokenMatchesSession` says that neither is ever taken for another session's.
* V2X. A fault of the platform while a certificate is hashed or verified is
  reported as an invalid signature (`kUnauthorized`), only one in the payload's
  or the pseudonym's hash as `kCryptoError` (`kUnknown`). A signed message may
  be repeated while its certificates last, and its own time stamp is not looked
  at; a clock that steps back makes expired certificates valid again. What
  `Serialise()` writes has 25 bytes and is no frame for `Deserialise()`.

### Bounds, and why they are enough

* `FaultModulus` (2^32) is 4 for the arbitrator, the least that lies above
  `FaultThreshold` = 3, so that counts pass the threshold and wrap, and 3 for the
  threads, where no domain is mandatory and counts are compared with 0 only. The
  proofs hold for any modulus. Heartbeat ages stop at `SensorTimeout` + 1: they
  are compared with the timeout only, which is exact.
* `CounterModulus` (2^32 for the arbitrator's and the gate's counters, 2^8 for
  the bridge's) is 2 to 4, so that every counter wraps; the proofs hold for any
  modulus.
* `arbitrator` has LiDAR (0) and IMU (4), whose demands differ, with the IMU or
  both mandatory, and a timeout of 0 ticks; the matrix itself is enumerated
  over all eight domains by `matrix`. `arbitrator_live` has LiDAR and slot 7, with
  neither or both mandatory, and a timeout of 1. The theorems hold for any set of
  domains, any masks and timeout. `unrecovered` needs one domain.
* `LogSlots` = 3 in `arbitrator_live`: the smallest log in which forwards and
  backwards differ; the counter wraps at 4, past it.
* `Slots` = 4 with a counter modulus of 3, so that index and counter wrap at
  different places; two commands are enough to tell a stale slot from a new one.
* The gate's scale is 0..4 with `One` = 4; candidates lie on, above and below
  each threshold, and outside the unit interval. Ages -1..2 straddle
  `maxInputAgeMs` = 0 and 1. Three sequence numbers give first, next, gap,
  repetition and regression.
* `gateway` has the states 0, 3 and 6, one below, one above and one beside the
  gate's 5, a ring of three commands, so that both senders can be in it twice
  over and be refused, and both number series wrap at 2. `DemandMet` holds for
  any of these.
* `bridge` flips up to `MaxFlips` = 2 of the 1184 bits of one slot, the first
  that is sent (`DamageWindow`): all 701,520 sets of positions. What they add to
  a CRC does not depend on the slot's content, nor on its place (`DamageAdds`).
  `FewFlipsDetected` needs neither the bound of one slot nor the instance, and
  holds up to three.
* `threads` has a timeout of 1 and a clock of 3, so that a domain can fall
  silent, recover and fall silent again; a log and a buffer of three, and five
  transitions, so that the drain meets an empty, a partly filled and a wrapped
  log, and returns two records that must continue one another. Ages wrap
  at 8, above the clock. `masked_failure` needs two reporters and one
  transition.
* `hybrid` has three nonces, that is three handshakes: one to fail, one that
  meets the frames of the first, and one after it. Two registered peers to
  confuse and one stranger.
* `v2x` has four readings of the clock around windows that open and close at
  different times, two signed messages, and a certificate of every kind: in
  order, of a foreign root, with a stretched window, with another key. Lengths
  are the right one and one beyond the limit.

### Fairness

`arbitrator_live` assumes `WF_vars(Arbitrate)`, since the main
safety loop calls `Arbitrate()` every 10 ms (`FV/include/SafetyArbitrator.hpp`).
No fairness is assumed of reports, heartbeats or the clock:
`FullOperationReturns` has the health of the domains as its premise. `gateway`
assumes `WF_vars(M7Obeys)`: the M7 keeps reading its ring. That code is not in
the repository; without it nothing that is sent could be expected to arrive.
The other runs assume none: what they check is safety, and neither peers nor
radio nor threads that report owe the code anything.

## 4. Mutants

Each checked property has a mutant: an operator next to the definition it
replaces, marked "Mutant", that contains a plausible bug (a dropped full check,
a header stamped before the counter, a comparison that lets an equal sequence
number pass, the first-match matrix that F-02 was about, a heartbeat that does
not look at the count, a post-quantum check that is only reported, a chain
walked from its leaf, a table entry one shift short) and that TLC refutes.

## 5. Proofs

All for arbitrary constants that satisfy the modules' named assumptions.

* **Matrix** (`DegradationMatrixProofs`). `MostSevereIsGreatest`: the maximum
  of the matching rows is one of them and an upper bound. `MatchingDominated`:
  a row that matches a bitmask is dominated by some row that matches a greater
  one. Together they give `MatrixMonotone`; `RequiredMonotone` adds the latch.
  `DemandMatched` finds, for the demand of each failed domain, a matching row
  that is as severe; `DemandsMet` follows. Conversely each row that matches is the
  demand of some failed domain: `NothingWithoutDemand`. With the table of limits,
  `LimitsTighten` carries the monotonicity over to speed and braking.
* **Harness** (the same module). `ReferenceIsMatrix` and `PreFixIsFirstMatch`:
  its two models are the two copies of the code, for every mask; `FixAsExpected`
  counts the cases in which they differ, without running through the masks. The
  count of 17 is proved and not model-checked.
* **Enumeration** (the same module). With these, `WalkMeetsDemands`,
  `WalkSeverityMonotone`, `WalkLimitsMonotone` and `WalkAgreesWithHarness` state
  the properties of the run `matrix` for every set of domains that may fail or
  wear out: a step adds one domain to one set, so each argument of the latch and
  of the matrix only grows.
* **Arbitrator** (`SafetyArbitratorProofs`). `TypeCorrect` stands alone. The
  inductive invariant `IInv` adds to the checked ones that before `Init()` the
  state is full operation, and that published domains are still failed unless
  excused (`PublishedKept`). A domain is excused if it sent a report other than
  kFailed since the last cycle, or if its count wrapped. `CountsMatchHealth` is
  what makes any other failed domain survive heartbeats: its failure and its
  count only grow (`ClaimsGrow`), so by `RequiredMonotone` what is required of the
  excused taken as failed stays at least the state in force
  (`RestrictionCorrect`). `ReleaseCaused` follows from both at the cycle that drops
  a domain or lowers the state. Nothing is assumed about the width of the counts
  but that it exceeds the threshold. `StateCorrect` needs the emergency stop's unreachability,
  which the range of the matrix gives. `IsAuthority` is the refinement: only a
  cycle that commands moves state or number, and it moves both. `CommandFits`
  applies `DemandsMet` and `NothingWithoutDemand` to the command in force, which
  is of the current state although the fast path sends nothing. `LogExplains`
  rests on `TrailInv`: the slots of the log that are still to be overwritten hold
  consecutive transitions, the newest one ends in the current state, and its
  number is the command's; both counters, each modulo its width, count the same
  transitions. No bound on the length of the history is needed.
* **Bridge** (`IpcBridgeProofs`), under `OneSender` (at most one thread in
  `Send()`), except `TypeCorrect`. `IInv` says where the sender is: the slot it
  fills is the one at `head`, not in `Unread`, and carries what the program
  counter says has been written. `CountersContiguous` then links the counters of
  neighbouring slots up to `Due`, the one to be stamped next, and its first slot
  to what the M7 expects: `AcceptsAll` and `SlotOwned` follow. With two senders
  TLC refutes them, so the assumption is needed. `IsQueue` is the refinement: what
  a ring holds from tail to head is a sequence (`Contents`); `Publish` appends to
  it the command that the sender was called with (`CommandHeld`: it is in the slot
  at `head` from the copy on), `M7Release` takes the first, and what is written
  at `head` before is not in it. `DamageHarmless` and `DamagedIsQueue` say the
  same of `DamageSpec`, the specification that the run checks, for any number of
  flips: while bits are flipped the bridge stands still, and refusing the slot is
  a release.
* **CRC** (the same module), for every message, slot and set of positions. The
  loops of `GenerateCrcEntry()` and `ComputeE2eCrc()` are inductions, stated with
  sets (`IntervalInduction`, from the library's theorem that strict inclusion
  among the subsets of a finite set is well founded). `CrcLinear`: shifts are
  linear, so is a step with its feedback, so is the table, so is a byte, so is
  the loop. Therefore flips add what each adds alone, in any slot: `DamageAdds`.

  That it is a division is the second half. A polynomial over GF(2) is the set
  of its exponents, `Multiple(p)` says that it is the generator times another
  one, and `Congruent` that two differ by a multiple. Multiples are closed under
  sums, shifts and squaring (`MultipleSum`, `MultipleRaised`,
  `MultipleDoubled`), and none but 0 has a degree below 16 (`MultipleDegree`).
  One shift of the register divides by x (`ShiftedRemains`), so by induction a
  table entry, a byte and the loop do what they should: `CrcDivides`. The
  reference satisfies the same congruence (`PowerRemains`, `RemainderRemains`),
  and two words that are congruent are equal (`UniqueRemainder`):
  `CrcIsRemainder`, and for the slots of the run `CrcCorrect`, whose invariant
  says that published commands are ones that somebody sent.

  What is detected follows from the polynomial alone. `UndetectedIsMultiple`:
  flips stay unnoticed exactly if the generator divides the polynomial of their
  positions. (1) Multiples of the generator have an even number of terms, as
  it has (`MultipleEven`): `OddDamageDetected` and `ParityKept`. (2) A burst
  of 16 is a polynomial of degree below 16 times a power of x, and the
  generator, which has a constant term, does not divide it: `BurstDetected`. The
  CRC lies in front of the bytes that it protects, while its polynomial follows
  theirs, so that bursts across the border between the two are not bursts of the
  polynomial, and the theorem leaves them out. (3) Two flips stay unnoticed only
  if x^d = 1 modulo the generator for the distance d of their exponents, at most
  1183. By squarings (`SomePowers`) x^23622 is 1, and neither x^(23622 / 31) nor
  x^(23622 / 127) is. For either of these primes p, the j with x^(j * 23622 / p)
  = 1 are the multiples of the least of them, which divides p and is not 1, so
  of p (`LeastDivides`, `PrimeOrOne`); d is such a j. Both primes divide d,
  which is therefore at least 31 * 127 = 3937 (`NoShortPeriod`).
  With one and three flips being odd, `FewFlipsDetected` gives `DamageDetected`
  for up to three flips of a slot. Its assumption on `MaxFlips` is needed: the
  generator itself has four terms.
* **Gate** (`SotifPlausibilityGateProofs`). `TypeCorrect` and `Plausible` hold
  for any number of callers: each call decides on its own candidate. `InOrder` and
  `NonRegression` are under `OneCaller`; their `IInv` says that every accepted
  number is at most the guard, and that between the check and the store a
  candidate found acceptable is above it. `EveryRejectEscalates` is for any
  finite number of callers: the number of commands sent, the rejections counted
  and the callers on their way from the one to the other add up modulo the width
  of the counters (`Numbering`). `CommandsExplained`, under `OneCaller`, needs
  that the reason stored is still the caller's when it is read back
  (`ReasonStands`) and that numbers follow one another.
* **Gateway** (`SafetyGatewayProofs`). `IInv` says where the arbitrator's command
  in force is: unless it was refused, it is the arbitrator's last one in the ring,
  or, with none there, the last one the M7 heard. `DemandMet` follows for an empty
  ring. It holds for any ring, any numbers and any states; that the arbitrator is
  the authority assumed here is `IsAuthority`. Put together, the parts stay what
  they were alone: `GatewayKeepsAuthority` (a refusal, the gate and the M7 take
  nothing from what `SafeStateAuthority` promises) and `GatewayKeepsQueue` (the
  ring of the two senders is the `CommandQueue` that `IpcBridge` implements).
* **Threads** (`ArbitratorThreadsProofs`). `TimeoutsCorrect` holds for any
  number of reporters: between the loop's load of the stamp and its store, the
  locals it compared do not change. `FailureStays` is under `OneReporter`: its
  invariant says that while a hard failure stands the reporter is in no call
  that could write another health, and that a heartbeat finds a count above 0,
  in whatever access of the cycle the loop stands; a count that wraps ends
  the standing. The code says "safe from any thread", but the assumption is
  needed: `masked_failure` refutes the property with two reporters. `DrainSound`
  needs neither it nor a bound: its invariant says which slots of the log hold
  the last transitions, in order, at each step of `LogTransition()`, and that
  what a drain has copied are these, but for the slot a transition has begun to
  overwrite. It uses `MarksAssumption`: a struct that is being assigned, and one
  never written, are told apart from records.
* **Hybrid authentication** (`HybridAuthGateProofs`), from `PeersAssumption` and
  `ZeroAssumption` (registered peers are clients; zeroed buffers are neither
  client nor nonce). The inductive invariant ties the latched challenge to
  `challenged`, the session to what its caller captured, what has been trusted
  or proved to the sets of signatures, and `rejected` to challenges that no open
  session has: fresh nonces keep it so. `IsSession` is the refinement, one step
  per action.
* **V2X** (`V2xNetworkAdapterProofs`), from `CertificateAssumption`,
  `NoiseAssumption` and `TimeAssumption` (windows and clock are natural numbers,
  noise is no message). The invariant says that a frame of the right length is
  made of certificates that go around and of a signature that is noise or was
  made by a vehicle. `Judged`, inductive by itself, relates the standing
  verdict to the frame, the clock that was read and the event: `StatusCorrect`
  and `VerdictCorrect` follow. `IsFeed` maps a trusted frame to `Publish`, any
  other to `Turn`.

`tlapm` checks every step. Only model-checked:

* liveness (`SilenceIsFaulted`, `FullOperationReturns`, `TransitionReachesM7`),
  which is beyond the prover: it knows neither fairness nor ENABLED.

Every other property that a passing run checks is stated by a theorem.

## 6. Not modelled

* SHA-256, ECDSA and HKDF are arithmetic without control. The nonce source of
  the reference provider is a 32-bit LFSR, whose period no explicit search
  reaches. The KEM extension has no state. `SoaServiceManager` and
  `NetworkAdapter` are headers. CI and the SBOM tool have no run-time behaviour.
* The `Validate*` functions of the arbitrator compare one argument with a
  constant each and keep nothing: a model would repeat them.
* The source of perception candidates and the middleware are not in the
  repository. What the gate does when the 32-bit clock or number wraps depends
  on them: seen alone, it rejects every later number as a replay.
* Latencies, DTC codes, time stamps and the argument checks that every caller
  satisfies.

## 7. Plan

Done, in this order: matrix, arbitrator, bridge with its abstract queue, gate,
the gateway that composes them, hybrid authentication, V2X, the arbitrator's
threads, the CRC, the harness, and the proofs of each: every property but
liveness that a passing run checks is proved. What could follow:

1. The composition with overlapping calls of the two senders, on top of
   `IpcBridge` and `ArbitratorThreads` themselves.
2. A perception source that restarts and a clock that wraps, once their code
   is in the repository.
3. Bursts across the border between the CRC and the bytes it protects, and a
   bound on the share of larger errors that goes undetected.
