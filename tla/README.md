# A verification development for Obst

Obst is a container format for logical streams of chunks, and the toolchain
around it: a writer and a reader, recipes of reversible stages, plugins that
contribute stages, carriers, packagers and resources, and one accountant per
operation that holds everything to a resource policy. It is Python, and each
operation runs in one thread; nothing is asynchronous. What makes it hard is
elsewhere: calls that fail in the middle, sources and targets that give and take
pieces, storage that loses or repeats records, several processes at work on one
path, exceptions that arrive anywhere, ceilings that several components charge,
state files that are read once and written later, plugins that come, go and
contradict each other, and formats whose every input must have one reading.

This directory holds TLA+ modules for these parts, TLC configurations that check
them on small instances, and TLAPS proofs about the writer, the reader and the
transfer of a container between them, the recipe pipeline, the filesystem carrier,
packing, extraction, and the command line with its plugins and its two state files.
Paths below are relative to the repository (`src/obst/...`) or to
`plugins/defaults/src/obst_defaults/` (`carriers/...`, `files/...`).

## The system

| component | state it keeps | operations | what makes it correct |
|---|---|---|---|
| resource accounting `core/resource_accounting.py` | one count per resource, peak or cumulative | `check`, `record` | nothing above a ceiling is ever recorded; a refusal changes nothing |
| container writer `core/container.py` | session state, next sequence numbers, totals, bytes and hash sent | constructor, `preflight_chunk`, `write_chunk`, `finish` | what completes is a valid container; nothing else looks like one; what was accepted can be finished |
| container reader `core/container.py` | session state, expected sequence numbers, totals, bytes and hash read | constructor, `iter_chunks`, `summary` | accepts exactly valid containers within the ceilings; yields checked prefixes only |
| recipe pipeline `core/pipeline.py` | bindings per recipe | `preflight`, `encode`, `decode` | bound once and whole; ceilings decided before providers run |
| wire and manifest `core/wire.py`, `core/manifest.py`, `core/model.py` | – | encode, decode | one image per manifest, one manifest per image |
| chunks and streams `core/streams.py` | – | `encode`, `decode`, `iter_decoded_chunks`, `materialize_stream` | what was encoded under a policy decodes under it, to the same content |
| packaging `core/packaging.py`, `packagers/fixed.py` | consumed flags | `write_to`, `iter_chunks` | what is returned is complete and can be recovered |
| registry, extensions `core/registry.py`, `core/extensions.py` | a builder, then an immutable table | `register`, `merge`, `build`, lookups | one provider for a capability, whatever the order |
| carriers `carriers/` | lifecycle state, open file, temporary name | `open`, `commit`, `abort`, `close`, `publish_package` | atomic publication; outcomes tell the truth |
| file adapter `files/adapter.py`, `cleanup.py` | the local state of one call | `open_sources`, `extract`, `close_all` | nothing left open; complete members only, all or none, nothing overwritten |
| plugin activation `plugins.py` | `plugins.json`, a manager's copy | `discover`, `enable`, `disable`, `runtime`, `commands`, `test` | what was acknowledged is in the file; only trusted code runs |
| limit profiles `resources/` | `limits.json`, a manager's copy | `discover`, `create`, `set`, `use`, `delete`, `policy` | only what was asked changes; ceilings change on request only |
| command line `cli/` | – | an invocation: parse, compose, do | a broken plugin can be disabled; work runs under the selected ceilings |
| inspection `core/inspection.py`, `cli/inspection.py` | – | `inspect_container`, `run_inspect` | foretells what recovery needs |
| default providers `codecs/`, `transforms/`, `files/profile.py` | – | bind, encode, decode, interpret | round trip, canonical text, ceilings |
| conformance `conformance/` | – | load, write and run a suite | a suite means one thing; a plugin that passes keeps the contract |
| examples, scripts | – | – | – |

How they interact:

- Every session of an operation holds the same `ResourceAccounting` and charges
  it. This is shared state: a session that keeps a count of its own and compares
  it with a ceiling can be wrong when another one charges in between.
- `ContainerWriter` pushes records into a `BinaryWriter`, which takes any positive
  part of what it is offered or raises. `ContainerReader` pulls from a
  `BinaryReader`. Both usually belong to a carrier session.
- `publish_package()` opens a carrier, lets a packager write, and commits or
  aborts.
- A packager drives `RecipeEncoder` and `ContainerWriter`; the decoder and the
  file adapter drive `ContainerReader` and `RecipeDecoder`. Providers are foreign
  code and are called back in the middle of an operation.
- The command line makes a manager per invocation. Plugin code is loaded to parse
  the arguments, to compose the runtime, or not at all, as the command needs it;
  the limit profiles' catalog is what the selected plugins contribute.

## Modules

| module | of | state and steps |
|---|---|---|
| `ResourceAccounting` | `ResourceAccounting` | operators over an account: `Allows` is `check`, `CanRecord` and `Recorded` are `record`; `Charged` is a caller that records one thing after another and raises at the first refusal |
| `ManifestCodec` | `manifest.py`, the manifest header, `Manifest` | what may be declared, `Image` (`encode_manifest`), `Decode` (`decode_manifest`) part by part with its refusals |
| `ContainerFormat` | `wire.py`, `model.py` | records as values, with their sizes; a wire integer has a largest value; `Declarations` are the numbers of recipes, streams, extensions and stages that a manifest has |
| `Enumeration` | `sorted()`, sums | numbers in order, what a sequence has besides a set, sums: written so that proofs can use them, which the folds and `SortSeq` of the libraries are not |
| `ContainerValidity` | `format.md` as the reader applies it | what a valid container is, independent of both sessions |
| `ContainerWriter` | `ContainerWriter`, `_CountingWriter`, `write_all` | a call is checked in one step (`Construct`, with what the manifest counts; `WriteChunk`; `Finish`); what it emits leaves in pieces, one `TargetAccepts` per `write()`; the call ends when nothing remains |
| `ContainerReader` | `ContainerReader`, `_CountingReader`, `read_exact` | one step per construction, or item the generator delivers, or way it fails; the constructor reads the container header, the manifest header and the manifest body one after the other, and charges after each what it then knows (`Observations`); the source is a sequence of records that may be damaged or cut short |
| `StreamDelivery` | – | abstract: what the far end is promised |
| `ContainerTransfer` | both sessions and storage | composes them by `EXTENDS`, each with its own variables; storage drops, repeats, exchanges, flips and cuts |
| `RecipePipeline` | `RecipeEncoder`, `RecipeDecoder` | a step is one provider call or the Python between two of them; `bindings` is the cache, `binding` the tuple of the recipe that is being bound |
| `ChunkCoding` | `streams.py` over `pipeline.py` | coding a chunk, a container or a stream, as functions of an account: what is charged, whether it is refused, what comes out |
| `FixedPackager` | `packagers/fixed.py`, `core/packaging.py` | one operation: preflight, construction, and per source the chunks it yields, each encoded and handed to `ContainerWriter` under the same account |
| `Inspection` | `inspection.py`, `run_inspect` | footprint, required and missing stages, exit code, from manifest and chunk headers |
| `FilePacking` | `open_sources`, `publish_package`, `carriers/memory.py`, `close_all` | the host around a packaging operation; every call of the system may fail |
| `AtomicPublication` | – | abstract: what publishing to one name promises |
| `FilesystemCarrier` | `publish_package`, `carriers/filesystem.py` | a step is one effect on the filesystem with the Python state that goes with it |
| `FileExtraction` | `FileArchiver.extract` | a step is one effect on the filesystem, or one look at it |
| `StateFile` | the manager's use of a state file | read once, replace whole; a change is begun, replaced, taken over |
| `PluginState`, `LimitProfiles` | `PluginManager`, `LimitProfileManager` | the calls that change state, over `StateFile` by `INSTANCE` |
| `ExtensionRegistry` | `registry.py`, contributions of `extensions.py` | contributions, builders, their composition, lookups, as operators with refusals |
| `PluginRuntime` | `PluginManager.discover`, `runtime`, `commands`, `test`; `ResourceCatalog` | what an environment of entry points and loaded values comes to for a selection, and whose code runs for it |
| `CommandHost` | `cli/main.py` | one invocation after the other over both state files; between them packages change |
| `DefaultProviders` | `codecs/zlib.py`, `transforms/delta8.py`, `files/profile.py` | the answer to each call: a value, a rejection, a rejection at a ceiling, a crash |
| `ConformanceCatalog` | `conformance/model.py`, `catalog.py` | which cases there are, their document, which documents load and as what |
| `ConformanceRunner` | `conformance/runner.py` | coverage, the check of each kind of provider case, the verdict |
| `FormatConformance` | – | one task of these tools over any input |
| `EnumerationProofs` | – | lemmas: ordered lists, sums, sequences without repetitions |
| `ContainerWriterProofs` | – | lemmas about records, their sizes and totals, and accounts, and the theorems about `ContainerWriter` |
| `ContainerTransferProofs` | – | the theorems about `ContainerReader`, and about `ContainerTransfer` with both sessions |
| `RecipePipelineProofs`, `FilesystemCarrierProofs`, `FilePackingProofs`, `FileExtractionProofs` | – | theorems about the module each is named after |
| `CommandHostProofs` | – | theorems about `LimitProfiles`, and about `CommandHost` which uses it with `PluginState` and `PluginRuntime` |

`MC*` modules hold small instances; a `.cfg` names its module's constants.
Operator modules and `StateFile` are used by others only. Definitions commented
*a seeded fault* are variants of the definition they precede, with the kind of
mistake a property is meant to find; no specification uses them.

Variables keep the names of the attributes they stand for where there is one
(`nextSequences` is `_next_sequences`, `bound` the keys of `_bindings`,
`temporaryKnown` says that `_temporary_path is not None`). Variables commented
*history* are not in the code.

### What is abstracted

- Bytes. A payload is its size and an identity. A hash of a content *is* that
  content, a checksum fails exactly if the record is damaged: collisions are not
  modelled. `readerPolicy` and `writerPolicy` give a ceiling or `Unbounded` per
  resource; the resources that no modelled code charges are left out.
- Python between two effects. A check and the assignment after it are one step
  wherever nobody else can act in between.
- Type checks of arguments: callers pass values of the right type.
- Asynchronous exceptions. They are modelled where the code holds external state
  that an exception may separate from its record: after `os.link()` and
  `os.replace()`, after the creation of a temporary file or directory, between a
  link and the append that records it, and inside the handlers of an extraction
  that take back links and report a temporary directory. Elsewhere they are one
  more way in which a call raises.
- Formats. In `ManifestCodec` a string is a sequence of symbols and an integer one
  symbol; in `ConformanceCatalog` a JSON value is a tagged value, and a byte string
  its hexadecimal form. Order, counts, sizes, keys and types are all kept, as they
  are what a second reading of an input would come from.
- Compression. What `zlib.decompressobj()` says of a payload is taken as given:
  its header, the bytes that come out, how it ends, and whether more follows.
- In `ChunkCoding` a session is refused or not; the point inside a call at which it
  is refused is `RecipePipeline`'s subject. A stage makes of `n` bytes a number of
  bytes that depends on the stage only.
- Decoding a whole container during extraction is one step with two outcomes:
  its inside is what `ContainerReader` and `RecipePipeline` are about, and its
  only external effect is in files nobody else knows of.

## Runs

| run | asks | bounds |
|---|---|---|
| `container_writer` | a writer alone: policy, capacity, torn records, validity, finality | two streams, two recipes of one and of two stages; eleven policies each meeting a boundary exactly, or missing one of what the manifest counts; chunks in and out of sequence of sizes 0 to 2, unsigned integers up to 9 so that totals overflow; others charge up to two chunks or logical bytes |
| `writer_shared_torn_record` | *violated*: a shared byte account | the same; others charge up to two container bytes |
| `container_reader` | a reader alone, over every source | all containers of at most two of five chunks, in any order, with the right commit, with one wrong in each field, with two or none, damaged in each place or cut at each byte; a manifest of two recipes of one and of two stages; thirteen policies, among them one that its five counts meet exactly and one for each count that refuses it; a consumer that charges bytes and stops anywhere |
| `container_transfer` | writer, storage and reader together | two faults, which is what it takes to exchange and hide; six policies that containers, and what their manifest counts, meet exactly or exceed |
| `filesystem_carrier` | publication against its abstraction | two sessions that may not overwrite and one that may, one reader, one power failure, crashes and interrupts everywhere |
| `failure_after_publication` | *violated*: failure is reported before visibility only | the same |
| `file_extraction` | extraction | two extractions, of three members and of two, that share two names in opposite orders; one replacement of the directory; foreign files; crashes; every call may fail or be interrupted |
| `recipe_pipeline` | a session with providers that do anything | recipes of none, one and two stages, one of them half supported; two calls, preflights of up to two recipes, data up to two bytes; policies that stop at each ceiling |
| `command_host` | the command line over both state files | eight environments of two plugins: complementing, repeating and contradicting each other, one gone, a resource gone, loading that raises, contributions without an owner, two distributions of one name; fourteen kinds of invocation without end; every failure of a write |
| `limit_profiles_collision` | *violated*: the active profile can be given up | two managers one after the other, two identifiers, catalogs with and without colliding profiles |
| `format_conformance` | readings of inputs, verdicts on plugins | manifests of up to two recipes and two streams with every edit of one symbol of their images, sealed again or not, and of each header field; suite documents of every kind of case with every single edit; suites of up to three cases against plugins that keep the contract or break it in one place |
| `file_packing` | packing files, recovering them, inspecting them | up to two sources of up to two chunks of 0 to 3 bytes against a declared maximum of 2; stages that grow and shrink; seven policies met exactly, seven recovery policies, with ceilings on every size and count that a recovery is held to, intermediates included; sources consumed elsewhere or given twice; missing encoders |

Why these bounds are enough to be interesting. A total needs two chunks to go
wrong, an order needs two chunks of one stream and one of another, and a shared
account needs one foreign charge; a ceiling matters where it is met, so each
policy is chosen to be met by one of the instance's containers, and missed by
another by one. A race needs two parties, and a third whose rights differ.
The history of invocations is not bounded: the state is finite without one. An
input with two mistakes is refused for the first of them, so single edits of an
image or a document, made consistent again or not, are what tells a check that is
there from one that is missing.

`CHECK_DEADLOCK FALSE` stands where the modelled sessions or tasks end. In
`CommandHost` and `LimitProfiles` nothing ends, and deadlock is checked.

### What they show

- Writer. Whatever it accepted it can finish (`FinishAlwaysPossible`), because each
  record reserves its own room and that of the commit (`EmissionReserved`). A
  refusal by policy never leaves a torn record if container bytes are charged by
  this writer alone.
- Reader. It completes over valid sources only, and refuses none that is valid and
  affordable, which takes in every ceiling that `Policy` has for a reader: its
  bytes, its chunks, and the recipes, streams, extensions and stages of its
  manifest. What a consumer has got before the commit is proven is a checked
  prefix.
- Transfer. Writer, faulty storage and reader implement `StreamDelivery`: each
  stream arrives in order and without gaps, and "complete" means all of it in
  stored order. A container written under a policy can be read under it, and is
  read to its end.
- Carrier. Publication implements `AtomicPublication`. Only complete and synced
  files are ever visible. An error means that nothing was published, except after
  an asynchronous exception.
- Extraction. Members appear only complete and only in the directory that was
  checked, nothing is overwritten, and all or none of them stay as long as the
  path keeps its directory. An asynchronous exception may cost this: after
  `mkdtemp()` and before the `try` the temporary directory stays, unreported;
  after a link that one stays; in the roll-back the members not yet taken back
  stay; in the report of a failed cleanup the result is lost.
- Pipeline. A cumulative ceiling never stops a recipe between two providers; what
  a session binds it binds once, after every provider is known, and a recipe whose
  binding failed half way does not run: what runs are all of its stages.
- Command line. An acknowledged activation is in the file until it is changed,
  whatever fails and whatever packages do. Plugin code runs only when its plugin is
  enabled or named, and none runs for `plugins enable` and `plugins disable`, which
  can always be reached; once all plugins are disabled, so can the limits commands.
  Which of the selected plugins are enabled and which are named, and in what order,
  makes no difference to the runtime. A profile operation changes what it was asked
  to, and an operation on containers runs under the selected profile or is refused.
- Packing. A published container can be recovered under the policy it was packaged
  under, to what the sources yielded; whatever fails, no input stays open untold
  and no outcome is hidden. What inspection says of a container decides, for every
  set of decoders, whether it can be recovered under a policy, with one exception:
  the headers do not tell how large data is between two stages. A recovery succeeds
  just when the policy allows the footprint, the decoders are there, and no
  intermediate is above its ceiling (`IntermediatesFit`); the run has policies under
  which only this last condition fails.
- Formats. Manifest images and suite documents have one reading, and what is read is
  what would be written. A plugin that passes a suite has no encoder, decoder or
  text codec that answers wrongly to a case the contract covers.

### Disagreements between code and documentation

The three runs marked *violated* each check one property that documentation or a
message of the program states and the code does not keep; `PROJECT.json` quotes
both. In short: the writer's capacity check is made against its own count and its
charges against the shared one; `commit()` takes an exception that arrives after
the target became visible for a failed call; and a contributed profile of the
active custom profile's name makes it impossible to select another.

Two more are not kept as runs. The roll-back of `extract()` removes by path, in
whatever directory the path has by then; the documentation says that the adapter
is no privilege boundary for a tree that is replaced under it, and `AllOrNothing`
speaks of the directory that was checked. And two managers alive at the same time lose
acknowledged activations, as each writes what it read at discovery. Without
`Exclusive`, two managers of `PluginState` alone violate `AcknowledgedPersists`
in six states; in `CommandHost` one invocation follows the other. Nothing in
the documentation promises concurrent use.

### Fairness

`ContainerTransfer` is the only specification with fairness: `WF_vars(Pull)`, where
`Pull` is the reading operation's own next step. It is a loop of one thread over a
file: once it has a source, nothing in the code makes it wait, so it takes its
next step unless the process stops. Stopping is the consumer's `CloseIterator`,
which stays possible, and `FinishedIsRead` allows for it. There is no fairness on
the writer, whose caller may stop at any time. All other properties are safety
properties.

## Proofs

`tlapm M.tla` checks the proofs of module `M`; eight modules hold theorems. They
hold for every value of the constants that the named assumptions admit: any
policies, chunks, record sizes and integer widths, any sources and targets, any
sequence of storage faults, any number of sessions, readers, input files,
extractions and managers, any plugins, extensions, profiles, catalogs and
invocations.

| theorem | states |
|---|---|
| **`ContainerWriterProofs`** | |
| `WriterTypeCorrect` | `WriterSpec => []TypeOK` |
| `WriterWithinPolicy` | no account goes above its policy, whoever else charges it |
| `WriterEndIsFinal` | `WriterSpec => NothingAfterTheEnd` |
| `WriterReserves` | `[]EmissionReserved`, if container bytes are private |
| `FinishNeverRefused` | `[]FinishAlwaysPossible`, if container bytes are private |
| `PolicyNeverTearsARecord` | `[]NoTornRecordWithoutFault`, if container bytes are private |
| `CompletedIsValid` | `[]CompletedContainerIsValid`: numbers without gaps, the commit states the real totals, size and content |
| **`ContainerTransferProofs`**, the reader | |
| `ReaderIsSound` | the inductive invariant `ReaderInv` |
| `CompletesOnlyOverValid` | `[]AcceptsOnlyValid` |
| `RefusesOnlyForCause` | `[]RefusesOnlyInvalid`, whatever ceilings the policy sets on bytes, chunks and what the manifest counts |
| `YieldsOnlyChecked` | `[]DeliveredIsCheckedPrefix` |
| `ReaderEndIsFinal` | `ReaderSpec => EndedForGood` |
| **`ContainerTransferProofs`**, both sessions and the storage | |
| `TransferIsSound` | the inductive invariant `TransferInv` |
| `ReadableAsWritten` | `[]ReadableUnderTheSamePolicy` |
| `TransferDelivers` | `Spec => DeliversStreams`, the refinement of `StreamDelivery` |
| **`RecipePipelineProofs`** | |
| `PrecheckForetells` | `[]NeverRefusedHalfWay` |
| `BindsOnceAndWhole` | `[]BoundOnceAndWhole` |
| `ResultsAreWithin` | `[]ResultWithinCeilings` |
| **`FilesystemCarrierProofs`** | |
| `VisibleIsComplete` | `[]OnlyCompleteVisible` |
| `ReceiptsAreTrue` | `[]ReceiptMeansPublished` |
| `ResidueIsAlwaysReported` | `[]ResidueIsReported` |
| `FailuresAreTrue` | `[]FailureMeansUnpublished`, which excepts asynchronous exceptions |
| `WithoutInterruptsNoFailureOnceVisible` | without them, the property that `failure_after_publication` violates |
| `CarrierPublishesAtomically` | `Spec => PublishesAtomically`, the refinement of `AtomicPublication` |
| **`FilePackingProofs`** | |
| `PackingLeavesNothing` | `[]NothingIsLeftBehind` |
| `PackagesAreRecoverable` | `[]RecoverableUnderPackagingPolicy` |
| **`FileExtractionProofs`** | |
| `MembersStayInTheirRoot` | `[]OnlyDecodedInItsRoot` |
| `NoNameIsTaken` | `Spec => NeverOverwrites` |
| `ExtractsAllOrNothing` | `[]AllOrNothing` |
| `TemporariesAreReported` | `[]ResidueIsReported` |
| **`CommandHostProofs`** | |
| `SelectionNeverDangles`, `ShowTellsTheTruth` | `[]SelectionSurvives`, `[]ShowsThePolicy` of `LimitProfiles` |
| `WritesOnlyTheRequest` | `OnlyTheRequest`, if one manager lives at a time |
| `ActivationIsKept` | `SpecHost => []AcknowledgedPersists` |
| `HostImplementsLimitProfiles` | `SpecHost => Spec`, so that the host has the properties of `LimitProfiles`: `SelectionSurvivesInvocations`, `InvocationsShowThePolicy`, `InvocationsWriteOnlyTheRequest` |
| `WorksAsSelected` | `[]WorksUnderSelection` |
| `TrustedCodeOnly` | `SpecHost => OnlyTrustedCodeRuns` |
| `SelectionDecides` | `[]SelectionDecidesRuntime` |
| `AlwaysCanDisable` | `[]AlwaysDisables` |

### Assumptions

Each module states in its `ASSUME`s what its constants are, and TLC evaluates
them in the runs. Most say no more than that a policy is a policy, a chunk a
chunk, a sequence a finite sequence. The others are facts about the code:

- `SizeAssumption`: the preamble fits the unsigned integer its size is stored in,
  which `manifest_size` being 32 bits wide guarantees. The writer needs it for
  the first record, which no capacity check precedes.
- `DeclarationAssumption`: a manifest's counts begin with those of recipes, streams
  and extensions, as `_validate_manifest_model_counts` records them. The reader knows the first two from the container header, the third
  from the manifest header and the rest from the manifest's body.
- `ReaderAssumption`: a record is a preamble if and only if it is the first. That
  is how a source is represented: what the reader parses first it parses as
  header and manifest, and nothing later.
- `MembersAssumption`: the members of one extraction have different names. The
  manifest of a file collection that repeats a path is refused before extraction.
- `TransferAssumption`: the reader's source is empty until the storage hands its bytes
  over, and the accountant of the reading operation is its own. Writing and reading
  are two operations, and each opens its own accountant.
- `PackagerAssumption`: a request is a sequence of sources, and the chunks the writer
  may be handed include those the encoder makes of the sources' chunks. It says
  nothing of which they are: any stages, sizes and maximum sizes are admitted.
- `ObjectsAssumption`: the source objects of a packing request are numbered like the
  files they read, from one on. That is how they are represented: an input is opened
  once, and its number is the place at which it is.
- `EnvironmentsAssumption`: what a plugin loads without raising is of its type: a
  tuple of extensions, each of a kind that there is as far as its identity can be
  read, and a contribution with tuples of resources and profiles. `_load_factory()`,
  `_inspect_contribution()` and `ResourceContribution` compare exact types; a value
  that is not of them is `Raises`.
- `RuntimesAssumption`: `Catalogs` leaves out no catalog that a runtime of the
  plugins has. It ties a constant of `LimitProfiles` to those of `CommandHost`.

Two theorems carry hypotheses of their own, because the code keeps the property
under them only. `PrivateBytes` says that no other component charges
`container_bytes`, and `writer_shared_torn_record` is the counterexample without
it. `Exclusive` says that one manager of a state file lives at a time, and
without it each writes back what it read (see above). It is a constant of
`LimitProfiles`, so the theorems about a change of profiles carry it over to
`CommandHost`; `ActivationIsKept` does not need it, as it follows from the
host's own order of invocations.

### The arguments

Every safety theorem has the same form: an invariant is strengthened until each
action preserves it, there is one lemma per action (`...Keeps`, `...Preserves`),
and the property follows. TLC checked each inductive invariant before its proof.

*Writer.* `TypeOK` says too little about the record being sent; `Shape` adds that
it is the preamble, the record of a chunk of a declared stream or a commit, and
that only a writing session sends. `EmissionReserved` says that at any moment of
an emission there is room under the byte ceiling for the rest of the record and
the commit after it, and that the totals with the record counted fit the format's
integers. A step that begins a record establishes it from `write_chunk`'s checks,
a partial write moves bytes from what remains to what was counted, and a charge
can therefore not be refused. `TargetInv` relates the session to its target: the
counters are those of the records that are there (their number per stream, their
sums, their sizes), and the record being sent `MayFollow` them. When the commit
lands, this is what a valid container is. It needs nothing of the policy, so
`CompletedIsValid` has no hypothesis.

*Reader.* `ReaderInv` has three parts. `PositionInv` is the counterpart of
`TargetInv`: totals, expected numbers and yielded chunks are those of the records
before the position, which are a valid content and whole. `ChargedInv` says that
every byte read was charged. The safety properties are cases of it, as a session
completes only by the step that compares the commit with those totals.
`RefusesOnlyInvalid` is the other direction and the hardest proof here: if the
whole source is valid and affordable, then so is every beginning of it
(`AffordsOpen`, `AffordsNext`; of the observations of a manifest `FirstObservations`
and `OpeningFacts`), so none of the refusals is enabled
(`NothingToRefuse`); and an error has one of these causes or an interruption, or
somebody else's charges (`ErrorsHaveCauses`).

*Transfer.* `TransferInv` has one part for each party. `WriterSide` adds three facts to
the writer's invariant. `DeclaredInv`: a session that began to write has a manifest
whose counts its policy allows. `DepositInv`: at any moment the target holds the beginning of a
container, and once the session has ended perhaps a whole valid one. `SpentInv`: what
the target holds, with the record being sent, needs no more than the writer's policy
allows, since every resource it needs was charged before it was sent. `ReaderSide` is
the reader's invariant with `RefusesOnlyInvalid`, and with the fact that the account of
container bytes is what the session has read. `StorageInv`: without a fault the source
is a beginning of the target, in which only the last record may be torn; whatever the
faults, each whole record in the source is one of the target's. Each fault is shown to
make only entries that come from those that were there (`Resembles`). A finished
container that no fault touched is therefore valid and affordable under its writer's
policy (`UnharmedIsWritten`), and `RefusesOnlyInvalid` gives
`ReadableUnderTheSamePolicy`.

The refinement maps what the consumer has been given
to the abstract deliveries. Of the steps only a yield and a completion are not
stutters: a yield continues its stream by the next chunk that was written, because a
checked prefix numbers them without a gap and the storage cannot make up a record; a
completion is one over a whole finished container, because the commit is compared
with totals that only such a container has.

*What one more record does* is stated once, in `ContainerWriterProofs`, for both: how
totals, sizes, numbers and validity of a sequence follow from those of the sequence
without its last record. They rest on `EnumerationProofs`: a sum is a recursive
function over the places of a sequence, and `sorted()` a `CHOOSE` of an increasing
list, so that what they are depends on such a function and such a list existing.
The provers cannot apply an induction theorem, whose parameter is a predicate; the
proofs take a shortest sequence, or a smallest set, without one
(`LeastNumber`) and extend that of a smaller one.

*Pipeline.* `Reserved`: what the rest of the call will charge has room, from the
precheck to the last provider; each provider call takes its one execution out of
the reservation. `BoundOnceAllResolved` is inductive with the
shape of the binding queue. `Cached`: each binding in the cache is the whole path of
its recipe, the one under construction a beginning of it (`Begun`), and the recipe
that will run is cached or waits to be; a failure drops what was begun.

*Carrier.* Three facts per session. `Durable`: a name is only given to a file that
was synced when complete, and none is written afterwards. `Answered`: the answer
agrees with whether the name was given. `Accounted`: what the session still holds
is known to it and told by its lifecycle state. `Referred` relates them to the
target and the readers' handles. The refinement maps the target to itself;
under the invariant each step is one `Publish`, a `RefuseAll` of sessions, or a
stutter (`StepRefines`).

*Packing.* `InputsInv`: inputs are opened in the order of their numbers and given back
in the opposite order, so that the descriptors held are those of the files that still
wait to be closed, and those whose closing failed, which are told; at the end none
waits. `CarrierInv` gives the publisher's lifecycle state in each phase of the host.
`ReportInv` says what the caller is told: nothing has failed while the host opens or
packages; a carrier that needs a cleanup has raised in `discard()`; after a commit the
receipt is the target, the operation returned, and only closing an input can have
failed. At the end these are the cases of `NothingIsLeftBehind`.

*Recovery.* What a recovery is charged, it is charged in another order, in other places
and by other code than what packaging was; the proof shows that no ceiling can tell.
`PackageInv` has three parts. `WriterInv` is the writer's invariant, which holds
although the planner and the encoder charge the same accountant, as they charge for no
chunk (`ChargesKeepWriter`). `ProgressInv` relates the phase of the operation to the
writer's. `CodingInv` is about an operation that passed its preflight and did not
raise: charged to a new account, its manifest would not be refused; each chunk that was
`Made` is `Recoverable`, that is, every size a decoder compares or charges for it is
allowed by itself; the sums of logical bytes and of executions of the chunks made are
no more than the account has recorded; and what decoding those chunks puts out for a
source is what it was `provided` with. It is not enough to say this of the chunks that
reached the target, because a chunk is encoded before the writer takes it: `Made`
counts the one between the two.

When the operation has returned, the chunks made are those of the target, which is valid
by `TargetInv` and allowed by `SpentInv`; `ContainerNeeds` splits its size into those
of preamble, chunks and commit. `DecodesAll` then follows the decoding session chunk by
chunk: after the first k its totals are the sums over these k (`UpTo`), at most those
over all, and so allowed (`ReadingFacts`, `DecodingFacts`). `EncodingFacts` says what
an encoding that was not refused tells about every size on the way back. `Charged`,
`SizesThrough` and `Decode` are recursive functions; that they exist is shown as for
sums (`ChargingExists`, `StagingExists`, `DecodingExists`).

*Extraction.* `Located` and `Confined` say which directory the one temporary
directory of an extraction is in: a link is made by the path, and succeeds only if
the path still has that directory. `Linked` says which initial part of the
members has been linked and what a roll-back takes back; `Recorded` says that what
is visible is what was recorded, up to the one link that an interruption separated
from its record. `interrupted` keeps where an asynchronous exception came, and every
exception from the two properties names its point. `NeverOverwrites` is proved per step from `EntryStep`: a step
changes at most one name, from absent to its own file or back.

*Limit profiles.* `Anchored`: the selected profile exists or was contributed by some
catalog. It is inductive for file, memory and pending document together, and so
independent of how managers interleave. `CurrentInv`, under `Exclusive`: the
manager that lives knows the file, and its pending document `Amends` it by the
request.

*Command line.* `PluginInv` is `CurrentInv`'s counterpart for `plugins.json`, with the
promise: while a call changes a plugin nothing is promised of it. `LastInv` and
`HostStepsOnLimits` show that each invocation uses `limits.json` by the steps of
`LimitProfiles` (`HostImplementsLimitProfiles`). `WorkedInv`: since an operation on
containers was done, the file it took its ceilings from is unchanged. For whose code
runs, `SelectedIsNamed` is the fact about selections that every command's
composition rests on.

*Selection.* `SelectionDecidesRuntime` compares two orders of composing extensions and
contributions. `ComposeIsDecided` states composition without an order: it is refused
just when some extension is not `Fit` or two do not `Agree`, and what it comes to
otherwise is the table that `Tabulates` the *set* of the extensions. It is proved over
the compositions of the first extensions of a sequence, from what a builder accepts
(`AcceptsWhatAgrees`) and registers (`OneMoreTabulated`). Selections of the same
plugins list each of them once (`SelectedOrders`); what they contribute, joined, has
each element at a place of its own (`FlattenPlaces`), so that one joined sequence
`Embeds` in the other. A repetition, a contradiction or a missing resource in one
is then one in the other (`EmbeddedOnce`, `EmbeddedCompatible`, `CatalogsAgree`), and
`RuntimesAgree` puts both together.

### Only model-checked

- *Liveness*, `FinishedIsRead`: temporal reasoning about fairness is out of
  the prover's reach.
- `FilePacking`: `InspectionForetellsRecovery` is an equivalence, of what a footprint
  says and of a recovery under a policy that has nothing to do with the container.
  Its footprint is made of maxima and folds of the libraries, whose values for every
  input are an induction over data.
- `FormatConformance`: its three properties are about what a decoder that goes over
  an image symbol by symbol makes of any input, an induction over data.
- The three violated properties: they do not hold.


## Not modelled

- Arguments of wrong types, and the wording of errors, reports, help and output.
- The records other than the manifest, field by field: writer and reader are
  checked over records as values, and their packing is a `struct` format each.
- In JSON documents, keys that occur twice, and the text form of JSON itself.
- The container cases of conformance suites, when run: they are an inspection and a
  recovery of given bytes. They are modelled as part of suite documents.
- The calls of metadata and parameter interpreters during inspection: their results
  are shown, and nothing depends on them.
- `write_package()`: there is no carrier in the repository that it could coordinate.
- The readers of memory and of standard input: one buffer, one stream, no outcome.
- What `pack` and `unpack` print, and their choice of carriers.
- Examples and maintenance scripts.

## Plan

Modelled and checked: every component of the table but the parts named above.
Proved: every safety property of the runs that pass but the four named under *Only
model-checked*, and three refinements, of `AtomicPublication`, `StreamDelivery` and
`LimitProfiles`.

What remains is of two kinds. The properties of `Inspection` and the formats need
definitions by recursion whose values can be proved, as `Enumeration` and `ChunkCoding`
have them, in place of the libraries' folds; `InspectionForetellsRecovery` is the one
worth most. And what this project
abstracts to an identity (hashes, compression, the packing of records) could be
modelled where it meets the formats, with `ManifestCodec` as the pattern.
