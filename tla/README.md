# A TLA+ model of solana-ml-dsa

This directory models the ML-DSA-44 verifier of this repository (`src/`) and the
example Solana program built on it (`program/`), checks the models with TLC and
proves the properties that matter most with TLAPS. File and line numbers below are
relative to the repository.

## The system

| Part | Source | State | Operations | Interacts with |
|---|---|---|---|---|
| Key program | `program/src/lib.rs` | key accounts: header, four prepared rows, hash `tr` | `process_instruction` → `create`, `verify` | the Solana runtime (locks, rollback, compute budget), the System Program, the library |
| Verification | `src/ml_dsa_44.rs` | one call's locals: μ, ẑ₀..ẑ₃, ĉ, running hash | `verify*`, `verify_internal`, `verify_mu`, for raw and prepared keys | hint decoding, polynomials, the hash |
| Prepared keys | `src/ml_dsa_44.rs` | rows and `tr` in account bytes | `prepare_into`, `prepare_row_into`, `from_bytes`, `*_from_bytes` | polynomials, caller's memory |
| Hint decoding | `src/codec.rs` | loop variables, four bitmap words | `hint_counts`, `hint_bitmap` | `Poly::finish_row` reads the words |
| Polynomials | `src/poly.rs` | 256 coefficients | samplers, unpacking, row sums, `finish_row` | arithmetic, rounding, transforms |
| Transforms | `src/ntt.rs` | 256 coefficients in place | `ntt`, `invntt` | `plantard` |
| Arithmetic | `src/reduce.rs` | none | `plantard`, `plantard_constant`, `reduce32`, `caddq` | |
| Rounding | `src/rounding.rs` | none | `w1_coefficient` | |
| Hash | crate `solana-shake` | sponge | absorb, squeeze | external |
| TypeScript package | `packages/ml-dsa` | none | re-exports of a third-party signer | external |

What is hard in this code, and what must hold:

* **Key program.** Transactions interleave, fail half-way and are retried. An account
  must be bound to a key once, by its own signature, in one hash mode, and an accepted
  signature must be one its binding vouches for.
* **Verification.** Two independent paths, with and without a prepared key, must give
  the verdict of FIPS 204 although neither computes the standard's intermediate values.
* **Hint decoding.** A well-formed block and no other is accepted, nothing is sliced out
  of bounds, and an accepted block is the only encoding of its hints.
* **Samplers and bit fields.** Eight shifts per group, two arrangements of fields over byte
  and word boundaries, an exit in the middle of a block, a loop without a bound, a swap
  whose places may coincide.
* **Prepared keys.** Rows written through slices the caller cuts, over anything, read in
  place by one reader and word by word by another that checks more.
* **Arithmetic.** Wrapping products, arithmetic shifts, a correction constant, unsigned
  comparisons with deliberate wraps, estimates that are exact up to one special value.
* **Transforms.** 2048 butterflies written by hand, no reduction of sums, a missing last
  pass, a scale factor applied elsewhere.

`PROJECT.json` lists each hazard at its line with the properties that cover it.

## What correct means, component by component

* **Key program**: an account of the program is blank or holds one whole key under the
  header of its mode; it is bound once, by its own signature; verification runs on a key
  prepared for the mode of the instruction; good signatures pass; transactions end.
* **Verification**: both chains, at all three entry points, answer what Algorithm 8 computes
  from the rows they hold, errors included, and so agree. With the whole rows of an honestly
  generated key, that is: a signature is accepted exactly if the holder of this key, in
  this mode, signed this context and message with responses in range.
* **Prepared keys**: rows filled in any order are those of `prepare_into`; the two readers
  agree except on damaged bytes, and what was prepared is never refused. Of a key with a
  missing or foreign row nothing is promised but Algorithm 8 on its words: under rows of zeros
  the verifier accepts a hash that anyone can compute. `ref_from_bytes` says so ("The caller
  must ensure these bytes came from `prepare_into`"), and the key program does ensure it
  (`VerdictOnOwnMode`, `WholeOrBlank`).
* **Hint decoding**: exact verdict, slices in bounds, unique encoding, and the bits
  `finish_row` reads are the indices of the block.
* **Samplers and bit fields**: `uniform` and `challenge` are FIPS 204 Algorithms 30 and 29
  whatever lanes and blocks the stream comes in, nothing is stored beyond the polynomial and
  nothing stale left in it; fields are the plain bit fields and the norm verdict is that of
  the whole polynomial.
* **Polynomials, transforms, arithmetic, rounding**: both paths compute the row the
  standard defines; each routine stays in the domain of the next; the bytes hashed are
  `w1Encode` of `UseHint`.

## The modules

| Module | Models | State | Actions |
|---|---|---|---|
| `KeyRegistry` | what the key program promises | `binding`, `accepted` | `Batch` |
| `KeyProgram` | `program/src/lib.rs` on the Solana runtime | the ledger `store`; per transaction `pc`, `ip`, `row`, private copy `work`, `outcome` | runtime: `Submit`, `Begin` (locks), `Commit`, `OutOfCompute`, `Allocate`; program: `RejectInvocation`, `Dispatch`, `RejectCreate`, `BeginPrepare`, `PrepareRow`, `PrepareHash`, `Seal`, `RejectVerify`, `Open`, `Verdict` |
| `KeyVerdict` | what `verify_with_context` answers the program, as a function of account and signature | none | none |
| `Scheme` | ML-DSA, idealised; Algorithm 8 from μ on; calls and what they hold of a key | none | none |
| `Verification` | what a verification promises | `verdict` | `Decide` |
| `Verifier` | `verify*`, `verify_internal`, `verify_mu` and what they call, the two chains apart as in the code | arguments, `mu`, `zhat`, `chat`, row `i`, `sponge` | from a public key: `RawVerify`, `RawVerifyInternal`, `RawVerifyMu`, `RawCounts`, `RawWithColumn`, `RawBegin`, `RawRow`, `RawEnd`; from a prepared key: `Verify`, `VerifyInternal`, `VerifyMu`, `PreparedCounts`, `PreparedWithColumn`, `PreparedBegin`, `PreparedRow`, `PreparedEnd` |
| `HintCodec` | `src/codec.rs` and the bit `finish_row` reads | the block, the loop variables, the bitmaps | one per loop iteration and early return |
| `Words`, `PolyInputs` | words and byte strings as sets of one bits; sizes, hashes and encodings | none | none |
| `RejNTTPoly`, `SampleInBall` | FIPS 204 Algorithms 30 and 29, which the doc comments promise, on a stream of bytes | bytes read, the polynomial | `Skip`, `Keep`; `Refuse`, `Swap` |
| `Uniform` | `Poly::uniform` | block `sa`, group `g`, lanes `l`, `slot`, candidate `t`, `ctr`, `entry` | `Load`, `Take`, `Reject`, `Keep`, `Return`, `PermuteUniform` |
| `Challenge` | `Poly::challenge` | block `sc`, `pos`, `signs`, `i`, `b`, `challenge` | `PermuteChallenge`, `Read`, `Place` |
| `Unpacking` | `z_unpack`, `t1_unpack_shifted` | the encodings, `zrest`, loop variables, `z`, `bad`, `t1` | `UnpackZ`, `UnpackT1`: one iteration |
| `Operands` | the order a verification without a prepared key runs the four routines in, and the norm verdict between them | `stage` and all of the above | `TakeZ`, `DrawChallenge`, `DrawEntry`, `TakeT1` |
| `PreparedKey` | `PreparedVerifyingKey` in its bytes | `mem`, the call in progress, `owned`, what the caller believes (`filled`, `hashed`) | `PrepareInto`, `PrepareRowInto`, `Column`, `RowDone`, `NextRow`, `KeyDone`, `WriteHash`, `Borrow`, `FromSlice`, `DecodeWord`, `DecodeDone` |
| `Params` | the real constants | none | none |
| `Ntt` | the schedule of `src/ntt.rs` | the array in place | `ForwardStep`, `InverseStep`: one group of four butterflies |
| `RowPipeline` | a row on both paths, with the values of the words | stored row, transforms, accumulator | `PrepareMatrix`, `PrepareT1`, `StartRaw`, `TakeZ`, `RowLazy`, `RawChallenge`, `MatrixTerm`, `RawT1`, `T1Term`, `Transform` |
| `NttRanges` | the transforms on magnitudes, with the real constants | the same array, of bounds | `Forward`, `Inverse`, `Transform` |
| `Arithmetic` | `src/reduce.rs`, `norm_at_least` | one operand and its result | `Multiply`, `Reduce`, `Norm` |
| `Rounding` | `finish_row`, `w1_coefficient`, `reduce32`, `caddq` | four words, their hints, the bytes | `FinishGroup` |

`RowPipeline` and `NttRanges` instantiate the one schedule in `Ntt`, each with its own
arithmetic. `KeyProgram` refines `KeyRegistry`, `Verifier` refines `Verification`,
`Uniform` refines `RejNTTPoly` and `Challenge` refines `SampleInBall`: each of the two
specifications knows only bytes read so far, which the refinement computes from block, group
and place within it.
The `MC*` modules only give constants their values. An operator named in a comment
"Mutant" is the same definition with a plausible bug; no specification uses it, and
`PROJECT.json` says which property refutes it.

### How the layers fit together

`Verifier` takes from the lower layers one fact: a row of `w1` is a function, `RowOf`, of the
words of the key's row, the transforms, the challenge and the row's hints, the same on both
paths. Which function is left open, for words no key generation made as for others.
`Operands` shows which polynomials that row is computed from, and that their words are those
`NttRanges` starts the transforms from.
`RowPipeline` shows the row up to the inverse transform, for the ring arithmetic; it takes
Plantard products to be centred residues, which `ArithmeticProofs` proves for words in
the domain that `NttRanges` shows them to be in; `RowWordsProofs` takes the words on to
the bytes that are hashed, and `HintCodec` gives the hints. `PreparedKey` shows that a row
the key program and `Verifier` treat as one value is stored and read back as one, from
account bytes that may hold anything and lie anywhere. `KeyProgram` takes from
`Verifier` that the verdict on a prepared key is yes exactly if all rows and `tr` come
from the key and mode that signed this message (`Genuine` of `KeyVerdict`). `ProgramVerdict`
proves that of `Verifier` for accounts whose rows are, whole, one honest key's; that
`KeyProgram` reads no others is its own property `VerdictOnOwnMode`.

### What is idealised

* **The hash** (`solana-shake`) is a free constructor: the mode and the sequence that
  was absorbed. The 32-byte seed of the challenge is hashed as one item.
* **Signatures** exist if a holder of an honestly generated key made them (`Signatures`).
  Two facts about ML-DSA are assumptions. Correctness (`CorrectAssumption`): Algorithm 8
  accepts what a signer made, unless its responses are out of range. Strong unforgeability
  (`UnforgeableAssumption`): what it accepts under the whole rows of an honest key, the holder
  made. It says nothing of other rows. The run's calls include the forgeries they
  allow: under rows that were never written, or of a key whose t1 is zero, the hash is computed
  for whatever is asked, and accepted. What is verified beyond the assumptions is what the
  code binds together: mode, key, every row, context, message, every response, every hint,
  each in its place.
* A signer may have skipped its own rejection of large responses: the verifier must
  not rely on it.
* **Transform tables.** `ZETAS` is taken to be the powers of 1753 in bit-reversed order;
  the repository's tests compare all 256 entries.
* **The runtime**: account locks, atomic commit, a budget that can end anywhere. An
  instruction names one account, so `try_borrow_data` always succeeds. Rent and lamports
  are left out. Data starts at an address of `DataStart`, which only matters to the
  alignment test of `mut_from_bytes` and `ref_from_bytes`. `Signature::ref_from_bytes`
  cannot fail once the length of the payload is known.

## The runs

| Run | What it asks | Bounds, and why they are enough |
|---|---|---|
| `key_program` | every property of the key program | two transactions in flight drawn from nineteen (every way to succeed and every early return), three accounts (unallocated, allocated, forged by another program), two keys, two messages, two rows, aligned and unaligned data. Two transactions are what a race needs; two rows distinguish a half-written key. |
| `key_races` | the registry, under a third transaction | three transactions compete for one account; slots are interchangeable (symmetry). Only a safety property, for which symmetry is sound. |
| `verifier` | `ImplementsVerification` | two rows, two columns, bytes of one bit, contexts admitted up to one byte and tried up to two, so that the framing's cast really wraps; every `M'` of up to four bytes; keys of both modes, with a missing or foreign `tr`, with a row never written, swapped, mixed, and two kinds under which anyone can sign; every signature with one part changed, and hashes computed without a key. Each chain takes every call, and each of its four checks decides some. |
| `hint_blocks` | every property of hint decoding | all 32 768 blocks of two rows, three slots and byte values 0..7, words of four bits, groups of two: empty rows, full blocks, counts in disorder and beyond the end, both words of a row, every hint read back. |
| `operands` | the four routines in the course of one verification; the two refinements; that sampling returns; that a row starts from complete and checked operands | degree 8, the real 64-bit lanes, fields, modulus and norm bound; blocks of two groups for `uniform` (sixteen candidates) and of two short lanes for `challenge`, so that both need several. In a call one input is arbitrary and the others ordinary. Every bit of z and t1 alone set and alone clear decides how fields are laid out; values on either side of the bound at every coefficient decide the verdict; runs of refused candidates let the last coefficient be found at every place of a group in either block, and once leave the first block empty-handed; every choice of three signs and of four places before, at and beyond the index at hand. |
| `prepared_key` | every property of the bytes of a prepared key | two rows of two coefficients and two columns, bytes of four values so that a word may reach beyond Q, two keys, slices that start at a row, a byte and a word beyond one and are short by a word, aligned and unaligned storage, and contents that are filled, zero but for a word of Q - 1, or zero but for a word of Q. Any number of calls in any order: the state space is finite and complete. |
| `row_pipeline` | both paths compute the standard's row | degree 16 over 97, two columns. A row is bilinear in (A, z) and in (c, t1), so one-hot inputs decide all others; degree 16 has two merged pairs of layers, so the change from one pair to the next is exercised. |
| `ntt_ranges` | operand domains, and that row sums stay in the domain of the reduction for any 32-bit words of a stored row | all 256 coefficients, the real constants, all inputs' true maxima. |
| `ntt_forward_input`, `ntt_inverse_contract` | two comments of `src/ntt.rs` | the same; these two fail, see below. |
| `arithmetic` | Plantard, its constants, the norm check | half words of six bits, Q = 13, every operand in the domain: the proofs cover the real sizes. |
| `rounding` | the bytes of a row | the real constants; words next to each of the 88 boundaries, at three multiples of Q, and at the ends of the domain. The proof covers all words. |

Bounds have names: `Slots` and `Transactions` (transactions in flight, and which), `K`,
`L`, `N`, `OMEGA`, `BYTES`, `WORD`, `GROUP`, `BYTE`, `CONTEXT_MAX_LEN`, `Operands`,
`Factors`, `Groups`, `Inputs`, `DirectInputs`, `Calls`, `TAU`, `LANE`, `RATE128`, `RATE256`,
`Seeds`, `Commitments`, `Z`, `T1`, `Contents`, `Starts`, `Shorter`, `Addresses`, `Keys`. No
counter grows without one; the block counters `sa` and `sc` are bounded by the streams,
which stop refusing after the first blocks.

Deadlock checking is off wherever a computation ends; it is on in the three runs of
`MCNttRanges`, where the transforms are called for ever, and in `prepared_key`, where there
is always another call.

### Fairness

Two properties need it. `EveryTransactionEnds`: `FairSpec` assumes weak fairness of `Begin(t)` and
`Step(t)`: validators go on executing what they have taken, and a transaction whose
accounts are free is started. Nothing is assumed of clients. Since a slot carries one
transaction, no stream of later transactions can starve a waiting one.

`EveryCallReturns`: `Operands` assumes weak fairness of `DrawEntry`. It is sequential code,
which runs on once called. What could keep it from returning is its own loop, which has no
bound, and a hash that never offers N candidates below Q; every stream of the run offers
them in the end, so the property says that the loop goes on to new candidates. The loop of
`challenge` is checked for what it samples and not for its end.

### Where code and comments disagree

* `src/ntt.rs:15` bounds forward inputs by 2^17. `t1_term` and `prepare_row` transform
  `t1 * 2^13`, up to 8380416. Harmless: the outputs stay below the 2^26 the callers
  rely on.
* `src/ntt.rs:1130` says inputs below Q give outputs below 2^7 Q. For inputs of Q - 1 the
  first output is 256 (Q - 1). The verifier passes centred words, for which the bound
  holds, and needs it: standard representatives would leave the domain of `reduce32`
  (`Reduce32Admits`).

## The proofs

All are for every value of the constants that meets the named assumptions.

* **`HintCodecProofs`** (`HintAssumption`): types, exact verdict, slices in bounds. The
  verdict is not inductive alone: `IInv` adds that every row passed is well-formed and
  has its count recorded (`ScanInv`), how far the current row is in order (`RowInv`),
  and that a verdict leaves the counts equal to the encoded ones (`VerdictInv`). A
  `Some` needs the first two for all rows; a `None` follows from the failed test.
  `HintsAreIndices`: the bit `finish_row` takes out of the words of the bitmap is set exactly
  for the indices of the row (`HintsRead`). `UniqueEncoding`: two well-formed blocks that
  list the same indices in every row are the same block; the first slot they differ in
  exists by the least-number principle, and ascending order leaves no room for it.
  `CanonicalEncoding` is `Canonical`: the block a decoder accepted is what `HintBitPack` makes of
  the hints read from it. Every count of ones is the number of slots they came from, by a
  bijection between slots and ones, and so the slot of each one is its rank.
* **`KeyProgramProofs`** (`KAssumption`, `NamesAssumption`, `DataStartAssumption`,
  `TransactionsAssumption`, `LedgerAssumption`): types, whole keys, own mode,
  registration by the signer, no false rejection, and that `Spec` implements the
  registry. `IInv` says what each program counter knows (`Phase`), that only the
  account in preparation is neither blank nor whole (`WorkClean`), that running
  transactions do not conflict (`Exclusive`), and so that a private copy differs from
  the ledger only on accounts not yet bound (`Isolated`). `Commit` is the step that
  needs all of it: another slot's copy stays current because the two do not conflict.
* **`VerifierProofs`** (`SizeAssumption`, `SignaturesAssumption`, `CallsAssumption`; where said
  `CorrectAssumption`, `UnforgeableAssumption`). `IInv` keeps `zhat` and `sponge` as prefixes
  of the responses and of the transcript (`ZInv`, `RowsInv`) and `mu` as the mu asked about
  (`MuInv`). `RawIsCommon` and `PreparedIsCommon` show that every step of either chain is one
  of seven, each of which keeps `IInv`.
  * `AnswersAlgorithm8`, which uses neither fact about ML-DSA: the answer is ContextTooLong for a
    long context, else Ok exactly when Algorithm 8 accepts, on any rows and any signature.
  * `Refinement`: `Verifier` implements `Verification`, from both facts. Unforgeability gives
    a signature made for the same mu; that this is the same context, message, key and mode
    needs that framing is injective (contexts are shorter than a byte counts). Correctness
    gives the converse. For rows that are no honest key's there is nothing to add.
  * `PathsAgree`, again from neither: what was prepared from a public key and the public key
    itself give the same answer to every question, whoever made key and signature.
  * `ProgramVerdict`, from both: on the whole rows of an honest key, under any `tr`, the answer
    to a signature whose `z` is small (`Asks`) is `Genuine`, the verdict `KeyProgram` takes. It
    needs that an encoding is one signature's only (`SameSignature`), since its hash
    absorbed mu.
* **`ArithmeticProofs`** (`ArithmeticAssumption`): Plantard products and reductions are
  exactly the centred residues and the norm check is exact, for every odd Q, half word
  W and ALPHA with 2 ALPHA Q < W. `NewtonStep` lifts `QINV` to 2^64; `SecondShift` bounds
  the correction term, `PlantardExact` concludes by uniqueness of the quotient.
* **`OperandsProofs`** (`UniformAssumption`, `ChallengeAssumption`, `UnpackingAssumption`):
  the four routines, each by itself and then in the course of a verification.
  * `uniform`: types, that nothing is stored out of range or left unwritten, and that
    `UniformSpec` implements Algorithm 30, for every rate of whole groups, degree, modulus
    and output. `CutIsField` is the heart: for each of the eight places of a group, shifts,
    or and mask give the 23 bits at three times the place, across the two lane boundaries
    too. `IInv` keeps the lanes those of the stream, and the coefficients up to `ctr` below Q.
  * `challenge`: types, exactly one more sign per round (`InBall`, by cardinalities, whether
    or not the place drawn is the index at hand or holds a sign already), and that
    `ChallengeSpec` implements Algorithm 29. `SignsLeft` says that what is left of the signs
    is the first lane shifted by the rounds done.
  * bit fields: both routines read the fields of the bit string, the verdict is exact,
    everything written is in range, for every degree divisible by four and every input.
    `T1FieldsAre` and `ZFieldsAre` treat the four shifts of each.
  * together: every step of `Operands` is a step of each routine's specification or leaves it
    alone (`RoutinesImplemented`), so what holds of a routine holds in the sequence
    (`RoutinesCorrect`); `StageInv` says what each stage has finished, and gives
    `OperandsComplete`: a row starts from operands that are written to the end and checked.
* **`PreparedKeyProofs`** (`PreparedKeyAssumption`, `PreparedKeyData`): types, that what was
  prepared is read back as it was computed (`PreparedIsRead`) and that the decoder agrees
  with the reference in place (`DecoderAgrees`), for all row, column and coefficient counts,
  slices and contents. Columns of a row do not overlap, a word is determined by its bytes,
  and what `filled` promises of a row survives writes to every other one.
* **`RowPipelineProofs`** (`RowAssumption`, `InputsAssumption`): types, that `ntt` evaluates its
  polynomial (`ForwardExact`) and that both paths end with the standard's row (`RowsExact`),
  for degrees 4, 16, 64 and 256 (the schedule merges layers in pairs), any number of columns,
  any integer polynomials, and any modulus with an element whose N-th power is -1 and in which
  N and the radix are invertible. The code's constants (N = 256, Q = 8380417, Root = 1753,
  Radix = 2^64 mod Q) are such; that 1753^256 = -1 is what the repository's tests of `ZETAS`
  show.
  * The argument never looks at a whole layer. `ForwardSum` is the value at a point
    of the block of coefficients that determines it in the middle of a pair of layers: each offset in
    the block contributes one term, made of one coefficient where its group is done and of the
    four of the group where it is not. A group of four butterflies exchanges one form of
    the term for the other and changes nothing modulo Q (`ForwardGroupKeeps`), because the twiddle
    is a power of the point of its block (`Reversal`, the bit reversal, is unfolded one pair of
    layers at a time). `InverseSum` is the same for `invntt`, whose missing last pass and 1/N
    are part of the value. Nothing is assumed about a sum being reduced or not.
  * `IInv` is `Shape` (types, and which stages each path goes through), `InProgress` (the array
    has the value of the polynomial in transform, point by point), `Stored` (what a row prepared
    or computed so far holds, with the factor frozen into it) and `Gathered` (the transforms of
    z and c, and what the raw path has accumulated). The row alone is not inductive: it depends
    on factors introduced three stages earlier, which `FactorIs`, `PreparedFactors`
    and `RawFactors` cancel. TLC finds `IInv` invariant on a part of the inputs of
    `row_pipeline`.
* **`RowWordsProofs`** (`NttRangesAssumption`, `GroupAssumption`): the sizes of the words of a row
  and the bytes made of them.
  * Magnitudes: the domains of `PlantardAdmits`, `ForwardGrowth`, `RowSumAdmits` and
    `Reduce32Admits`, for degrees 16, 64 and 256 (two to four pairs of layers; with a single
    pair, the first would also be the last). `IInv` is the shape of the array in the middle of
    a pair: a word of `ntt` has grown by one product for every layer it has crossed, a word of
    `invntt` has doubled with each layer or is a product. `OutputsAdmitted` has a hypothesis
    about words that are fed to `invntt` without a reduction (`DirectInputs`); the program has
    none. `MagnitudesSound` is what makes the magnitudes mean anything: run in step with the
    words of the code, each magnitude bounds its word, for any product that keeps the contract
    `PlantardContract`, and `Products` of `ArithmeticProofs` says that Plantard's does.
  * Bytes: the bytes of a group are `w1Encode` of `UseHint`, with the real constants and for all
    words in the domain of `reduce32`. `EstimateExact` says which interval the
    shift-and-multiply estimate selects; `CoefficientExact` splits on it and on the wrap.
  * Together: `RowsFinished`, the words `invntt` ends with are words on which `finish_row` is
    exact. With `RowsExact`, which says what those words are modulo Q, this is the whole way
    from operands to bytes.

Only model-checked: liveness (`EveryTransactionEnds`, `EveryCallReturns`); the prover has no
`ENABLED`.

Only proved: `UnpackingTypeOK`, `UniqueEncoding`, `RoutinesImplemented`, `RoutinesCorrect`,
`MagnitudesSound`, `RowsFinished`, `AnswersAlgorithm8`, `PathsAgree`, `ProgramVerdict`.

## Not modelled

* The permutation, `solana-shake`: no source here. The samplers take its output as a
  constant, the verifier as a free constructor.
* The values of `ZETAS`; the repository's tests compare them all.
* The end of `challenge`'s loop: like `uniform`'s it rests on the hash.
* `src/lib.rs` (re-exports, error messages), the TypeScript package (re-exports of a
  third-party signer and its build script), tests and CI.

## Plan

The order of work; all of it is done.

1. `HintCodec`, `KeyProgram` over `KeyRegistry`: the early returns and the interleavings.
2. `Ntt`, `RowPipeline`, `NttRanges`: the two paths and the domains.
3. `Arithmetic`, `Rounding`, with the real constants where they matter.
4. `Scheme`, `Verification`, `Verifier`: what a verdict binds together.
5. `Uniform`, `Challenge` over Algorithms 30 and 29, with proofs.
6. `PreparedKey`: accounts filled a row at a time and read in two ways.
7. `Unpacking` against the definition of the bit fields, and `Operands` around all of them.
8. Theorems: hints are read as encoded and encodings are unique and canonical; the growth of
   words in `NttRanges`; the bytes of `PreparedKey`; the sequence of `Operands`; `RowPipeline`
   for every modulus; the verdict of `KeyProgram` as the one `Verifier` gives.
