# A TLA+ model of aws-c-cal

aws-c-cal puts one C interface over the cryptography of three platforms:
libcrypto (`source/unix`), CNG (`source/windows`) and CommonCrypto with the
Security framework (`source/darwin`). The cryptography is the provider's. What
the library adds is the part that goes wrong: streaming over providers that want
whole blocks, state flags, error paths, buffers the caller may have made too
small, reuse of an object after a reset, and the conversions between formats.
That part is modelled here.

## The system and its parts

| Part | Source | State | Operations | Module |
|---|---|---|---|---|
| cipher front end | `symmetric_cipher.c` | `good` flag | encrypt, decrypt, two finalizes, reset, destroy | `SymmetricCipher` |
| CBC, GCM on Windows | `windows/bcrypt_aes.c` | overflow, flags, key handle, authentication record, MAC buffer, tag | the same, and the constructors | `BcryptAes` |
| CTR on Windows | `windows/bcrypt_aes.c` | overflow, IV, counter block, key handle | the same | `BcryptCtr` |
| CBC, CTR, GCM on libcrypto | `unix/openssl_aes.c` | two EVP contexts, working buffer, tag | the same | `OpensslAes` |
| key wrap, all platforms | `*_aes.c` | collected input | the same | `KeyWrap` |
| CBC, CTR, GCM on Darwin | `darwin/commoncrypto_aes.c` | two cryptors, tag and its buffer | the same | `CommonCryptoAes` |
| hashes and HMAC | `hash.c`, `hmac.c`, eight back ends | `good`, provider context | new, update, finalize, destroy, one-shot | `Digest` |
| DER | `der.c` | container stack; list of TLVs, depth, current container | write, begin and end container; parse, iterate | `DerEncoder`, `DerDecoder` |
| ECC key pairs | `ecc.c`, three back ends | reference count, key parts | constructors, derive, sign, verify, acquire, release | `EccKeyRef`, `EccKeyMaterial`, `OpensslEcc`, `BcryptEcc`, `SecurityEcc`, `EccKeyPair` |
| start-up | `cal.c`, `*_platform_init.c` | initialized flag, callbacks, lock table | init, clean-up, thread clean-up, locking callback | `CalLibrary` |
| symbol resolution | `openssl_platform_init.c` | function tables | resolve | `LibcryptoResolve` |
| utilities | `bin/` | files | drivers around the library | out of scope |

The parts meet in few places. The front end calls a back end through a vtable;
the ECC back ends use DER; everything on Unix uses the function tables that
start-up fills in. A cipher or a hash belongs to one thread; what threads share
is the start-up state, the locks of OpenSSL 1.0.2 and the reference count of a key
pair.

The hard behaviours are: how a message is cut into calls, and what is held back
between them; calls that fail half way (no room, a provider error), and what the
caller may do next; state that must not survive a reset; counters and lengths at
their limits; constructors that stop half way; signatures and keys that pass from
one platform to another; threads that share a key pair or a lock.
`PROJECT.json` lists them one by one as hazards, with the properties that cover
them or the reason none does.

## How the models correspond to the code

Definitions have the names of the C functions. A call is one action: the front
end's checks, the whole vtable entry and the front end's assignment to `good`
happen in one step, since a cipher has one thread. The front end's operators
take the vtable entry as a parameter, which is an action of the back end's
module. Every action chooses its input and the room in the caller's buffer from
small sets, and a provider call may fail whenever it is made.

Data is abstracted. In the stream ciphers the bytes of a message are its
positions 1, 2, ...: the code moves bytes and never looks at them, so that
`out = Span(0, n)` says no byte was lost, repeated or moved. A CTR output byte is
the pair of a position and a keystream position. In `KeyWrap` bytes have values,
because the algorithm is the library's own there; the block cipher is a constant
permutation. Variables such as `fed`, `stream`, `calls`, `last` and `wrapped` are
history: no action of the code reads them.

* `CipherStream` is the abstract specification: what `symmetric_cipher.h`
  promises of a message on any platform. The output covers a prefix of the input,
  a successful finalize completes it, and after a failed call or a mixture of
  directions nothing is promised until a reset.
* `SymmetricCipher` is the shared front end. `ByteSpans` has the messages.
* `BcryptAes` models CBC and GCM on Windows; `mode` says which and never changes.
  `s_fill_in_overflow` and the remainder arithmetic of the GCM functions are
  operators on lengths; `Process` is the early return, the room check and the
  call of CNG. `calls` records what CNG was given.
* `BcryptCtr` models counter mode, which the code builds from ECB: one provider
  call and one counter step per block, in a loop that may stop half way.
* `OpensslAes` models the two EVP contexts; how much libcrypto holds back is
  external (`EVPKeeps` and the like).
* `CommonCryptoAes` models the Darwin ciphers: a cryptor for each direction, the
  room the code reserves, and the cryptor that refuses to write beyond it
  (`cramped`). What a cryptor keeps back is external (`Keeps`).
* `KeyWrap` has all three back ends. A cipher may wrap on one and another cipher
  unwrap on another. `WrapLoop` and `UnwrapLoop` are the in-place loops of
  `openssl_aes.c`; `RFC3394_Wrap` is the shift-register statement of the RFC and
  stands for what the other two providers do. `handed` counts what the caller
  handed over; the properties compare with that and not with `working_buffer`, so
  that they see what a reset might leave in it.
* `Digest` has the eight back ends as records that say where they differ.
* `DerEncoder` has the storage, the stack of open containers and the pointer to
  the buffer written to; a TLV is written piece by piece, and the pieces before
  the one that does not fit stay. `levels` is history: what was written.
* `DerDecoder` runs on the encoder's contents. A turn of the loop of
  `s_parse_cursor` and its return are steps; `frames` is the C stack. The list of
  TLVs has a generation, so that a pointer into the list's old place can be told
  from one into the present list. A write through an old pointer misses the list,
  or hits it if the list may have come back to that place; other damage that
  such a write could do is not modelled. `seen` is what a caller reads who walks
  through the list.
* `EccKeyRef` is the reference count alone: `release` and the destruction that
  follows it are two steps, and threads may pass references to each other. `held`
  is history: which references there are.
* `EccKeyMaterial` has the bytes of keys, with leading zeros and sign bits where
  they matter, the search for the parts of a key in a decoded document, and DER
  numbers. `OpensslEcc`, `BcryptEcc` and `SecurityEcc` are pure: each function of a
  back end is an operator that gives the set of its outcomes (result, key, and
  what is allocated or open afterwards, on each error path). A name that several
  back ends give to a function is followed by the platform
  (`s_sign_message_windows`).
* `EccKeyPair` extends all of them: threads share a pair on one of the platforms, and
  signatures outlive the pair and are verified on another platform. It is
  proved to implement `EccKeyRef` (`SharesByReference`), and `RefInv`, which holds of
  the count, holds of the pairs. `derive` is
  the only call that writes to a pair, and is the caller's to serialise. The
  signatures that are verified are ones the library made. CNG is taken to compute
  the point when a private key is imported alone; on Darwin, `priv_d` of a pair
  without a private part points at bytes that were never written, and holds
  anything.
* `LibcryptoResolve` is the search for libcrypto. A function pointer is the library
  it points into. `CalLibrary` runs it in each initialisation, in any environment,
  and models the steps of init and clean-up one by one, the workers inside
  OpenSSL 1.0.2, and an application that sets or removes callbacks of its own. One
  thread initialises and cleans up, and workers run in between: the flag in `cal.c`
  is a plain variable and the library leaves this to its user.

A definition such as `s_encrypt_unchecked` is a mutant: `s_encrypt` with a
plausible mistake in it. `PROJECT.json` names the property each one must break.

## What the runs check

| Run | Shows |
|---|---|
| `bcrypt` | CBC and GCM on Windows: `NothingLost`, `ProviderContract` (whole blocks until one last call), `GoodMeansUsable`, `TagOfMostRecentEncrypt`, `DocumentedRoomInGcm`, `ImplementsStream` (refinement of `CipherStream`) |
| `bcrypt_ctr` | `CounterMode` however the message is cut, `KeystreamUsedOnce` even after failed calls, `GoodMeansUsable`, refinement |
| `openssl` | `NoOverrun` of the checked room, `OpenMeansReady`, `DecryptorArmed` over three messages (the decryptor has the tag that the cipher shows, and that is the tag of a message that was encrypted), refinement |
| `keywrap` | `RoundTrip` within and across back ends and from one message to the next, `WrapIsRfc3394`, `AcceptedWasWrapped`, `OutputAppended` |
| `der` | `RoundTrip` of every element in every length form and nesting, `AcceptsEncodings` (refused only for depth or an incomplete header behind it), `WellFormed` (the buffer written to is that of the innermost container), `CountsUntilTheListMoves`, and that every parse ends (`ParseEnds`) |
| `digest` | `OneDigestOfAllInput`, `ErrorsAreFinalExceptRoom`, `OneShotCompletes` |
| `darwin` | CBC, CTR and GCM on Darwin: `ProviderHasRoom` (CommonCrypto never lacks room the code said was enough), `OpenMeansReady`, `TagOfMostRecentEncrypt`, refinement |
| `ecc` | `RefInv` (no use after free, one destruction, no last release that is missed), `LastReleaseFrees` (liveness), `PartsAreTheKeys` by every constructor, document and derivation, `SignaturesTravel` between platforms, `SignatureFits`, `NothingLeaks` on any error path |
| `library` | `Resolved` (`TablesCoherent`, `TablesComplete`, `AbortsOnlyWithout`: a libcrypto that serves is found), `LocksWork` (`MutexesReady`, `MutualExclusion`), `NothingLeftBehind`, `CallsReturn` (liveness) |

Three more runs show disagreements between the code and its documentation; each
checks the documented statement and ends in a counterexample:

| Run | Documented | The code |
|---|---|---|
| `openssl_tag` | the tag is that of the most recent encryption | libcrypto GCM fetches it once |
| `darwin_tag` | the comment at `commoncrypto_aes.c:398`: a tag the user specified takes precedence (`UserTagTakesPrecedence`) | Darwin GCM writes the computed tag over it when an encryption is finalized, as the header promises of the tag (`TagOfMostRecentEncrypt` of `darwin`) |
| `ecc_asn1` | `new_from_asn1` returns a pair if the key was built, otherwise NULL | on Darwin a key that the framework refuses is returned as a pair without a key |

Others are in the models as the code has them, and the property that holds says
where it stops:

* Windows CBC asks for more room than `symmetric_cipher.h:130-132` and `:160-162`
  say is enough, since it needs room for the overflow, too (`bcrypt_aes.c:330`;
  `DocumentedRoomInGcm` is about GCM only).
* Finalizing a GCM decryption on Darwin finalizes the encryptor, into the buffer
  with the tag (`commoncrypto_aes.c:422`). `symmetric_cipher.h:202-204` lets any
  call alter the tag, so `TagOfMostRecentEncrypt` is about the encryption that has
  just been finalized.
* The error path of the Windows constructors uses `impl` before it is set
  (`bcrypt_aes.c:721`); the model ends there.
* A failed reset on libcrypto leaves the good flag up (`openssl_aes.c:132`);
  `OpenMeansReady` is about callers who heed the error.
* An update of 4 GiB or more is cut to 32 bits on Windows and Darwin
  (`bcrypt_hash.c:188`); `OneDigestOfAllInput` leaves such updates out.
* Elements of a DER container that are added after the list has moved are not
  counted (`der.c:404`); `CountsUntilTheListMoves`.
* On Windows `new_from_asn1` does not return for a document that cannot be parsed
  (`bcrypt_ecc.c:470`).
* An AWS-LC that is not linked statically gets no `init_fn` (`:223`);
  `TablesComplete` leaves it out. With several libcryptos in one process a table
  may mix them; `TablesCoherent` leaves that out.
* The lock table stays allocated if the application replaces the callback.
* A libcrypto that was opened from a file is not closed: `s_libcrypto_module`
  (`openssl_platform_init.c:551`) is never assigned. Handles are not counted, and
  `NothingLeftBehind` leaves them out.

Two more were met and have no run (a third is in `DerEncoder`: an encoder destroyed
with a container open does not release its buffer, `der.c:216`). On Windows an empty message gets no padding
block in CBC (`bcrypt_aes.c:421`; `tests/aes256_test.c:24` says there always is
one) and no tag in GCM (`:319`). The properties say where they leave out empty
messages. In `KeyWrap` three restrictions stand for known limits of the code:
the step number is one byte wide, an input that is not a whole number of blocks
cannot be unwrapped, and on Darwin the result is written at the start of the
buffer.

### Bounds

`Block` is 2 (3 for CTR) instead of 16: the code compares with one block, two
blocks and remainders, and 2 has a proper remainder. `MaxFed` lets a message pass
the reserve of two blocks twice in `bcrypt` (9 bytes), three blocks of the CTR
loop in `bcrypt_ctr` (11), and two blocks in `openssl` (4), where libcrypto
never holds more than one. `IntMax` is just above the largest useful input, so
the size limit is met from both sides. `MaxMsg` allows two messages, and three in
`openssl`, where the tag passes from the first to the third. `CounterMax` is
reached inside a message from one of the initial counters. In `keywrap` a byte
has 32 values and a key up to six blocks: keys of two and three blocks are
counted within a byte, six blocks (36 steps) are not. In `digest` an update may
be longer than `LenMod`, the stand-in for 2^32. In `der` a byte of a length counts
to 9, so that values of 5, 10 and 100 bytes start a new length form, as 128, 256
and 65536 do in the code; tags keep their values. `MaxCalls` of 8, with two for a
write, gives up to four elements, or one element and three containers; the depth
limit and the list's first capacity are 3 instead of 16, so both are passed. The
inputs of the decoder are the encodings, followed by nothing, by newlines, or by
a header that is cut off; `s_der_read_tlv` stores a short length through a pointer
to a longer integer and is modelled for little-endian hosts. In `darwin` a block
is 3, so that the reserve of a block less one byte is more than one byte, and
messages of 7 bytes pass two blocks. In `ecc` a byte has four values, half of them
with the sign bit, and a coordinate few bytes; among the keys and the halves of
signatures there are ones with leading zeros. There are two threads with a
reference each (the theorems are for any number), one pair at a time, and one
signature is kept. In `library` there
are two locks, two workers and two initialisations, and any of the libraries may
be linked, in the process (up to two) or in the three files, differently at each
initialisation. Deadlock is not checked where a
model ends at one of these bounds or in a crashed constructor.

There are three liveness properties. `ParseEnds` is stated under weak fairness of
the parser's steps, `CallsReturn` under weak fairness of the steps of init and
clean-up, and `LastReleaseFrees` under weak fairness of the destruction that
`release` ends with: each is the rest of a function that runs on its caller's
thread, with nothing in it to wait for. Nothing is assumed of callers: no thread
need ever call, acquire or release. Everywhere else an operation is one action and
no fairness is assumed.

## What is proved

TLC's runs are small instances. The theorems below hold for every value of the
constants: every block size, digest size, width of the counter, number of locks,
set of threads, room, input length and number of messages. Each proof module
proves an inductive invariant, which TLC has checked on the instance of its run;
the theorems follow from it. It is `IInv`, with `Determined` for the search for
libcrypto, or, for key pairs, `RefInv` of the count and `EccInv` of the rest.

| Module | Theorems and the properties they establish |
|---|---|
| `BcryptAesProofs` | `StreamIntact` (`NothingLost`), `ProviderContractKept` (`ProviderContract`), `GoodIsUsable` (`GoodMeansUsable`), `TagIsCurrent` (`TagOfMostRecentEncrypt`), `RoomInGcm` (`DocumentedRoomInGcm`), `StreamRefined` (`ImplementsStream`), `TypeCorrect` |
| `BcryptCtrProofs` | `IsCounterMode` (`CounterMode`), `KeystreamOnce` (`KeystreamUsedOnce`), `GoodIsUsable` (`GoodMeansUsable`), `StreamRefined` (`ImplementsStream`) |
| `OpensslAesProofs` | `NeverOverrun` (`NoOverrun`), `OpenIsReady` (`OpenMeansReady`), `ArmedDecryptor` (`DecryptorArmed`), `StreamRefined` (`ImplementsStream`) |
| `CommonCryptoAesProofs` | `RoomEnough` (`ProviderHasRoom`), `OpenIsReady` (`OpenMeansReady`), `TagIsCurrent` (`TagOfMostRecentEncrypt`), `StreamRefined` (`ImplementsStream`) |
| `DigestProofs` | `DigestOfAllInput` (`OneDigestOfAllInput`), `ErrorsAreFinal` (`ErrorsAreFinalExceptRoom`), `OneShotIsComplete` (`OneShotCompletes`) |
| `EccKeyPairProofs` | `RefInductive`, `PairsSharedSafely` (`RefInv`), `HeldIsLive`, `FreedOnce`, `NoneForgotten` (its parts), `SharingRefines` (`SharesByReference`), `AlwaysTheKey` (`PartsAreTheKeys`), `AlwaysTravel` (`SignaturesTravel`), `AlwaysFits` (`SignatureFits`), `NeverLeaks` (`NothingLeaks`) |
| `CalLibraryProofs` | `LocksAlwaysWork` (`LocksWork`), `CleanUpIsComplete` (`NothingLeftBehind`), `AlwaysResolved` (`Resolved`) |

`ByteSpansProofs` has the lemmas on spans, concatenation and remainders that the
others share.

The assumptions are the named ones of the modules. A block, a digest and the
number of locks are not zero, and bounds and rooms are natural numbers. In
`OpensslAes` and `CommonCryptoAes` the bounds `MaxFed` and `MaxMsg` are not zero
either, since the tag a caller brings is typed as that of a message of a byte.
Initial counters are at most `CounterMax`. No worker is named like one of the two
marks of a mutex without an owner, and the builds and the libraries of an
environment are among those that `openssl_platform_init.c` has a case for. The
parts of a key and the halves of a signature are positive numbers of as many bytes
as their curve's coordinates; on one curve, keys differ in the scalar and in the
point. Nothing is assumed of the number of keys or curves or of how long a
coordinate is.

### The arguments

**`BcryptAesProofs`.** `OpenHoldsBack` says that the overflow of an open message
that is not empty has something in it. Finalize calls CNG only then, so without
it a finished message need not have had its last call. `GcmHoldsBack` bounds the
overflow in GCM, which the room needs; `MacIsOutput` says that the MAC covers what
was written, which the tag needs; `LifeOfStream` ties the message to the cipher.
`CbcKeeps`, `CbcReleasesBlocks` and `GcmKeeps` are about the remainder arithmetic.
`UpdateStep` and `FinalStep` turn the vtable entries into one effect each, so that
mode and direction no longer matter, and one lemma per operation (`UpdateKeeps`,
`FinalKeeps`, `NewKeeps`, `ResetKeeps`, `DestroyKeeps`, `RefusedKeeps`) shows that
it preserves the invariant. For the refinement, `UpdateRefines` and `FinalRefines`
map a call to a step of `CipherStream`.

**`OpensslAesProofs`, `CommonCryptoAesProofs`.** The room depends on how much the
provider may hold (`HeldShort`); that nothing is lost depends on only the context
of the message's direction holding anything (`NothingLost`). `KeepsRange` bounds
what the provider keeps back after a call, `UpdateLosesNothing` that output and
held bytes still make up the message. On libcrypto the tag is traced from the
first encryption through the buffer (`TagOfFirst`) into the decryptor
(`ArmedWithTag`).

**`BcryptCtrProofs`.** The statement that survives failures is `Aligned`: byte `i`
of the output met byte `i` of the keystream, even after a loop that stopped half
way. `InStep` says, while the good flag is up, that the counter is as many blocks
past the IV as were written; so the next slice starts on a block. `InOrder` adds
the order of the bytes for messages that no call has broken. The loop is treated
as a whole (`LoopOutcome`, `WrittenAligned`): how many slices were done decides
what was written. `KeystreamUsedOnce` follows since a position is a block and an
offset in one way only (`DivUnique`).

**`DigestProofs`.** `AllTaken` relates what the provider took to what was handed
over, `GoodIsUnfinished` rules out a second digest, `OneShotState` relates the step
of the one-shot function to the hash and to what it will return. The two action
properties are then proved action by action.

**`EccKeyPairProofs`.** `CountIsReferences` says that the count is the number of
references: without it nothing ties the value that `release` tests to the threads
that still hold the pair. The sets are finite because a step adds at most one
reference, so nothing is assumed of the number of threads. `PairStep` shows that a
call on a pair, on each platform, is a step of `EccKeyRef` or leaves it alone.

The pairs have an invariant of their own. `PairOK` says that a live pair is the one
it was made for (`Given`) and that without one nothing is owned except error
objects; that only a live pair is called upon, and only one that nobody holds is
destroyed, is `RefInv`. `Given` says of the pair more than `PartsAreTheKeys` does,
since later calls rely on it: the provider's keys are those of the key or absent;
what is owned is what the platform's destroy releases, from which `NothingLeaks`
follows; on libcrypto the buffers that are allocated have the parts, or derive
would put a second one in their place; on Windows the point is always there; on
Darwin there are coordinates only if the pair has the public part, which is all
that derive looks at. `MadeOK` says that each signature is by a key and in DER, so
that every platform reads it. Below this are three layers. The first is bytes: the
number of a string without its zeros (`Trim`), padding, hex digits, a DER number
that is read back (`DerRead`) and is at most a byte longer than its scalar, whence
`DerFits`. The second is documents: the loaders find in each document the parts
that it has (`PairLoads`, `PrivateLoads`, `PublicLoads`). The third has one lemma
per function of a platform: a constructor's outcome is `Good`, a derivation's
`Derived`, signing's `SignedWell`, on each error path; then one per action.

**`CalLibraryProofs`.** `CallbackLife` and `IdLife` say at which steps of init and
clean-up each callback is the library's. `InsideInUse` keeps the workers out
meanwhile; `LocksReady` follows the loop over the mutexes; `OwnerInside` makes a
worker in a section the owner of its mutex, from which mutual exclusion follows;
`OneTable` counts the lock tables, including those that stay when the application
replaces the callback. `SearchStep` shows that the search for libcrypto ends with
a version, or with none, whatever an earlier search left in the tables.
`Determined` says what the tables have in them once the search is over, and that
the process was aborted only where no library would have served. Looking for one
version in one place finds it where it is, and otherwise the search goes on
(`SymbolsStepGood`); every libcrypto that would serve is offered to such a step
(`AvailableIsOffered`); `SearchGood` puts the steps together for each build.

### Only model-checked

* `ParseEnds`, `CallsReturn` and `LastReleaseFrees`: liveness under fairness is out
  of the prover's reach.
* `KeyWrap`: what the loops of the key wrap compute is an induction over data, and
  the module uses bitwise operators that the prover does not have.
* `DerEncoder` and `DerDecoder`: that a document is read back as it was written is
  an induction over nested data. `WellFormed` and `CountsUntilTheListMoves` are
  about the sizes of such data, too: the bytes of a container are a fold over its
  elements, of which the prover knows nothing without induction.

## Not modelled

* The providers themselves, beyond what the code relies on.
* `bin/`: test drivers around the library.
* Random generation of keys and IVs, and their validation: inputs of the
  constructors.
* Memory allocation failures, on which the library aborts.
* Init or clean-up by two threads at once, and threads that use libcrypto before
  init has returned.
* In the key pairs: `EC_KEY_set_public_key`, whose result derive does not look at
  (`opensslcrypto_ecc.c:145`), failing for want of memory inside libcrypto; the
  caller's cursor, which `d2i_ECPrivateKey` moves (`:324`); `key_buf.len` after a
  failed export (`bcrypt_ecc.c:161`); and what part of a signature too long for the
  buffer would be appended (`bcrypt_ecc.c:138-143`; `SignatureFits` rules it out).
* Malformed DER other than a cut-off header behind an encoding.
* Counted memory in the cipher models: a tag buffer allocated a second time after a
  failed GCM finalize on Darwin (`commoncrypto_aes.c:400`) is not seen.
