# A formal model of pvpkcs11

pvpkcs11 is a PKCS #11 library over the cryptographic services of the operating
system: CNG and the Windows certificate stores (`src/src/mscapi`), CommonCrypto
and the keychain on macOS (`src/src/osx`). A core common to both
(`src/src/core`) keeps the module, its slots and sessions, the objects of a
session and the state of its operations.

Paths below are relative to `src/src`. A line such as `core/session.cpp:237` is a
place in the code.

The library takes no locks: `C_Initialize` refuses nothing but a second call
and spawns no thread. What is interleaved here are therefore the *calls* of an
application, of several sessions of it, and the failures of the platform
library in the middle of a call. Every action of a module is one complete call,
including whatever it leaves behind when it fails.

## 1. Inventory

| Component | State it keeps | Operations | Correct when |
|---|---|---|---|
| Module, slots, sessions (`core/module.cpp`, `slot.cpp`, `session.cpp`, `collection.h`) | an "initialized" flag, sessions of each slot, objects of each session | `C_Initialize`, `C_Finalize`, `C_OpenSession`, `C_CloseSession`, `C_CloseAllSessions` | a handle, which is an address cast to `CK_ULONG`, leads to one live thing (where the cast keeps addresses apart); nothing of a closed session survives at its address |
| Objects and search (`core/session.cpp`, `object.cpp`) | a vector of objects, and per session a search: active, template, position | `C_CreateObject`, `C_CopyObject`, `C_DestroyObject`, `C_GenerateKey(Pair)`, `C_SetAttributeValue`, `C_FindObjects*` | the search reports every match once, whatever happens between its calls, and ends |
| Attributes (`core/object.cpp`, `attribute.*`, `template.cpp`, `core/objects/*`, key classes of the backends) | values of the attributes, each with flags `PVF_1`..`PVF_13`; parts of a key are empty until read | create, generate, load, copy, set, get, destroy | flags are obeyed, copies agree, secrets stay where they are, reads are consistent |
| Digest, signature, verification (`core/crypto_digest.cpp`, `crypto_sign.cpp`, backends) | per session and kind: an active flag and, inside a signature, a digest with a flag of its own | Init, Update, Final, Once | a result covers what the caller gave; a question for the length changes nothing; an operation can end |
| Encryption, decryption (`core/crypto_encrypt.cpp`, `mscapi/aes.cpp`, `mscapi/crypto_encrypt.cpp`, `osx/crypto/aes.cpp`) | active flag, a buffer of bytes not yet given to the cipher | Init, Update, Final, Once | the message goes through the cipher once, in order, in whole blocks, and the padding is found |
| Windows stores (`mscapi/session.cpp`, `certificate.cpp`, `data.cpp`, `rsa.cpp`, `ec.cpp`, `ncrypt/key.cpp`, `crypt/cert*.cpp`) | key containers with an export policy, certificates and requests with links to containers, the objects sessions have of them | load, create, copy, generate, destroy | an object stands for the key it was made for; a link names a key of its certificate; nothing can be exported that was not declared so; what fails half-way is not lost |
| Elliptic curve keys (`core/objects/ec_key.cpp`, `mscapi/ec.cpp`, `osx/ec.cpp`, `osx/crypto/ec.cpp`) | the key of the platform, `CKA_EC_PARAMS`, `CKA_EC_POINT` | generate, create, copy, destroy, sign, verify | points and signatures survive the way out and back, nothing else is taken for a point |
| macOS keychain (`osx/session.cpp`, `certificate.cpp`, `rsa.cpp`, `ec.cpp`, `data.cpp`) | objects loaded from the keychain when a session opens | load, create certificates, generate; most refused | sessions and keychain agree |
| C interface (`pkcs11.cpp`) | none of its own | every C function | a refused call changes nothing, a failed one returns an error |
| Slot, token, mechanism information | tables filled when the library is loaded | reads | (constant) |
| Wrappers of the Windows libraries, random numbers, key derivation | none of their own | | |

How they interact: a C function of `pkcs11.cpp` finds the module, the module
finds the slot of the session, the slot the session, and the session the object
or the operation. An object is owned by its session. An operation
lives in a field of the session, which *replaces* it at every Init, and keeps a
pointer to the key object. The objects of a session hold handles to keys and
certificates of the platform, which other sessions can hold too.

What is hard here:

* a search keeps a position in a vector that other calls shorten and lengthen
  between its steps, and a comparison may raise in the middle of a call;
* handles are addresses, which the heap hands out again, cast to a type that is too short for them in some builds;
* single-part functions are an Update and a Final on the same object, so a
  single-part call that fails has already absorbed its data;
* the caller repeats every call that told a length or `CKR_BUFFER_TOO_SMALL`;
* a signature and the digest inside it have two flags that must agree, and the
  platform can fail between the two changes;
* a block cipher keeps what does not fill a block, and a decryption with
  padding must hold its last block back, wherever the message is cut;
* attributes are filled lazily, copied before they are filled, and guarded by flags
  that only some of the functions look at;
* an object that is stored takes several calls to the platform, each of which may fail,
  and is stored at once for all sessions, which have read the store before;
* duplicating a certificate gives the same context: objects share it, and deleting it
  from a store leaves them with a context that is in no store;
* `CKA_EC_POINT` is taken apart by looking for bytes that are 4, and its coordinates may
  have such bytes, or by a decoder that does not mind what is left behind; a signature is padded to the size of the curve and stripped again.

`PROJECT.json` lists these hazards one by one at their lines, with the properties
that would notice.

## 2. Modules and how they correspond to the code

A refused call (wrong handle, no operation, NULL pointer, uninitialized module)
that changes nothing is a stuttering step and is not written down. Operators
introduced by a comment "Mutant of X" are deliberately wrong versions of X:
`PROJECT.json` says which property each of them must break. `Next` never uses them.

### Cryptoki

| Model | Code |
|---|---|
| `initialized` | `Module::initialized` |
| `sessions[s]` | `Slot::sessions` |
| `objects[h]` | `Session::objects`, in the order of the vector |
| `find[h]` | `Session::find`: active, template, index |
| `history[h]` | not in the code: what the search of `h` has told its caller |
| `Loads` | what `LoadMyStore`, `LoadRequestStore` and `LoadCngKeys` (or the keychain) put in a new session |
| `HandleOf` | the cast of an address to `CK_OBJECT_HANDLE` or `CK_SESSION_HANDLE` (`core/object.cpp:11`, `core/session.cpp:93`) |
| `Reached` | `Session::GetObject`, which takes the first object with the handle |
| `FindObjects`, `FindObjectsRaises` | the loop of `Session::FindObjects`, to its end or to the object that raises |
| `DestroyObject` | `Module::DestroyObject` with `Collection::remove` |

An object is an address and a *kind*, which says how it compares with each template:
it matches, differs, or makes `Object::GetValues` raise (an attribute is missing
or sensitive). `C_SetAttributeValue` moves an object between kinds.
Addresses are drawn from the finite sets `SessionIds` and `ObjectIds` and are
free again once released, as on the heap. A handle is not an address: `CK_ULONG` is an `unsigned long`
(`pkcs11t.h:56`), 32 bits wide in a 64 bit build for Windows (`binding.gyp` has one), so that the cast may
give two live objects one handle. `HandleOf` is therefore a constant of which nothing is assumed, and a
call that names an object reaches the first with its handle. With an identity every object is
reached, so each behaviour of another cast is, as far as objects go, one of the identity with fewer calls: `cryptoki_safety` uses the identity,
`cryptoki_live` a cast that makes two objects one handle, and the theorems hold for every cast. `NoRepeat` and its kin speak of objects: of two with one handle the caller is told the same handle twice. Two sessions with one handle are in different
slots or in one; which of them a call reaches is left open. `C_Finalize` clears the flag only: sessions
and searches survive it, as in the code.

### Search

The abstract specification of a search: what matches when it begins is owed; what is told is no
longer owed; where the objects end, nothing is owed. It knows no positions and no order. `open` holds
the searches for which the promise stands: destroying an object or a call that fails ends it, and a new search
renews it. `Cryptoki!Promise` is the instance: `owed` is what has matched all along and has not
been told, `ended` the searches whose index has reached the end of the vector. `SearchSpec` states that all
sessions implement it at once.

### Operations

One session's digest, signature and verification. `op[k].active` is the flag of
the operation, `op[k].alive` whether the digest in it exists, `op[k].data` what the
digest has absorbed. `parts` and `partial` remember what the caller
did. `Finals` gives, for a buffer that is missing, too small or large enough, the
outcomes of `Final` on both platforms, failures of the platform included;
`Once` is `Fed` followed by `Finals`, as in `core/crypto_sign.cpp:30-61`. `FinalUnasked` is the
`Final` of a signature without a digest that still tells a length: `RsaPSSSign::Final` does not ask whether the operation is
active (`mscapi/crypto_sign.cpp:248-286`); `pss` says that the signature object of the session is one. On macOS
`SignInit` and `VerifyInit` ask whether the *decryption* is active
(`osx/session.cpp:575`, `:615`), hence `decrypting` and `Busy`.

### Encryption

One of the two members `encrypt`, `decrypt` of a session. `op.out` is the sequence of
input bytes that have gone through the cipher and `op.buffer` those that wait, so
the cipher itself does not appear. `Kept` is the rule for what is left over,
`NotRun` what an `Update` leaves when the cipher was only asked for the length or
failed, `Finals` what `Final` leaves. `Once` writes the output of an
`Update` and of a `Final` one behind the other (`core/crypto_encrypt.cpp`).
`AES-GCM` and `RSA-OAEP` take their message in one call.

### Attributes

RSA private keys, whose attributes show every sort of flag. Each attribute of
the model stands for those the rules do not tell apart. `Flags` are the `PVF_n` of
`core/objects/private_key.cpp`, `rsa_private_key.cpp` and `storage.cpp`. `Refused` is the
check of `Object::GetValues`, `FilledWith` the switch of the backend's `GetValue`,
`SetOutcome` `Object::SetValues`, and `Copy` and `Generate` the session functions with the
assignments of the key classes. `told` is not in the code: it remembers what reads have returned.

### TokenStore

| Model | Code |
|---|---|
| `keys[c]`, `exports` | the key containers of the software provider, and those whose `NCRYPT_EXPORT_POLICY_PROPERTY` allows export |
| `certs[x]` | a `CERT_CONTEXT`: certificate or request, its key pair, the container its key provider information names, the store it is in |
| `open`, `objects[o]` | sessions and their objects: class, key pair, `CKA_TOKEN`, and `at`, the container or context behind the object |
| `OpenSession` | `LoadMyStore`, `LoadRequestStore`, `LoadCngKeys` |
| `Listings` | `Provider::GetKeyNames`, which may list no key (`mscapi/ncrypt/provider.cpp:116`) |
| `CreateCertificate`, `CopyCertificate`, `Linkings` | `X509Certificate::CreateValues`, `CopyValues`, `AddToMyStorage` |
| `CreateRequest`, `CopyRequest` | `X509CertificateRequest` in `mscapi/data.cpp` |
| `GenerateKeyPair`, `CopyKey`, `KeyLinkings` | `RsaKey::Generate`, `EcKey::Generate`, `CopyKeyToProvider`, `LinkKeyToCertificate` |
| `DestroyStored`, `DestroyKey` | the `Destroy` methods |

A call to Windows may fail if its name is in `Faults`. A call of the library that fails
before it has changed anything is a stuttering step; one that fails later and leaves
something behind is an action of its own (`CreateRequestFails`, `GenerateKeyPairFails`,
`CopyKeyFails`, `CopyCertificateFails`, `DestroyStoredFails`). `CertDuplicateCertificateContext`
returns the context it is given, so a context is shared by copies; it is also taken to
be that of every session which found it in the store. `Kept` frees a context that is in no store
with the last object that has it. Names of containers are random, which `FreshContainer`
states. `LinkKeyToCertificate` compares with a public key that it has freed
(`mscapi/ncrypt/key.cpp:129`): whether it finds a certificate is left open.

### EcKeys

The public half of elliptic curve keys. `EncodedPoint` is what a key object tells,
`ImportedMscapi` and `ImportedOsx` are the keys the two platforms make of what they are given: the first
looks for the second byte that is 4 and takes the length from the curve, the second decodes an
OCTET STRING and takes the curve from its length. The decoder takes a length in more bytes than needed and
does not look at what follows the string, so `Content` is the string at the *head* of the octets. `ToWebcrypto` and `FromWebcrypto` turn the two
numbers of a signature into padded halves and back. The platform is a variable that `Init`
chooses and nothing changes, so that one run covers both. `given` is not in the
code: it remembers what the object was created from. The private value of a key is left
out (see below).

### Stream

The abstract specification of an operation: a message that is passed in parts, goes through
as it was passed, is answered once, and may break off, but only in a call that returns an error. It has four variables:
`open`, `given`, `passed`, `reply`. The refinements are instances:

* `Encryption!Pipe`: `open` is an active operation that no failed call has spoilt,
  `passed` the bytes that have gone through the cipher;
* `Operations!Digests`, `Signatures`, `Verifications`: `passed` is what the
  digest has absorbed, `given` the parts its caller has passed.

`PipeSpec` and `AbsorbedSpec` state that the modules implement them, with exceptions that they name, each of them a call that
returns `CKR_OK` and breaks the promise:

* `AskedToDeath`, on Windows: a `C_EncryptFinal` or an OAEP call that asks for the length ends the
  operation (`mscapi/aes.cpp:231`, `mscapi/crypto_encrypt.cpp:115-149`), and a
  `C_EncryptUpdate` that asks for it takes bytes out of the buffer (`mscapi/aes.cpp:182`). The runs `encryption_length` and
  `encryption_retry` show what that does to the caller;
* `AskedInOnce`: a `C_Sign` that asks for the length absorbs its data (run `sign_twice`);
* on macOS also a digest that is asked for its length, which ends it (`DigestAsked`), and a `SignInit` or `VerifyInit` that replaces a running
  operation; the theorems about both platforms assume a caller who does neither.

`MCCryptoki`, `MCOperations`, `MCEncryption`, `MCAttributes`, `MCTokenStore` and `MCEcKeys` give the
constants values for TLC. `CryptokiProofs`, `SearchProofs`, `OperationsProofs`, `EncryptionProofs`,
`AttributesProofs`, `TokenStoreProofs` and `EcKeysProofs` hold the theorems.

## 3. Runs

| Run | Checks | Instance |
|---|---|---|
| `cryptoki_safety` | `TypeOK`, `ClosedHoldNothing`, `ReportedBehindIndex`, `SearchComplete`, `NoRepeat`, `ShortMeansAll`, `SearchSpec` | 2 slots, 2 sessions, 3 object addresses, 3 kinds |
| `cryptoki_live` | `SearchEnds` | 1 session, 3 objects, two of them with one handle, one object per call |
| `operations_mscapi` | `TypeOK`, `AbsorbedIsPassed`, `FirstResultCovers`, `LengthKeepsOperation`, `DroppedWithAnswer`, `OperationEnds`, `AbsorbedSpec` | operations of up to 2 parts, failing platform |
| `sign_twice` | `ResultCoversData` (violated) | no failures |
| `encryption_mscapi` | `TypeOK`, `StreamKept`, `WholeBlocks`, `LastBlockHeld`, `ResultCovers`, `PipeSpec` | blocks of 2, parts of up to 3, messages of up to 6 bytes, failing platform |
| `encryption_length` | `FinishDelivers` (violated) | no failures |
| `encryption_retry` | `StreamKeptOnRetry` (violated) | no failures |
| `attributes_mscapi` | `TypeOK`, `CopiesAgree`, `AllOrNothing`, `ReadsAgree` | 2 objects, 1 key, templates of up to two settings |
| `secrets_or` | `SecretsStay` (violated) | 1 object, one setting per template |
| `token_store` | `TypeOK`, `LinksNameOwnKey`, `ExportOnlyIfExtractable`, `TokensBacked`, `LossesAreOwn`, `SessionObjectsStayOut`, `StoredWithObject` | 2 sessions, 3 objects, 2 key pairs, 2 containers, 2 contexts, one pair extractable, failing links, additions, reads and lookups, listings that come out empty |
| `copy_destroys` | `SessionDestroyKeepsStore` (violated) | the same, all failures |
| `ec_keys` | `TypeOK`, `ReadCreatesSame`, `ImportedAsGiven`, `SignatureVerifies` | 2 objects, curves of sizes 1 and 2, bytes 0 and 4, both platforms |

Why the bounds are enough:

* three addresses for objects let a search stand between two of them, destroy one
  on either side and put a new one at the address of the old; two sessions let
  addresses and objects move from one to the other; a batch of two lets a call report
  less than it passes; kinds cover the three outcomes of a comparison;
* an operation of two parts loses or repeats one of them, and numbers of parts tell; that parts are not swapped, for which they would have
  to be different, is left to the proof, so that the same run can check a liveness property;
* with blocks of two, a part of up to three bytes is nothing, less than a
  block, a block, and a block with a remainder, and a message of six crosses a
  boundary three times. `EncryptionProofs` removes the bound;
* a copy, or an object that the application has brought along, is a second object beside the first; templates of two settings are refused at the
  first, the second or not at all. More objects and keys, the booleans of a wrong size and macOS are covered by `AttributesProofs`;
* two sessions, two containers and two contexts let one session change the store behind
  the back of the other, put a new key at the place of an old one, and share a context; three objects
  let a session hold a key, its certificate and a copy of one of them. A pair that must not be
  extractable beside one that may shows that policies are not mixed up. A deletion that Windows refuses
  leads to states that a context which another session has deleted already leads to as well, and a legacy key that cannot be
  acquired to a session with fewer objects, so only `copy_destroys` includes these two failures; that `token_store` is complete without them is not taken for granted, as
  `TokenStoreProofs` covers every value of `Faults`;
* curves of size 1 and 2 give points of 3 and 5 bytes, and with `LongFrom = 5` the length of the
  shorter one takes one byte in DER and that of the longer two, as for P-256 and P-521; bytes 0 and 4 are leading zeros
  and what the search for a point stumbles over. Points with as many bytes behind them as would make a key on the other curve are among the inputs. `MCEcKeys` also assumes, evaluated by TLC, that for the
  sizes 32, 48 and 66 of the code `OctetHeader` is 04 41, 04 61 and 04 81 85.

Symmetry is used only in runs without liveness properties, over sets whose members the module
never tells apart. The check for deadlock is off in the runs of `Attributes` and
`TokenStore`: on macOS a private key cannot be destroyed, so a session may come to
hold all it can hold, and a store that is full of what nothing deletes ends the model, not the
program.

### Fairness

`Cryptoki!FairSpec` assumes that a caller who has started a search keeps calling
`C_FindObjects` (weak fairness of `Continue`): that is the loop every application writes.
It is not assumed that the calls succeed, nor that other calls stop. `Operations!FairSpec` assumes that the
caller of an operation asks for its result with a large enough buffer, again and again, until it gets one (weak fairness of
`Answers`): a call that fails may be repeated, and the platform does not fail every time. `OperationEnds` is checked with failures and
excepts one fate: when `BCryptFinishHash` fails, the digest is gone and the signature remains active (`Wedged`), and can neither finish nor
be started again (`mscapi/crypto_digest.cpp:99`). `NothingIsWedged` proves that this takes a failure of the platform.

### What the violated runs show

* `sign_twice`: `C_Sign` asked for the length, or given too small a buffer, has absorbed its
  data; the repeated call signs them twice (`core/crypto_sign.cpp:38`).
* `encryption_retry`: `C_EncryptUpdate` moves bytes out of its buffer before it knows
  that the output fits (`mscapi/aes.cpp:182`).
* `encryption_length`: `C_EncryptFinal` that only asks for the length of the last part returns
  `CKR_OK` and ends the operation, with bytes still in the buffer (`mscapi/aes.cpp:231`); so does a
  single-part call of RSA-OAEP (`mscapi/crypto_encrypt.cpp:115-149`).
* `secrets_or`: a read is refused if a key is sensitive *and* not extractable (`core/object.cpp:30`), where the comment at
  `core/attribute.h:27-28` says *or*. The key that the run reads is neither, which is how `PrivateKey` starts (`core/objects/private_key.cpp:11-17`).
* `copy_destroys`: a copy of a certificate has the context of the original, so destroying a copy that is
  only a session object deletes the original from its store (`mscapi/certificate.cpp:259`).

Most are bounded by theorems, which say how a caller stays clear of them (section 4): the multiple-part functions sign
only what they were given (`PartsAreCovered`), and so do the single-part ones if the first buffer is large enough
(`RoomIsCovered`); no retry loses bytes on macOS (`RetriesAreSafe`), nor on Windows if none is needed
(`RoomIsSafe`); a caller who always brings a buffer is told when an operation breaks off (`BuffersKeepPromise`); only copies reach a store (`OnlyCopiesReachStores`).

### Met while modelling, not the subject of a run

Objects and search:

* the index of a search is a position in the vector of objects; destroying an object that was found moves
  the others down and the next call passes over one (`core/session.cpp:237`, `core/module.cpp:956`):
  `SearchComplete` is stated for searches during which nothing is destroyed;
* a `C_FindObjects` that fails has passed over matches it does not report
  (`core/session.cpp:237-243`; the model has it as `FindObjectsRaises`);
* in a 64 bit build for Windows handles are half of an address (`core/object.cpp:11`, `core/session.cpp:93`), so that two live
  objects or sessions may have one and the later of them cannot be reached.

Operations:

* `BCryptFinishHash` failing wedges a signature, see under Fairness;
* a digest on macOS ends when asked for its length (`osx/crypto/digest.cpp:102`), and returns `CKR_OK`;
* `C_SignFinal` that asks for the length of an RSA-PSS signature is answered when no signature is active
  (`mscapi/crypto_sign.cpp:248-286`; the model has it as `FinalUnasked`);
* on macOS `SignInit` and `VerifyInit` ask whether the decryption is active, so they throw a
  running signature away (`osx/session.cpp:575`, `:615`; there `DroppedWithAnswer` does not hold);
* `C_SignInit` asks the mechanism for `CKF_VERIFY`, not `CKF_SIGN` (`core/session.cpp:363`);
* on Windows `Update` and `Final` of AES do not ask whether the operation is active, and the
  buffer keeps its bytes after the end;
* the length of an elliptic curve signature on macOS is told and checked as `keySize`, and twice that is written
  (`osx/crypto/ec.cpp:201`).

Attributes and keys:

* `PVF_11` and `PVF_12` ("cannot be changed once set") are declared and never
  tested (`core/object.cpp:66`, `core/attribute.h:43`);
* `CKA_COEFFICIENT` reads as empty until `CKA_PRIME_1` has been read (`mscapi/rsa.cpp:170`);
* `AttributeBool::Check` is never called (`core/attribute.h:144`);
* macOS decodes `CKA_EC_POINT` without looking at what is left behind the string, and takes the curve from the
  length of the string; Windows counts from the end with the curve of the template. A point of P-256 with 32 bytes behind it and P-384 in the template
  is a key on P-256 for the one and on P-384 for the other (`osx/ec.cpp:44`, `core/objects/ec_key.cpp:53-78`);
* `FillPrivateKeyStruct` of an elliptic curve key exports a public blob on Windows and reads past it
  (`mscapi/ec.cpp`), and starts one byte early on macOS (`osx/ec.cpp`); `EncodePoint` is called by nothing and could only raise (`core/objects/ec_key.cpp:118`);
* `C_DeriveKey`: the switch lacks a `break` and always raises (`mscapi/session.cpp:567`); if it did not,
  both platforms would add the base key where the derived key is meant (`mscapi/session.cpp:579`, `osx/session.cpp:479`).

Stores:

* calls that fail on Windows leave keys behind, under random names, which only a later session can find;
* the loop that lists the keys tests its status before anything has set it (`mscapi/ncrypt/provider.cpp:116-122`), so that a session may open
  without keys or fail to open (`Listings`);
* `LinkKeyToCertificate` uses a structure that has been freed (`mscapi/ncrypt/key.cpp:129`);
* `AddToMyStorage` on macOS does not look at the result of `SecCertificateAddToKeychain`
  (`osx/certificate.cpp:219`); `C_OpenSession` fails there on a keychain without certificates
  (`osx/session.cpp:234`); keys are always token objects and cannot be destroyed.

Interface: `C_GetSlotList` and `C_GetMechanismList` do not set the count when they are given a list.

## 4. Proofs

TLAPS proves, for all values of the constants that satisfy the named assumptions:

* `CryptokiProofs`: `TypeCorrect`, `WideHandlesIdentify`, `ClosedSessionsHoldNothing`,
  `ReportedStayBehind`, `SearchesAreComplete`, `SearchesNeverRepeat`.
  Completeness is not inductive as it stands. Its strengthening `SearchInvariant` has four parts:
  what was reported lies behind the index; steady objects are still in the
  list; steady objects match; and every steady object behind the index has
  been reported, if nothing was destroyed and nothing raised. The lemmas follow the ways the list
  can change: append, remove, change in place. Removing at `i` maps positions below `i` to
  themselves and those above one down, which keeps "behind the index" because the index
  does not move. `NoRepeat` follows, since two positions with the same address are one. All this holds for every
  `HandleOf`; `WideHandlesIdentify` assumes one that keeps addresses apart, and proves that every object and session is then reached by its handle.
* `SearchProofs`, which rests on `CryptokiProofs`: `ImplementsSearch`, `PromiseSuffices`, `ShortBatchesEnd`, `EveryCallEnds`,
  `SearchesAdvance`. A step of the module is a step of `Search` in *every* session, so each action is looked at
  from the session it is called for and from the others; whatever an action does to a session in which nothing is
  searched, or no promise stands, is a `Begin`, a `Drop` or nothing. That the end settles everything is
  completeness again: at the end of the vector every steady object is behind the index. `PromiseSuffices` is about
  `Search` alone: its promise is enough for `SearchComplete` at the end, so the abstract specification leaves out nothing that
  matters to the caller. The loop of a call ends at the end of the vector at the latest (`LoopStops`), and at the least
  position at which it may (`LoopStopsOnce`); what it hits are as many new objects as hits, since addresses are unique and none behind the index
  was told before (`ReportedOncePerHit`), which is why a full buffer and `Cardinality(...) = max` are the same thing. `SearchesAdvance` is the step behind `SearchEnds`: a call that has room for a handle gets further.
* `OperationsProofs`: `TypeCorrect`, `AbsorbsWhatIsPassed`, `FirstResultsCover`. The
  inductive invariant adds to these that an operation which has given its result is not active
  (`ResultEnds`). `Fair` states what any outcome of `Finals` may do to the operation:
  a call that leaves it running leaves its data alone. For Windows also
  `LengthsKeepOperations` and `DropsAreAnswered` (the latter needs that an operation that
  was never given anything has passed nothing, `NothingPassed`) and `ImplementsStream`: a step is examined once, for an
  operation of any kind, and is one of the steps of `Stream` on what the operation has been asked
  and has absorbed. For both platforms: `DigestsImplementStream`, for callers who do not ask a digest of macOS for its length, and
  `CarefulCallersGetStream`, where a caller who also never starts an active operation over (`InOrder`) and asks no `C_Sign` for a length while it
  passes data is given the promise of `Stream` for all three; on Windows the second start is refused, and the digest keeps. `SignatureLengthsKeep`: of the three operations only the digest of macOS is changed by a question
  for the length. For a platform that does not fail: `NothingIsWedged` (no operation is active without its
  digest, `NeverWedged`) and `FinalsEndOperations`, the step behind `OperationEnds`. `PartsAreCovered` and `RoomIsCovered` bound the
  finding `sign_twice`: a result covers more than was asked only after a single-part call that did not finish (`CoveredStep`), and
  these callers make none (`PartedStep`, `RoomyStep`).
* `EncryptionProofs`: `TypeCorrect`, `StreamIsKept`, `LastBlockIsHeld`, `ResultsCover`, for
  *every* block size and every way to cut a message. Cutting a sequence and joining the pieces
  gives it back (`CutAndJoin`), hence feeding an operation moves bytes from one sequence to
  the other (`FedMoves`); `Fair` says what an outcome may do, `ReturnInv` that a fair outcome keeps the
  invariant. The invariant adds that GCM and OAEP never use the buffer (`WholeUnbuffered`).
  `BlocksAreWhole` rests on lemmas about division by a block size that is not known
  (`Division`, `SumMod`, `DropMod`): what `Kept` leaves makes the rest a multiple of the block
  (`FedFits`), and multiples add up. `ImplementsStream` follows from what an outcome may do; it excepts the calls of `AskedToDeath`. `MacKeepsPromise`
  has no exception, since on macOS the base class refuses a call without a buffer, and `BuffersKeepPromise` is about callers who always bring one.
  `CutsLeaveNoTrace`: an operation stands where one call with the whole message would have brought it, since two ways to cut
  a sequence that leave rests of the same length leave the same (`CutWhereJoined`). `RetriesAreSafe` and `RoomIsSafe`
  bound the finding `encryption_retry`, for callers of the multiple-part functions: a refused call spoils nothing unless it has
  already moved bytes, which on Windows takes a buffer too small for them or a failing cipher (`QuietStep`).
* `AttributesProofs`, for both platforms, all numbers of objects and keys and all templates:
  `TypeCorrect`, `CopiesStayAlike`, `ReadsStayAlike`. The invariant needs that
  a part of an object is empty, from the application, or from the key of the
  object (`PartsOwned`), that an address without an object holds nothing (`Vacant`), that
  objects of one key agree on whether they may be copied (`CopyableShared`), and that what was told
  is still what the object would tell (`ToldStays`).
* `TokenStoreProofs`, for every set of failing calls: `TypeCorrect`, `LinksAreOwn`, `ExportsAreDeclared`,
  `KeysStayBacked`, `SessionObjectsAreOut`, `NothingStoredAlone`. The invariant has a part for keys,
  one for certificates and one for objects. `LinksNameOwnKey` speaks of stored certificates only;
  what is inductive is the same of every context, those in memory included, since a copy
  carries its link into the store. `TokensBacked` needs that names are not used again while
  an object still has one. `NothingElseIsLost` (`LossesAreOwn`): what leaves a store leaves with the object that is destroyed, and a key only with an object
  of its own pair. `OnlyCopiesReachStores` bounds the finding `copy_destroys`: while no session object gets the context of a token
  object (`Apart`), the contexts of session objects stay out of the stores (`SessionContextsOut`).
* `EcKeysProofs`, for every set of curves of different sizes and every byte value: `TypeCorrect`, `RoundTrip`, `CreatesWhatIsGiven`, `SignaturesComeBack`. That looking for the second 4 finds the
  point: the first is the tag, and neither the length of the string, which is odd, nor the 129 before
  it is a 4. The other platform: the head of the octets says where the content begins and ends (`OneStart`), and its length says
  the curve, if sizes differ. Signatures: stripping what was padded gives back a
  number that did not begin with zero. Beyond what the run checks: `OneKeyImported`, neither platform can take the same octets for
  two keys; `PlatformsAgree`, octets that *both* platforms take and that have nothing behind the string are the same key on the same curve to both,
  although one goes by the curve in the template and the other by the length; `OneEncoding`, a pair of numbers has one signature that verifies.

Every safety invariant, every action property and every refinement of the passing runs is proved, but for `AllOrNothing`, which says of
`SetOutcome` alone what the run finds out. Only
model-checked are also the liveness properties (`SearchEnds`, `OperationEnds`), since fairness is outside what the
prover handles; of their safety halves, that each step they wait for gets nearer the end, `SearchesAdvance` has the first, and `FinalsEndOperations`
the second for a platform that does not fail. What the assumptions say of the constants: members used as marks
(`None`, `NoKey`, `Memory`) are none of the values, sizes are positive, buffers and
bounds are numbers.

## 5. Not modelled

* Calls whose behaviour C++ does not define: copying an object without a key, destroying a
  certificate that has lost its context, `Update` of a cipher whose Init raised, NULL output of a single-part encryption,
  and an operation whose key has been destroyed: it keeps a raw pointer (`mscapi/crypto_sign.cpp:47`).
* The macOS keychain. What its calls do is decided by the Security framework and not by how the code uses it:
  whether `SecItemDelete` finds the item of a certificate that was made from data, which keychain
  `SecCertificateAddToKeychain` writes to, whether the key of a certificate carries the label that `Open`
  compares. A model would be about the framework. `Cryptoki` sees that a session is filled when it opens,
  `Attributes` that a key is loaded or generated.
* Key derivation. It never changes anything: the slots of macOS do not list its mechanism, and
  the switch on Windows falls through to an error.
* The private value of an elliptic curve key: reading it exports the wrong blob on Windows and the wrong
  bytes on macOS (section 3), so there is no value for a property to be about.
* The ciphers, digests and signatures themselves, initialisation vectors, tags and their lengths.
* Login and PIN functions (refused), random numbers, information functions, logging,
  and the wrappers around the handles of Windows, whose failures are the `Faults` of the other modules.
* Other classes of objects than RSA private keys, as far as attributes are
  concerned: they run through the same functions with other tables.
* Allocation: a session that closes in the middle of a search leaks its
  template; the model does not count memory.

## 6. Plan

What remains, in the order of what it would add:

1. `KeyUse`: the composition of objects and operations, with the keys of operations that outlive
   their objects, once the code defines what happens then (a reference instead of a raw pointer).
2. The keychain, once it is known what its calls do; `TokenStore` is the pattern.
3. The private values of elliptic curve keys and key derivation, when they can succeed.
