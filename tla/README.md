# A verification of EmexFoundation in TLA+

EmexFoundation (evObj) is a small object runtime in C in the style of
CoreFoundation: reference-counted objects with classes, and on them strings,
arrays, memory pages, groups of pages and file handles. This directory holds
TLA+ modules that model it, TLC runs that check them on small instances, and
proofs checked by TLAPS. Sources are quoted by file and line; `.c` files are in
`src/` and headers in `include/EmexFoundation/` of the repository.

## 1. Inventory

| Component | Source | State it keeps | Operations |
|---|---|---|---|
| Reference counting | `runtime/EFBase.c`, `runtime/EFAllocator.c` | header of each object: `is_stack_obj`, `refcount`, `typeID`, `allocator` | `EFObjectAlloc`, `EFRetain`, `EFRelease`, `EFObjectDealloc`, `EF_STR` |
| Class registry | `runtime/EFBase.c` | `ev_class_table`, `ev_class_next`, the `typeID` of each class, a `pthread_once_t` for each built-in class | `EFClassRegister`, `EFClassGetByID`, `EF*GetTypeID` |
| Array | `EFArray.c` | `items`, `items_cnt`, `items_cap`, `isMutable`, `callbacks` | create, copy, append, insert, remove, get, equal |
| Page | `EFPage.c` | `mem`, `length` | create, getters |
| Page group | `EFPageGroup.c` | one array of pages | create, copy pages, extend, merge, read, write |
| File handle | `EFFileHandle.c` | virtual: `offset`, `endOffset`, a page group; real: a descriptor | create, read, write, truncate, seek, sync, length |
| String | `EFString.c` | `buffer`, `length`, `encoding`, `isInlined`, `isMutable` | create, copy, get, append, trim, split, format, equal |
| Number | `EFNumber.c` | a value and its type | create, get, compare, equal |
| Data | `EFData.c` | a buffer | create, get |
| Equality, description, log | `runtime/EFBase.c` and the class handlers | none | `EFEqual`, `EFCopyDescription`, `EFLog` |

How they interact:

- every object is allocated through the registry (`EFAllocator.c:41`) and torn
  down through it (`EFBase.c:96`): a number that does not find its class ends
  the process at an assertion;
- containers call back: an array's append and remove callbacks retain and
  release its items (`EFArray.c:52-61`), and the last release of a container
  runs its `deinit`, which releases what it holds, recursively;
- a file handle owns a page group, which owns an array, which owns pages; the
  group is the only user of its array;
- a string refers to characters behind its header, in a buffer of its own, or
  in memory of somebody else: of a client, of a literal, or of another string
  it was copied from; splitting makes an array of new strings;
- only the counter, the registry and `pthread_once` synchronize. All the other
  objects are for one thread at a time.

What is hard here: the counter and the registry under interleaving and weak
memory order; allocation failure in the middle of calls that make several
objects; arithmetic at page boundaries and at the largest offset; a virtual
file whose end, position and backing store move separately; strings that share
a buffer which one of them changes, moves or frees; bytes that may or may not
be characters, and separators inside them. `PROJECT.json`
lists the hazards, each at its line and with the properties that cover it.

What makes each component correct:

- **counter**: it equals the references owned; teardown happens once, after
  every access, and always;
- **registry**: a number, once returned, finds its class; all callers get one
  number for one class; only a full table refuses;
- **page group**: a flat store, whatever the pages; no copy leaves a page or
  the caller's buffer;
- **virtual file**: a sparse file whose calls happen at once or not at all;
- **string**: each string is a text of its own, in spite of shared and moving
  buffers; every buffer has one owner; a text complies with its encoding;
  validation is that of RFC 3629; the components of a split, joined, are the
  string;
- **number**: equal numbers have one type and one value;
- **object graph**: every count is accounted for, nothing dangles, nothing
  leaks, on every failure path.

## 2. Modules

| Module | What it is |
|---|---|
| `EFOwnership` | abstract: what a reference promises |
| `EFRefCount` | one object shared by threads; implements `EFOwnership` |
| `EFRefCountProofs` | theorems about `EFRefCount` |
| `EFClassRegistry`, `EFClassRegistryProofs` | the table of classes, and theorems about it |
| `EFByteStore` | abstract: a flat store of bytes |
| `EFPageGroup`, `EFPageGroupProofs` | the transfers of a page group; it implements `EFByteStore`, proved |
| `EFFile` | abstract: a sparse file with a position and an end |
| `EFFileHandle`, `EFFileHandleProofs` | a virtual file handle on an `EFByteStore`; it implements `EFFile`, proved |
| `EFObjectGraph`, `EFObjectGraphProofs` | arrays, pages, groups and files on one heap with their counts, and theorems about it |
| `EFText` | abstract: each string is a text of its own |
| `EFString`, `EFStringProofs` | strings and the memory their characters are in; it implements `EFText`, proved |
| `EFStringEncoding` | the tests of the validation, and the characters of RFC 3629 as a reference |
| `EFStringValidation`, `EFStringValidationProofs` | the loop of the validation; its tests agree with the RFC and it decides RFC 3629, proved |
| `EFStringSplit`, `EFStringSplitProofs` | the loop of the split, on bytes; it cuts no character and its components are right, proved |
| `EFNumber` | numbers, with the type they do not get |
| `MC*` and `*.cfg` | instances for TLC |

`EFFileHandle` uses the actions of `EFByteStore` for its page group (`Group ==
INSTANCE EFByteStore WITH ret <- moved`), and the theorem
`GroupImplementsByteStore` says why it may. `EFObjectGraph` uses `EFRetain` and
`EFRelease` as single steps: one thread runs there, and `EFRefCount` covers
several.

Some operators come in a second form just before the one that is used
(`LastByReload` and `WasLast`, for example). The second form is a plausible bug
and no part of the specification: with it in the place of the first, a property
of the run fails. `PROJECT.json` pairs them under "mutants".

### EFRefCount

One object. A reference is a token with a holder; the counter is separate, so
that "the counter is right" is a statement. `Retain` is `EFBase.c:69-79`.
`EFRelease` is `ReleaseStatic` (83-88) or `ReleaseDecrement` (91) followed by
`ReleaseLast` and `Dealloc` (92-102) or `ReleaseOthersRemain` (104-108);
between them other threads run. `Use` is any other call that reads or writes
the object. The clients' contract is in the guards: only who holds a reference
calls, and a reference is passed on over a channel that synchronizes
(`HandOver`, external). A release frees what its caller owns and so does no
more than one for each token: an over-release by a client is not modelled, and
`NoUseAfterFree` says that without one the exit at `EFBase.c:104` is never
reached.

Memory order is a ghost: `ordered[t]` are the threads whose latest access
happens before what `t` does next, `published` those that an acquire of the
counter would order. A relaxed `fetch_add` continues the release sequence and
publishes nothing; a release `fetch_sub` publishes what its thread has seen;
the acquire fence takes what is published. `TeardownAfterEveryAccess` then says
that no access races with `deinit` or `free`.

### EFClassRegistry

`EFClassRegister` is three shared writes with a place to be interrupted between
any two: `Claim` (121-125), `Assign` (127), `Publish` (128). `GetTypeID` goes
through `pthread_once`, whose contract is `EnterOnce`, `SkipOnce` and
`ReturnToOnce` (external). `Lookup` and `Construct` are the two uses of a class
in `__EFAllocatorDefaultAllocate`. A class of a client is registered by one
call: a second registration would give the class another number, which the
code neither forbids nor expects. The counter `ev_class_next` is 64 bits wide
and is not wrapped: it moves by one for each registration.

### EFPageGroup

`count` pages with lengths `start[p + 1] - start[p]`, all positive.
`__EFPageGroupXfer` is `Xfer` (the checks, 257-289), `WalkOn`/`WalkEnds` (the
search for the first page, 291-300), `Copy` (one page of the second loop) and
`Return`. `EFPageGroupExtend` and `EFPageGroupMerge` are one step each: nobody
else sees a group while they run. Their effect on objects and their failures
are in `EFObjectGraph`; a failure changes no byte and is a stutter here. A
caller's buffer has at least as many bytes as the caller says.

The refinement to `EFByteStore` completes a running transfer at once: bytes the
loop has still to copy count as copied (`Pending`).

### EFFileHandle

The fields `vfd.offset` and `vfd.endOffset` and the flat store of the group.
A write is `EFFileHandleWrite` (start), any number of `Extend`, then
`WriteEnds` or `ExtendFails`. A truncation is `EFFileHandleTruncate`, `Extend`s,
`TruncateEnds`, and `ZeroChunk`s up to `ZeroEnds`. A read and a seek are one
step. `EFIndex` is a number of `-(MaxIndex + 1) .. MaxIndex`; the sum at line
210 that is not checked wraps (`Wrap`), which is what builds of this code do;
the sum of a seek is checked as the code checks it. `MaxSize` stands for the
memory there is: it is smaller than the largest offset by a buffer at least, as
it is on every machine. `EFPageGroupExtend` may fail earlier too.

Facts the model shows, which a reader of the header may not expect: truncation
answers -1 even when it has done its work (line 288); it zeroes but does not
move the end; and a file is as long as its furthest *position after a write*,
one of zero bytes included (the run `file_end`).

### EFObjectGraph

A heap of five addresses with kinds, counts, items, capacities, callbacks and
mutability. A call is a program, the sequence of steps of its C function, and
each step that can fail carries the steps of its failure path
(`EFPageGroupCreate` is the best example). `New` and the growth of an array may
always fail. The last release pushes the `deinit` of the class in front of the
rest. `client` counts what the client owns and `local` what the running call
owns. The client calls only on objects it holds, and may retain what it finds
in an array it holds.

`RefsAccounted` counts the other references at every step, in the middle of a
teardown too: `Places` are the slots of containers that still keep what is in
them (one that is being torn down no longer does, and neither does a slot whose
item is leaving), `Drops(r)` are the releases of `r` that a teardown still owes.

### EFText and EFString

`memory` is a function from places to sequences of characters, empty where
nothing is allocated; a place is a string (its inlined characters), an address
of the heap, or a buffer of a client. A string is a place and a length. All
creations go through `StringCreate` (`EFString.c:183-232`): the length up to a
terminator (195), the validation (196), and then a copy to the heap, a copy
behind the header, or the client's buffer as it is. `CreateCopy` passes on
`isInlined` of the original (264), and a mutable string is not inlined: this is
how a copy that is not mutable comes to share the buffer of a mutable string.
`Free` is the last release. `TrimWhitespace` and `AppendString` are each one
step, with the memory they leave: what `memmove` does not reach keeps its old
characters, and `realloc` stays or moves, and when it moves frees. A `realloc`
that moves the buffer while another string is in it is only taken when that
string is not the one being appended: reading it would be undefined.

A character stands for a well-formed sequence of bytes, so that lengths are
counted in characters here; `x` of the run stands for malformed bytes. Mutable
strings of the code keep capacity only as `realloc` does, and so does the model.
What a client must not do is in two guards: no call uses a string whose
characters are gone (`Intact`), and, when `Borrowing`, no call changes or frees
a mutable string while a copy shares its buffer (`MayChange`). With `Borrowing`
each string is a text of its own (`EFText`, by the mapping `Value`); without
it the run `string_shared_copy` shows a copy that is not mutable change. Which
buffers are owned by whom (`BuffersOwned`) does not depend on it.

`malloc` of a mutable copy's buffer is not checked (209) and then written to:
`crashed` ends the process there, which the mapping counts as a stutter. A
literal of `EF_STR` is a string that shares a client's buffer; the macro does
not validate it, and the model creates it as `EFStringCreateWithCStringNoCopy`
would, that is, well-formed.

### EFStringEncoding, EFStringValidation

The loop of `__EFStringValidateEncoding` on real bytes, one iteration a step.
`read` is a ghost, the furthest byte read: the buffer may go on behind the
length, and a character whose first byte announces more than there is must be
refused before the missing bytes are read (84). Masks and comparisons are
ranges of bytes, shifts are multiplications. The reference is section 4 of RFC
3629, which line 51 names, written out as its grammar is: no code points, no
minimum values. `WellFormed` says that some division of the bytes into such
characters exists.

### EFStringSplit

`EFStringComponentsSplitBySeparator` (682-768), one iteration of its second
loop a step, on bytes: `Skip`, `Split`, `SplitFails`, `LoopEnds`,
`LastComponent`. Validation is used as what it was proved to be (`WellFormed`).
Every allocation may fail (`starved`), and memory has room for `MaxComponents`.
The bytes behind the string's own are part of the state, because `strncmp` (728)
reads them: with a buffer that goes on behind the string, a separator that
begins in the string and ends behind it counts as a match, and the last bytes
are lost. `SplitIsRight` therefore assumes that a terminator follows the string,
as it does for every string that was copied. A last component that cannot be
made is released as NULL (760), which an assertion ends: `ret = "abort"`.
`OnlyMemoryFails` says that memory is the only cause, since UTF-8 cannot be cut
inside a character by a separator that is itself well-formed.

### EFNumber

`EFNumberCreate` writes the union and not the type, and `calloc` has left 0
there, `kEFNumberTypeSInt8`. The readers and the comparison are operators. The
union is a number of bits, low bytes first.

## 3. Runs

Times are for two workers.

| Run | Instance | States | Shows |
|---|---|---|---|
| `refcount` | 3 threads, 3 references | 436,861 | types; the counter is exact; no use after free; one teardown; teardown ordered after every access; refinement of `EFOwnership` with its liveness |
| `class_registry` | 3 threads, 2 built-in and 1 client class, 2 slots | 76,000 | numbers resolve and agree; headers keep their class; slots are written once; only a full table refuses; an allocation aborts only for a class that was refused, when all slots are other classes'; calls return |
| `page_group` | pages of 1 to 3 bytes, page length 2, up to 3 pages at first and 5 bytes by growth, all offsets -1..6 and lengths -1..4 | 88,349 | copies stay in bounds; transfers return; refinement of `EFByteStore` |
| `file_handle` | 2 pages of 2 bytes, `EFIndex` of 4 bits | 248,708 | holes read as zeros; the end covers what was written; calls return; refinement of `EFFile` |
| `file_end` | the same | violation | a write of no bytes moves the end |
| `object_graph` | 5 objects, symmetric; arrays of at most 2 items by clients | 572,267 | references accounted; nothing dangles; no use after free; no leaks; groups private |
| `group_default_callbacks` | the same with default callbacks | violation | a group made from an array that does not retain does not hold its pages |
| `string` | 3 strings, 2 heap buffers, 2 client buffers of up to 5 characters, 2 encodings; appends up to 2 characters; symmetric | 87,719 | types; each buffer has one owner; texts comply; equality is equality of texts; refinement of `EFText` |
| `string_shared_copy` | the same with `Borrowing = FALSE` | violation | a copy that is not mutable changes |
| `string_encoding` | all of 22 x 9 x 4 x 4 four-byte buffers, every length, 2 encodings | 67,220 | validation is RFC 3629 and reads nothing behind the length |
| `string_split` | texts of up to 5 characters of one and two bytes, and up to 3 of one to three; separators of up to 2 characters; 3 continuations; 6 components | 38,577 | components are right; only a lack of memory fails; calls return |
| `number_types` | 2 numbers, types of 2 to 5 bits | violation | numbers of different types are equal |

Why the bounds are enough to be interesting:

- two releases race for the last reference while a third thread still has one
  or uses the object: three threads and three references. The theorems hold
  for any number;
- three classes for two slots: the last registration finds the table full,
  whichever it is;
- offsets lie before, in, on the border of and after pages that are shorter and
  longer than the page length, and a transfer crosses up to two borders;
- a file of two pages of two bytes with buffers of three: a write crosses a
  page and grows by more than one page after a seek; memory for a third page is
  not there, so both loops also fail half way; seeks reach the largest offset,
  from where sums overflow;
- three strings: one that is appended to, one that shares its buffer, and one
  that is copied meanwhile; two heap buffers, so that `realloc` can move and the
  place it left can be taken again, and so that none is left when both are
  used. One client buffer has spaces at both ends of its text, a terminator and
  more behind it; the other one ends in malformed bytes;
- the bytes of `string_encoding` are those on either side of every boundary of
  the code's masks and comparisons and of the RFC's ranges. The theorem holds
  for all bytes and lengths;
- `string_split` has separators that overlap themselves ("AA" in "AAA"), that
  are the last byte of a character of the text's when read as bytes of another
  width, that are longer than, as long as or not in the text, and empty;
- `EFFileHandleCreate` has five objects alive at once, the most of any call.

Deadlock is checked in `page_group`, `file_handle` and `object_graph`. In
`refcount` the object may be freed and in `class_registry` the process may
abort, and then nothing is left to do; in the runs about strings the process may
crash, and a validation and a split end.

### Fairness

`EFRefCount`: weak fairness of the steps inside `EFRelease`. A thread there
waits for nobody, so a scheduler that runs every thread lets it finish; clients
need never call. `EFClassRegistry`: weak fairness of the steps inside a call;
the only one that waits is `SkipOnce`, and `pthread_once` wakes its waiters.
`EFPageGroup` and `EFFileHandle`: weak fairness of the loops of one thread.
`EFStringSplit`: weak fairness of its one thread. A split at an empty separator
makes no progress in the string; it returns because memory ends, which
`MaxComponents` bounds as every machine does, so `Returns` says of that call
nothing more than that.

### The four findings

- `EFFileHandle.c:46` calls `endOffset` the "last offset written to". Line 228
  moves it after any write, also after one that wrote nothing: seek to 1, write
  0 bytes, and the length is 1.
- `EFPageGroup.c:122` says of the copy of the array "we need a reference our
  selves". The copy keeps the callbacks of its source (`EFArray.c:256`); with
  `kEFArrayCallbacksDefaultCallbacks` it retains nothing, and
  `EFPageGroupExtend` then releases (line 187) the only reference to the page
  it has appended.
- `EFString.c:819` says that a "string must be mutable to be compatible with
  operations like appending". A copy by `EFStringCreateCopy` of a mutable string
  is not mutable and shares its buffer (222): trimming the original changes the
  text of the copy (`string_shared_copy`).
- `EFNumber.c:73` refuses to call numbers equal that are "not the same type of
  number". No number has its type: `EFNumberCreate` (114-150) never stores it,
  so that 1 of 16 bits equals 257 of 32 bits (`number_types`). For the same
  reason `EFNumberGetByteSize` is 1 for all numbers, and `EFNumberGetValue`,
  which also looks at no other type than the number's own (196), writes one byte
  into the variable it is given.

## 4. Proofs

All theorems hold for every value of the constants that meets the named
assumptions.

`EFRefCountProofs` (assumptions: some thread, `NoOne` is not one, finitely many
references). The inductive invariant adds to the checked invariants where each
local `old` comes from: the counter is the number of tokens, a thread in the
middle of a release has seen at least 1, at most one has seen 1, and if one has
then no token is left; and, for the order, that every thread without an access
in flight is ordered before whoever is going to tear down. `NoUseAfterFree`
alone is not inductive: nothing in it says that two threads have not both read
1. Proved: `TypeOK`, `RefCountExact`, `NoUseAfterFree`, `SingleDeinit`,
`TeardownAfterEveryAccess`, and that each step is one of `EFOwnership` or a
stutter.

`EFClassRegistryProofs` (assumptions: client and built-in classes are
distinct). The inductive invariant says that a slot below `ev_class_next` is
published or in the hands of exactly one thread, that a class has at most one
registration running or done, and that a class is in no slot but the one whose
number it has. Proved: `TypeOK`, `AnswersResolve`, `AnswersAgree`,
`ObjectsKeepTheirClass`, `ExhaustionIsReal`, and the action properties
`SlotsWrittenOnce` and `AbortOnlyWhenFull`. The last one is about the answer
that is looked up: the assertion fails only for a class that has no number and
is in no slot, while every slot is another class's or about to be.

`EFPageGroupProofs` (assumptions: the initial groups are layouts, arguments are
integers). The inductive invariant ties the locals of the two loops to the
layout: `base = start[index]`, the offset is in page `index` or at its start,
and what is done and to do fits the buffer and the group. Proved: `TypeOK`,
`CopyInBounds` and the refinement of `EFByteStore`.

`EFFileHandleProofs` (assumptions: zero is a byte, a page and a buffer fit the
memory and the memory fits an `EFIndex`, arguments are `EFIndex`es). The
inductive invariant adds to the checked ones what the locals of a call stand
for: a write under way has `from = offset` and `to = Wrap(offset + length)` with
`length` at most a buffer; a truncation has a target that is not negative; and
the zeroing loop ends at `endOffset` and has a chunk left or has its last chunk
of zeros in the buffer. The refinement rests on one fact about the sum at line
210 that is not checked: it wraps only for positions behind the group, where a
write moves nothing, so a wrapped sum never makes a write short. Proved:
`TypeOK`, `TailIsZero`, `WrittenIsInside` and the refinement of `EFFile`.

`EFObjectGraphProofs` (assumption: finitely many addresses; hypothesis of all
its theorems: clients give arrays the callbacks of objects, `Retaining`, which
the run `group_default_callbacks` shows to be needed; hypothesis of `NoLeaks`
alone: clients put only pages into arrays, `OnlyPages`, since an array in itself
is never freed). `RefsAccounted` is not inductive: an `append` keeps the counts
only where the rest of its program gives back what the call owns, and a `free`
only where nobody is left to reach the object. Whether that is so is a fact
about programs. A *ground* is what a program may rely on where it stands: what
the client holds, what the call owns, which addresses are still free, which
groups and files have adopted nothing yet, which arrays are private, who has
what, and what is of which class. `Allows(s, S, T)` says what step `s` needs of
ground `S` and which ground `T` it leaves, its failure path included, which must
release just what the call owns; `Completes(p, S)` says that program `p` can go
from `S` to a ground where nothing is owned. The inductive invariant is `Heaped`
(types; `RefsAccounted`; who is live without a count is deallocated once by what
is left; teardowns come first; arrays retain) and that some ground holds of the
heap from which `todo` completes. The proof has three parts: every step on its
ground keeps `Heaped` and reaches the next ground (a teardown pushes its steps
in front and changes what the ground says of others only by what it removes);
the program of every call leads from the ground the client offers to one where
nothing is owned, for page groups of any number of pages; and the client's own
retains and releases. Proved: `TypeOK`, `RefsAccounted`, `NoDangling`,
`NoUseAfterFree`, `GroupsArePrivate`, and `NoLeaks`: between calls, with nothing
held, files go because nobody keeps a file, then groups, arrays and pages.

`EFStringValidationProofs` (assumption: buffers are sequences of bytes). One
iteration of the validation accepts a character exactly when the RFC's grammar
has it (`CharacterOfRFC3629`): the code's masks, code points, minimum values and
the excluded surrogates against ranges of bytes. A division into characters is
forced: from one boundary, the first byte decides where the next one is, so the
loop's `i` is in every division, and a refusal at `i` refutes all of them. The
inductive invariant carries the division made so far. Proved: `TypeOK` and
`AnswerIsRFC3629`.

`EFStringSplitProofs` (assumptions: strings and separators are well-formed and
have no NUL, the buffer ends with a NUL, memory is a number). A text has one
division into characters, and its boundaries are the bytes that are no
continuations; so what lies between two of them is a text, and a text occurs in
another at boundaries only (`OccurrenceAtBoundaries`). The greatest boundary
below an index comes from the well-founded inclusion of finite sets, so no
induction theorem is needed. The inductive invariant says that
`lastLengthMatch` is a boundary of the string unless it is behind it, which
happens when a match goes on in the bytes behind; the loop then ends, and no
component is cut there. With an empty separator `i` stays 0. For `SplitIsRight`
it is joined by `SoFar`: when a NUL follows the string, a match is an occurrence
of the separator in the string (no separator has a NUL); the components so far,
each with a separator behind it, join to the string up to `lastLengthMatch`,
none of them could have ended earlier, and the separator occurs nowhere between
`lastLengthMatch` and `i`. The join is a fold of the community modules that is
defined by a recursive function; what is needed of it, that a sequence with one
more piece joins to what it joined to with the piece behind (`FlattenOneMore`),
is proved by the least length for which it would fail. Proved: `TypeOK`,
`OnlyMemoryFails` and `SplitIsRight`.

`EFStringProofs` (assumptions: the kinds of places are disjoint, `Null` is no
place and no text, a terminator is no character, client buffers are not empty).
The inductive invariant is `TypeOK`, `BuffersOwned` and, with `Borrowing`,
`TextsComply`. Each step is shown first to leave all other strings where and as
they are (`Undisturbed`): a new string takes a place nobody has, since
`TextsComply` excludes references to freed places; a string that is rewritten,
moved or freed has its buffer to itself, since `BuffersOwned` gives each buffer
one mutable owner and `MayChange` excludes borrowers. What the call does to its
own string is then a fact about sequences. `BuffersOwned` is proved without
`Borrowing`, for clients that are careless too. Proved: `TypeOK`,
`BuffersOwned`, `TextsComply`, `EqualIsSameText` and the refinement of `EFText`.

Only model-checked: liveness (`CallsReturn`, `Returns`, the fairness part of
`ImplementsOwnership`), which is out of the prover's reach, and the four runs
that show a violation.

## 5. Not modelled

- Files of the operating system: those branches keep no state of their own.
- Descriptions, `EFLog` and the format engine (`EFString.c:297-617`): wording.
  Two of its hazards are worth a test all the same: the loop over flags (458)
  stops moving when there are more than fit, and a description that is NULL
  (585) is read.
- The equality of arrays and the dispatch of `EFEqual`, which change nothing;
  the equality of strings and numbers is modelled.
- `EFData`, whose objects never change (mutable ones are not implemented), and
  custom allocators, which are code of the client.
- Misuse that the library leaves undefined: releasing what one does not own,
  negative indices of arrays, registering one class twice.

## 6. Plan

Done, in this order: the counter, the registry, the page group, the virtual
file, the object graph; the proofs of the first four; encodings, strings as
texts, and their proofs; splitting and its proofs; numbers; the proofs of the
object graph and that splitting is right.

Left, for whoever extends this: equality of arrays with the dispatch of
`EFEqual`; the buffer of the format engine.
