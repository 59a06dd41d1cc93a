# secp256k1-x64 in TLA+

secp256k1-x64 is a C library with generated x86-64 assembly for arithmetic on the curve
y^2 = x^3 + 7 over F_P, P = 2^256 - 2^32 - 977: field arithmetic in Montgomery form, points in
Jacobian coordinates, scalar multiplication with signed windows, a precomputed table of multiples
of the generator, and around it a small runtime that initialises everything under a lock and
fetches random bytes from the operating system.  This directory models the library, checks the
models with TLC and proves theorems about all of them but one, the addition chain of the field
inversion, with TLAPS.

    cd tla
    tlc -config CryptoInit.cfg MCCryptoInit.tla      # any run of PROJECT.json
    tlapm CryptoInitProof.tla                        # any *Proof module

Paths below are relative to the repository's root; "the assembly" is
`secp256k1_x64/secp256k1/asm/secp256k1-x86_64.pl`.

## 1. Inventory

| Component | Code | State it keeps | Operations | What makes it hard |
|---|---|---|---|---|
| Lifecycle and lock | `secp256k1_x64/init.c` | `initialized`, `locked`, `_lock` | `CRYPTO_init`, `CRYPTO_deinit`, `CRYPTO_crit_enter/leave` | any number of threads; four builds of the lock; a flag beside it that is not the owner's; the Windows lock creates itself on first use; globals are read without the lock; a failed allocation aborts |
| CPU detection | `secp256k1_x64/cpuid.c` | `cpu_info[4]` | `_runtime_get_cpu_features` | works *in* the global, so that readers may see zero, then the vendor string, then the features |
| Generator's table | `secp256k1.c:340-388, 666-669` | `secp256k1_precomp`, `secp256k1_precomp_storage` | `precompute_table_gen`, `precompute_table_free` | exported, no lock; pointer set before the table is filled; aligned block; entries made of points that must not be infinite |
| Scalar times generator | `secp256k1.c:390-475` | locals | `secp256k1_scalar_mul_gen` | signed 7-bit windows that straddle bytes; an addition that cannot double; scalars beyond the order |
| Scalar times point | `secp256k1.c:477-621` | locals, a table aligned by hand on the stack | `secp256k1_scalar_mul_point` | signed 5-bit windows; a special first window; temporaries reused in a straight line |
| Point arithmetic | the assembly from line 1781 on, `secp256k1.c:133-227, 623-664` | the caller's points | `point_dbl`, `point_add`, `point_add_affine`, `point_cmp`, `point_is_on_curve`, `point_get_affine`, `point_set_affine`, `point_copy` | equal, opposite and infinite operands; different Z; results over operands |
| Field inversion | `secp256k1.c:229-338` | locals | `secp256k1_mod_inverse` | an addition chain of 276 instructions; in-place calls |
| Montgomery arithmetic | the assembly, 573-1524 | registers | `mul_mont`, `sqr_mont`, `to_mont`, `from_mont`, each for two instruction sets | carries and borrows that occur once in 2^64 |
| One-step field operations | the assembly, 52-540; `fp256/asm/fp256-x86_64.pl` | registers | `secp256k1_add/sub/neg/mul_by_2/mul_by_3/div_by_2/reduce/mul_word`, `fp256_add/sub/neg/double/triple/div_by_2/add_word/sub_word`, and the point routines' subroutines (the assembly, 1658-1778, 2594-2720) | the carry beyond the fourth limb; whether one correction is enough |
| Number encodings | `fp256/fp256.c`, `common.c` | the caller's arrays | `fp256_set_bytes/set_hex/get_bytes/get_hex/cmp` and the conversions of 64-bit and 32-bit words | any length, odd numbers of digits, either byte order, characters that are no digits |
| Random source | `rand/rand.c`, `rand/sys_rand.c` | the global `stream` | `RAND_buf` | lazily initialised without a lock; short reads, interrupted calls; a kernel without `getrandom`, devices that are absent or no devices; descriptors |
| Memory helpers, printing | `mem.c`, the print functions | none | | |
| Assembler translator, build, tests, benchmark | `perlasm/`, `CMakeLists.txt`, `test/`, `speed/` | | | not part of the running library |

How they interact.  `CRYPTO_init` takes the lock and calls CPU detection, `table_gen` and the choice
of the random source; everything else afterwards reads what these left in globals *without the lock*:
every field routine tests `cpu_info`, `scalar_mul_gen` reads the table, `RAND_buf` the chosen source.
`table_gen` uses point doubling and addition and `point_get_affine`, which uses the inversion;
the point routines use Montgomery multiplication and the one-step field operations; both scalar
multiplications use the point routines.  `secp256k1_rand` is `RAND_buf` followed by `reduce`.

What makes each component correct is stated as properties in the modules; the places where it can
go wrong are the hazards of `PROJECT.json`, each at its line.

## 2. Modules

Where one component calls another, the caller is modelled on top of what the callee was shown to do,
not on its text again.  Montgomery shows that two callees do not always do what they should: without
ADX the squaring, and `from_mont`, are wrong for operands with a misplaced borrow (section 5), and with
the squaring the inversion.  Curve, which calls them, therefore takes what they return as parameters,
and its properties hold up to the first call that meets such an operand.  The modules above Curve
(PrecompTable, ScalarMulGen, ScalarMulPoint) work with logarithms and presume that no such operand is
met; ModInverse counts exponents and presumes exact squaring too.

    CryptoInit --- refines ---> LibLifecycle          (what init.c promises)
    Lock       --- refines ---> Mutex                 (what its lock promises)
    ScalarMulGen --- extends, gathers from ---> PrecompTable
         |                                       |
         +---------- PointByLog <----------------+    (points as logarithms)
                         ^
    ScalarMulPoint       | what PointByLog says of the routines
    (multiples of the    | is what Curve is shown to do while calls are exact
     caller's point)  PointMachine <--- refines --- Curve
                                                      |  field elements are residues; what sqr_mont,
                                                      |  from_mont and mod_inverse return: parameters
                         ModInverse, FieldOps, Montgomery
    SysRand, Codec       (on their own)

**CryptoInit** has a thread's program counter walk through the functions of `init.c` and everything
they call that changes global state: `MutexLock`/`SetLocked` are the two halves of
`CRYPTO_crit_enter`, `Leave`/`MutexUnlock` of `CRYPTO_crit_leave`, `CpuZero`/`CpuVendor`/
`CpuFeatures` the three contents `cpu_info` goes through, `TablePresent`/`TableAlloc`/
`TableAllocFails`/`TableFill` the table, whose columns are a counter here.  Clients are part of the
model: a thread may start a call of its own choice or, if it considers the library initialised, a
computation (`BeginUse` .. `EndUse`), during which it reads the globals at any time.  They obey
`crypto.h`: initialise first, pair enter with leave.  Nothing keeps one thread from
deinitialising while others compute.

**LibLifecycle** is the promise: calls take effect one at a time, at one instant between invocation
and return, an initialisation only over a built table, and the table is built once.

**Lock** is the lock of `init.c` by itself, in all four builds: the variable `build` says which branch
was compiled, `asserts` whether assertions are.  `CritInit`, `InitializeCriticalSection` and
`PublishCriticalSection` are the lazy creation of the Windows critical section, `Lock` is the waiting
for any of the three locks, `Mark` the assertion and the flag, `ClearFlag` and `Unlock` the way out.
Its clients do break the rules: they enter twice (which is what a client that calls `CRYPTO_init` in
its own section does) and leave without having entered; `reentered` and `strayed` remember that they
did.  **Mutex** is the promise of `crypto.h`, and that nothing is promised after a breach.

**PrecompTable** models `table_gen` entry by entry with the block `malloc` returns, its alignment,
failures, and `table_free`.  Points are logarithms, so an entry is right if it is k * 2^(7w).
The history variable `freed` remembers the blocks that a `table_free` has given to `free`: over the
dangling pointer that it leaves behind, and only there, an OK of `table_gen` promises nothing.
It has no specification of its own: ScalarMulGen extends it and composes its steps (`TableStep`) with
multiplications (`Call` .. `Return`), which gather their entries from whatever block the library's
globals name.  A client multiplies after a `table_gen` that returned OK and unless the table was freed.
Any number of clients call, but they take turns: `Spec == Init /\ [][Next /\ TakeTurns]_vars`, where
`TakeTurns` says that no call begins while another one is inside `table_gen` (and `TableStep` that none
does during a multiplication), which is what the lock of `CRYPTO_init` gives the library's own call and what nothing gives other callers.

**ScalarMulGen** and **ScalarMulPoint** are the two scalar multiplications, one action a window, with
the code's byte arithmetic for cutting a window out of the scalar and its Booth recoding.  In
ScalarMulPoint a point is the integer that it is a multiple of, so the result is compared with the
scalar itself.

**Curve** contains the formulas of `gen_double`, `gen_add` and `gen_add_affine` with their tests for
infinity and equality, and the routines in C around them, over a small field.  The constants `SqrMont`,
`FromMont` and `ModInverse` are what the three routines return for each operand; only their types are
assumed.  The history variable `exact` says that no call so far came upon an operand for which they are
wrong: each routine has a predicate (`DblExact`, `AddExact`, `GetAffineExact`, ...) that names the
operands its result depends on.  After an inexact call the model stops (`Stopped`), as nothing is known
of the triple that it leaves.  `mul_mont` and `to_mont` are right for every operand, so they are the
product and the element of a number.  The result is written over the first operand; that the assembly
keeps copies of its inputs while it writes was read, not modelled: an operation is one step.
**PointMachine** says
in terms of logarithms what a caller with two points may expect, as long as `exact` holds; the
refinement maps a Jacobian triple to the logarithm of its point.  It says precisely which routine is complete: `point_add` doubles
equal operands, `point_add_affine` does not.  Two facts of mathematics about the constants are stated as
assumptions, which TLC evaluates for F_13: `FieldAssumption`, that every residue but 0 has an inverse,
and `GroupAssumption`, that the curve's points are the multiples of the generator and that the affine
chord and tangent law is addition of logarithms (associativity of the law is the hard part of that, and
no business of the code).  That the *Jacobian formulas* of the code are this law is not assumed.

**ModInverse** executes the instructions of the chain over named objects, with `r` and `in` one
object or two.  A value is the exponent of the input it stands for, represented by residues.

**Montgomery** has all five routines.  Multiplication by rows works on one number for the six
accumulator limbs; the reduction in `sqr_mont` and `from_mont` is written register by register,
because which register takes a borrow is exactly what is wrong there (section 5).  One operand of a
multiplication may be any number of four limbs (`Admitted`): `to_mont` multiplies what its caller passes,
reduced or not, by the constant `.LRR`.

**FieldOps** has one action a routine; the results are fed back as operands (`Chain`).  A
word passed to `fp256_add_word` selects a limb in memory, `WordAt`, because the code uses it as an address.
The eight subroutines of the point routines (`AddToQ` .. `MulBy2X`) are actions too; those of the ADX
variant begin their chain with `adc` or `sbb`, so that they depend on the carry having been cleared.

**SysRand** has a thread's walk through `RAND_buf` on one of three systems: a kernel with `getrandom`,
one with devices only, and Windows.  The kernel is a second actor that may shorten, interrupt and fail
calls, and decides what is found under the devices' names.  The walk includes the probe, waiting for
`/dev/random`, and the loop over the devices; `open` is the process's set of open descriptors.

**Codec** sets a number from a string limb by limb, writes it out again and compares it with others;
for a single word it runs the conversions of 64 and 32 bits there and back in either byte order.
A character of a hexadecimal string is a digit, one that is none, or one for which the table of digit
values is read beyond its end; what lies there is the variable `beyond`.  A byte is two digits, so that
the `|` of `hex_to_u8` is an or digit by digit; that of two digits is the constant `DigitOr`, of which
only is assumed that 0 changes nothing.  MCCodec gives it the operator of the Bitwise module.

`MC*` modules only choose inputs.  `Op_Slip` definitions (commented "Slip:") are plausible mistakes in
the operation before them; each property is known to fail under one of them (`mutants` in
`PROJECT.json`), which is how we know that it says something.

## 3. Runs

| Run | Instance | Shows |
|---|---|---|
| `init` | 3 threads, 2 calls each, a table of 2 columns | `MutualExclusion`, `FlagClearOnEntry`, `NoCallFails`; `ReadyForUse`: an initialised thread finds table and random source complete whatever the others do; `CpuInfoWindow`: what it may find in `cpu_info`; `TableWrittenOnce`; `EveryCallReturns`; the refinement of LibLifecycle |
| `lock` | 4 builds, with and without assertions, 3 threads, 2 calls each | `ExclusiveUnlessStray`: two threads inside only after a stray leave; `LostOnlyByReentry`: the lock is lost only by entering twice on Windows, elsewhere such a thread stops at its own lock; `CallsReturn` otherwise; the refinement of Mutex |
| `scalar_mul_gen` | 2 clients that take turns, all orders of `table_gen`, `table_free` and multiplications, failing mallocs; 3 rows of 64 entries, group of order 65521, scalars of 16 bits at every boundary (`SomeScalars`) | every stored entry right (`StoredEntriesRight`), in a live block for every alignment, and no leak (`StoresInLiveBlock`); OK means complete unless a `table_free` freed the block (`ReadyUnlessFreed`); the product; the sum after every window; the incomplete addition never meets equal points |
| `scalar_mul_point` | every scalar of 16 bits, extreme alignments | right outside the gap of section 5; no access leaves the stack table |
| `scalar_mul_point_doc` | the same | **violated**: the header's "r = scalar * point" |
| `curve` | F_13, group of order 7, all pairs of triples that exact calls reach; 6 is squared, 11 converted, and what is inverted by way of that square inverted wrongly | up to the first call that meets one of these, every routine does what PointMachine says, and every point held satisfies the curve's equation (`StaysOnCurve`) |
| `mod_inverse` | the real chain, aliased and not | exponent P - 2, 257 squarings and 19 multiplications, no operand lost |
| `mont` | 4 limbs of 2 bits, all operands (of two factors one at least reduced), 5 routines | partial products, bounds, reduced results; right exactly if no borrow goes astray |
| `mont_sqr_doc` | the same | **violated**: the header's "res = a*a*2^-256 mod P" |
| `field` | 4 limbs of 2 bits, 3 moduli, all pairs, chained | results right; unreduced in exactly two cases |
| `sys_rand` | 3 systems, every combination of devices, 2 threads, 2 calls each, 1 kernel failure, 1 interrupt | success means a full buffer; a call fails only after a failure of the kernel or without any source; descriptors are closed or accounted for; every call returns |
| `codec` | digits of 1 bit, limbs of 2 bytes, strings up to 4 limbs and one too long, words of 2 bytes | every partial number is right; setting and getting are inverse in both orders; a wrong character spoils its own byte only; numbers compare as numbers |

Why the bounds are enough.

* *Threads and calls.*  The window in `cpu_info` takes three threads: one that computes, one that
  deinitialises, one that initialises again; no property relates more than two threads' steps at a
  time.  Two calls let each thread initialise and then do one more thing.  The columns of the table
  matter only as "none, some, all".  In `lock` one thread can create the critical section while one
  waits for it and one comes later; two calls are an enter and a second enter or a stray leave.
* *Limb size.*  The arithmetic routines do not use that a limb has 64 bits, only the inequalities
  stated as `ASSUME`s in the modules (C below one limb, K the inverse of C, ...), which hold for the
  code's constants and for the small ones alike; a short limb makes every carry and borrow frequent,
  and all operands can be tried.  Codec's digits and words are short for the same reason.
* *Group order.* 65521 is as close below 2^16 as needed for scalars beyond the order to exist and for
  the top window to be able to wrap around it, the case in which `scalar_mul_gen` could meet equal
  points; the proof needs just that, stated in `WidthAssumption`: what the order lacks to 2^`Bits`
  must not reach the top bit of the last window but one. The scalars tried are those at and beyond the
  order, the smallest, and a stride between that meets every value of every window; the theorem is
  about all. 16 bits take three windows of 7 bits (first, middle, one that reaches beyond the scalar)
  and for ScalarMulPoint a first, two middle and a last one; the width must be 1 modulo 5 and place
  the first window within a byte, as 256 does (`BitsAssumption`).
* *The field of Curve.*  F_13 has a group of prime order 7, so every pair of points, including equal
  and opposite ones and the point at infinity, occurs with all Zs that the routines produce without
  meeting an operand they are wrong for; about one state in eight comes from a call that met one.
* *The table.*  One block: a second allocation happens only after a failed one, which leaves nothing
  behind.  The alignments are the nearest and the farthest of the four.
* *SysRand.*  Sizes of none, exactly one chunk and more than one; two threads that initialise at the
  same time and call again afterwards.  One failure and one interrupt suffice, as each property
  excludes either the cause or the effect of the first.
* Named bounds: `MaxCalls`, `MaxBlocks`, `MaxFaults`, `MaxInterrupts`.

Fairness.  `init`, `lock` and `sys_rand` use it, each as weak fairness of what a thread does *inside*
a call: the scheduler runs it, and in SysRand the kernel answers.  Nobody is obliged to make a call.
Acquiring a lock is one of those steps, with weak fairness only: each thread makes a bounded number
of calls, so that the lock is not passed around for ever; with unbounded calls neither a pthread mutex
nor a spin lock, which are not fair, would justify `EveryCallReturns` or `CallsReturn`.  In `lock` a
client that is inside a section also leaves it in the end (`WF_vars(CallLeave(t))`), which is what
`crypto.h` asks of it.  In `sys_rand` the interrupts are bounded: a kernel that interrupts every call
keeps the code in its loops.  In the other modules the properties are safety properties.

Deadlock is checked in every run; each module has a stuttering step for the state in which it has
really ended.

## 4. Theorems

TLC checks the instances above; TLAPS proves the following for all values of the constants.

| Module | Assumptions | Theorems |
|---|---|---|
| `CryptoInitProof` | any set of threads, any positive number of columns | `TypeCorrect`, `MutualExclusionHolds`, `FlagClearHolds`, `NoCallFailsHolds`, `ReadyForUseHolds`, `CpuInfoWindowHolds`, `TableWrittenOnceHolds`; `Refinement`: `Spec => Lifecycle!Spec` |
| `LockProof` | any set of threads, any number of calls, all four builds | `ExclusiveHolds`, `LostOnlyByReentryHolds`; `Refinement`: the safety part of Mutex |
| `ScalarMulGenProof` | any set of clients that take turns, any width and order related by `WidthAssumption` (256 and the curve's order are), any scalars below 2^`Bits`, any alignment | `StoredEntriesRightHolds`, `StoresInLiveBlockHolds`, `ReadyUnlessFreedHolds`, `PartialSumHolds`, `NeverEqualOperandsHolds`, `ResultIsScalarTimesGHolds` |
| `ScalarMulPointProof` | any width of the code's shape (256 is one), any scalars, `Shr` a right shift | `TypeCorrect`, `CorrectOutsideGapHolds`, `InStorageHolds` |
| `CurveProof` | any odd prime field above 7 (`FieldAssumption`), a curve with a cyclic group (`GroupAssumption`), anything reduced that `sqr_mont`, `from_mont` and `mod_inverse` return (`MontAssumption`) | `StaysOnCurveHolds`; `Refinement`: `Spec => ImplementsPointMachine` |
| `MontgomeryProof` | any limb size, any C with 1 < C < B and K its inverse | `BoundedHolds`, `PartialProductHolds`, `ResultReducedHolds`, `RightExactlyUnlessBorrowedHolds` |
| `NumbersProof`, on FieldOps | any limb size, C and moduli with the stated inequalities, any contents of memory | `TypeCorrect`, `ResultReducedHolds`, `ResultRightHolds` |
| `NumbersProof`, on Codec | digits of any size above 1, limbs of any number of bytes and the short word of no more (`BaseAssumption`), any `DigitOr` with 0 as unit (`OrAssumption`), any arrays of bytes or characters (`InputAssumption`), any byte behind the table | `PartialNumberHolds`, `RoundTripHolds`, `DamageIsLocalHolds`, `CompareRightHolds` |
| `SysRandProof` | any finite set of threads, any sizes, any numbers of calls, failures and interrupts | `FilledIfOKHolds`, `FailuresHaveACauseHolds`, `DescriptorsAccountedForHolds` |

Every one of them goes along an inductive invariant `IInv`, of which three facts are proved: it holds
initially (`InitHolds`), each action keeps it (one lemma or step an action, then `NextKeeps`), and it
implies the property.  For Codec they are `CodecInv`, `CodecInitInv` and `CodecNextInv`.

*CryptoInit.* `IInv` is `TypeOK /\ LockInv /\ CallInv /\ DataInv`. Mutual exclusion alone is not
inductive: `LockInv` says that the owner of the mutex is exactly the thread between enter and leave, and
that the flag is 1 exactly from `SetLocked` to `Leave`; `CallInv` ties the program counter to the kind
of call (only an init is in the table's steps, only over `initialized = 0`); `DataInv` says how far the
globals must be for each place of the lock's owner, and that a session or a set `initialized` implies a
complete table and a source. The columns can only be counted up by a thread that has allocated the table
under the lock and finds them incomplete; from this `TableWrittenOnce`. The refinement maps a call to
its effect at the step that reaches "leave".

*Lock.* The properties speak of clients that break the rules, so `IInv` has to say what still holds when
they do: `Disciplined` (a build with a lock, no stray leave) separates what survives a second enter from
what does not survive a stray leave. Then `Created` (one thread creates the critical section, and nobody
is past it before), `Held` (whoever is inside or between lock and unlock is the owner; a set flag
belongs to such a thread), and for Windows `Deep`: the section has been entered at least as deep as its
owner is inside, and deeper only by a thread in `reentered`; elsewhere `Flat`, nobody is inside twice.
Both properties are conjuncts of these with the quantifiers removed. The refinement adds that each step
is Mutex's step or none until the first breach, after which Mutex allows anything.

*SysRand.* `DescriptorsAccountedFor` bounds the open descriptors by the number of threads and is not
inductive at all: the invariant says *who* opened each one, as an injection from the open descriptors to
threads (`Opener`), each of which has its descriptor in hand or will never open another (`Past`).
`FailuresHaveACause` needs `Sourced`: as long as neither the kernel has failed nor all devices are
missing, a thread that gets as far as to use the stream finds a source in it, also when another thread
initialises the stream once more behind its back.

*ScalarMulGen.* `IInv` is `TableInv /\ MulTypes /\ Reading /\ Accumulated`. `TableInv` has the rows
filled so far by the one call that is filling (`Progress`, `Turns`), so that an OK means a `Complete`
table; `Reading` carries this over to a multiplication, during which the table cannot change.
`Accumulated` is the sum after each window: it equals `Lower(s, 7 * i)`, the scalar less 2^(7i) times
its part above, rounded up where the bit below the cut is set; the recoded digit `Digit` of a window, at
its place, is exactly the difference of two successive ones (`LowerStep`), over the bytes that the code
cuts the window from. `NeverEqualOperands` is then an inequality: before window i the sum is at most
half of 2^(7i) in magnitude and the entry at least 2^(7i), so equality could only come around the order,
in the last window, and `WidthAssumption` excludes that. The obvious assumption, that the order lies
above half of 2^`Bits`, is *not* enough: there are such orders for which the addition does meet equal
points.

*ScalarMulPoint.* The invariant of the loop is that r is 32 times the signed-digit value of the part of
the scalar above `idx`, where the bit just below the part counts as one more: for a window w of six
bits, the recoded digit is (w + 1) div 2, less 32 if the top bit is set. The proof follows the loop: the
first window starts the invariant (outside the gap), each turn keeps it, the last window ends it with
the scalar. The straight line that fills the table is evaluated; alignment and slots give `InStorage`.

*FieldOps.* The invariant adds that operands are below the modulus, which the type does not say. One
lemma a correction (`SubtractOnceRight`, `AddOnBorrowRight`, `HalveRight`, `TripleRight`,
`MulWordRight`) shows that a single correction is enough; these rest on a few facts about remainders
(`ModMultiple`, `UniqueRemainder`) proved first.

*Montgomery.* `Rows` bounds the accumulator of a multiplication below a + P between the rows and says
that times B^i it is congruent to a times the limbs of b read so far, and exceeds it by less than P times
B^i; after the last row it is therefore below 2P if either factor is reduced (`LastRow`), so that the
single final subtraction is enough. For the reduction by registers `Steps` says the same with an error: the second,
third and fourth step each contribute `Slips`, one of 0, 1 and 1 - B, according to where their borrow
went (`StepSlipped`, `Errors`). That the routine is right if nothing is borrowed follows from errors of
0; that it is wrong otherwise is `NoCancelling`: three errors cannot add up to a multiple of P unless
all are 0. This needs 1 < C; for C = 1 they can.

*Curve.* Numbers that are congruent modulo q (`Cong`) form a ring, shown by one lemma an operation, and
the operators of the model are congruent to the integer operations they stand for. What remains are
identities between polynomials over the integers. That a triple *stays on the curve* is one such
identity for doubling and one for the chord; for doubling, the new Y^2 less the cubic in the new X is 64
W^3 times the old difference, W being Y^2 (`DblIdentity`), for the chord it is a combination of those of
both operands (`ChordIdentity`). For the refinement, `Over` relates a triple to the affine point it lies
over; doubling lies over the tangent's third point, the addition over the chord's (`Tangent`, `Secant`,
`LineOver`), whatever the Zs, and the tests of the code decide exactly when the points are equal,
opposite or infinite, because there are no divisors of zero. `GroupAssumption` then turns affine
addition into addition of logarithms. All this is about exact calls, in which the squares, inverses and
conversions that the result is made of are the true ones: `IInv` is `TypeOK` and, as long as `exact`
holds, `OnCurve(b)` and `OnCurve(a)` unless `set_affine` has refused a. For inexact calls only the types
have to be kept (`DblTypes` .. `GetAffineTypes`), whatever the parameters return.

*Codec.* `PartialNumber` speaks of the value of all limbs together and `DamageIsLocal` of single digits
of strings that have no value, so neither can carry the other, and neither says of a limb where in the
array it comes from. The invariant `CodecInv` does: while the loop runs, the first i limbs have been
`Read`, that is, each is `LimbIs` of its own `Slice` of the array filled up in front (written out again
it agrees with the slice wherever that has digits, and if it has nothing else it is the slice's number),
and the others are 0. `ReadMore` adds a limb, `ReadAll` says that what lies before the array's start
counts as zeros; after that the four limbs written one after the other are the array (`JoinedIs`), which
is `RoundTrip` where all characters are digits and `DamageIsLocal` where they are not. What a conversion
does with one word (`WordBack`, `LimbRight`, `HexToU8Is`) rests on the arithmetic of digits: how a number
splits into the number of its first digits and that of its last ones, what `\div` and `%` by a power
take from it, that two digits a byte spell the same number. `PartialValue` adds the slices' numbers up.
That nothing is written beyond the fourth limb is that len is what i units leave of at most four
(`NextSlice`), and `CompareRight` that a higher limb outweighs all lower ones (`CmpRight`).

Only model-checked: liveness (`EveryCallReturns`, `CallsReturn`) and the liveness part of the
refinements, which are out of the prover's reach; and ModInverse (`OperandsIntact`, `ComputesInverse`):
the run executes the one program there is, for both ways of calling it, on residues that determine the
exponents, so that a proof would have nothing to generalise.

What a recursive function computes is proved where a theorem needs it (`TwoTo` in ScalarMulGen,
`Multiple` in Curve, `Number` in Codec), by an induction on the least counterexample (`LeastElement`);
`Tower` in ModInverse stays with TLC.

## 5. Where the code does not do what its text says

Two runs end in a counterexample, because they check a sentence of a header (`findings` in
`PROJECT.json`):

* `secp256k1_scalar_mul_point` (secp256k1.c:557-567) tests the raw first window where it should test
  the recoded one.  Window 1 recodes to the digit 1 but is taken for infinity, so a scalar with bit
  255 clear and bit 254 set (a quarter of all scalars) loses 2^255.  `CorrectOutsideGap` says that this
  is the only defect of the recoding and the order of operations, presuming point routines that do what
  they should, that is, exact squaring.
* `__secp256k1_sqr_montq` (the assembly, 1038-1078), used without BMI2 and ADX, sends the borrow out
  of the third limb to the wrong register from its second reduction step on; `secp256k1_from_mont`
  (1484-1524) does the same, on all processors.  `RightExactlyUnlessBorrowed` says that this is exactly
  when they are wrong.  What the point routines promise is therefore promised up to such an operand only
  (`exact` in Curve).  Operands with a borrow are easily made (`a = 2^32` for squaring, `a = 2^64` for
  `from_mont`) but rare at random.

Others that the models contain as they are, and that the properties are stated around:

* `secp256k1_reduce` (the assembly, 445-458) never reduces: the carry it tests is never set.
  `ResultReduced` in FieldOps has the exact set of exceptions.  secp256k1.h:83 says "res = a mod P".
* `fp256_neg` of 0 is the modulus (fp256.h:39 says "r = -a mod p"); the same property.
* `fp256_add_word` and `fp256_sub_word` use the word as an address (fp256.h:49).
* `CRYPTO_deinit` frees nothing, though crypto.h:29 says that it frees what `CRYPTO_init` allocated.
  That is what `TableWrittenOnce` and `ReadyForUse` rest on: a deinit that freed the table would break
  other threads' computations (the mutant `Deinit_Frees`).
* `secp256k1_precompute_table_free` leaves the globals dangling, and the next `table_gen` returns OK over
  the freed block: the exception in `ReadyUnlessFreed`.
* `table_gen` called by two threads outside `CRYPTO_init` may return OK over a table another one is
  filling.
* A second initialisation writes the vendor string into `cpu_info` (cpuid.c:111) while other threads may
  be testing it: the exception in `ReadyForUse` that `CpuInfoWindow` confines.  AMD's vendor string has
  both bits set that select the BMI2/ADX code.
* `u8_to_u64` and `u8_to_u32` are right for big-endian arrays of any length up to a word's, which is how
  the library calls them; a short little-endian array is filled up with zeros in front, that is, with
  low bytes, and comes out shifted (`RoundTrip` states it; common.h:151 says only "convert u8 array to one
  u32 integer, inlen <= 4").
* A hexadecimal string with other characters is accepted without an error, and for characters from 128
  on `hex_to_u8` reads behind its table (common.c:226); `DamageIsLocal` says how far that goes.
* On Windows `CRYPTO_crit_enter` admits its owner again, but the flag beside the section does not count:
  the inner leave clears it, the outer one fails with EPERM, and the section stays entered
  (init.c:57-82): the exception in `LostOnlyByReentry`.
* The comment at common.c:25 says that 15 is written 'F'; the table holds 'f'.
* A stream whose first initialisation finds no source stays without one (sys_rand.c:309-324).

## 6. What is not modelled

* Two threads inside `table_gen` outside `CRYPTO_init`.  The actions of PrecompTable allow it, but
  the table's properties do not hold then (section 5), and nothing in the repository promises anything:
  `TakeTurns` in the specification of ScalarMulGen leaves it out.
* The OpenBSD branch of `sys_rand.c`, which wraps `arc4random`, keeps no state, and defines no
  `sys_rand` for the table of sources to name, so that it does not compile.
* What the fourth alternative of `BSWAP8` and `BSWAP4` (rotations and masks) does with bits: the
  operation is the reversal of the bytes in all of them.
* `mem.c`, printing, the assembler translator, tests and build, which keep no state or are not part
  of the library.
* Timing: whether an operation takes the same time for all operands is not a property of these models.
* Registers inside multiplication by rows: the carries between a row's limbs are folded into one addition
  of numbers, so that only a carry out of the row can be lost in the model.  In squaring, the product
  itself is taken as given, only its reduction is modelled.
* Aliasing inside the point routines: a routine is one step from its operands to its result, so that the
  order in which the assembly reads and overwrites an operand is not checked (for the inversion it is:
  ModInverse).
* What a caller does with a point after a call that met an operand squared, inverted or converted wrongly.
  For the same reason table_gen and the two scalar multiplications are right as long as they meet none.
* A composition of encoding, Montgomery conversion, scalar multiplication and decoding: each step is a
  function of the last one's result; where the steps are exact, each is compared with its mathematical
  meaning, and where they are not, nothing would be left to say of the chain.
* Refusals of NULL arguments (secp256k1.c:200, 630, 654), negative lengths given to the conversions of
  common.c and fp256.c, and a failing `pthread_mutex_lock` (init.c:182), which a static mutex does not have.

## 7. Plan

The order is by what matters most; all of it is done.

1. CryptoInit, LibLifecycle: the only component with concurrency by design; safety, liveness, proof.
2. ScalarMulPoint: the most intricate C function; proof for every width.
3. PointByLog, PrecompTable, ScalarMulGen.
4. PointMachine, Curve: what 2 and 3 take for granted.
5. FieldOps, with proof.
6. Montgomery.
7. ModInverse.
8. SysRand.
9. Codec.
10. Lock, Mutex: the other builds and undisciplined clients; ScalarMulGen composed with
    PrecompTable; Windows, the devices and interrupts in SysRand; the rest of the conversions in Codec;
    the point routines' subroutines in FieldOps.
11. Proofs of Lock, SysRand, Montgomery, PrecompTable with ScalarMulGen, and Curve.
12. Proof of Codec, for which `Bitwise` was replaced by an or on digits and the folds by a recursive
    function.
