----------------------------- MODULE SysRandProof -----------------------------
(***************************************************************************)
(* Proofs about SysRand, for any number of threads, requests, failures and *)
(* interrupts: OK means a full buffer, a failure has a cause in the        *)
(* kernel, and no more descriptors are open than threads can have opened   *)
(* in their first call.                                                    *)
(***************************************************************************)
EXTENDS SysRand, FiniteSetTheorems, TLAPS

\* Where a thread owns the descriptor in fd, which nobody else knows yet.
Opened == {"poll", "stat"}

\* From the probe to the flag a thread initialises the stream.
Initialising == {"probe", "block", "poll", "device", "stat", "initialized"}

\* It will open no descriptor any more.
Past(t) == pc[t] = "initialized" \/ (stream.initialized = 1 /\ pc[t] \notin Initialising)

Records ==
  /\ stream \in [fd : Int, initialized : {0, 1}, getrandom_available : {0, 1}]
  /\ devices \in [{"urandom", "random"} -> {"character", "file", "absent"}]

\* A call has no result before it returns, and OK is one with nothing to come.
Results ==
  /\ \A t \in Threads : pc[t] # "idle" => ret[t] = "none"
  /\ FilledIfOK

\* Each system has its own part of the code.
Systems ==
  /\ system = "windows" =>
       \A t \in Threads : pc[t] \in {"idle", "stir", "stir2", "initialized", "source", "RtlGenRandom"}
  /\ \A t \in Threads : pc[t] = "RtlGenRandom" => system = "windows"
  /\ system # "getrandom" => stream.getrandom_available = 0
  /\ \A t \in Threads : pc[t] = "getrandom" => system = "getrandom"

Cause ==
  \/ faults > 0
  \/ /\ system = "devices"
     /\ \A d \in DOMAIN devices : devices[d] # "character"

\* Unless there is a cause to fail, whoever gets as far as to use the source
\* finds one.
Sourced ==
  /\ system = "getrandom" => \A t \in Threads :
       /\ pc[t] \in {"idle", "stir", "stir2", "probe", "initialized", "source", "getrandom"}
       /\ pc[t] = "initialized" \/ stream.initialized = 1 => stream.getrandom_available = 1
  /\ system = "devices" => \A t \in Threads :
       /\ pc[t] = "initialized" \/ stream.initialized = 1 => stream.fd # None
       /\ pc[t] = "argument" => stream.fd # None
       /\ pc[t] = "read" => fd[t] # None
       /\ device[t] = 2 => devices["urandom"] # "character"
  /\ \A t \in Threads :
       /\ pc[t] \in {"source", "getrandom", "descriptor", "argument", "read"} => stream.initialized = 1
       /\ ret[t] = "ERR" => size[t] = 0

\* A descriptor that is open in a thread's hand is nobody else's.
Private ==
  \A t \in Threads : pc[t] \in Opened =>
    /\ fd[t] \in open /\ fd[t] # stream.fd
    /\ \A u \in Threads \ {t} : fd[u] # fd[t]

\* Every open descriptor was opened by a thread of its own, which has it in
\* hand or opens no other.
Opener(f) ==
  /\ f \in [open -> Threads]
  /\ \A m, n \in open : f[m] = f[n] => m = n
  /\ \A n \in open : Past(f[n]) \/ (pc[f[n]] \in Opened /\ fd[f[n]] = n)

IInv ==
  /\ TypeOK /\ Records /\ Results /\ Systems /\ Private
  /\ ~Cause => Sourced
  /\ IsFiniteSet(open) /\ \E f \in [open -> Threads] : Opener(f)

----------------------------------------------------------------------------
\* A set of naturals that is not empty has a least element.
LEMMA LeastElement ==
  ASSUME NEW S, S \subseteq Nat, S # {}
  PROVE  \E n \in S : \A k \in S : n <= k
<1> DEFINE Less == {ss \in Nat \X Nat : ss[1] < ss[2]}
<1>1. IsWellFoundedOn(Less, Nat)
  BY NatLessThanWellFounded DEF OpToRel
<1>2. PICK n \in S : \A k \in S : ~ (<<k, n>> \in Less)
  BY <1>1, WFMin
<1>3. ASSUME NEW k \in S PROVE n <= k
  <2>1. k \in Nat /\ n \in Nat
    BY <1>3
  <2>2. ~ (<<k, n>> \in Less)
    BY <1>2, <1>3
  <2>3. ASSUME k < n PROVE <<k, n>> \in Less
    BY <2>1, <2>3
  <2>4. QED
    BY <2>1, <2>2, <2>3
<1>4. QED
  BY <1>3

\* There is a lowest free descriptor, among the first that are one more than
\* the open ones.
LEMMA LowestFree ==
  ASSUME NEW S, S \subseteq Nat, IsFiniteSet(S)
  PROVE  (CHOOSE n \in 1..Cardinality(S) + 1 :
            n \notin S /\ \A k \in 1..n - 1 : k \in S) \in Nat \ S
<1> DEFINE c == Cardinality(S)
           Free(n) == n \notin S /\ \A k \in 1..n - 1 : k \in S
           F == (1..c + 1) \ S
<1>1. c \in Nat
  BY FS_CardinalityType
<1>2. F # {}
  <2>1. SUFFICES ASSUME 1..c + 1 \subseteq S PROVE FALSE
    OBVIOUS
  <2>2. Cardinality(1..c + 1) <= c
    BY <2>1, FS_Subset
  <2>3. Cardinality(1..c + 1) = c + 1
    BY <1>1, FS_Interval
  <2>4. QED
    BY <1>1, <2>2, <2>3
<1>3. PICK m \in F : \A k \in F : m <= k
  <2>1. F \subseteq Nat
    BY <1>1
  <2>2. QED
    BY <1>2, <2>1, LeastElement
<1>4. m \in 1..c + 1 /\ Free(m)
  <2>1. m \in 1..c + 1 /\ m \notin S
    BY <1>3
  <2>2. ASSUME NEW k \in 1..m - 1, k \notin S PROVE FALSE
    <3>1. k \in F /\ k < m
      BY <1>1, <2>1, <2>2
    <3>2. QED
      BY <1>1, <1>3, <2>1, <3>1
  <2>3. QED
    BY <2>1, <2>2
<1>5. (CHOOSE n \in 1..c + 1 : Free(n)) \in 1..c + 1 /\ Free(CHOOSE n \in 1..c + 1 : Free(n))
  <2> HIDE DEF Free
  <2>1. QED
    BY <1>4
<1>6. QED
  BY <1>1, <1>5

\* open() gives a descriptor that was not open.
LEMMA OpenDescriptorRight ==
  ASSUME NEW t \in Threads, IInv, OpenDescriptor(t)
  PROVE  \E new \in Nat \ open : open' = open \cup {new} /\ fd' = [fd EXCEPT ![t] = new]
<1> DEFINE new == CHOOSE n \in 1..Cardinality(open) + 1 :
                    n \notin open /\ \A k \in 1..n - 1 : k \in open
<1>1. open \subseteq Nat /\ IsFiniteSet(open)
  BY DEF IInv, TypeOK
<1>2. new \in Nat \ open
  BY <1>1, LowestFree
<1>3. open' = open \cup {new} /\ fd' = [fd EXCEPT ![t] = new]
  BY DEF OpenDescriptor
<1> HIDE DEF new
<1>4. QED
  BY <1>2, <1>3

\* Every variable keeps its type; what the stream names and threads hold is open.
LEMMA TypesKept ==
  ASSUME NEW t \in Threads, IInv, Call(t) \/ Step(t) \/ Interrupted(t)
  PROVE  (TypeOK /\ Records)'
<1> USE SizesAssumption, BoundsAssumption
    DEF IInv, TypeOK, Records, kernel, locals, Goto, None
<1>1. CASE Call(t) \/ Stir(t) \/ StirAgain(t) \/ Initialized(t) \/ ChooseSource(t) \/ Interrupted(t)
  BY <1>1 DEF Call, Stir, StirAgain, Initialized, ChooseSource, Interrupted, Interrupt
<1>2. CASE ProbeSucceeds(t) \/ ProbeFails(t) \/ BlockOpensNone(t)
  BY <1>2 DEF ProbeSucceeds, ProbeFails, Fault, BlockOpensNone, Interrupt
<1>3. CASE BlockOpens(t) \/ Open(t)
  <2>1. PICK new \in Nat \ open : open' = open \cup {new} /\ fd' = [fd EXCEPT ![t] = new]
    BY <1>3, OpenDescriptorRight DEF BlockOpens, Open
  <2>2. fd' \in [Threads -> open' \cup {None}] /\ open' \subseteq Nat
    BY <2>1
  <2>3. QED
    BY <1>3, <2>1, <2>2 DEF BlockOpens, Open
<1>4. CASE OpenFails(t)
  BY <1>4 DEF OpenFails, NextDevice, Fault
<1>5. CASE PollSucceeds(t) \/ PollFails(t) \/ StatAccepts(t)
  BY <1>5 DEF Private, Opened, PollSucceeds, CloseDescriptor, PollFails, Fault, StatAccepts
<1>6. CASE StatRefuses(t)
  <2>1. fd' \in [Threads -> open' \cup {None}] /\ open' \subseteq Nat
    BY <1>6 DEF Private, Opened, StatRefuses, NextDevice, CloseDescriptor
  <2>2. stream.fd \in open' \cup {None}
    BY <1>6 DEF Private, Opened, StatRefuses, NextDevice, CloseDescriptor
  <2>3. QED
    BY <1>6, <2>1, <2>2 DEF StatRefuses, NextDevice, Fault
<1>7. CASE GetRandom(t)
  BY <1>7 DEF GetRandom, Advance, Return, Continue
<1>8. CASE RtlGenRandom(t)
  BY <1>8 DEF Return, Advance, RtlGenRandom
<1>9. CASE GetRandomFails(t) \/ RtlGenRandomFails(t)
  <2>1. /\ faults' \in 0..MaxFaults
        /\ UNCHANGED <<system, devices, interrupts, open, stream, size, fd, device, calls>>
    BY <1>9 DEF RtlGenRandomFails, GetRandomFails, Fault
  <2>2. pc' = [pc EXCEPT ![t] = "idle"] /\ ret' = [ret EXCEPT ![t] = "ERR"]
    BY <1>9 DEF RtlGenRandomFails, GetRandomFails, Return
  <2>3. QED
    BY <2>1, <2>2
<1>10. CASE NoDescriptor(t) \/ TestDescriptor(t) \/ TakeDescriptor(t)
  BY <1>10 DEF NoDescriptor, Return, TestDescriptor, TakeDescriptor
<1>11. CASE ReadFails(t)
  BY <1>11 DEF ReadFails, Return, Fault
<1>12. CASE Read(t)
  BY <1>12 DEF Read, Advance, Return, Continue
<1>13. QED
  BY <1>1, <1>2, <1>3, <1>4, <1>5, <1>6, <1>7, <1>8, <1>9, <1>10, <1>11, <1>12 DEF Step

\* A call that returns OK has nothing left to read.
LEMMA ResultsKept ==
  ASSUME NEW t \in Threads, IInv, Call(t) \/ Step(t) \/ Interrupted(t)
  PROVE  Results'
<1> USE SizesAssumption, BoundsAssumption
    DEF IInv, TypeOK, Records, kernel, locals, Goto, None, Results, FilledIfOK
<1>1. CASE Call(t) \/ Stir(t) \/ StirAgain(t) \/ Initialized(t) \/ ChooseSource(t) \/ Interrupted(t)
  BY <1>1 DEF Call, Stir, StirAgain, Initialized, ChooseSource, Interrupted, Interrupt
<1>2. CASE ProbeSucceeds(t) \/ ProbeFails(t) \/ BlockOpensNone(t)
  BY <1>2 DEF ProbeSucceeds, ProbeFails, Fault, BlockOpensNone, Interrupt
<1>3. CASE BlockOpens(t) \/ Open(t)
  BY <1>3, OpenDescriptorRight DEF BlockOpens, Open
<1>4. CASE PollSucceeds(t) \/ PollFails(t) \/ StatAccepts(t)
  BY <1>4 DEF PollSucceeds, CloseDescriptor, PollFails, Fault, StatAccepts
<1>5. CASE OpenFails(t) \/ StatRefuses(t)
  BY <1>5 DEF OpenFails, NextDevice, Fault, StatRefuses, CloseDescriptor
<1>6. CASE GetRandom(t) \/ GetRandomFails(t) \/ RtlGenRandom(t) \/ RtlGenRandomFails(t)
  BY <1>6 DEF GetRandom, Advance, Return, Continue, GetRandomFails, Fault, RtlGenRandom,
              RtlGenRandomFails
<1>7. CASE NoDescriptor(t) \/ TestDescriptor(t) \/ TakeDescriptor(t) \/ Read(t) \/ ReadFails(t)
  BY <1>7 DEF NoDescriptor, Return, TestDescriptor, TakeDescriptor, Read, Advance, Continue,
              ReadFails, Fault
<1>8. QED
  BY <1>1, <1>2, <1>3, <1>4, <1>5, <1>6, <1>7 DEF Step

\* A thread never strays into the code of another system.
LEMMA SystemsKept ==
  ASSUME NEW t \in Threads, IInv, Call(t) \/ Step(t) \/ Interrupted(t)
  PROVE  Systems'
<1> USE SizesAssumption, BoundsAssumption
    DEF IInv, TypeOK, Records, kernel, locals, Goto, None, Systems
<1>1. CASE Call(t) \/ Stir(t) \/ StirAgain(t) \/ Initialized(t) \/ ChooseSource(t) \/ Interrupted(t)
  BY <1>1 DEF Call, Stir, StirAgain, Initialized, ChooseSource, Interrupted, Interrupt
<1>2. CASE ProbeSucceeds(t) \/ ProbeFails(t) \/ BlockOpensNone(t)
  BY <1>2 DEF ProbeSucceeds, ProbeFails, Fault, BlockOpensNone, Interrupt
<1>3. CASE BlockOpens(t) \/ Open(t)
  BY <1>3, OpenDescriptorRight DEF BlockOpens, Open
<1>4. CASE PollSucceeds(t) \/ PollFails(t) \/ StatAccepts(t)
  BY <1>4 DEF PollSucceeds, CloseDescriptor, PollFails, Fault, StatAccepts
<1>5. CASE OpenFails(t) \/ StatRefuses(t)
  BY <1>5 DEF OpenFails, NextDevice, Fault, StatRefuses, CloseDescriptor
<1>6. CASE GetRandom(t) \/ GetRandomFails(t) \/ RtlGenRandom(t) \/ RtlGenRandomFails(t)
  BY <1>6 DEF GetRandom, Advance, Return, Continue, GetRandomFails, Fault, RtlGenRandom,
              RtlGenRandomFails
<1>7. CASE NoDescriptor(t) \/ TestDescriptor(t) \/ TakeDescriptor(t) \/ Read(t) \/ ReadFails(t)
  BY <1>7 DEF NoDescriptor, Return, TestDescriptor, TakeDescriptor, Read, Advance, Continue,
              ReadFails, Fault
<1>8. QED
  BY <1>1, <1>2, <1>3, <1>4, <1>5, <1>6, <1>7 DEF Step

\* While there is no cause to fail, whoever finds the flag set finds a source: the
\* flag comes last, and a thread that initialises again only replaces a descriptor.
LEMMA SourcedKept ==
  ASSUME NEW t \in Threads, IInv, Call(t) \/ Step(t) \/ Interrupted(t), ~Cause'
  PROVE  Sourced'
<1> USE SizesAssumption, BoundsAssumption
    DEF IInv, TypeOK, Records, Devices, kernel, locals, Goto, None, Sourced, Cause, Systems, Results
<1>1. CASE Call(t) \/ Stir(t) \/ StirAgain(t) \/ Initialized(t) \/ ChooseSource(t) \/ Interrupted(t)
  BY <1>1 DEF Call, Stir, StirAgain, Initialized, ChooseSource, Interrupted, Interrupt
<1>2. CASE ProbeSucceeds(t) \/ ProbeFails(t) \/ BlockOpensNone(t)
  BY <1>2 DEF ProbeSucceeds, ProbeFails, Fault, BlockOpensNone, Interrupt
<1>3. CASE BlockOpens(t) \/ Open(t)
  BY <1>3, OpenDescriptorRight DEF BlockOpens, Open
<1>4. CASE PollSucceeds(t) \/ PollFails(t) \/ StatAccepts(t)
  BY <1>4 DEF PollSucceeds, CloseDescriptor, PollFails, Fault, StatAccepts, Private, Opened
<1>5. CASE OpenFails(t)
  BY <1>5 DEF OpenFails, NextDevice, Fault
<1>6. CASE StatRefuses(t)
  <2>1. CASE device[t] < 2
    BY <1>6, <2>1 DEF StatRefuses, NextDevice, Fault, CloseDescriptor
  <2>2. CASE ~(device[t] < 2)
    <3>1. device[t] = 2 /\ (faults = 0 => devices["random"] # "character")
      BY <1>6, <2>2 DEF StatRefuses, Fault
    <3>2. system = "devices" => FALSE
      <4>1. faults = 0
        BY <1>6 DEF StatRefuses, Fault
      <4>2. QED
        BY <1>6, <3>1, <4>1 DEF StatRefuses, Fault
    <3>3. QED
      BY <1>6, <2>2, <3>2 DEF StatRefuses, NextDevice, Fault, CloseDescriptor
  <2>3. QED
    BY <2>1, <2>2
<1>7. CASE GetRandom(t) \/ GetRandomFails(t) \/ RtlGenRandom(t) \/ RtlGenRandomFails(t)
  BY <1>7 DEF GetRandom, Advance, Return, Continue, GetRandomFails, Fault, RtlGenRandom,
              RtlGenRandomFails
<1>8. CASE NoDescriptor(t) \/ TestDescriptor(t) \/ TakeDescriptor(t) \/ Read(t) \/ ReadFails(t)
  BY <1>8 DEF NoDescriptor, Return, TestDescriptor, TakeDescriptor, Read, Advance, Continue,
              ReadFails, Fault
<1>9. QED
  BY <1>1, <1>2, <1>3, <1>4, <1>5, <1>6, <1>7, <1>8 DEF Step

\* open gives a thread a descriptor that is nobody else's, until it stores it.
LEMMA PrivateKept ==
  ASSUME NEW t \in Threads, IInv, Call(t) \/ Step(t) \/ Interrupted(t)
  PROVE  Private'
<1> USE SizesAssumption, BoundsAssumption
    DEF IInv, TypeOK, Records, kernel, locals, Goto, None, Private, Opened
<1>1. CASE Call(t) \/ Stir(t) \/ StirAgain(t) \/ Initialized(t) \/ ChooseSource(t) \/ Interrupted(t)
  BY <1>1 DEF Call, Stir, StirAgain, Initialized, ChooseSource, Interrupted, Interrupt
<1>2. CASE ProbeSucceeds(t) \/ ProbeFails(t) \/ BlockOpensNone(t)
  BY <1>2 DEF ProbeSucceeds, ProbeFails, Fault, BlockOpensNone, Interrupt
<1>3. CASE BlockOpens(t) \/ Open(t)
  BY <1>3, OpenDescriptorRight DEF BlockOpens, Open
<1>4. CASE PollSucceeds(t) \/ PollFails(t) \/ StatAccepts(t)
  BY <1>4 DEF PollSucceeds, CloseDescriptor, PollFails, Fault, StatAccepts
<1>5. CASE OpenFails(t) \/ StatRefuses(t)
  BY <1>5 DEF OpenFails, NextDevice, Fault, StatRefuses, CloseDescriptor
<1>6. CASE GetRandom(t) \/ GetRandomFails(t) \/ RtlGenRandom(t) \/ RtlGenRandomFails(t)
  BY <1>6 DEF GetRandom, Advance, Return, Continue, GetRandomFails, Fault, RtlGenRandom,
              RtlGenRandomFails
<1>7. CASE NoDescriptor(t) \/ TestDescriptor(t) \/ TakeDescriptor(t) \/ Read(t) \/ ReadFails(t)
  BY <1>7 DEF NoDescriptor, Return, TestDescriptor, TakeDescriptor, Read, Advance, Continue,
              ReadFails, Fault
<1>8. QED
  BY <1>1, <1>2, <1>3, <1>4, <1>5, <1>6, <1>7 DEF Step


\* Each open descriptor has an opener of its own: who opens one has opened no
\* other, and who is past its first call opens none any more.
LEMMA OpenersKept ==
  ASSUME NEW t \in Threads, IInv, Call(t) \/ Step(t) \/ Interrupted(t)
  PROVE  IsFiniteSet(open)' /\ \E f \in [open' -> Threads] : Opener(f)'
<1> USE DEF IInv, TypeOK, Records, kernel, locals, Goto
<1> PICK f \in [open -> Threads] : Opener(f)
  OBVIOUS
<1>1. ASSUME BlockOpens(t) \/ Open(t)
      PROVE  IsFiniteSet(open)' /\ \E g \in [open' -> Threads] : Opener(g)'
  <2>1. PICK new \in Nat \ open : open' = open \cup {new} /\ fd' = [fd EXCEPT ![t] = new]
    BY <1>1, OpenDescriptorRight DEF BlockOpens, Open
  <2>2. IsFiniteSet(open)'
    BY <2>1, FS_AddElement
  <2>3. \A n \in open : f[n] # t
    BY <1>1 DEF Opener, Past, Opened, Initialising, BlockOpens, Open
  <2> PICK g : g = [n \in open' |-> IF n = new THEN t ELSE f[n]]
    OBVIOUS
  <2>4. g \in [open' -> Threads]
    BY <2>1
  <2>5. \A m, n \in open' : g[m] = g[n] => m = n
    BY <2>1, <2>3 DEF Opener
  <2>6. \A n \in open' : (Past(g[n]))' \/ (pc'[g[n]] \in Opened /\ fd'[g[n]] = n)
    <3>1. pc'[t] \in Opened /\ fd'[t] = new
      BY <1>1, <2>1 DEF BlockOpens, Open, Opened
    <3>2. \A u \in Threads \ {t} : pc'[u] = pc[u] /\ fd'[u] = fd[u] /\ stream' = stream
      BY <1>1, <2>1 DEF BlockOpens, Open
    <3>3. QED
      BY <2>1, <2>3, <3>1, <3>2 DEF Opener, Past, Initialising
  <2>7. QED
    BY <2>2, <2>4, <2>5, <2>6 DEF Opener
<1>2. ASSUME PollSucceeds(t) \/ PollFails(t) \/ StatRefuses(t)
      PROVE  IsFiniteSet(open)' /\ \E g \in [open' -> Threads] : Opener(g)'
  <2>1. open' = open \ {fd[t]} /\ stream'.initialized = stream.initialized /\ pc[t] \in Opened
    BY <1>2 DEF PollSucceeds, PollFails, StatRefuses, CloseDescriptor, NextDevice, Opened
  <2>2. IsFiniteSet(open)'
    BY <2>1, FS_Subset
  <2>3. \A n \in open' : f[n] # t
    BY <2>1 DEF Opener, Past, Opened, Initialising
  <2>4. \A u \in Threads \ {t} : pc'[u] = pc[u] /\ fd'[u] = fd[u]
    BY <1>2 DEF PollSucceeds, PollFails, StatRefuses, CloseDescriptor, NextDevice
  <2> PICK g : g = [n \in open' |-> f[n]]
    OBVIOUS
  <2>5. g \in [open' -> Threads]
    BY <2>1
  <2>6. Opener(g)'
    BY <2>1, <2>3, <2>4, <2>5 DEF Opener, Past
  <2>7. QED
    BY <2>2, <2>5, <2>6
<1>3. ASSUME UNCHANGED open,
             stream.initialized = 1 => stream'.initialized = 1,
             \A u \in Threads : Past(u) => (Past(u))',
             \A u \in Threads : pc[u] \in Opened =>
               (Past(u))' \/ (pc'[u] \in Opened /\ fd'[u] = fd[u])
      PROVE  IsFiniteSet(open)' /\ \E g \in [open' -> Threads] : Opener(g)'
  <2>1. Opener(f)'
    BY <1>3 DEF Opener
  <2>2. QED
    BY <1>3, <2>1
<1>4. CASE Call(t) \/ Stir(t) \/ StirAgain(t) \/ Initialized(t) \/ ChooseSource(t) \/ Interrupted(t)
  BY <1>3, <1>4 DEF Call, Stir, StirAgain, Initialized, ChooseSource, Interrupted, Past, Opened,
                    Initialising
<1>5. CASE ProbeSucceeds(t) \/ ProbeFails(t) \/ BlockOpensNone(t) \/ OpenFails(t) \/ StatAccepts(t)
  BY <1>3, <1>5 DEF ProbeSucceeds, ProbeFails, BlockOpensNone, OpenFails, NextDevice, StatAccepts,
                    Past,
                    Opened, Initialising
<1>6. CASE GetRandom(t) \/ GetRandomFails(t) \/ RtlGenRandom(t) \/ RtlGenRandomFails(t)
  BY <1>3, <1>6 DEF GetRandom, Return, Continue, GetRandomFails, RtlGenRandom, RtlGenRandomFails,
                    Past,
                    Opened, Initialising
<1>7. CASE NoDescriptor(t) \/ TestDescriptor(t) \/ TakeDescriptor(t) \/ Read(t) \/ ReadFails(t)
  BY <1>3, <1>7 DEF NoDescriptor, Return, TestDescriptor, TakeDescriptor, Read, Continue,
                    ReadFails, Past,
                    Opened, Initialising
<1>8. QED
  BY <1>1, <1>2, <1>4, <1>5, <1>6, <1>7 DEF Step

\* The invariant holds at the start.
LEMMA InitHolds == Init => IInv
<1> SUFFICES ASSUME Init PROVE IInv
  OBVIOUS
<1> USE SizesAssumption, BoundsAssumption DEF Init, None
<1>1. TypeOK
  BY DEF TypeOK
<1>2. Records
  BY DEF Records
<1>3. Results /\ Systems
  BY DEF Results, FilledIfOK, Systems
<1>4. ~Cause => Sourced
  BY DEF Sourced
<1>5. Private
  BY DEF Private, Opened
<1>6. IsFiniteSet(open) /\ \E f \in [open -> Threads] : Opener(f)
  <2>1. IsFiniteSet(open)
    BY FS_EmptySet
  <2> DEFINE f == [n \in {} |-> n]
  <2>2. f \in [open -> Threads] /\ Opener(f)
    BY DEF Opener
  <2>3. QED
    BY <2>1, <2>2
<1>7. QED
  BY <1>1, <1>2, <1>3, <1>4, <1>5, <1>6 DEF IInv

\* It is inductive.
LEMMA NextKeeps == IInv /\ [Next]_vars => IInv'
<1> SUFFICES ASSUME IInv, [Next]_vars PROVE IInv'
  OBVIOUS
<1>1. ASSUME NEW t \in Threads, Call(t) \/ Step(t) \/ Interrupted(t) PROVE IInv'
  BY <1>1, TypesKept, ResultsKept, SystemsKept, SourcedKept, PrivateKept, OpenersKept DEF IInv
<1>2. CASE UNCHANGED vars
  <2> USE <1>2 DEF vars, kernel, locals, IInv
  <2>1. (TypeOK /\ Records /\ Results /\ Systems /\ Private)'
    BY DEF TypeOK, Records, Results, FilledIfOK, Systems, Private
  <2>2. (~Cause => Sourced)'
    BY DEF Cause, Sourced
  <2>3. PICK f \in [open -> Threads] : Opener(f)
    OBVIOUS
  <2>4. Opener(f)'
    BY <2>3 DEF Opener, Past
  <2>5. QED
    BY <2>1, <2>2, <2>3, <2>4
<1>3. QED
  BY <1>1, <1>2 DEF Next, Finished

\* It holds in every behaviour; fairness is not needed.
LEMMA Invariance == FairSpec => []IInv
  BY InitHolds, NextKeeps, PTL DEF FairSpec

\* OK means a full buffer, however the kernel cuts the transfer into pieces
\* (sys_rand.c:130-153, 253-273).
THEOREM FilledIfOKHolds == FairSpec => []FilledIfOK
<1>1. IInv => FilledIfOK
  BY DEF IInv, Results
<1>2. QED
  BY <1>1, Invariance, PTL

\* A call fails only if the kernel has failed or has no source at all: threads
\* that initialise the stream without a lock do not make each other fail, and
\* an interruption is no failure (sys_rand.c:138, 175, 224, 248, 309-348).
THEOREM FailuresHaveACauseHolds == FairSpec => []FailuresHaveACause
<1>1. IInv => FailuresHaveACause
  BY DEF IInv, TypeOK, Cause, Sourced, FailuresHaveACause
<1>2. QED
  BY <1>1, Invariance, PTL

\* No more descriptors are open than there are threads, however many calls they
\* make and however often a device is refused, and the one a thread is waiting
\* for or examining is open and not the stream's (sys_rand.c:176-182, 223, 294).
THEOREM DescriptorsAccountedForHolds == FairSpec => []DescriptorsAccountedFor
<1>1. ASSUME IInv PROVE DescriptorsAccountedFor
  <2>1. TypeOK /\ \A t \in Threads : pc[t] \in {"poll", "stat"} => fd[t] \in open /\ fd[t] # stream.fd
    BY <1>1 DEF IInv, Private, Opened
  <2>2. PICK f \in [open -> Threads] : Opener(f)
    BY <1>1 DEF IInv
  <2>3. f \in Injection(open, Threads)
    BY <2>2 DEF Opener, Injection, IsInjective
  <2>4. Cardinality(open) <= Cardinality(Threads)
    BY <2>3, FS_Injection, ThreadsAssumption
  <2>5. QED
    BY <2>1, <2>4 DEF DescriptorsAccountedFor
<1>2. QED
  BY <1>1, Invariance, PTL
=============================================================================
