------------------------------ MODULE SysRand -------------------------------
(***************************************************************************)
(* RAND_buf over the system's random source (rand.c, sys_rand.c on Linux   *)
(* and on Windows).  On Linux the first call finds out whether the kernel  *)
(* has getrandom, and if not waits for /dev/random to be ready and opens a *)
(* device; what it learns is kept in the global stream, and neither this   *)
(* nor the rest takes a lock, so that threads may do it at the same time.  *)
(*                                                                         *)
(* The kernel may fail or shorten a call, or interrupt it (EINTR, EAGAIN). *)
(***************************************************************************)
EXTENDS Integers, FiniteSets

CONSTANTS
  Threads,
  Sizes,         \* lengths asked for; 0 stands for any that is not positive
  Chunk,         \* most bytes of one getrandom: 256 in the code
  MaxCalls,      \* bound: calls per thread
  MaxFaults,     \* bound: failures of the kernel
  MaxInterrupts  \* bound: calls of the kernel that are interrupted

ASSUME ThreadsAssumption == IsFiniteSet(Threads)
ASSUME SizesAssumption == Sizes \subseteq Nat /\ Chunk \in Nat \ {0}
ASSUME BoundsAssumption == MaxCalls \in Nat /\ MaxFaults \in Nat /\ MaxInterrupts \in Nat

VARIABLES
  system,      \* "getrandom", "devices" (a kernel without it) or "windows"
  devices,     \* what is found under the name of each device
  faults,      \* kernel calls that have failed, ENOSYS apart
  interrupts,  \* kernel calls that were interrupted
  open,        \* descriptors that are open
  stream,      \* fd, initialized, getrandom_available
  pc, ret,
  size,        \* thread -> bytes still to come
  fd,          \* thread -> the descriptor it has opened, or safe_read's
  device,      \* thread -> index of the device to open
  calls        \* thread -> calls left

kernel == <<system, devices, faults, interrupts>>
locals == <<ret, size, fd, device, calls>>
vars   == <<kernel, open, stream, pc, locals>>

None == -1

Devices == <<"urandom", "random">>

Init ==
  /\ system \in {"getrandom", "devices", "windows"}
  /\ devices \in [{"urandom", "random"} ->
                  IF system = "windows" THEN {"absent"} ELSE {"character", "file", "absent"}]
  /\ faults = 0 /\ interrupts = 0 /\ open = {}
  /\ stream = [fd |-> None, initialized |-> 0, getrandom_available |-> 0]
  /\ pc = [t \in Threads |-> "idle"] /\ ret = [t \in Threads |-> "none"]
  /\ size = [t \in Threads |-> 0] /\ fd = [t \in Threads |-> None]
  /\ device = [t \in Threads |-> 1]
  /\ calls = [t \in Threads |-> MaxCalls]

Goto(t, from, to) == pc[t] = from /\ pc' = [pc EXCEPT ![t] = to]

Return(t, from, result) == Goto(t, from, "idle") /\ ret' = [ret EXCEPT ![t] = result]

Continue(t, at) == Goto(t, at, at) /\ UNCHANGED ret

Fault == faults < MaxFaults /\ faults' = faults + 1 /\ UNCHANGED <<system, devices, interrupts>>

Interrupt ==
  interrupts < MaxInterrupts /\ interrupts' = interrupts + 1 /\ UNCHANGED <<system, devices, faults>>

----------------------------------------------------------------------------
\* RAND_buf refuses a length that is not positive.
Call(t) ==
  /\ pc[t] = "idle" /\ calls[t] > 0
  /\ calls' = [calls EXCEPT ![t] = @ - 1]
  /\ \E n \in Sizes :
       /\ size' = [size EXCEPT ![t] = n]
       /\ pc'   = [pc EXCEPT ![t] = IF n = 0 THEN "idle" ELSE "stir"]
       /\ ret'  = [ret EXCEPT ![t] = IF n = 0 THEN "ERR" ELSE "none"]
  /\ UNCHANGED <<kernel, open, stream, fd, device>>

\* stir_if_needed, and stir itself, which tests the flag once more.
Stir(t) ==
  /\ Goto(t, "stir", IF stream.initialized = 0 THEN "stir2" ELSE "source")
  /\ UNCHANGED <<kernel, open, stream, locals>>

\* Slip: the flag is set before there is anything to find.
StirAgain_FlagFirst(t) ==
  /\ Goto(t, "stir2", IF stream.initialized # 0 THEN "source"
                      ELSE IF system = "windows" THEN "initialized" ELSE "probe")
  /\ stream' = [stream EXCEPT !.initialized = 1]
  /\ UNCHANGED <<kernel, open, locals>>

StirAgain(t) ==
  /\ Goto(t, "stir2", IF stream.initialized # 0 THEN "source"
                      ELSE IF system = "windows" THEN "initialized" ELSE "probe")
  /\ UNCHANGED <<kernel, open, stream, locals>>

ProbeSucceeds(t) ==
  /\ Goto(t, "probe", "initialized")
  /\ system = "getrandom"
  /\ stream' = [stream EXCEPT !.getrandom_available = 1]
  /\ UNCHANGED <<kernel, open, locals>>

ProbeFails(t) ==
  /\ Goto(t, "probe", "block")
  /\ IF system = "getrandom" THEN Fault ELSE UNCHANGED kernel
  /\ stream' = [stream EXCEPT !.getrandom_available = 0]
  /\ UNCHANGED <<open, locals>>

\* open returns the lowest free descriptor.
OpenDescriptor(t) ==
  LET new == CHOOSE n \in 1..Cardinality(open) + 1 :
               n \notin open /\ \A k \in 1..n - 1 : k \in open
  IN  open' = open \cup {new} /\ fd' = [fd EXCEPT ![t] = new]

CloseDescriptor(t) == open' = open \ {fd[t]} /\ fd' = [fd EXCEPT ![t] = None]

\* randombytes_block_on_dev_random: no /dev/random is no failure, ...
BlockOpens(t) ==
  /\ Goto(t, "block", "poll")
  /\ devices["random"] # "absent"
  /\ OpenDescriptor(t)
  /\ UNCHANGED <<kernel, stream, ret, size, device, calls>>

BlockOpensNone(t) ==
  /\ Goto(t, "block", "device")
  /\ IF devices["random"] = "absent" THEN UNCHANGED kernel ELSE Fault \/ Interrupt
  /\ UNCHANGED <<open, stream, locals>>

\* Slip: the descriptor that was polled stays open.
PollSucceeds_NoClose(t) ==
  /\ Goto(t, "poll", "device")
  /\ fd' = [fd EXCEPT ![t] = None]
  /\ UNCHANGED <<kernel, open, stream, ret, size, device, calls>>

\* ... the one that is there is waited for and closed again.
PollSucceeds(t) ==
  /\ Goto(t, "poll", "device")
  /\ CloseDescriptor(t)
  /\ UNCHANGED <<kernel, stream, ret, size, device, calls>>

\* The poll or the close fails, and no device is opened.
PollFails(t) ==
  /\ Goto(t, "poll", "initialized")
  /\ Fault
  /\ CloseDescriptor(t)
  /\ stream' = [stream EXCEPT !.fd = None]
  /\ UNCHANGED <<ret, size, device, calls>>

\* The devices in turn, until one is found to be a character device.
Open(t) ==
  /\ Goto(t, "device", "stat")
  /\ devices[Devices[device[t]]] # "absent"
  /\ OpenDescriptor(t)
  /\ UNCHANGED <<kernel, stream, ret, size, device, calls>>

\* Slip: the next device is not named.
NextDevice_Same(t, from) ==
  Goto(t, from, "device") /\ UNCHANGED <<stream, device>>

NextDevice(t, from) ==
  IF device[t] < 2
    THEN /\ Goto(t, from, "device")
         /\ device' = [device EXCEPT ![t] = @ + 1]
         /\ UNCHANGED stream
    ELSE /\ Goto(t, from, "initialized")
         /\ stream' = [stream EXCEPT !.fd = None]
         /\ device' = [device EXCEPT ![t] = 1]

OpenFails(t) ==
  /\ NextDevice(t, "device")
  /\ IF devices[Devices[device[t]]] = "absent" THEN UNCHANGED kernel ELSE Fault
  /\ UNCHANGED <<open, ret, size, fd, calls>>

StatAccepts(t) ==
  /\ Goto(t, "stat", "initialized")
  /\ devices[Devices[device[t]]] = "character"
  /\ stream' = [stream EXCEPT !.fd = fd[t]]
  /\ fd' = [fd EXCEPT ![t] = None] /\ device' = [device EXCEPT ![t] = 1]
  /\ UNCHANGED <<kernel, open, ret, size, calls>>

StatRefuses(t) ==
  /\ NextDevice(t, "stat")
  /\ IF devices[Devices[device[t]]] = "character" THEN Fault ELSE UNCHANGED kernel
  /\ CloseDescriptor(t)
  /\ UNCHANGED <<ret, size, calls>>

\* The flag is set whether or not there is a source now.
Initialized(t) ==
  /\ Goto(t, "initialized", "source")
  /\ stream' = [stream EXCEPT !.initialized = 1]
  /\ UNCHANGED <<kernel, open, locals>>

----------------------------------------------------------------------------
ChooseSource(t) ==
  /\ Goto(t, "source", IF system = "windows" THEN "RtlGenRandom"
                        ELSE IF stream.getrandom_available # 0 THEN "getrandom"
                        ELSE "descriptor")
  /\ UNCHANGED <<kernel, open, stream, locals>>

Advance(t, n) == size' = [size EXCEPT ![t] = @ - n]

\* A chunk, or what is left of the buffer.
GetRandom(t) ==
  LET n == IF size[t] < Chunk THEN size[t] ELSE Chunk
  IN  /\ system = "getrandom"
      /\ Advance(t, n)
      /\ IF size[t] = n THEN Return(t, "getrandom", "OK")
                        ELSE Continue(t, "getrandom")
      /\ UNCHANGED <<kernel, open, stream, fd, device, calls>>

\* An error, or fewer bytes than asked for.
GetRandomFails(t) ==
  /\ Return(t, "getrandom", "ERR")
  /\ Fault
  /\ UNCHANGED <<open, stream, size, fd, device, calls>>

NoDescriptor(t) ==
  /\ stream.fd = None
  /\ Return(t, "descriptor", "ERR")
  /\ UNCHANGED <<kernel, open, stream, size, fd, device, calls>>

TestDescriptor(t) ==
  /\ stream.fd # None
  /\ Goto(t, "descriptor", "argument")
  /\ UNCHANGED <<kernel, open, stream, locals>>

\* The argument of safe_read is read from the global again.
TakeDescriptor(t) ==
  /\ Goto(t, "argument", "read")
  /\ fd' = [fd EXCEPT ![t] = stream.fd]
  /\ UNCHANGED <<kernel, open, stream, ret, size, device, calls>>

\* Slip: one successful read is enough.
Read_Once(t) ==
  /\ fd[t] # None
  /\ \E n \in 1..size[t] : Advance(t, n) /\ Return(t, "read", "OK")
  /\ fd' = [fd EXCEPT ![t] = None]
  /\ UNCHANGED <<kernel, open, stream, device, calls>>

\* A device may give less than asked for; safe_read goes on.
Read(t) ==
  /\ fd[t] # None
  /\ \E n \in 1..size[t] :
       /\ Advance(t, n)
       /\ IF size[t] = n THEN Return(t, "read", "OK") /\ fd' = [fd EXCEPT ![t] = None]
                         ELSE Continue(t, "read") /\ UNCHANGED fd
  /\ UNCHANGED <<kernel, open, stream, device, calls>>

\* End of file, an error, or a descriptor that is none.
ReadFails(t) ==
  /\ Return(t, "read", "ERR")
  /\ IF fd[t] # None THEN Fault ELSE UNCHANGED kernel
  /\ fd' = [fd EXCEPT ![t] = None]
  /\ UNCHANGED <<open, stream, size, device, calls>>

\* Windows: one call for the whole buffer, of less than 2^32 bytes as
\* RAND_buf's argument is an int.
RtlGenRandom(t) ==
  /\ Return(t, "RtlGenRandom", "OK")
  /\ Advance(t, size[t])
  /\ UNCHANGED <<kernel, open, stream, fd, device, calls>>

RtlGenRandomFails(t) ==
  /\ Return(t, "RtlGenRandom", "ERR")
  /\ Fault
  /\ UNCHANGED <<open, stream, size, fd, device, calls>>

\* An interrupted probe, getrandom, poll, open or read is repeated.
Interrupted(t) ==
  /\ pc[t] \in {"probe", "getrandom", "poll", "device", "read"}
  /\ Interrupt
  /\ UNCHANGED <<open, stream, pc, locals>>

----------------------------------------------------------------------------
\* What a thread does in a call, the kernel answering.
Step(t) ==
  \/ Stir(t) \/ StirAgain(t) \/ ProbeSucceeds(t) \/ ProbeFails(t)
  \/ BlockOpens(t) \/ BlockOpensNone(t) \/ PollSucceeds(t) \/ PollFails(t)
  \/ Open(t) \/ OpenFails(t) \/ StatAccepts(t) \/ StatRefuses(t) \/ Initialized(t)
  \/ ChooseSource(t) \/ GetRandom(t) \/ GetRandomFails(t)
  \/ NoDescriptor(t) \/ TestDescriptor(t) \/ TakeDescriptor(t) \/ Read(t) \/ ReadFails(t)
  \/ RtlGenRandom(t) \/ RtlGenRandomFails(t)

Finished == (\A t \in Threads : pc[t] = "idle") /\ UNCHANGED vars

Next == (\E t \in Threads : Call(t) \/ Step(t) \/ Interrupted(t)) \/ Finished

\* Threads run, and the kernel answers; it may interrupt in between, but not
\* for ever.
FairSpec == Init /\ [][Next]_vars /\ \A t \in Threads : WF_vars(Step(t))

----------------------------------------------------------------------------
TypeOK ==
  /\ system \in {"getrandom", "devices", "windows"}
  /\ faults \in 0..MaxFaults /\ interrupts \in 0..MaxInterrupts /\ open \subseteq Nat
  /\ stream.fd \in open \cup {None}
  /\ stream.initialized \in {0, 1} /\ stream.getrandom_available \in {0, 1}
  /\ pc \in [Threads -> {"idle", "stir", "stir2", "probe", "block", "poll", "device", "stat",
                         "initialized", "source", "getrandom", "descriptor", "argument",
                         "read", "RtlGenRandom"}]
  /\ ret \in [Threads -> {"none", "OK", "ERR"}]
  /\ size \in [Threads -> Nat] /\ fd \in [Threads -> open \cup {None}]
  /\ device \in [Threads -> 1..2] /\ calls \in [Threads -> 0..MaxCalls]

\* Success means that every byte was written, however the kernel cut the
\* transfer into pieces (sys_rand.c:130-153, 253-273).
FilledIfOK == \A t \in Threads : ret[t] = "OK" => size[t] = 0

\* A call for at least one byte fails only if the kernel has failed before, or
\* has neither getrandom nor a device: threads that initialise the stream at
\* the same time never make each other see it without a source, and no
\* interrupted call is taken for a failed one (sys_rand.c:138, 175, 224, 248,
\* 309-348).
FailuresHaveACause ==
  (\E t \in Threads : ret[t] = "ERR" /\ size[t] > 0) =>
    \/ faults > 0
    \/ system = "devices" /\ \A d \in DOMAIN devices : devices[d] # "character"

\* A descriptor that a thread polls or examines is open and not the stream's,
\* and never more are open than there are threads, in however many calls: a
\* device is closed wherever it is refused, and of those that are overwritten
\* in the stream and lost no more are opened than threads can be in their
\* first call at once (sys_rand.c:176-182, 223, 294).
DescriptorsAccountedFor ==
  /\ TypeOK
  /\ \A t \in Threads : pc[t] \in {"poll", "stat"} => fd[t] \in open /\ fd[t] # stream.fd
  /\ Cardinality(open) <= Cardinality(Threads)

\* Every call returns, whatever is found under the names of the devices, if
\* the kernel answers (sys_rand.c:137-150, 172-175, 205-229, 242-248, 258-270).
CallsReturn == \A t \in Threads : pc[t] # "idle" ~> pc[t] = "idle"
=============================================================================
