------------------------------ MODULE Batcher -------------------------------
(***************************************************************************)
(* batcher::sort: the bitonic network that sorts the dummies to the end of *)
(* what is extracted for the bottom level, on arrays of any length.  A     *)
(* layer of the network gathers its pairs into the input of one circuit    *)
(* evaluation, which compute_multithreaded splits between NumThreads       *)
(* threads, and scatters the output back after joining them.               *)
(*                                                                         *)
(* The recursions of sort_internal and butterfly_body are unrolled: chunk  *)
(* is the chunk_size of the outer one on its way up, size that of the      *)
(* layer of the inner one on its way down.                                 *)
(***************************************************************************)
EXTENDS Integers, FiniteSets

CONSTANTS
    MaxLen,        \* bound: the longest array
    NumThreads     \* NUM_THREADS

ASSUME BatcherAssumption ==
    MaxLen \in Nat /\ MaxLen >= 2 /\ NumThreads \in Nat \ {0}

VARIABLES
    len,                             \* arr.length_Ts()
    arr,                             \* the elements: dummy bit, and where they came from
    chunk, size,
    pc,                              \* gather, threads, done or aborted
    circuit_input, circuit_output,   \* one pair of elements per copy of the circuit
    running                          \* the threads not yet joined

vars == <<len, arr, chunk, size, pc, circuit_input, circuit_output, running>>

Thread == 0 .. NumThreads - 1
Index == 0 .. len - 1
Copies == len \div 2
Element(dummy, from) == [dummy |-> dummy, from |-> from]
ZeroPair == <<Element(FALSE, -1), Element(FALSE, -1)>>
ZeroPairs == [s \in 0 .. Copies - 1 |-> ZeroPair]

Smaller(i, j) == IF i < j THEN i ELSE j

(* A power of two is a number whose divisors other than 1 are all even.    *)
PowerOf2(c) == \A d, e \in 1 .. c : d * e = c => d = 1 \/ d % 2 = 0
least_power_of_2_greater_than_or_equal_to(n) ==
    CHOOSE c \in n .. 2 * n : PowerOf2(c) /\ \A d \in n .. c - 1 : ~PowerOf2(d)

Init ==
    /\ len \in 2 .. MaxLen
    /\ \E dummies \in SUBSET Index : arr = [k \in Index |-> Element(k \in dummies, k)]
    /\ chunk = 2 /\ size = 2 /\ pc = "gather"
    /\ circuit_input = ZeroPairs /\ circuit_output = ZeroPairs
    /\ running = {}

-----------------------------------------------------------------------------
(* A pair of a layer: where its chunk starts, and its number in the chunk. *)

Half == size \div 2
PairsOfChunk(start) ==
    {[start |-> start, i |-> i] : i \in 0 .. Smaller(Half, len - start - Half) - 1}
Pairs == UNION {PairsOfChunk(start) :
                   start \in {s \in Index : s % size = 0 /\ s + Half < len}}

Slot(pair) == pair.start \div 2 + pair.i
Second(pair) == pair.start + Half + pair.i

(* butterfly_head compares mirrored, butterfly_body aligned positions.     *)
Invert == size = chunk

(* Mutant of First: the condition the wrong way round.                     *)
FirstBackwards(pair) ==
    IF ~Invert THEN pair.start + Half - 1 - pair.i ELSE pair.start + pair.i
First(pair) ==
    IF Invert THEN pair.start + Half - 1 - pair.i ELSE pair.start + pair.i

(* compute_multithreaded: the copies that fall to thread t.                *)
PerThread == Copies \div NumThreads
SectionStart(t) == t * PerThread
SectionLength(t) ==
    IF t = NumThreads - 1 THEN Copies - SectionStart(t) ELSE PerThread

(* Mutant of Section: the last thread gets as much as the others.          *)
SectionEven(t) == SectionStart(t) .. SectionStart(t) + PerThread - 1
Section(t) == SectionStart(t) .. SectionStart(t) + SectionLength(t) - 1

Gather ==
    /\ pc = "gather"
    /\ \A t \in Thread : SectionLength(t) > 0
    /\ circuit_input' =
          [s \in 0 .. Copies - 1 |->
              IF \E pair \in Pairs : Slot(pair) = s
              THEN LET pair == CHOOSE pair \in Pairs : Slot(pair) = s
                   IN <<arr[First(pair)], arr[Second(pair)]>>
              ELSE ZeroPair]
    /\ circuit_output' = ZeroPairs
    /\ running' = Thread
    /\ pc' = "threads"
    /\ UNCHANGED <<len, arr, chunk, size>>

(* The assertion of compute_multithreaded on the length of a section.      *)
Abort ==
    /\ pc = "gather"
    /\ \E t \in Thread : SectionLength(t) =< 0
    /\ pc' = "aborted"
    /\ UNCHANGED <<len, arr, chunk, size, circuit_input, circuit_output, running>>

CompareSwap(pair) == IF pair[1].dummy THEN <<pair[2], pair[1]>> ELSE pair

Compute(t) ==
    /\ t \in running
    /\ circuit_output' = [s \in DOMAIN circuit_output |->
          IF s \in Section(t) THEN CompareSwap(circuit_input[s]) ELSE circuit_output[s]]
    /\ running' = running \ {t}
    /\ UNCHANGED <<len, arr, chunk, size, pc, circuit_input>>

(* Mutant of NextLayer: the outer recursion never gets past its first step.*)
NextLayerAgain ==
    \/ /\ size > 2
       /\ size' = size \div 2 /\ pc' = "gather" /\ UNCHANGED chunk
    \/ /\ size = 2 /\ chunk < least_power_of_2_greater_than_or_equal_to(len)
       /\ size' = chunk /\ pc' = "gather" /\ UNCHANGED chunk
    \/ /\ size = 2 /\ chunk = least_power_of_2_greater_than_or_equal_to(len)
       /\ pc' = "done" /\ UNCHANGED <<chunk, size>>

NextLayer ==
    \/ /\ size > 2
       /\ size' = size \div 2 /\ pc' = "gather" /\ UNCHANGED chunk
    \/ /\ size = 2 /\ chunk < least_power_of_2_greater_than_or_equal_to(len)
       /\ chunk' = 2 * chunk /\ size' = 2 * chunk /\ pc' = "gather"
    \/ /\ size = 2 /\ chunk = least_power_of_2_greater_than_or_equal_to(len)
       /\ pc' = "done" /\ UNCHANGED <<chunk, size>>

JoinAndScatter ==
    /\ pc = "threads" /\ running = {}
    /\ arr' = [k \in Index |->
          IF \E pair \in Pairs : k = First(pair)
          THEN circuit_output[Slot(CHOOSE pair \in Pairs : k = First(pair))][1]
          ELSE IF \E pair \in Pairs : k = Second(pair)
          THEN circuit_output[Slot(CHOOSE pair \in Pairs : k = Second(pair))][2]
          ELSE arr[k]]
    /\ NextLayer
    /\ UNCHANGED <<len, circuit_input, circuit_output, running>>

Next == Gather \/ Abort \/ JoinAndScatter \/ \E t \in Thread : Compute(t)

(* The main thread, and each thread it starts, run until they are done.    *)
Spec == Init /\ [][Next]_vars
FairSpec ==
    /\ Spec
    /\ WF_vars(Gather \/ Abort \/ JoinAndScatter)
    /\ \A t \in Thread : WF_vars(Compute(t))
=============================================================================
