---------------------------- MODULE StupidLevel ----------------------------
(***************************************************************************)
(* The linear level on top of the hierarchy (class StupidLevel): an array  *)
(* of LinearSize slots filled from the front and scanned as a whole by     *)
(* every query.                                                            *)
(*                                                                         *)
(* A slot whose address is a stored element's holds a real entry; every    *)
(* other slot in use (cleared by a query, skipped by the constructor, or   *)
(* filled with a relabelled dummy of a stash) is a dummy.  Real entries    *)
(* are kept as a set, slots in use are counted: what a slot's position is  *)
(* never matters to a scan.                                                *)
(***************************************************************************)
EXTENDS Words

CONSTANTS
    Addr,         \* the addresses 1 .. 2^log_address_space_size - 1
    LinearSize    \* 1 << log_sls: the length of the array

ASSUME LinearAssumption == LinearSize \in Nat \ {0}

Entry == [x : Addr, y : Word]

Stupid == [entries : SUBSET Entry, num_stored : 0 .. LinearSize]

EmptyStupid == [entries |-> {}, num_stored |-> 0]

Matches(s, x) == {e \in s.entries : e.x = x}

(* query: the results are the XOR over all matching slots of their data    *)
(* and of their match bits; the addresses of the matching slots are        *)
(* XORed to zero, which makes dummies of them.                             *)
QueryResult(s, x) == XorAll(Matches(s, x))
QueryFound(s, x)  == Parity(Matches(s, x))

(* Mutant of AfterQuery: the addresses that matched are not cleared.       *)
AfterQueryKeeping(s, x) == s
AfterQuery(s, x) == [s EXCEPT !.entries = @ \ Matches(s, x)]

IsWriteable(s) == s.num_stored < LinearSize

(* write: a list of len slots, the real ones among them being E.  The      *)
(* assertion only asks for one free slot; a list that would run over the   *)
(* end of the array is not a state Stupid describes.                       *)
WriteAsserts(s) == s.num_stored < LinearSize
AfterWrite(s, E, len) ==
    [entries |-> s.entries \cup E, num_stored |-> s.num_stored + len]

AfterSkip(s, n) == [s EXCEPT !.num_stored = @ + n]

(* extract hands out all LinearSize slots and asserts that all are in use. *)
ExtractAsserts(s) == s.num_stored = LinearSize
Extracted(s) == s.entries

(* Mutant of AfterClear: the count is not reset.                           *)
AfterClearKeeping(s) == s

(* clear only resets the count; the slots it leaves are overwritten before *)
(* they are scanned again.                                                 *)
AfterClear(s) == EmptyStupid
=============================================================================
