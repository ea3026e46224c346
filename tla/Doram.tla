------------------------------- MODULE Doram -------------------------------
(***************************************************************************)
(* The ORAM (class DORAM): a linear level over NumLevels hash tables, of   *)
(* which table i < NumLevels - 1 is rebuilt AmpFactor - 1 times, each time *)
(* larger, before its contents move below.  The three parties run this     *)
(* code in lock step on shares; the module is the state they share.        *)
(*                                                                         *)
(* read_and_write is cut into its calls: the rebuild it may start with,    *)
(* the scan of the linear level, one probe per hash table, and the write   *)
(* back.  An assertion of the code is a guard, so an access whose          *)
(* assertion fails is stuck.                                               *)
(***************************************************************************)
EXTENDS OHTable

CONSTANTS
    AmpFactor,             \* 1 << log_amp_factor
    AmpPow,                \* AmpPow[i] is AmpFactor to the power i
    HadInitialBottomLevel, \* had_initial_bottom_level
    InitYs,                \* ys_no_dummy_room: the words given at the start
    Requests,              \* the accesses clients make
    nullptr                \* no table, no access, no result

Request == [x : Addr, y : Word, w : BOOLEAN]

(* log_address_space_size is not a constant here: the constructor's sanity *)
(* check makes the bottom table as large as the address space.             *)
ASSUME DoramAssumption ==
    /\ AmpFactor \in Nat /\ AmpFactor >= 2
    /\ AmpPow \in [0 .. NumLevels -> Nat \ {0}]
    /\ AmpPow[0] = 1
    /\ \A i \in Level : AmpPow[i + 1] = AmpFactor * AmpPow[i]
    /\ IsFiniteSet(Addr)
    /\ Cardinality(Addr) = AmpPow[NumLevels - 1] * LinearSize - 1
    /\ HadInitialBottomLevel \in BOOLEAN
    /\ InitYs \in [Addr -> SUBSET ValueMask]
    /\ Requests \subseteq Request
    /\ nullptr \notin Table /\ nullptr \notin Requests

VARIABLES
    stupid,            \* stupid_level
    ohtables,          \* ohtables: a table or nullptr at each level
    base_b,            \* base_b_state_vec: how often each table was built
    pc,                \* which call of read_and_write comes next
    qry,               \* its arguments qry_x, qry_y, is_write
    lvl,               \* the loop variable i of the probes
    y_accum, found,    \* what the access has found so far
    alibi_mask,        \* the levels whose bit is set in alibi_mask
    ret                \* what the last access returned

locals == <<qry, lvl, y_accum, found, alibi_mask>>
vars == <<stupid, ohtables, base_b, pc, qry, lvl, y_accum, found, alibi_mask, ret>>

Bottom == NumLevels - 1
StupidFillTime == LinearSize - StashSize

(* Mutants of NumDummies: the table as if the linear level had no room set *)
(* aside for a stash; one dummy short.                                     *)
NumDummiesNoStash(i) == AmpPow[i] * LinearSize
NumDummiesShort(i) == AmpPow[i] * StupidFillTime - 1

(* get_num_dummies: the queries a table answers in its lifetime.           *)
NumDummies(i) == AmpPow[i] * StupidFillTime

(* num_elements_at: 0 and 2^log_address_space_size are not addresses.      *)
NumElementsAt(i, state) ==
    IF i = Bottom THEN AmpPow[i] * LinearSize - 1
                  ELSE AmpPow[i] * state * LinearSize

Alive(i) == ohtables[i] # nullptr

-----------------------------------------------------------------------------
(* Construction *)

(* Mutant of Incremented: the bottom's state is counted up too.            *)
IncrementedAtBottom(b, r) == [b EXCEPT ![r] = @ + 1]

(* new_ohtable_of_level's part of a build, on the state vector b.          *)
Incremented(b, r) == [b EXCEPT ![r] = IF r = Bottom THEN 1 ELSE @ + 1]

(* insert_stash: a stashed element goes back on top, its alibi bit saying  *)
(* which table it was kept out of.                                         *)
Reinserted(S, r) == {[x |-> e.x, y |-> e.y \cup AlibiBit(r)] : e \in S}
WithStash(s, S, r) == AfterWrite(s, Reinserted(S, r), StashSize)

InitEntries == {[x |-> a, y |-> InitYs[a]] : a \in Addr}

Init ==
    /\ IF HadInitialBottomLevel
       THEN \E S \in SUBSET InitEntries :
              /\ IsStash(S, InitEntries, NumElementsAt(Bottom, 1))
              /\ ohtables = [i \in Level |-> IF i = Bottom
                     THEN Build(InitEntries, S, NumElementsAt(Bottom, 1)) ELSE nullptr]
              /\ base_b = [i \in Level |-> IF i = Bottom THEN 1 ELSE 0]
              /\ stupid = WithStash(EmptyStupid, S, Bottom)
       ELSE /\ ohtables = [i \in Level |-> nullptr]
            /\ base_b = [i \in Level |-> 0]
            /\ stupid = AfterSkip(EmptyStupid, StashSize)
    /\ pc = "idle"
    /\ qry = nullptr /\ lvl = 0 /\ y_accum = {} /\ found = FALSE /\ alibi_mask = {}
    /\ ret = nullptr

-----------------------------------------------------------------------------
(* rebuild *)

(* The level rebuilt to: the first that is not fully built, or the bottom. *)
IsTarget(r) ==
    /\ \A i \in 0 .. r - 1 : ~(base_b[i] < AmpFactor - 1)
    /\ r # Bottom => base_b[r] < AmpFactor - 1

NeedToExtract(r) == IF r = Bottom THEN base_b[r] # 0 ELSE Alive(r)

Sources(r) == {i \in Level : i < r \/ (i = r /\ NeedToExtract(r))}

(* The sum of f over the levels above i. *)
SumAbove(f, i) ==
    LET sum[j \in 0 .. NumLevels] == IF j = 0 THEN 0 ELSE sum[j - 1] + f[j - 1]
    IN sum[i]

TotNumToExtract(r) ==
    LinearSize + SumAbove([i \in Level |-> NumElementsAt(i, base_b[i])], r)
        + (IF NeedToExtract(r) THEN NumElementsAt(r, base_b[r]) ELSE 0)

(* The assertions on the state vector and the tables that exist.           *)
TargetAsserts(r) ==
    /\ \A i \in Sources(r) : Alive(i)
    /\ r # Bottom /\ Alive(r) =>
           /\ base_b[r] > 0
           /\ ohtables[r].num_elements = NumElementsAt(r, base_b[r])
    /\ r = Bottom /\ ~NeedToExtract(r) => ~HadInitialBottomLevel /\ ~Alive(r)

(* What is taken out must be what the new table has room for, and every    *)
(* table drained must have answered exactly its number of queries.         *)
ExtractionAsserts(r) ==
    /\ ExtractAsserts(stupid)
    /\ \A i \in Sources(r) : DrainAsserts(ohtables[i], NumDummies(i))
    /\ r # Bottom => TotNumToExtract(r) = NumElementsAt(r, base_b[r] + 1)

(* The real entries taken out of the linear level and the tables above and *)
(* at the target.                                                          *)
Collected(r) == Extracted(stupid) \cup UNION {Untouched(ohtables[i]) : i \in Sources(r)}

(* Mutant of Cleansed: the sort puts dummies first, so that what is cut    *)
(* off may be real.                                                        *)
CleansedDummiesFirst(E) == SUBSET E

(* cleanse_bottom_level: dummies are dropped until the list has the bottom *)
(* table's length.  With an initial bottom level the flags are opened and  *)
(* exactly that many real entries asserted; without, sorting by the flag   *)
(* moves real entries to the front and the rest is cut off.                *)
Cleansed(E) ==
    LET n == NumElementsAt(Bottom, 1)
    IN IF HadInitialBottomLevel
       THEN {C \in {E} : Cardinality(C) = n}
       ELSE {C \in SUBSET E : Cardinality(C) = IF Cardinality(E) =< n
                                                THEN Cardinality(E) ELSE n}

(* What the new table at r may be built from.                              *)
NewElements(r) == IF r = Bottom THEN Cleansed(Collected(r)) ELSE {Collected(r)}

(* delete_ohtable on all levels drained, then new_ohtable_of_level.        *)
Wrapped(r) == [i \in Level |-> IF i \in Sources(r) /\ i # Bottom /\ base_b[i] = AmpFactor - 1
                               THEN 0 ELSE base_b[i]]
NextBaseB(r) == Incremented(Wrapped(r), r)
NextOhtables(r, t) == [i \in Level |-> IF i = r THEN t
                                       ELSE IF i < r THEN nullptr ELSE ohtables[i]]

Rebuild ==
    /\ pc = "rebuild"
    /\ \E r \in Level :
         /\ IsTarget(r) /\ TargetAsserts(r) /\ ExtractionAsserts(r)
         /\ base_b' = NextBaseB(r)
         /\ base_b'[r] < AmpFactor
         /\ \E E \in NewElements(r) : \E S \in SUBSET E :
              LET n == NumElementsAt(r, base_b'[r])
              IN /\ IsStash(S, E, n)
                 /\ ohtables' = NextOhtables(r, Build(E, S, n))
                 /\ stupid' = WithStash(AfterClear(stupid), S, r)
    /\ pc' = "stupid"
    /\ UNCHANGED <<locals, ret>>

-----------------------------------------------------------------------------
(* read_and_write *)

Call(q) ==
    /\ pc = "idle"
    /\ qry' = q
    /\ ret' = nullptr
    /\ pc' = IF IsWriteable(stupid) THEN "stupid" ELSE "rebuild"
    /\ UNCHANGED <<stupid, ohtables, base_b, lvl, y_accum, found, alibi_mask>>

(* extract_alibi_bits after a step that left y_accum at y: the alibi bits  *)
(* of y are XORed into the mask.                                           *)
ExtractAlibiBits(mask, y) == Xor(mask, y \cap Level)

QueryStupid ==
    /\ pc = "stupid"
    /\ y_accum' = QueryResult(stupid, qry.x)
    /\ found' = QueryFound(stupid, qry.x)
    /\ stupid' = AfterQuery(stupid, qry.x)
    /\ alibi_mask' = ExtractAlibiBits(alibi_mask, y_accum')
    /\ lvl' = 0
    /\ pc' = "levels"
    /\ UNCHANGED <<ohtables, base_b, qry, ret>>

(* Mutant of SkipLevel: the loop does not move past a missing table.       *)
SkipLevelStaying ==
    /\ pc = "levels" /\ lvl \in Level /\ ~Alive(lvl)
    /\ UNCHANGED vars

SkipLevel ==
    /\ pc = "levels" /\ lvl \in Level /\ ~Alive(lvl)
    /\ lvl' = lvl + 1
    /\ UNCHANGED <<stupid, ohtables, base_b, pc, qry, y_accum, found, alibi_mask, ret>>

(* Mutant of UseDummy: the wrong polarity.                                 *)
UseDummyInverted == (lvl \in alibi_mask) = found

(* A table is asked for a random block once the element has been found,    *)
(* except a table the element's alibi bit names, which must see its q.     *)
UseDummy == (lvl \in alibi_mask) # found

ProbeLevel ==
    /\ pc = "levels" /\ lvl \in Level /\ Alive(lvl)
    /\ ProbeAsserts(ohtables[lvl], qry.x, UseDummy, NumDummies(lvl))
    /\ ohtables' = [ohtables EXCEPT ![lvl] = AfterProbe(@, qry.x, UseDummy)]
    /\ LET hit == Hit(ohtables[lvl], qry.x, UseDummy)
       IN /\ y_accum' = Xor(y_accum, XorAll(hit))
          /\ found' = (found # Parity(hit))
    /\ alibi_mask' = ExtractAlibiBits(alibi_mask, y_accum')
    /\ lvl' = lvl + 1
    /\ UNCHANGED <<stupid, base_b, pc, qry, ret>>

WriteBack ==
    /\ pc = "levels" /\ lvl = NumLevels
    /\ WriteAsserts(stupid)
    /\ LET y == (IF qry.w THEN qry.y ELSE y_accum) \cap ValueMask
       IN stupid' = AfterWrite(stupid, {[x |-> qry.x, y |-> y]}, 1)
    /\ ret' = y_accum \cap ValueMask
    /\ pc' = "idle"
    /\ qry' = nullptr /\ lvl' = 0 /\ y_accum' = {} /\ found' = FALSE /\ alibi_mask' = {}
    /\ UNCHANGED <<ohtables, base_b>>

Access == Rebuild \/ QueryStupid \/ SkipLevel \/ ProbeLevel \/ WriteBack

Next == (\E q \in Requests : Call(q)) \/ Access

Spec == Init /\ [][Next]_vars

(* A call that has started runs on: the code blocks nowhere but in its     *)
(* parties' exchanges, which all three enter in the same order.            *)
FairSpec == Spec /\ WF_vars(Access)
=============================================================================
