-------------------------- MODULE DoramProperties --------------------------
(***************************************************************************)
(* What makes the ORAM correct: that an address has one live copy wherever *)
(* rebuilds and stashes have moved it, that a hash table is never shown    *)
(* the same q twice and answers exactly the queries it has dummies for,    *)
(* that no assertion of the code can fail, and that the whole is a memory. *)
(***************************************************************************)
EXTENDS Doram, Integers

(* The linear level is at location -1, table i at location i.              *)
Loc == Level \cup {-1}

(* The live entries at a location.                                         *)
At(l) == IF l = -1 THEN stupid.entries
         ELSE IF Alive(l) THEN Untouched(ohtables[l]) ELSE {}

TypeOK ==
    /\ stupid \in Stupid
    /\ ohtables \in [Level -> Table \cup {nullptr}]
    /\ base_b \in [Level -> 0 .. AmpFactor - 1]
    /\ pc \in {"idle", "rebuild", "stupid", "levels"}
    /\ qry = nullptr \/ qry \in Requests
    /\ qry = nullptr <=> pc = "idle"
    /\ lvl \in 0 .. NumLevels
    /\ y_accum \in Word
    /\ found \in BOOLEAN
    /\ alibi_mask \in SUBSET Level
    /\ ret = nullptr \/ ret \in SUBSET ValueMask

-----------------------------------------------------------------------------
(* The linear scan and the table lookups XOR together whatever matches, so *)
(* two live copies of an address would corrupt it: across rebuilds, stash  *)
(* reinsertions and write backs there is at most one, and none is left in  *)
(* the hierarchy once the access in flight has found it.                   *)
SingleCopy ==
    /\ \A k, l \in Loc : \A e \in At(k), f \in At(l) :
           e.x = f.x => k = l /\ e = f
    /\ pc = "levels" /\ found =>
           \A l \in Loc : \A e \in At(l) : e.x # qry.x

(* No lookup passes an element by: while the access in flight has not      *)
(* found its element, a live copy is at a level it has still to probe, and *)
(* it has gathered neither data nor alibi bits.                            *)
NotPassedBy ==
    pc = "levels" /\ ~found =>
        /\ y_accum = {} /\ alibi_mask = {}
        /\ \A l \in Loc : \A e \in At(l) : e.x = qry.x => l >= lvl

(* Obliviousness of the lookups: in the lifetime of a table the receivers  *)
(* are shown the q of an address at most once (use_dummy, alibi bits).     *)
ProbeOnce ==
    [][(pc = "levels" /\ lvl \in Level /\ Alive(lvl) /\ ~UseDummy)
          => qry.x \notin ohtables[lvl].seen]_vars

(* An alibi bit is never stale: a live entry above table i that carries    *)
(* bit i belongs to an element whose q table i has not been shown.         *)
AlibiSound ==
    \A k \in Loc : \A e \in At(k) : \A i \in e.y \cap Level :
        k < i /\ Alive(i) => e.x \notin ohtables[i].seen

-----------------------------------------------------------------------------
(* What makes the above inductive. *)

(* Outside the probes of an access its accumulators are clear.             *)
Quiet == pc # "levels" => y_accum = {} /\ ~found /\ alibi_mask = {}

(* A stashed element's position in its table counts as queried.            *)
StashTouched ==
    \A i \in Level : Alive(i) =>
        \A e \in ohtables[i].stash : e.x \in ohtables[i].touched

(* Only levels whose alibi bit the element found carries are in the mask.  *)
MaskFromAccum == alibi_mask \subseteq y_accum

Seen(i, x) == Alive(i) /\ x \in ohtables[i].seen

(* An element whose q table i has been shown still exists, above it and    *)
(* without alibi bit i; or it is the one in flight, which has been found   *)
(* without bit i or has passed table i.                                    *)
SeenExists ==
    \A i \in Level : \A x \in Addr : Seen(i, x) =>
        \/ \E l \in Loc : l < i /\ \E e \in At(l) : e.x = x
        \/ pc = "levels" /\ qry.x = x /\ (found \/ i < lvl)
SeenAbove ==
    \A i \in Level : \A l \in Loc : \A e \in At(l) : Seen(i, e.x) =>
        \/ l < i /\ i \notin e.y
        \/ pc = "levels" /\ qry.x = e.x /\ i < lvl
SeenFound ==
    pc = "levels" /\ found =>
        \A i \in Level : Seen(i, qry.x) /\ i >= lvl => i \notin y_accum

IInv ==
    /\ TypeOK /\ Quiet /\ StashTouched /\ MaskFromAccum
    /\ SingleCopy /\ NotPassedBy
    /\ SeenExists /\ SeenAbove /\ SeenFound

-----------------------------------------------------------------------------
(* The accesses between two builds of table i: those it takes all levels   *)
(* above it to fill up as far as their states say.                         *)
BuildsAbove(i) == SumAbove([j \in Level |-> base_b[j] * AmpPow[j]], i)

(* The count of queries a table has answered follows from the state vector *)
(* and the fill of the linear level, in flight or not; so that it reaches  *)
(* num_dummies exactly when the table is drained.                          *)
QueryCountExact ==
    \A i \in Level : Alive(i) =>
        ohtables[i].query_count =
            BuildsAbove(i) * StupidFillTime + (stupid.num_stored - StashSize)
            + (IF pc = "levels" /\ i < lvl THEN 1 ELSE 0)

(* A table exists exactly when its state is not zero, and has the size the *)
(* state says (the assertions of rebuild rely on both).                    *)
StateVectorAgrees ==
    \A i \in Level :
        /\ Alive(i) <=> base_b[i] # 0
        /\ Alive(i) => ohtables[i].num_elements = NumElementsAt(i, base_b[i])

(* An access that finds the linear level full rebuilds before it goes on,  *)
(* and one that is under way has a free slot to write back to; a stash     *)
(* fills its slots whatever it holds.                                      *)
FillTracked ==
    /\ StashSize =< stupid.num_stored
    /\ pc = "rebuild" => stupid.num_stored = LinearSize
    /\ pc \in {"stupid", "levels"} => stupid.num_stored < LinearSize

(* Real entries are never more than the slots that are counted.            *)
RoomForReal ==
    /\ IsFiniteSet(stupid.entries)
    /\ Cardinality(stupid.entries) =< stupid.num_stored
    /\ \A i \in Level : Alive(i) =>
           /\ IsFiniteSet(ohtables[i].elements)
           /\ Cardinality(ohtables[i].elements) =< ohtables[i].num_elements

(* A position is touched by a query that showed its q, or by the stash.    *)
TouchedOnce ==
    \A i \in Level : Alive(i) =>
        /\ \A e, f \in ohtables[i].elements : e.x = f.x => e = f
        /\ ohtables[i].stash \subseteq ohtables[i].elements
        /\ \A x \in ohtables[i].touched :
               x \in ohtables[i].seen \/ \E e \in ohtables[i].stash : e.x = x

(* Given an initial bottom level, no address is ever missing.              *)
NoneMissing ==
    HadInitialBottomLevel =>
        /\ base_b[Bottom] # 0
        /\ \A x \in Addr : \/ \E l \in Loc : \E e \in At(l) : e.x = x
                           \/ pc = "levels" /\ qry.x = x

(* What makes the assertions hold, step by step (with IInv). *)
AInv ==
    /\ StateVectorAgrees /\ QueryCountExact /\ FillTracked
    /\ RoomForReal /\ TouchedOnce /\ NoneMissing

(* No assertion of the code fails: a rebuild always has its target, its    *)
(* full linear level, its spent tables and its exact element count ...     *)
RebuildAssertsHold ==
    pc = "rebuild" =>
        \E r \in Level :
            /\ IsTarget(r) /\ TargetAsserts(r) /\ ExtractionAsserts(r)
            /\ NextBaseB(r)[r] < AmpFactor
            /\ \E E \in NewElements(r) : \E S \in SUBSET E :
                   IsStash(S, E, NumElementsAt(r, NextBaseB(r)[r]))

(* ... and a probe always a dummy to spend and an untouched position.      *)
ProbeAssertsHold ==
    pc = "levels" =>
        /\ lvl \in Level /\ Alive(lvl) =>
               ProbeAsserts(ohtables[lvl], qry.x, UseDummy, NumDummies(lvl))
        /\ WriteAsserts(stupid)

-----------------------------------------------------------------------------
(* The word stored at an address: its live copy's, or what the access in   *)
(* flight has taken out of the hierarchy.                                  *)
InFlight(x) == pc = "levels" /\ qry.x = x
StoredWord(x) ==
    {b \in ValueMask : \/ \E l \in Loc : \E e \in At(l) : e.x = x /\ b \in e.y
                       \/ InFlight(x) /\ b \in y_accum}

M == INSTANCE Memory WITH
        InitMem <- IF HadInitialBottomLevel THEN InitYs ELSE [a \in Addr |-> {}],
        None    <- nullptr,
        mem     <- [x \in Addr |-> StoredWord(x)],
        req     <- qry

(* The hierarchy implements a memory: it loses, mixes up or resurrects no  *)
(* word, and no alibi bit shows in a value (the driver's oracle).          *)
ImplementsMemory == M!MemSpec

(* Every access that has started returns.                                  *)
AccessReturns == pc # "idle" ~> pc = "idle"

-----------------------------------------------------------------------------
(* extract_alibi_bits, doram_array.h:663-664: "this is not wrong because   *)
(* we're using y_accum (not y) so won't be reset to 0 if not found at      *)
(* level after found": a table about to be probed sees the alibi bit of    *)
(* the element found above it.                                             *)
AlibiMaskKeepsBits ==
    pc = "levels" /\ lvl \in Level /\ Alive(lvl) /\ found =>
        (lvl \in alibi_mask <=> lvl \in y_accum)
=============================================================================
