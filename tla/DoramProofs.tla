---------------------------- MODULE DoramProofs ----------------------------
(***************************************************************************)
(* The safety of Doram, that it implements Memory and that none of its     *)
(* assertions fails, for every number of levels, amplification factor,     *)
(* linear size, stash size, address set and request set the assumptions    *)
(* admit.                                                                  *)
(***************************************************************************)
EXTENDS DoramProperties, Counting

-----------------------------------------------------------------------------
(* What a lookup that accumulates y by XOR and found by parity returns when*)
(* at most one entry matches.                                              *)
LEMMA XorAllType == ASSUME NEW E PROVE XorAll(E) \in Word
BY DEF XorAll, Word

LEMMA XorAllEmpty == XorAll({}) = {} /\ ~Parity({})
BY OddOfNone DEF XorAll, Parity

LEMMA XorAllSingle ==
    ASSUME NEW e, e.y \in Word
    PROVE  XorAll({e}) = e.y /\ Parity({e})
BY OddOfOne DEF XorAll, Parity, Word

(* The sizes a build is given are natural numbers.                         *)
LEMMA NumElementsNat ==
    ASSUME NEW i \in Level, NEW state \in Nat
    PROVE  NumElementsAt(i, state) \in Nat
<1>1. AmpPow[i] \in Nat \ {0} /\ LinearSize \in Nat \ {0}
  BY DoramAssumption, LinearAssumption, WordAssumption DEF Level
<1>2. \A a, b \in Nat \ {0} : a * b \in Nat /\ a * b >= 1
  BY SMT
<1>3. AmpPow[i] * LinearSize - 1 \in Nat
  <2> DEFINE p == AmpPow[i] * LinearSize
  <2>1. p \in Nat /\ p >= 1 BY <1>1, <1>2
  <2> HIDE DEF p
  <2>2. p - 1 \in Nat BY <2>1
  <2> QED BY <2>2 DEF p
<1>4. AmpPow[i] * state * LinearSize \in Nat
  BY <1>1
<1> QED
  BY <1>3, <1>4 DEF NumElementsAt

(* Bottom is a level, and the alibi bits are bits.                         *)
LEMMA LevelFacts ==
    /\ Bottom \in Level /\ Level \subseteq Bit
    /\ Level \subseteq Nat /\ -1 \notin Level /\ 0 \in Level
    /\ NumLevels \in Nat /\ NumLevels \notin Level
    /\ \A i \in Level : i + 1 \in 0 .. NumLevels /\ i < NumLevels /\ ~(NumLevels =< i)
BY WordAssumption DEF Bottom, Level, Bit

(* A stash of a table becomes a legal content of the linear level.         *)
LEMMA WithStashType ==
    ASSUME NEW r \in Level, NEW S \in SUBSET Entry
    PROVE  WithStash(EmptyStupid, S, r) \in Stupid
<1>1. Reinserted(S, r) \subseteq Entry
  <2> SUFFICES ASSUME NEW e \in S
               PROVE  [x |-> e.x, y |-> e.y \cup AlibiBit(r)] \in Entry
    BY DEF Reinserted
  <2>1. e.x \in Addr /\ e.y \subseteq Bit
    BY DEF Entry, Word
  <2>2. AlibiBit(r) \subseteq Bit
    BY LevelFacts DEF AlibiBit
  <2> QED
    BY <2>1, <2>2 DEF Entry, Word
<1>2. StashSize \in 0 .. LinearSize
  BY StashAssumption, LinearAssumption
<1> QED
  BY <1>1, <1>2, StashAssumption DEF WithStash, AfterWrite, EmptyStupid, Stupid

(* A build yields a table.                                                 *)
LEMMA BuildType ==
    ASSUME NEW E \in SUBSET Entry, NEW S \in SUBSET E, NEW n \in Nat
    PROVE  Build(E, S, n) \in Table
BY DEF Build, Table, Entry

(* A query turns a table into a table.                                     *)
LEMMA AfterProbeType ==
    ASSUME NEW t \in Table, NEW x \in Addr, NEW use_dummy
    PROVE  AfterProbe(t, x, use_dummy) \in Table
<1> DEFINE T == t.touched \cup {e.x : e \in Hit(t, x, use_dummy)}
           N == IF use_dummy THEN t.seen ELSE t.seen \cup {x}
<1>1. t.elements \subseteq Entry
  BY DEF Table
<1>2. {e.x : e \in Hit(t, x, use_dummy)} \subseteq Addr
  BY <1>1 DEF Hit, Entry
<1>3. T \subseteq Addr /\ N \subseteq Addr /\ t.query_count + 1 \in Nat
  BY <1>2 DEF Table
<1>4. AfterProbe(t, x, use_dummy)
        = [t EXCEPT !.touched = T, !.seen = N, !.query_count = @ + 1]
  BY DEF AfterProbe
<1> HIDE DEF T, N
<1> QED
  BY <1>3, <1>4 DEF Table

-----------------------------------------------------------------------------
(* Type correctness *)

LEMMA InitType == Init => TypeOK
<1> SUFFICES ASSUME Init PROVE TypeOK
  OBVIOUS
<1>1. base_b \in [Level -> 0 .. AmpFactor - 1]
  <2>1. {0, 1} \subseteq 0 .. AmpFactor - 1
    BY DoramAssumption
  <2>2. \/ base_b = [i \in Level |-> IF i = Bottom THEN 1 ELSE 0]
        \/ base_b = [i \in Level |-> 0]
    BY DEF Init
  <2> QED
    BY <2>1, <2>2
<1>4. /\ pc = "idle" /\ qry = nullptr /\ lvl = 0 /\ ret = nullptr
      /\ y_accum \in Word /\ alibi_mask \in SUBSET Level
  BY DEF Init, Word
<1>5. found \in BOOLEAN
  BY Zenon DEF Init
<1>6. lvl \in 0 .. NumLevels
  BY <1>4, LevelFacts
<1>2. CASE HadInitialBottomLevel
  <2>1. PICK S \in SUBSET InitEntries :
          /\ ohtables = [i \in Level |-> IF i = Bottom
                 THEN Build(InitEntries, S, NumElementsAt(Bottom, 1)) ELSE nullptr]
          /\ stupid = WithStash(EmptyStupid, S, Bottom)
    BY <1>2 DEF Init
  <2>2. InitEntries \subseteq Entry
    <3>1. \A a \in Addr : InitYs[a] \in Word
      BY DoramAssumption DEF ValueMask, Word
    <3> QED
      BY <3>1 DEF InitEntries, Entry
  <2>3. NumElementsAt(Bottom, 1) \in Nat
    BY NumElementsNat, LevelFacts
  <2>4. Build(InitEntries, S, NumElementsAt(Bottom, 1)) \in Table
    BY <2>2, <2>3, BuildType
  <2>5. ohtables \in [Level -> Table \cup {nullptr}]
    BY <2>1, <2>4
  <2>6. stupid \in Stupid
    BY <2>1, <2>2, LevelFacts, WithStashType
  <2> QED
    BY <1>1, <1>4, <1>5, <1>6, <2>5, <2>6 DEF TypeOK
<1>3. CASE ~HadInitialBottomLevel
  <2>1. stupid \in Stupid
    BY <1>3, StashAssumption, LinearAssumption
    DEF Init, AfterSkip, EmptyStupid, Stupid
  <2>2. ohtables \in [Level -> Table \cup {nullptr}]
    BY <1>3 DEF Init
  <2> QED
    BY <1>1, <1>4, <1>5, <1>6, <2>1, <2>2 DEF TypeOK
<1> QED
  BY <1>2, <1>3

(* What a rebuild to r takes out is made of entries.                       *)
LEMMA CollectedType ==
    ASSUME TypeOK, NEW r \in Level, TargetAsserts(r)
    PROVE  Collected(r) \subseteq Entry
<1>1. \A i \in Sources(r) : Untouched(ohtables[i]) \subseteq Entry
  <2> SUFFICES ASSUME NEW i \in Sources(r) PROVE Untouched(ohtables[i]) \subseteq Entry
    OBVIOUS
  <2>1. i \in Level /\ ohtables[i] # nullptr
    BY DEF TargetAsserts, Alive, Sources
  <2>2. ohtables[i] \in Table
    BY <2>1 DEF TypeOK
  <2> QED
    BY <2>2 DEF Table, Untouched
<1>2. stupid.entries \subseteq Entry
  BY DEF TypeOK, Stupid
<1> QED
  BY <1>1, <1>2 DEF Collected, Extracted

LEMMA NewElementsType ==
    ASSUME TypeOK, NEW r \in Level, TargetAsserts(r), NEW E \in NewElements(r)
    PROVE  E \subseteq Collected(r)
BY DEF NewElements, Cleansed

LEMMA NextType == TypeOK /\ [Next]_vars => TypeOK'
<1> SUFFICES ASSUME TypeOK, [Next]_vars PROVE TypeOK'
  OBVIOUS
<1> USE DEF TypeOK
<1>1. ASSUME NEW q \in Requests, Call(q) PROVE TypeOK'
  BY <1>1, DoramAssumption DEF Call
<1>2. CASE Rebuild
  <2>1. PICK r \in Level :
          /\ TargetAsserts(r)
          /\ base_b' = NextBaseB(r)
          /\ base_b'[r] < AmpFactor
          /\ \E E \in NewElements(r) : \E S \in SUBSET E :
               /\ ohtables' = NextOhtables(r, Build(E, S, NumElementsAt(r, base_b'[r])))
               /\ stupid' = WithStash(AfterClear(stupid), S, r)
    BY <1>2 DEF Rebuild
  <2>10. PICK E \in NewElements(r) : \E S \in SUBSET E :
           /\ ohtables' = NextOhtables(r, Build(E, S, NumElementsAt(r, base_b'[r])))
           /\ stupid' = WithStash(AfterClear(stupid), S, r)
    BY <2>1
  <2>2. PICK S \in SUBSET E :
          /\ ohtables' = NextOhtables(r, Build(E, S, NumElementsAt(r, base_b'[r])))
          /\ stupid' = WithStash(AfterClear(stupid), S, r)
    BY <2>10
  <2>3. E \subseteq Entry
    BY <2>1, CollectedType, NewElementsType
  <2>4. base_b' \in [Level -> 0 .. AmpFactor - 1]
    <3>1. Wrapped(r) \in [Level -> 0 .. AmpFactor - 1]
      BY DoramAssumption DEF Wrapped
    <3>2. base_b' \in [Level -> Nat]
      BY <2>1, <3>1 DEF NextBaseB, Incremented
    <3>3. \A i \in Level : base_b'[i] \in 0 .. AmpFactor - 1
      BY <2>1, <3>1, <3>2, DoramAssumption DEF NextBaseB, Incremented
    <3> QED
      BY <3>2, <3>3
  <2>5. Build(E, S, NumElementsAt(r, base_b'[r])) \in Table
    BY <2>3, <2>4, NumElementsNat, BuildType
  <2>6. ohtables' \in [Level -> Table \cup {nullptr}]
    BY <2>2, <2>5 DEF NextOhtables
  <2>7. stupid' \in Stupid
    BY <2>2, <2>3, WithStashType DEF AfterClear
  <2> QED
    BY <1>2, <2>4, <2>6, <2>7 DEF Rebuild, locals
<1>3. CASE QueryStupid
  <2>1. y_accum' \in Word
    BY <1>3, XorAllType DEF QueryStupid, QueryResult
  <2>2. found' \in BOOLEAN
    BY <1>3 DEF QueryStupid, QueryFound, Parity
  <2>3. stupid' \in Stupid
    BY <1>3 DEF QueryStupid, AfterQuery, Stupid
  <2>4. alibi_mask' \in SUBSET Level
    BY <1>3 DEF QueryStupid, ExtractAlibiBits, Xor
  <2> QED
    BY <1>3, <2>1, <2>2, <2>3, <2>4, LevelFacts DEF QueryStupid
<1>4. CASE SkipLevel
  BY <1>4, LevelFacts DEF SkipLevel
<1>5. CASE ProbeLevel
  <2>1. y_accum' \in Word
    BY <1>5, XorAllType DEF ProbeLevel, Xor, Word
  <2>2. found' \in BOOLEAN
    BY <1>5 DEF ProbeLevel
  <2>3. ohtables' \in [Level -> Table \cup {nullptr}]
    <3>1. ohtables[lvl] \in Table /\ qry.x \in Addr
      BY <1>5, DoramAssumption DEF ProbeLevel, Alive, Request
    <3>2. AfterProbe(ohtables[lvl], qry.x, UseDummy) \in Table
      BY <3>1, AfterProbeType
    <3> QED
      BY <1>5, <3>2 DEF ProbeLevel
  <2>4. alibi_mask' \in SUBSET Level
    BY <1>5 DEF ProbeLevel, ExtractAlibiBits, Xor
  <2> QED
    BY <1>5, <2>1, <2>2, <2>3, <2>4, LevelFacts DEF ProbeLevel
<1>6. CASE WriteBack
  <2>1. qry.x \in Addr /\ qry.y \in Word
    BY <1>6, DoramAssumption DEF WriteBack, Request
  <2>2. stupid' \in Stupid
    <3>1. ((IF qry.w THEN qry.y ELSE y_accum) \cap ValueMask) \in Word
      BY <2>1 DEF Word
    <3> DEFINE y == (IF qry.w THEN qry.y ELSE y_accum) \cap ValueMask
    <3>2. [x |-> qry.x, y |-> y] \in Entry
      BY <2>1, <3>1 DEF Entry
    <3>3. stupid.num_stored + 1 \in 0 .. LinearSize
      BY <1>6, LinearAssumption DEF WriteBack, WriteAsserts, Stupid
    <3> QED
      BY <1>6, <3>2, <3>3 DEF WriteBack, AfterWrite, Stupid
  <2> QED
    <3>1. found' \in BOOLEAN
      BY <1>6, Zenon DEF WriteBack
    <3>2. lvl' \in 0 .. NumLevels /\ y_accum' \in Word /\ alibi_mask' \in SUBSET Level
      BY <1>6, LevelFacts DEF WriteBack, Word
    <3> QED
      BY <1>6, <2>2, <3>1, <3>2 DEF WriteBack
<1>7. CASE UNCHANGED vars
  BY <1>7 DEF vars
<1> QED
  BY <1>1, <1>2, <1>3, <1>4, <1>5, <1>6, <1>7 DEF Next, Access

(* Every variable keeps its type: in particular no state of the odometer   *)
(* base_b_state_vec reaches AmpFactor and the linear level never overruns. *)
THEOREM TypeCorrect == Spec => []TypeOK
BY InitType, NextType, PTL DEF Spec

-----------------------------------------------------------------------------
(* How each step moves live entries between locations: the facts the safety*)
(* proofs use instead of the tables' representation.                       *)

LEMMA LocFacts ==
    /\ -1 \in Loc /\ Level \subseteq Loc /\ -1 \notin Level
    /\ \A l \in Loc : l = -1 \/ l \in Level
    /\ \A l \in Loc : l \in Int
    /\ \A i \in Level : i \in Int /\ -1 < i
BY DEF Loc, Level

LEMMA AtType == ASSUME TypeOK, NEW l \in Loc PROVE At(l) \subseteq Entry
<1>1. stupid.entries \subseteq Entry
  BY DEF TypeOK, Stupid
<1>2. ASSUME l \in Level, Alive(l) PROVE Untouched(ohtables[l]) \subseteq Entry
  BY <1>2 DEF TypeOK, Table, Alive, Untouched
<1> QED
  BY <1>1, <1>2, LocFacts DEF At

LEMMA NotNull == \A t \in Table : t # nullptr
BY DoramAssumption

(* The entries a rebuild to r takes out are those live at r or above.      *)
LEMMA CollectedAt ==
    ASSUME TypeOK, NEW r \in Level, TargetAsserts(r), NEW e
    PROVE  e \in Collected(r) <=> \E l \in Loc : l =< r /\ e \in At(l)
<1>1. \A i \in Level : i \in Sources(r) => i =< r /\ Alive(i)
  BY LocFacts DEF Sources, TargetAsserts
<1>2. \A i \in Level : i < r => i \in Sources(r)
  BY DEF Sources
<1>3. r \notin Sources(r) => ~Alive(r)
  BY DEF Sources, NeedToExtract, TargetAsserts
<1>4. ASSUME e \in Collected(r) PROVE \E l \in Loc : l =< r /\ e \in At(l)
  <2>1. CASE e \in stupid.entries
    BY <2>1, LocFacts DEF At
  <2>2. ASSUME NEW i \in Sources(r), e \in Untouched(ohtables[i])
        PROVE  \E l \in Loc : l =< r /\ e \in At(l)
    <3>1. i \in Level
      BY DEF Sources
    <3>2. e \in At(i)
      BY <1>1, <2>2, <3>1, LocFacts DEF At
    <3> QED
      BY <1>1, <3>1, <3>2, LocFacts
  <2> QED
    BY <1>4, <2>1, <2>2 DEF Collected, Extracted
<1>5. ASSUME NEW l \in Loc, l =< r, e \in At(l) PROVE e \in Collected(r)
  <2>1. CASE l = -1
    BY <1>5, <2>1 DEF At, Collected, Extracted
  <2>2. CASE l \in Level
    <3>1. Alive(l) /\ e \in Untouched(ohtables[l])
      BY <1>5, <2>2, LocFacts DEF At
    <3>2. l \in Sources(r)
      <4>1. CASE l < r
        BY <1>2, <2>2, <4>1
      <4>2. CASE l = r
        BY <1>3, <3>1, <4>2
      <4> QED
        BY <1>5, <4>1, <4>2, LocFacts
    <3> QED
      BY <3>1, <3>2 DEF Collected
  <2> QED
    BY <2>1, <2>2, LocFacts
<1> QED
  BY <1>4, <1>5

(* A rebuild to r empties the levels above r; of the elements E it builds  *)
(* from, the stashed ones S become live in the linear level and the others *)
(* in the new table.                                                       *)
LEMMA RebuildMoves ==
    ASSUME TypeOK, Rebuild
    PROVE  \E r \in Level : \E E \in NewElements(r) : \E S \in SUBSET E :
             /\ IsTarget(r) /\ TargetAsserts(r)
             /\ base_b' = NextBaseB(r)
             /\ IsStash(S, E, NumElementsAt(r, base_b'[r]))
             /\ stupid' = WithStash(EmptyStupid, S, r)
             /\ ohtables'[r] = Build(E, S, NumElementsAt(r, base_b'[r])) /\ Alive(r)'
             /\ At(-1)' = Reinserted(S, r)
             /\ At(r)' = {e \in E : e.x \notin {s.x : s \in S}}
             /\ \A l \in Level : l < r => At(l)' = {} /\ ~Alive(l)'
             /\ \A l \in Level : r < l => At(l)' = At(l) /\ ohtables'[l] = ohtables[l]
<1>1. PICK r \in Level :
        /\ IsTarget(r) /\ TargetAsserts(r)
        /\ base_b' = NextBaseB(r)
        /\ \E E \in NewElements(r) : \E S \in SUBSET E :
             /\ IsStash(S, E, NumElementsAt(r, base_b'[r]))
             /\ ohtables' = NextOhtables(r, Build(E, S, NumElementsAt(r, base_b'[r])))
             /\ stupid' = WithStash(AfterClear(stupid), S, r)
  BY DEF Rebuild
<1>2. PICK E \in NewElements(r) : \E S \in SUBSET E :
        /\ IsStash(S, E, NumElementsAt(r, base_b'[r]))
        /\ ohtables' = NextOhtables(r, Build(E, S, NumElementsAt(r, base_b'[r])))
        /\ stupid' = WithStash(AfterClear(stupid), S, r)
  BY <1>1
<1>3. PICK S \in SUBSET E :
        /\ IsStash(S, E, NumElementsAt(r, base_b'[r]))
        /\ ohtables' = NextOhtables(r, Build(E, S, NumElementsAt(r, base_b'[r])))
        /\ stupid' = WithStash(AfterClear(stupid), S, r)
  BY <1>2
<1> DEFINE t == Build(E, S, NumElementsAt(r, base_b'[r]))
<1>4. At(-1)' = Reinserted(S, r)
  BY <1>3 DEF At, WithStash, AfterWrite, AfterClear, EmptyStupid
<1>5. t # nullptr
  <2>1. TypeOK'
    BY NextType DEF Next, Access
  <2>2. base_b'[r] \in Nat
    BY <2>1 DEF TypeOK
  <2>3. E \subseteq Entry
    BY <1>1, CollectedType, NewElementsType
  <2> QED
    BY <2>2, <2>3, NumElementsNat, BuildType, NotNull
<1>6. \A l \in Level : ohtables'[l] = IF l = r THEN t
                                      ELSE IF l < r THEN nullptr ELSE ohtables[l]
  BY <1>3 DEF NextOhtables
<1>7. At(r)' = {e \in E : e.x \notin {s.x : s \in S}}
  <2>1. Untouched(t) = {e \in E : e.x \notin {s.x : s \in S}}
    BY DEF Untouched, Build
  <2> QED
    BY <1>5, <1>6, <2>1, LocFacts DEF At, Alive
<1>8. \A l \in Level : l < r => At(l)' = {} /\ ~Alive(l)'
  BY <1>6, LocFacts DEF At, Alive
<1>9. \A l \in Level : r < l => At(l)' = At(l) /\ ohtables'[l] = ohtables[l]
  BY <1>6, LocFacts DEF At, Alive
<1>10. stupid' = WithStash(EmptyStupid, S, r)
  BY <1>3 DEF AfterClear
<1>11. ohtables'[r] = t /\ Alive(r)'
  BY <1>5, <1>6, LocFacts DEF Alive
<1> QED
  BY <1>1, <1>3, <1>4, <1>7, <1>8, <1>9, <1>10, <1>11

(* A call, a skipped level and a stutter move nothing.                     *)
LEMMA NothingMoves ==
    ASSUME UNCHANGED <<stupid, ohtables>>
    PROVE  \A l \in Loc : At(l)' = At(l)
BY DEF At, Alive

(* The scan takes the entries of the address out of the linear level.      *)
LEMMA QueryStupidMoves ==
    ASSUME QueryStupid
    PROVE  /\ At(-1)' = {e \in At(-1) : e.x # qry.x}
           /\ \A l \in Level : At(l)' = At(l)
BY LocFacts DEF QueryStupid, AfterQuery, Matches, At, Alive

(* A probe takes the entries it hits out of its table; a dummy hits none.  *)
LEMMA ProbeMoves ==
    ASSUME TypeOK, StashTouched, ProbeLevel, NEW i \in Level, i = lvl
    PROVE  /\ Hit(ohtables[i], qry.x, UseDummy)
                = {e \in At(i) : ~UseDummy /\ e.x = qry.x}
           /\ At(i)' = {e \in At(i) : UseDummy \/ e.x # qry.x}
           /\ \A l \in Loc \ {i} : At(l)' = At(l)
           /\ \A l \in Level : Alive(l)' <=> Alive(l)
           /\ \A l \in Level : Alive(l) => ohtables'[l].seen =
                IF l = i /\ ~UseDummy THEN ohtables[l].seen \cup {qry.x}
                ELSE ohtables[l].seen
<1> DEFINE t == ohtables[lvl]
           u == AfterProbe(t, qry.x, UseDummy)
           hit == Hit(t, qry.x, UseDummy)
<1>1. lvl \in Level /\ Alive(lvl) /\ t \in Table
  BY DEF ProbeLevel, TypeOK, Alive
<1>2. TypeOK'
  BY NextType DEF Next, Access
<1>3. ohtables' = [ohtables EXCEPT ![lvl] = u]
  BY DEF ProbeLevel
<1>4. \A l \in Level : ohtables'[l] = IF l = lvl THEN u ELSE ohtables[l]
  BY <1>3 DEF TypeOK
<1>5. u.elements = t.elements /\ u.touched = t.touched \cup {e.x : e \in hit}
      /\ u.seen = (IF UseDummy THEN t.seen ELSE t.seen \cup {qry.x})
  BY <1>1 DEF AfterProbe, Table
<1>6. u # nullptr
  <2>1. u \in Table
    <3>1. qry.x \in Addr
      BY DoramAssumption DEF ProbeLevel, TypeOK, Request
    <3> QED
      BY <1>1, <3>1, AfterProbeType
  <2> QED
    BY <2>1, NotNull
<1>7. hit = {e \in At(lvl) : ~UseDummy /\ e.x = qry.x}
  <2>1. At(lvl) = {e \in t.elements : e.x \notin t.touched}
    BY <1>1, LocFacts DEF At, Untouched
  <2>2. \A e \in hit : e.x \notin t.touched
    BY DEF ProbeLevel, ProbeAsserts
  <2>3. \A e \in t.stash : e.x \in t.touched
    BY <1>1 DEF StashTouched
  <2> QED
    BY <2>1, <2>2, <2>3 DEF Hit
<1>8. At(i)' = {e \in At(i) : UseDummy \/ e.x # qry.x}
  <2>1. At(lvl) = {e \in t.elements : e.x \notin t.touched}
    BY <1>1, LocFacts DEF At, Untouched
  <2>2. At(i)' = Untouched(u)
    BY <1>1, <1>4, <1>6, LocFacts DEF At, Alive
  <2>3. \A e \in At(lvl) : e.x \in {f.x : f \in hit} <=> (~UseDummy /\ e.x = qry.x)
    BY <1>7
  <2> QED
    BY <1>1, <1>5, <2>1, <2>2, <2>3 DEF Untouched
<1>9. \A l \in Loc \ {lvl} : At(l)' = At(l)
  BY <1>4, LocFacts DEF ProbeLevel, At, Alive
<1>10. \A l \in Level : Alive(l)' <=> Alive(l)
  BY <1>1, <1>4, <1>6 DEF Alive
<1>11. \A l \in Level : ohtables'[l].seen =
         IF l = lvl /\ ~UseDummy THEN ohtables[l].seen \cup {qry.x}
         ELSE ohtables[l].seen
  BY <1>4, <1>5
<1> QED
  BY <1>7, <1>8, <1>9, <1>10, <1>11

-----------------------------------------------------------------------------
(* IInv is inductive; SingleCopy, NotPassedBy, AlibiSound and ProbeOnce    *)
(* follow from it.                                                         *)

(* What a lookup returns that matches at most one entry.                   *)
LEMMA AtMostOne ==
    ASSUME NEW H \in SUBSET Entry, \A e, f \in H : e = f
    PROVE  \/ H = {} /\ XorAll(H) = {} /\ ~Parity(H)
           \/ \E e \in H : H = {e} /\ XorAll(H) = e.y /\ Parity(H)
<1>1. CASE H = {}
  BY <1>1, XorAllEmpty
<1>2. ASSUME NEW e \in H PROVE H = {e} /\ XorAll(H) = e.y /\ Parity(H)
  <2>1. H = {e} /\ e.y \in Word
    BY DEF Entry
  <2> QED
    BY <2>1, XorAllSingle
<1> QED
  BY <1>1, <1>2

-----------------------------------------------------------------------------
(* Initial states: nothing has been queried; with an initial bottom table, *)
(* its stash is live in the linear level and the rest in the table.        *)

LEMMA InitAt ==
    ASSUME Init
    PROVE  \/ \E S \in SUBSET InitEntries :
                 /\ At(-1) = Reinserted(S, Bottom)
                 /\ At(Bottom) = {e \in InitEntries : e.x \notin {s.x : s \in S}}
                 /\ \A l \in Level : l # Bottom => At(l) = {} /\ ~Alive(l)
                 /\ ohtables[Bottom].seen = {}
                 /\ ohtables[Bottom].stash = S
                 /\ ohtables[Bottom].touched = {e.x : e \in S}
                 /\ HadInitialBottomLevel
           \/ /\ \A l \in Loc : At(l) = {}
              /\ \A l \in Level : ~Alive(l)
              /\ ~HadInitialBottomLevel
<1>1. CASE HadInitialBottomLevel
  <2> DEFINE n == NumElementsAt(Bottom, 1)
  <2>1. PICK S \in SUBSET InitEntries :
          /\ ohtables = [i \in Level |-> IF i = Bottom
                                         THEN Build(InitEntries, S, n) ELSE nullptr]
          /\ stupid = WithStash(EmptyStupid, S, Bottom)
    BY <1>1 DEF Init
  <2>2. \A l \in Level : l # Bottom => At(l) = {} /\ ~Alive(l)
    BY <2>1, LocFacts DEF At, Alive
  <2>3. ohtables[Bottom] = Build(InitEntries, S, n)
    BY <2>1, LevelFacts
  <2>4. Alive(Bottom)
    <3>1. ohtables[Bottom] \in Table
      <4>1. InitEntries \subseteq Entry
        <5>1. \A a \in Addr : InitYs[a] \in Word
          BY DoramAssumption DEF ValueMask, Word
        <5> QED
          BY <5>1 DEF InitEntries, Entry
      <4> QED
        BY <2>3, <4>1, NumElementsNat, LevelFacts, BuildType
    <3> QED
      BY <3>1, NotNull DEF Alive
  <2>5. At(Bottom) = {e \in InitEntries : e.x \notin {s.x : s \in S}}
    BY <2>3, <2>4, LocFacts, LevelFacts DEF At, Untouched, Build
  <2>6. At(-1) = Reinserted(S, Bottom)
    BY <2>1 DEF At, WithStash, AfterWrite, EmptyStupid
  <2>7. /\ ohtables[Bottom].seen = {} /\ ohtables[Bottom].stash = S
        /\ ohtables[Bottom].touched = {e.x : e \in S}
    BY <2>3 DEF Build
  <2> QED
    BY <1>1, <2>2, <2>5, <2>6, <2>7
<1>2. CASE ~HadInitialBottomLevel
  <2>1. ohtables = [i \in Level |-> nullptr]
        /\ stupid = AfterSkip(EmptyStupid, StashSize)
    BY <1>2 DEF Init
  <2>2. \A l \in Level : ~Alive(l)
    BY <2>1 DEF Alive
  <2>3. At(-1) = {}
    BY <2>1 DEF At, AfterSkip, EmptyStupid
  <2>4. \A l \in Level : At(l) = {}
    BY <2>2, LocFacts DEF At
  <2> QED
    BY <1>2, <2>2, <2>3, <2>4, LocFacts
<1> QED
  BY <1>1, <1>2

LEMMA InitInv == Init => IInv
<1> SUFFICES ASSUME Init PROVE IInv
  OBVIOUS
<1>1. TypeOK
  BY InitType
<1>2. pc = "idle" /\ y_accum = {} /\ alibi_mask = {}
  BY DEF Init
<1>3. ~found
  BY Zenon DEF Init
<1>4. Quiet /\ MaskFromAccum /\ NotPassedBy /\ SeenFound
  BY <1>2, <1>3 DEF Quiet, MaskFromAccum, NotPassedBy, SeenFound
<1>5. StashTouched /\ SeenExists /\ SeenAbove /\ SingleCopy
  <2>1. CASE \E S \in SUBSET InitEntries :
               /\ At(-1) = Reinserted(S, Bottom)
               /\ At(Bottom) = {e \in InitEntries : e.x \notin {s.x : s \in S}}
               /\ \A l \in Level : l # Bottom => At(l) = {} /\ ~Alive(l)
               /\ ohtables[Bottom].seen = {}
               /\ ohtables[Bottom].stash = S
               /\ ohtables[Bottom].touched = {e.x : e \in S}
    <3>1. PICK S \in SUBSET InitEntries :
               /\ At(-1) = Reinserted(S, Bottom)
               /\ At(Bottom) = {e \in InitEntries : e.x \notin {s.x : s \in S}}
               /\ \A l \in Level : l # Bottom => At(l) = {} /\ ~Alive(l)
               /\ ohtables[Bottom].seen = {}
               /\ ohtables[Bottom].stash = S
               /\ ohtables[Bottom].touched = {e.x : e \in S}
      BY <2>1
    <3>2. StashTouched /\ SeenExists /\ SeenAbove
      BY <3>1 DEF StashTouched, SeenExists, SeenAbove, Seen
    <3>3. \A e, f \in InitEntries : e.x = f.x => e = f
      BY DEF InitEntries
    <3>4. \A e \in At(-1) : \E s \in S : e = [x |-> s.x, y |-> s.y \cup AlibiBit(Bottom)]
      BY <3>1 DEF Reinserted
    <3>5. ASSUME NEW e \in At(-1), NEW f \in At(-1), e.x = f.x PROVE e = f
      <4>1. PICK s \in S : e = [x |-> s.x, y |-> s.y \cup AlibiBit(Bottom)]
        BY <3>4
      <4>2. PICK t \in S : f = [x |-> t.x, y |-> t.y \cup AlibiBit(Bottom)]
        BY <3>4
      <4>3. s.x = t.x
        BY <3>5, <4>1, <4>2
      <4>4. s = t
        BY <3>3, <4>3
      <4> QED
        BY <4>1, <4>2, <4>4
    <3>6. \A e, f \in At(Bottom) : e.x = f.x => e = f
      BY <3>1, <3>3
    <3>7. \A e \in At(-1), f \in At(Bottom) : e.x # f.x
      BY <3>1, <3>4
    <3>8. \A l \in Loc : l = -1 \/ l = Bottom \/ At(l) = {}
      BY <3>1, LocFacts
    <3>9. SingleCopy
      BY <1>2, <3>5, <3>6, <3>7, <3>8 DEF SingleCopy
    <3> QED
      BY <3>2, <3>9
  <2>2. CASE (\A l \in Loc : At(l) = {}) /\ \A l \in Level : ~Alive(l)
    BY <1>2, <2>2 DEF StashTouched, SeenExists, SeenAbove, Seen, SingleCopy
  <2> QED
    BY <2>1, <2>2, InitAt
<1> QED
  BY <1>1, <1>4, <1>5 DEF IInv

-----------------------------------------------------------------------------
LEMMA CallInv == ASSUME IInv, NEW q \in Requests, Call(q) PROVE IInv'
<1>1. TypeOK'
  BY NextType DEF IInv, Next
<1>2. /\ UNCHANGED <<stupid, ohtables, y_accum, found, alibi_mask>>
      /\ pc = "idle" /\ pc' \in {"rebuild", "stupid"}
  BY DEF Call
<1>3. \A l \in Loc : At(l)' = At(l)
  BY <1>2, NothingMoves
<1>4. Quiet' /\ StashTouched' /\ MaskFromAccum' /\ NotPassedBy' /\ SeenFound'
  BY <1>2 DEF IInv, Quiet, StashTouched, MaskFromAccum, NotPassedBy, SeenFound, Alive
<1>5. SingleCopy'
  BY <1>2, <1>3 DEF IInv, SingleCopy
<1>6. \A i \in Level : \A x : Seen(i, x)' <=> Seen(i, x)
  BY <1>2 DEF Seen, Alive
<1>7. SeenExists' /\ SeenAbove'
  BY <1>2, <1>3, <1>6 DEF IInv, SeenExists, SeenAbove
<1> QED
  BY <1>1, <1>4, <1>5, <1>7 DEF IInv

LEMMA SkipLevelInv == ASSUME IInv, SkipLevel PROVE IInv'
<1>1. TypeOK'
  BY NextType DEF IInv, Next, Access
<1>2. /\ UNCHANGED <<stupid, ohtables, pc, qry, y_accum, found, alibi_mask>>
      /\ pc = "levels" /\ lvl \in Level /\ ~Alive(lvl) /\ lvl' = lvl + 1
  BY DEF SkipLevel
<1>3. \A l \in Loc : At(l)' = At(l)
  BY <1>2, NothingMoves
<1>4. Quiet' /\ StashTouched' /\ MaskFromAccum'
  BY <1>2 DEF IInv, Quiet, StashTouched, MaskFromAccum, Alive
<1>5. SingleCopy'
  BY <1>2, <1>3 DEF IInv, SingleCopy
<1>6. \A i \in Level : \A x : Seen(i, x)' <=> Seen(i, x)
  BY <1>2 DEF Seen, Alive
<1>7. NotPassedBy'
  <2>1. At(lvl) = {}
    BY <1>2, LocFacts DEF At
  <2>2. \A l \in Loc : l >= lvl /\ l # lvl => l >= lvl + 1
    BY <1>2, LocFacts
  <2> QED
    BY <1>2, <1>3, <2>1, <2>2 DEF IInv, NotPassedBy
<1>8. \A i \in Level : (i < lvl => i < lvl + 1) /\ (i >= lvl + 1 => i >= lvl)
  BY <1>2, LocFacts
<1>9. SeenExists' /\ SeenAbove' /\ SeenFound'
  BY <1>2, <1>3, <1>6, <1>8 DEF IInv, SeenExists, SeenAbove, SeenFound
<1> QED
  BY <1>1, <1>4, <1>5, <1>7, <1>9 DEF IInv

(* A rebuild gathers the copies at its target and above, of which there is *)
(* at most one per address and none below, and deals them out anew.        *)
LEMMA RebuildInv == ASSUME IInv, Rebuild PROVE IInv'
<1>1. TypeOK /\ TypeOK'
  BY NextType DEF IInv, Next, Access
<1>2. /\ pc = "rebuild" /\ pc' = "stupid"
      /\ UNCHANGED <<qry, lvl, y_accum, found, alibi_mask>>
  BY DEF Rebuild, locals
<1>3. PICK r \in Level : \E E \in NewElements(r) : \E S \in SUBSET E :
        /\ TargetAsserts(r)
        /\ At(-1)' = Reinserted(S, r)
        /\ At(r)' = {e \in E : e.x \notin {s.x : s \in S}}
        /\ \A l \in Level : l < r => At(l)' = {} /\ ~Alive(l)'
        /\ \A l \in Level : r < l => At(l)' = At(l) /\ ohtables'[l] = ohtables[l]
        /\ \E n : ohtables'[r] = Build(E, S, n)
  BY <1>1, RebuildMoves
<1>4. PICK E \in NewElements(r) : \E S \in SUBSET E :
        /\ TargetAsserts(r)
        /\ At(-1)' = Reinserted(S, r)
        /\ At(r)' = {e \in E : e.x \notin {s.x : s \in S}}
        /\ \A l \in Level : l < r => At(l)' = {} /\ ~Alive(l)'
        /\ \A l \in Level : r < l => At(l)' = At(l) /\ ohtables'[l] = ohtables[l]
        /\ \E n : ohtables'[r] = Build(E, S, n)
  BY <1>3
<1>5. PICK S \in SUBSET E :
        /\ TargetAsserts(r)
        /\ At(-1)' = Reinserted(S, r)
        /\ At(r)' = {e \in E : e.x \notin {s.x : s \in S}}
        /\ \A l \in Level : l < r => At(l)' = {} /\ ~Alive(l)'
        /\ \A l \in Level : r < l => At(l)' = At(l) /\ ohtables'[l] = ohtables[l]
        /\ \E n : ohtables'[r] = Build(E, S, n)
  BY <1>4
<1>6. \A e \in E : \E k \in Loc : k =< r /\ e \in At(k)
  BY <1>1, <1>5, CollectedAt, NewElementsType
<1>7. \A l \in Loc : l = -1 \/ (l \in Level /\ (l < r \/ l = r \/ r < l))
  BY LocFacts
<1>8. \A e \in At(-1)' : \E s \in S : e = [x |-> s.x, y |-> s.y \cup AlibiBit(r)]
  BY <1>5 DEF Reinserted
<1>9. Quiet' /\ NotPassedBy' /\ SeenFound' /\ MaskFromAccum'
  BY <1>2 DEF IInv, Quiet, NotPassedBy, SeenFound, MaskFromAccum
<1>10. StashTouched'
  <2>1. \A e \in S : e.x \in ohtables'[r].touched
    BY <1>5 DEF Build
  <2>2. ohtables'[r].stash = S
    BY <1>5 DEF Build
  <2> SUFFICES ASSUME NEW i \in Level, Alive(i)', NEW e \in ohtables'[i].stash
               PROVE  e.x \in ohtables'[i].touched
    BY DEF StashTouched
  <2>3. CASE i = r
    BY <2>1, <2>2, <2>3
  <2>4. CASE r < i
    BY <1>5, <2>4 DEF IInv, StashTouched, Alive
  <2> QED
    BY <1>5, <1>7, <2>3, <2>4, LocFacts
<1>11. SingleCopy'
  <2>1. \A e, f \in E : e.x = f.x => e = f
    BY <1>6 DEF IInv, SingleCopy
  <2>2. ASSUME NEW e \in E, NEW l \in Level, r < l, NEW f \in At(l)
        PROVE  e.x # f.x
    <3>1. PICK k \in Loc : k =< r /\ e \in At(k)
      BY <1>6
    <3>2. k # l /\ l \in Loc
      BY <2>2, <3>1, LocFacts
    <3> QED
      BY <3>1, <3>2 DEF IInv, SingleCopy
  <2>3. \A e, f \in At(-1)' : e.x = f.x => e = f
    <3> SUFFICES ASSUME NEW e \in At(-1)', NEW f \in At(-1)', e.x = f.x PROVE e = f
      OBVIOUS
    <3>1. PICK s \in S : e = [x |-> s.x, y |-> s.y \cup AlibiBit(r)]
      BY <1>8
    <3>2. PICK t \in S : f = [x |-> t.x, y |-> t.y \cup AlibiBit(r)]
      BY <1>8
    <3>3. s = t
      BY <2>1, <3>1, <3>2
    <3> QED
      BY <3>1, <3>2, <3>3
  <2>4. \A e, f \in At(r)' : e.x = f.x => e = f
    BY <1>5, <2>1
  <2>5. \A e \in At(-1)', f \in At(r)' : e.x # f.x
    BY <1>5, <1>8
  <2>6. \A l \in Level : r < l =>
           \A f \in At(l)' : (\A e \in At(-1)' : e.x # f.x) /\ (\A e \in At(r)' : e.x # f.x)
    BY <1>5, <1>8, <2>2
  <2>7. \A k, l \in Level : r < k /\ r < l =>
           \A e \in At(k)', f \in At(l)' : e.x = f.x => k = l /\ e = f
    BY <1>5, LocFacts DEF IInv, SingleCopy
  <2> SUFFICES ASSUME NEW k \in Loc, NEW l \in Loc, NEW e \in At(k)', NEW f \in At(l)',
                      e.x = f.x
               PROVE  k = l /\ e = f
    BY <1>2 DEF SingleCopy
  <2>8. (k = -1 \/ k = r \/ (k \in Level /\ r < k)) /\ (l = -1 \/ l = r \/ (l \in Level /\ r < l))
    BY <1>5, <1>7
  <2> QED
    BY <2>3, <2>4, <2>5, <2>6, <2>7, <2>8
<1>12. \A i \in Level : \A x : Seen(i, x)' => r < i /\ Seen(i, x)
  <2>1. ohtables'[r].seen = {}
    BY <1>5 DEF Build
  <2> QED
    BY <1>5, <1>7, <2>1, LocFacts DEF Seen, Alive
<1>13. SeenExists'
  <2> SUFFICES ASSUME NEW i \in Level, NEW x \in Addr, Seen(i, x)'
               PROVE  \E l \in Loc : l < i /\ \E e \in At(l)' : e.x = x
    BY DEF SeenExists
  <2>1. r < i /\ Seen(i, x)
    BY <1>12
  <2>2. PICK l \in Loc : l < i /\ \E e \in At(l) : e.x = x
    BY <1>2, <2>1 DEF IInv, SeenExists
  <2>3. PICK e \in At(l) : e.x = x
    BY <2>2
  <2>4. CASE r < l
    BY <1>5, <2>2, <2>3, <2>4, LocFacts
  <2>5. CASE l =< r
    <3>1. r # Bottom
      BY <2>1, LocFacts, WordAssumption DEF Bottom, Level
    <3>2. e \in E
      BY <1>1, <1>5, <2>3, <2>5, <3>1, CollectedAt DEF NewElements
    <3>3. CASE \E s \in S : s.x = e.x
      <4>1. PICK s \in S : s.x = e.x
        BY <3>3
      <4>2. [x |-> s.x, y |-> s.y \cup AlibiBit(r)] \in At(-1)'
        BY <1>5 DEF Reinserted
      <4> QED
        BY <2>3, <4>1, <4>2, LocFacts
    <3>4. CASE ~\E s \in S : s.x = e.x
      <4>1. e \in At(r)'
        BY <1>5, <3>2, <3>4
      <4> QED
        BY <2>1, <2>3, <4>1, LocFacts
    <3> QED
      BY <3>3, <3>4
  <2> QED
    BY <2>4, <2>5, LocFacts
<1>14. SeenAbove'
  <2> SUFFICES ASSUME NEW i \in Level, NEW l \in Loc, NEW e \in At(l)', Seen(i, e.x)'
               PROVE  l < i /\ i \notin e.y
    BY DEF SeenAbove
  <2>1. r < i /\ Seen(i, e.x)
    BY <1>12
  <2>2. \A k \in Loc : \A f \in At(k) : f.x = e.x => k < i /\ i \notin f.y
    BY <1>2, <2>1 DEF IInv, SeenAbove
  <2>3. CASE l = -1
    <3>1. PICK s \in S : e = [x |-> s.x, y |-> s.y \cup AlibiBit(r)]
      BY <1>8, <2>3
    <3>2. i \notin s.y
      BY <1>6, <2>2, <3>1
    <3>3. i # r /\ -1 < i
      BY <2>1, LocFacts
    <3> QED
      BY <2>3, <3>1, <3>2, <3>3 DEF AlibiBit
  <2>4. CASE l = r
    BY <1>5, <1>6, <2>1, <2>2, <2>4
  <2>5. CASE l \in Level /\ r < l
    BY <1>5, <2>2, <2>5
  <2> QED
    BY <1>5, <1>7, <2>3, <2>4, <2>5
<1> QED
  BY <1>1, <1>9, <1>10, <1>11, <1>13, <1>14 DEF IInv

(* The scan either finds the one copy in the linear level, and takes it    *)
(* into the accumulators, or leaves everything as it is.                   *)
LEMMA QueryStupidInv == ASSUME IInv, QueryStupid PROVE IInv'
<1>1. TypeOK /\ TypeOK'
  BY NextType DEF IInv, Next, Access
<1> DEFINE M0 == {e \in At(-1) : e.x = qry.x}
<1>2. /\ pc = "stupid" /\ pc' = "levels" /\ lvl' = 0
      /\ UNCHANGED <<ohtables, qry>>
      /\ y_accum' = XorAll(M0)
      /\ found' = Parity(M0)
      /\ alibi_mask' = Xor(alibi_mask, y_accum' \cap Level)
  BY DEF QueryStupid, QueryResult, QueryFound, Matches, ExtractAlibiBits, At
<1>3. /\ At(-1)' = {e \in At(-1) : e.x # qry.x}
      /\ \A l \in Level : At(l)' = At(l)
  BY QueryStupidMoves
<1>4. y_accum = {} /\ alibi_mask = {}
  BY <1>2 DEF IInv, Quiet
<1>5. \/ M0 = {} /\ y_accum' = {} /\ ~found'
      \/ \E e \in M0 : M0 = {e} /\ y_accum' = e.y /\ found'
  <2>1. \A e, f \in M0 : e = f
    BY LocFacts DEF IInv, SingleCopy
  <2>2. M0 \subseteq Entry
    BY <1>1, AtType, LocFacts
  <2> HIDE DEF M0
  <2>3. \/ M0 = {} /\ XorAll(M0) = {} /\ ~Parity(M0)
        \/ \E e \in M0 : M0 = {e} /\ XorAll(M0) = e.y /\ Parity(M0)
    BY <2>1, <2>2, AtMostOne
  <2> QED
    BY <1>2, <2>3
<1>6. \A l \in Loc : At(l)' \subseteq At(l)
  BY <1>3, LocFacts
<1>7. \A i \in Level : \A x : Seen(i, x)' <=> Seen(i, x)
  BY <1>2 DEF Seen, Alive
<1>8. Quiet' /\ StashTouched' /\ MaskFromAccum'
  BY <1>2, <1>4 DEF IInv, Quiet, StashTouched, MaskFromAccum, Alive, Xor
<1>9. SingleCopy'
  <2>1. \A k, l \in Loc : \A e \in At(k)', f \in At(l)' : e.x = f.x => k = l /\ e = f
    BY <1>6 DEF IInv, SingleCopy
  <2>2. ASSUME found', NEW l \in Loc, NEW e \in At(l)' PROVE e.x # qry.x
    <3>1. PICK f \in At(-1) : f.x = qry.x
      BY <1>5, <2>2
    <3>2. CASE l = -1
      BY <1>3, <3>2
    <3>3. CASE l # -1
      BY <1>6, <3>1, <3>3, LocFacts DEF IInv, SingleCopy
    <3> QED
      BY <3>2, <3>3
  <2> QED
    BY <1>2, <2>1, <2>2 DEF SingleCopy
<1>10. NotPassedBy'
  <2> SUFFICES ASSUME ~found'
               PROVE  /\ y_accum' = {} /\ alibi_mask' = {}
                      /\ \A l \in Loc : \A e \in At(l)' : e.x = qry.x => l >= 0
    BY <1>2 DEF NotPassedBy
  <2>1. y_accum' = {} /\ alibi_mask' = {}
    BY <1>2, <1>4, <1>5 DEF Xor
  <2>2. \A l \in Loc : \A e \in At(l)' : e.x = qry.x => l >= 0
    <3>1. \A l \in Level : l >= 0
      BY DEF Level
    <3> QED
      BY <1>3, <3>1, LocFacts
  <2> QED
    BY <2>1, <2>2
<1>11. SeenExists'
  <2> SUFFICES ASSUME NEW i \in Level, NEW x \in Addr, Seen(i, x)
               PROVE  \/ \E l \in Loc : l < i /\ \E e \in At(l)' : e.x = x
                      \/ qry.x = x /\ found'
    BY <1>2, <1>7 DEF SeenExists
  <2>1. PICK l \in Loc : l < i /\ \E e \in At(l) : e.x = x
    BY <1>2 DEF IInv, SeenExists
  <2>2. PICK e \in At(l) : e.x = x
    BY <2>1
  <2>3. CASE l = -1 /\ x = qry.x
    <3>1. e \in M0
      BY <2>2, <2>3
    <3> HIDE DEF M0
    <3> QED
      BY <1>5, <2>3, <3>1
  <2>4. CASE ~(l = -1 /\ x = qry.x)
    BY <1>3, <2>1, <2>2, <2>4, LocFacts
  <2> QED
    BY <2>3, <2>4
<1>12. SeenAbove'
  BY <1>2, <1>6, <1>7 DEF IInv, SeenAbove
<1>13. SeenFound'
  <2> SUFFICES ASSUME found', NEW i \in Level, Seen(i, qry.x) PROVE i \notin y_accum'
    BY <1>2, <1>7 DEF SeenFound
  <2>1. PICK e \in At(-1) : e.x = qry.x /\ y_accum' = e.y
    BY <1>5
  <2> QED
    BY <1>2, <2>1, LocFacts DEF IInv, SeenAbove
<1> QED
  BY <1>1, <1>8, <1>9, <1>10, <1>11, <1>12, <1>13 DEF IInv

(* A probe while the element has not been found asks for it, and finds the *)
(* one copy if it is here; a probe after it has been found finds nothing,  *)
(* dummy or not, since no copy is left.                                    *)
LEMMA ProbeLevelInv == ASSUME IInv, ProbeLevel PROVE IInv'
<1>1. TypeOK /\ TypeOK'
  BY NextType DEF IInv, Next, Access
<1>2. PICK i \in Level : i = lvl
  BY DEF ProbeLevel
<1> DEFINE H == Hit(ohtables[i], qry.x, UseDummy)
<1>3. /\ pc = "levels" /\ pc' = "levels" /\ lvl' = i + 1 /\ Alive(i)
      /\ UNCHANGED <<stupid, qry>>
      /\ y_accum' = Xor(y_accum, XorAll(H))
      /\ found' = (found # Parity(H))
      /\ alibi_mask' = Xor(alibi_mask, y_accum' \cap Level)
  BY <1>2 DEF ProbeLevel, ExtractAlibiBits
<1>4. /\ H = {e \in At(i) : ~UseDummy /\ e.x = qry.x}
      /\ At(i)' = {e \in At(i) : UseDummy \/ e.x # qry.x}
      /\ \A l \in Loc \ {i} : At(l)' = At(l)
      /\ \A l \in Level : Alive(l)' <=> Alive(l)
      /\ \A l \in Level : Alive(l) => ohtables'[l].seen =
            IF l = i /\ ~UseDummy THEN ohtables[l].seen \cup {qry.x}
            ELSE ohtables[l].seen
  BY <1>1, <1>2, ProbeMoves DEF IInv
<1>5. i \in Loc /\ i \in Int
  BY LocFacts
<1>6. \/ H = {} /\ XorAll(H) = {} /\ ~Parity(H)
      \/ \E e \in H : H = {e} /\ XorAll(H) = e.y /\ Parity(H)
  <2>1. \A e, f \in H : e = f
    BY <1>4, <1>5 DEF IInv, SingleCopy
  <2>2. H \subseteq Entry
    BY <1>1, <1>4, <1>5, AtType
  <2> HIDE DEF H
  <2> QED
    BY <2>1, <2>2, AtMostOne
<1>7. found => H = {}
  BY <1>3, <1>4, <1>5 DEF IInv, SingleCopy
<1>8. ~found => y_accum = {} /\ alibi_mask = {} /\ ~UseDummy
  <2> SUFFICES ASSUME ~found PROVE y_accum = {} /\ alibi_mask = {} /\ ~UseDummy
    OBVIOUS
  <2>1. y_accum = {} /\ alibi_mask = {}
    BY <1>3 DEF IInv, NotPassedBy
  <2>2. found = FALSE /\ (lvl \in alibi_mask) = FALSE
    BY <1>1, <2>1 DEF TypeOK
  <2> QED
    BY <2>1, <2>2 DEF UseDummy
<1> HIDE DEF H
<1>9. \/ H = {} /\ y_accum' = y_accum /\ (found' <=> found)
      \/ ~found /\ found' /\ \E e \in H : H = {e} /\ y_accum' = e.y
  <2>1. CASE H = {}
    <3>1. XorAll(H) = {} /\ Parity(H) = FALSE
      BY <1>6, <2>1
    <3>2. y_accum' = y_accum
      BY <1>3, <3>1 DEF Xor
    <3>3. found' <=> found
      BY <1>1, <1>3, <3>1 DEF TypeOK
    <3> QED
      BY <2>1, <3>2, <3>3
  <2>2. CASE H # {}
    <3>1. PICK e \in H : H = {e} /\ XorAll(H) = e.y /\ Parity(H) = TRUE
      BY <1>6, <2>2 DEF Parity
    <3>2. ~found /\ y_accum = {}
      BY <1>7, <1>8, <2>2
    <3>3. y_accum' = e.y
      BY <1>3, <3>1, <3>2 DEF Xor
    <3>4. found'
      BY <1>1, <1>3, <3>1, <3>2 DEF TypeOK
    <3> QED
      BY <3>1, <3>2, <3>3, <3>4
  <2> QED
    BY <2>1, <2>2
<1>10. \A l \in Loc : At(l)' \subseteq At(l)
  BY <1>4
<1>11. \A l \in Level : \A x : Seen(l, x)' <=> Seen(l, x) \/ (l = i /\ ~UseDummy /\ x = qry.x)
  BY <1>3, <1>4 DEF Seen
<1>12. MaskFromAccum'
  <2>1. alibi_mask \subseteq y_accum'
    BY <1>8, <1>9 DEF IInv, MaskFromAccum
  <2> QED
    BY <1>3, <2>1 DEF MaskFromAccum, Xor
<1>13. StashTouched'
  <2>1. ohtables' = [ohtables EXCEPT ![i] = AfterProbe(@, qry.x, UseDummy)]
    BY <1>2 DEF ProbeLevel
  <2>2. ohtables[i] \in Table
    BY <1>1, <1>3 DEF TypeOK, Alive
  <2>3. /\ ohtables'[i].stash = ohtables[i].stash
        /\ ohtables[i].touched \subseteq ohtables'[i].touched
    BY <1>1, <2>1, <2>2 DEF TypeOK, AfterProbe, Table
  <2>4. \A l \in Level : l # i => ohtables'[l] = ohtables[l]
    BY <1>1, <2>1 DEF TypeOK
  <2> QED
    BY <1>4, <2>3, <2>4 DEF IInv, StashTouched
<1>14. SingleCopy'
  <2>1. \A k, l \in Loc : \A e \in At(k)', f \in At(l)' : e.x = f.x => k = l /\ e = f
    BY <1>10 DEF IInv, SingleCopy
  <2>2. ASSUME found', NEW l \in Loc, NEW e \in At(l)' PROVE e.x # qry.x
    <3>1. CASE found
      BY <1>3, <1>10, <3>1 DEF IInv, SingleCopy
    <3>2. CASE ~found
      <4>1. PICK f \in At(i) : f.x = qry.x
        BY <1>4, <1>9, <2>2, <3>2
      <4>2. CASE l = i
        BY <1>4, <1>8, <3>2, <4>2
      <4>3. CASE l # i
        BY <1>5, <1>10, <4>1, <4>3 DEF IInv, SingleCopy
      <4> QED
        BY <4>2, <4>3
    <3> QED
      BY <3>1, <3>2
  <2> QED
    BY <1>3, <2>1, <2>2 DEF SingleCopy
<1>15. NotPassedBy'
  <2> SUFFICES ASSUME ~found'
               PROVE  /\ y_accum' = {} /\ alibi_mask' = {}
                      /\ \A l \in Loc : \A e \in At(l)' : e.x = qry.x => l >= i + 1
    BY <1>3 DEF NotPassedBy
  <2>1. ~found /\ H = {} /\ y_accum' = {} /\ alibi_mask' = {}
    BY <1>3, <1>8, <1>9 DEF Xor
  <2>2. ASSUME NEW l \in Loc, NEW e \in At(l)', e.x = qry.x PROVE l >= i + 1
    <3>1. l >= i
      BY <1>2, <1>3, <1>10, <2>1, <2>2 DEF IInv, NotPassedBy
    <3>2. l # i
      BY <1>4, <1>8, <2>1, <2>2
    <3> QED
      BY <1>5, <3>1, <3>2, LocFacts
  <2> QED
    BY <2>1, <2>2
<1>16. SeenExists'
  <2> SUFFICES ASSUME NEW k \in Level, NEW x \in Addr, Seen(k, x)'
               PROVE  \/ \E l \in Loc : l < k /\ \E e \in At(l)' : e.x = x
                      \/ qry.x = x /\ (found' \/ k < i + 1)
    BY <1>3 DEF SeenExists
  <2>1. CASE k = i /\ x = qry.x
    BY <1>5, <2>1
  <2>2. CASE ~(k = i /\ x = qry.x)
    <3>1. Seen(k, x)
      BY <1>11, <2>2
    <3>2. CASE \E l \in Loc : l < k /\ \E e \in At(l) : e.x = x
      <4>1. PICK l \in Loc : l < k /\ \E e \in At(l) : e.x = x
        BY <3>2
      <4>2. PICK e \in At(l) : e.x = x
        BY <4>1
      <4>3. CASE e \in At(l)'
        BY <4>1, <4>2, <4>3
      <4>4. CASE e \notin At(l)'
        <5>1. l = i /\ ~UseDummy /\ x = qry.x /\ e \in H
          BY <1>4, <4>2, <4>4
        <5> QED
          BY <1>9, <5>1
      <4> QED
        BY <4>3, <4>4
    <3>3. CASE qry.x = x /\ (found \/ k < lvl)
      <4>1. found => found'
        BY <1>9
      <4>2. k < i => k < i + 1
        BY <1>5, LocFacts
      <4> QED
        BY <1>2, <3>3, <4>1, <4>2
    <3> QED
      BY <3>1, <3>2, <3>3 DEF IInv, SeenExists
  <2> QED
    BY <2>1, <2>2
<1>17. SeenAbove'
  <2> SUFFICES ASSUME NEW k \in Level, NEW l \in Loc, NEW e \in At(l)', Seen(k, e.x)'
               PROVE  \/ l < k /\ k \notin e.y
                      \/ qry.x = e.x /\ k < i + 1
    BY <1>3 DEF SeenAbove
  <2>1. CASE k = i /\ e.x = qry.x
    BY <1>5, <2>1
  <2>2. CASE ~(k = i /\ e.x = qry.x)
    <3>1. Seen(k, e.x) /\ e \in At(l)
      BY <1>10, <1>11, <2>2
    <3>2. k < i => k < i + 1
      BY <1>5, LocFacts
    <3> QED
      BY <1>2, <3>1, <3>2 DEF IInv, SeenAbove
  <2> QED
    BY <2>1, <2>2
<1>18. SeenFound'
  <2> SUFFICES ASSUME found', NEW k \in Level, Seen(k, qry.x)', k >= i + 1
               PROVE  k \notin y_accum'
    BY <1>3 DEF SeenFound
  <2>1. k >= i /\ k # i /\ ~(k < i)
    BY <1>5, LocFacts
  <2>2. Seen(k, qry.x)
    BY <1>3, <1>11, <2>1
  <2>3. CASE found
    BY <1>2, <1>3, <1>9, <2>1, <2>2, <2>3 DEF IInv, SeenFound
  <2>4. CASE ~found
    <3>1. PICK e \in H : y_accum' = e.y
      BY <1>9, <2>4
    <3>2. e \in At(i) /\ e.x = qry.x
      BY <1>4, <3>1
    <3> QED
      BY <1>2, <1>5, <2>1, <2>2, <3>1, <3>2 DEF IInv, SeenAbove
  <2> QED
    BY <2>3, <2>4
<1>19. Quiet'
  BY <1>3 DEF Quiet
<1> QED
  BY <1>1, <1>12, <1>13, <1>14, <1>15, <1>16, <1>17, <1>18, <1>19 DEF IInv

(* Once every level has been passed no copy of the element is left, so the *)
(* write back leaves exactly one, without alibi bits.                      *)
LEMMA WriteBackInv == ASSUME IInv, WriteBack PROVE IInv'
<1>1. TypeOK /\ TypeOK'
  BY NextType DEF IInv, Next, Access
<1> DEFINE y == (IF qry.w THEN qry.y ELSE y_accum) \cap ValueMask
           new == [x |-> qry.x, y |-> y]
<1>2. /\ pc = "levels" /\ pc' = "idle" /\ lvl = NumLevels
      /\ ohtables' = ohtables /\ y_accum' = {} /\ alibi_mask' = {}
      /\ stupid' = AfterWrite(stupid, {new}, 1)
  BY DEF WriteBack
<1>3. ~found'
  BY Zenon DEF WriteBack
<1>4. /\ At(-1)' = At(-1) \cup {new}
      /\ \A l \in Level : At(l)' = At(l)
  <2>1. At(-1)' = At(-1) \cup {new}
    BY <1>2 DEF At, AfterWrite
  <2>2. \A l \in Level : At(l)' = At(l)
    BY <1>2, LocFacts DEF At, Alive
  <2> QED
    BY <2>1, <2>2
<1>5. new.x = qry.x /\ \A i \in Level : i \notin new.y
  BY DEF ValueMask
<1> HIDE DEF new, y
<1>6. \A l \in Loc : \A e \in At(l) : e.x # qry.x
  <2>1. CASE found
    BY <1>2, <2>1 DEF IInv, SingleCopy
  <2>2. CASE ~found
    <3>1. \A l \in Loc : ~(l >= NumLevels)
      BY LocFacts, LevelFacts
    <3> QED
      BY <1>2, <2>2, <3>1 DEF IInv, NotPassedBy
  <2> QED
    BY <2>1, <2>2
<1>7. \A l \in Loc : \A e : e \in At(l)' <=> e \in At(l) \/ (l = -1 /\ e = new)
  BY <1>4, LocFacts
<1>8. \A i \in Level : \A x : Seen(i, x)' <=> Seen(i, x)
  BY <1>2 DEF Seen, Alive
<1>9. Quiet' /\ StashTouched' /\ MaskFromAccum' /\ NotPassedBy' /\ SeenFound'
  BY <1>2, <1>3 DEF IInv, Quiet, StashTouched, MaskFromAccum, NotPassedBy, SeenFound, Alive
<1>10. SingleCopy'
  <2>1. \A k, l \in Loc : \A e \in At(k)', f \in At(l)' : e.x = f.x => k = l /\ e = f
    BY <1>5, <1>6, <1>7 DEF IInv, SingleCopy
  <2> QED
    BY <1>2, <2>1 DEF SingleCopy
<1>11. SeenExists'
  <2> SUFFICES ASSUME NEW i \in Level, NEW x \in Addr, Seen(i, x)
               PROVE  \E l \in Loc : l < i /\ \E e \in At(l)' : e.x = x
    BY <1>8 DEF SeenExists
  <2>1. CASE x = qry.x
    BY <1>5, <1>7, <2>1, LocFacts
  <2>2. CASE x # qry.x
    BY <1>7, <2>2 DEF IInv, SeenExists
  <2> QED
    BY <2>1, <2>2
<1>12. SeenAbove'
  <2> SUFFICES ASSUME NEW i \in Level, NEW l \in Loc, NEW e \in At(l)', Seen(i, e.x)
               PROVE  l < i /\ i \notin e.y
    BY <1>8 DEF SeenAbove
  <2>1. CASE e = new /\ l = -1
    BY <1>5, <2>1, LocFacts
  <2>2. CASE e \in At(l)
    BY <1>6, <2>2 DEF IInv, SeenAbove
  <2> QED
    BY <1>7, <2>1, <2>2
<1> QED
  BY <1>1, <1>9, <1>10, <1>11, <1>12 DEF IInv

LEMMA StutterInv == ASSUME IInv, UNCHANGED vars PROVE IInv'
<1>1. UNCHANGED <<stupid, ohtables, base_b, pc, qry, lvl, y_accum, found, alibi_mask, ret>>
  BY DEF vars
<1>2. \A l \in Loc : At(l)' = At(l)
  BY <1>1, NothingMoves
<1>3. \A i \in Level : \A x : Seen(i, x)' <=> Seen(i, x)
  BY <1>1 DEF Seen, Alive
<1>4. TypeOK'
  BY NextType DEF IInv
<1>5. Quiet' /\ StashTouched' /\ MaskFromAccum' /\ SeenFound'
  BY <1>1, <1>3 DEF IInv, Quiet, StashTouched, MaskFromAccum, SeenFound, Alive
<1>6. SingleCopy' /\ NotPassedBy' /\ SeenExists' /\ SeenAbove'
  BY <1>1, <1>2, <1>3 DEF IInv, SingleCopy, NotPassedBy, SeenExists, SeenAbove
<1> QED
  BY <1>4, <1>5, <1>6 DEF IInv

(* Every action of the ORAM keeps the invariant.                           *)
LEMMA NextInv == IInv /\ [Next]_vars => IInv'
BY CallInv, RebuildInv, QueryStupidInv, SkipLevelInv, ProbeLevelInv, WriteBackInv, StutterInv
   DEF Next, Access

(* The invariant of the ORAM holds in every reachable state, for every     *)
(* size of the hierarchy and every schedule of requests.                   *)
THEOREM Inductive == Spec => []IInv
BY InitInv, NextInv, PTL DEF Spec

-----------------------------------------------------------------------------
(* Wherever rebuilds, stashes and write backs have moved it, an address    *)
(* has at most one live copy, and none while its access holds it.          *)
THEOREM SingleCopyHolds == Spec => []SingleCopy
<1>1. IInv => SingleCopy
  BY DEF IInv
<1> QED
  BY <1>1, Inductive, PTL

(* No probe loop passes the element it is looking for by.                  *)
THEOREM NotPassedByHolds == Spec => []NotPassedBy
<1>1. IInv => NotPassedBy
  BY DEF IInv
<1> QED
  BY <1>1, Inductive, PTL

(* No live entry carries an alibi bit for a table that has been shown its  *)
(* q already.                                                              *)
THEOREM AlibiSoundHolds == Spec => []AlibiSound
<1>1. IInv => AlibiSound
  <2> SUFFICES ASSUME IInv, NEW k \in Loc, NEW e \in At(k), NEW i \in e.y \cap Level,
                      k < i, Alive(i), e.x \in ohtables[i].seen
               PROVE  FALSE
    BY DEF AlibiSound
  <2>1. pc = "levels" /\ qry.x = e.x /\ i < lvl
    BY DEF IInv, SeenAbove, Seen
  <2>2. CASE found
    BY <2>1, <2>2 DEF IInv, SingleCopy
  <2>3. CASE ~found
    <3>1. k >= lvl
      BY <2>1, <2>3 DEF IInv, NotPassedBy
    <3> QED
      BY <2>1, <3>1, LocFacts DEF IInv, TypeOK
  <2> QED
    BY <2>2, <2>3
<1> QED
  BY <1>1, Inductive, PTL

(* A table about to be shown the q of the access has not seen it.          *)
LEMMA NotSeenBefore ==
    ASSUME IInv, pc = "levels", lvl \in Level, Alive(lvl), ~UseDummy
    PROVE  qry.x \notin ohtables[lvl].seen
<1>1. SUFFICES ASSUME Seen(lvl, qry.x) PROVE FALSE
  BY DEF Seen
<1>2. qry.x \in Addr /\ lvl \in Int
  BY DoramAssumption, LocFacts DEF IInv, TypeOK, Request
<1>3. CASE found
  <2>1. lvl \in y_accum
    BY <1>3 DEF IInv, MaskFromAccum, UseDummy
  <2> QED
    BY <1>1, <1>2, <1>3, <2>1 DEF IInv, SeenFound
<1>4. CASE ~found
  <2>1. PICK l \in Loc : l < lvl /\ \E e \in At(l) : e.x = qry.x
    BY <1>1, <1>2, <1>4 DEF IInv, SeenExists
  <2>2. l >= lvl
    BY <1>4, <2>1 DEF IInv, NotPassedBy
  <2> QED
    BY <1>2, <2>1, <2>2, LocFacts
<1> QED
  BY <1>3, <1>4

(* A hash table is never shown the q of an address a second time, whether  *)
(* the element is looked for there or its alibi bit asks for it.           *)
THEOREM ProbeOnceHolds == Spec => ProbeOnce
<1>1. IInv => ((pc = "levels" /\ lvl \in Level /\ Alive(lvl) /\ ~UseDummy)
                  => qry.x \notin ohtables[lvl].seen)
  BY NotSeenBefore
<1> QED
  BY <1>1, Inductive, PTL DEF ProbeOnce
-----------------------------------------------------------------------------
(* Doram implements Memory: an access takes effect on the memory when it   *)
(* writes back, and every other step, the rebuilds above all, leaves the   *)
(* word stored at every address as it was.                                 *)

(* The bits of the word stored at an address.                              *)
LEMMA StoredBits ==
    ASSUME NEW x, NEW b
    PROVE  b \in StoredWord(x) <=>
             /\ b \in ValueMask
             /\ \/ \E l \in Loc : \E e \in At(l) : e.x = x /\ b \in e.y
                \/ InFlight(x) /\ b \in y_accum
BY DEF StoredWord

(* Two states store the same word at x when each bit is live or in flight  *)
(* in the one exactly when it is in the other.                             *)
LEMMA SameWord ==
    ASSUME NEW x,
           \A b \in ValueMask :
               ((\E l \in Loc : \E e \in At(l)' : e.x = x /\ b \in e.y)
                  \/ (InFlight(x)' /\ b \in y_accum'))
               <=> ((\E l \in Loc : \E e \in At(l) : e.x = x /\ b \in e.y)
                  \/ (InFlight(x) /\ b \in y_accum))
    PROVE  StoredWord(x)' = StoredWord(x)
<1>1. \A b : b \in StoredWord(x)' <=>
             /\ b \in ValueMask
             /\ \/ \E l \in Loc : \E e \in At(l)' : e.x = x /\ b \in e.y
                \/ InFlight(x)' /\ b \in y_accum'
  BY DEF StoredWord
<1>2. \A b : b \in StoredWord(x)' <=> b \in StoredWord(x)
  BY <1>1, StoredBits
<1> QED
  BY <1>2

-----------------------------------------------------------------------------
(* There are no more real entries, one per address, than the bottom table  *)
(* has room for: cleansing loses none of them.                             *)
LEMMA OnePerAddress ==
    ASSUME NEW E \in SUBSET Entry, \A e, f \in E : e.x = f.x => e = f
    PROVE  IsFiniteSet(E) /\ Cardinality(E) =< Cardinality(Addr)
<1> DEFINE g == [e \in E |-> e.x]
<1>1. g \in Injection(E, Addr)
  BY DEF Injection, IsInjective, Entry
<1> HIDE DEF g
<1> QED
  BY <1>1, FS_Injection, DoramAssumption

LEMMA CleansedAll ==
    ASSUME NEW E \in SUBSET Entry, \A e, f \in E : e.x = f.x => e = f,
           NEW C \in Cleansed(E)
    PROVE  C = E
<1>1. CASE HadInitialBottomLevel
  BY <1>1 DEF Cleansed
<1>2. CASE ~HadInitialBottomLevel
  <2>1. IsFiniteSet(E) /\ Cardinality(E) =< Cardinality(Addr)
    BY OnePerAddress
  <2>2. NumElementsAt(Bottom, 1) = Cardinality(Addr)
    BY DoramAssumption DEF NumElementsAt, Bottom
  <2>3. C \in SUBSET E /\ Cardinality(C) = Cardinality(E)
    BY <1>2, <2>1, <2>2 DEF Cleansed
  <2> QED
    BY <2>1, <2>3, FS_Subset
<1> QED
  BY <1>1, <1>2

LEMMA RebuildKeepsAll ==
    ASSUME IInv, NEW r \in Level, TargetAsserts(r), NEW E \in NewElements(r)
    PROVE  E = Collected(r)
<1>1. Collected(r) \subseteq Entry
  BY CollectedType DEF IInv
<1>2. \A e, f \in Collected(r) : e.x = f.x => e = f
  BY CollectedAt DEF IInv, SingleCopy
<1>3. CASE r = Bottom
  BY <1>1, <1>2, <1>3, CleansedAll DEF NewElements
<1>4. CASE r # Bottom
  BY <1>4 DEF NewElements
<1> QED
  BY <1>3, <1>4

-----------------------------------------------------------------------------
LEMMA RebuildKeepsWords ==
    ASSUME IInv, Rebuild, NEW x PROVE StoredWord(x)' = StoredWord(x)
<1>1. PICK r \in Level : \E E \in NewElements(r) : \E S \in SUBSET E :
        /\ TargetAsserts(r)
        /\ At(-1)' = Reinserted(S, r)
        /\ At(r)' = {e \in E : e.x \notin {s.x : s \in S}}
        /\ \A l \in Level : l < r => At(l)' = {} /\ ~Alive(l)'
        /\ \A l \in Level : r < l => At(l)' = At(l) /\ ohtables'[l] = ohtables[l]
  BY RebuildMoves DEF IInv
<1>2. PICK E \in NewElements(r) : \E S \in SUBSET E :
        /\ TargetAsserts(r)
        /\ At(-1)' = Reinserted(S, r)
        /\ At(r)' = {e \in E : e.x \notin {s.x : s \in S}}
        /\ \A l \in Level : l < r => At(l)' = {} /\ ~Alive(l)'
        /\ \A l \in Level : r < l => At(l)' = At(l) /\ ohtables'[l] = ohtables[l]
  BY <1>1
<1>3. PICK S \in SUBSET E :
        /\ TargetAsserts(r)
        /\ At(-1)' = Reinserted(S, r)
        /\ At(r)' = {e \in E : e.x \notin {s.x : s \in S}}
        /\ \A l \in Level : l < r => At(l)' = {} /\ ~Alive(l)'
        /\ \A l \in Level : r < l => At(l)' = At(l) /\ ohtables'[l] = ohtables[l]
  BY <1>2
<1>4. \A e : e \in E <=> \E l \in Loc : l =< r /\ e \in At(l)
  BY <1>3, RebuildKeepsAll, CollectedAt DEF IInv
<1>5. \A e, f \in E : e.x = f.x => e = f
  BY <1>4 DEF IInv, SingleCopy
<1>6. pc = "rebuild" /\ pc' = "stupid"
  BY DEF Rebuild
<1>7. ASSUME NEW b \in ValueMask, NEW l \in Loc, NEW e \in At(l)', e.x = x, b \in e.y
      PROVE  \E k \in Loc : \E f \in At(k) : f.x = x /\ b \in f.y
  <2>1. CASE l = -1
    <3>1. PICK s \in S : e = [x |-> s.x, y |-> s.y \cup AlibiBit(r)]
      BY <1>3, <1>7, <2>1 DEF Reinserted
    <3>2. b \in s.y
      BY <1>7, <3>1 DEF ValueMask, AlibiBit
    <3> QED
      BY <1>4, <1>7, <3>1, <3>2
  <2>2. CASE l = r
    BY <1>3, <1>4, <1>7, <2>2
  <2>3. CASE l \in Level /\ r < l
    BY <1>3, <1>7, <2>3
  <2>4. CASE l \in Level /\ l < r
    BY <1>3, <1>7, <2>4
  <2> QED
    BY <2>1, <2>2, <2>3, <2>4, LocFacts
<1>8. ASSUME NEW b \in ValueMask, NEW k \in Loc, NEW f \in At(k), f.x = x, b \in f.y
      PROVE  \E l \in Loc : \E e \in At(l)' : e.x = x /\ b \in e.y
  <2>1. CASE k \in Level /\ r < k
    BY <1>3, <1>8, <2>1
  <2>2. CASE k =< r
    <3>1. f \in E
      BY <1>4, <1>8, <2>2
    <3>2. CASE \E s \in S : s.x = f.x
      <4>1. f \in S
        BY <1>5, <3>1, <3>2
      <4>2. [x |-> f.x, y |-> f.y \cup AlibiBit(r)] \in At(-1)'
        BY <1>3, <4>1 DEF Reinserted
      <4> QED
        BY <1>8, <4>2, LocFacts
    <3>3. CASE ~\E s \in S : s.x = f.x
      BY <1>3, <1>8, <3>1, <3>3, LocFacts
    <3> QED
      BY <3>2, <3>3
  <2> QED
    BY <2>1, <2>2, LocFacts
<1>9. ~InFlight(x) /\ ~InFlight(x)'
  BY <1>6 DEF InFlight
<1> QED
  BY <1>7, <1>8, <1>9, SameWord

(* Nothing moves: calls, skipped levels, stutters.                         *)
LEMMA StillKeepsWords ==
    ASSUME UNCHANGED <<stupid, ohtables, y_accum>>, NEW x, InFlight(x)' <=> InFlight(x)
    PROVE  StoredWord(x)' = StoredWord(x)
<1>1. \A l \in Loc : At(l)' = At(l)
  BY NothingMoves
<1> QED
  BY <1>1, SameWord

LEMMA QueryStupidKeepsWords ==
    ASSUME IInv, QueryStupid, NEW x PROVE StoredWord(x)' = StoredWord(x)
<1> DEFINE M0 == {e \in At(-1) : e.x = qry.x}
<1>1. /\ pc = "stupid" /\ pc' = "levels" /\ qry' = qry /\ y_accum' = XorAll(M0)
  BY DEF QueryStupid, QueryResult, Matches, At
<1>2. /\ At(-1)' = {e \in At(-1) : e.x # qry.x}
      /\ \A l \in Level : At(l)' = At(l)
  BY QueryStupidMoves
<1>3. \A b : b \in y_accum' <=> \E e \in M0 : b \in e.y
  <2>1. \A e, f \in M0 : e = f
    BY LocFacts DEF IInv, SingleCopy
  <2>2. M0 \subseteq Entry
    BY AtType, LocFacts DEF IInv
  <2> HIDE DEF M0
  <2> QED
    BY <1>1, <2>1, <2>2, AtMostOne
<1>4. ~InFlight(x) /\ (InFlight(x)' <=> qry.x = x)
  BY <1>1 DEF InFlight
<1>5. \A l \in Loc : \A e : e \in At(l) <=> e \in At(l)' \/ (l = -1 /\ e \in M0)
  BY <1>2, LocFacts
<1> QED
  BY <1>3, <1>4, <1>5, SameWord, LocFacts

LEMMA ProbeLevelKeepsWords ==
    ASSUME IInv, ProbeLevel, NEW x PROVE StoredWord(x)' = StoredWord(x)
<1>1. PICK i \in Level : i = lvl
  BY DEF ProbeLevel
<1> DEFINE H == Hit(ohtables[i], qry.x, UseDummy)
<1>2. /\ pc = "levels" /\ pc' = "levels" /\ qry' = qry
      /\ y_accum' = Xor(y_accum, XorAll(H))
  BY <1>1 DEF ProbeLevel
<1>3. /\ H = {e \in At(i) : ~UseDummy /\ e.x = qry.x}
      /\ At(i)' = {e \in At(i) : UseDummy \/ e.x # qry.x}
      /\ \A l \in Loc \ {i} : At(l)' = At(l)
  BY <1>1, ProbeMoves DEF IInv
<1>4. i \in Loc
  BY LocFacts
<1>5. found => H = {}
  BY <1>2, <1>3, <1>4 DEF IInv, SingleCopy
<1>6. ~found => y_accum = {}
  BY <1>2 DEF IInv, NotPassedBy
<1>7. \A b : b \in y_accum' <=> b \in y_accum \/ \E e \in H : b \in e.y
  <2>1. \A e, f \in H : e = f
    BY <1>3, <1>4 DEF IInv, SingleCopy
  <2>2. H \subseteq Entry
    BY <1>3, <1>4, AtType DEF IInv
  <2> HIDE DEF H
  <2>3. \A b : b \in XorAll(H) <=> \E e \in H : b \in e.y
    BY <2>1, <2>2, AtMostOne
  <2>4. y_accum = {} \/ XorAll(H) = {}
    BY <1>5, <1>6, XorAllEmpty
  <2> QED
    BY <1>2, <2>3, <2>4 DEF Xor
<1>8. \A l \in Loc : \A e : e \in At(l) <=> e \in At(l)' \/ (l = i /\ e \in H)
  BY <1>3, <1>4
<1>9. (InFlight(x) <=> qry.x = x) /\ (InFlight(x)' <=> qry.x = x)
  BY <1>2 DEF InFlight
<1>10. \A e \in H : e.x = qry.x
  BY <1>3
<1> HIDE DEF H
<1> QED
  BY <1>4, <1>7, <1>8, <1>9, <1>10, SameWord

(* The write back takes effect: it returns the word stored at the address  *)
(* and leaves the one it writes.                                           *)
LEMMA WriteBackTakesEffect ==
    ASSUME IInv, WriteBack
    PROVE  /\ qry.x \in Addr
           /\ ret' = StoredWord(qry.x)
           /\ \A x \in Addr : StoredWord(x)' =
                IF x = qry.x THEN (IF qry.w THEN qry.y \cap ValueMask ELSE StoredWord(x))
                             ELSE StoredWord(x)
<1> DEFINE y == (IF qry.w THEN qry.y ELSE y_accum) \cap ValueMask
           new == [x |-> qry.x, y |-> y]
<1>1. /\ pc = "levels" /\ pc' = "idle" /\ lvl = NumLevels
      /\ ohtables' = ohtables /\ ret' = y_accum \cap ValueMask
      /\ stupid' = AfterWrite(stupid, {new}, 1)
  BY DEF WriteBack
<1>2. qry.x \in Addr
  BY <1>1, DoramAssumption DEF IInv, TypeOK, Request
<1>3. At(-1)' = At(-1) \cup {new}
  BY <1>1 DEF At, AfterWrite
<1>4. \A l \in Level : At(l)' = At(l)
  BY <1>1, LocFacts DEF At, Alive
<1>5. new.x = qry.x /\ new.y = y
  OBVIOUS
<1>6. \A l \in Loc : \A e \in At(l) : e.x # qry.x
  <2>1. CASE found
    BY <1>1, <2>1 DEF IInv, SingleCopy
  <2>2. CASE ~found
    <3>1. \A l \in Loc : ~(l >= NumLevels)
      BY LocFacts, LevelFacts
    <3> QED
      BY <1>1, <2>2, <3>1 DEF IInv, NotPassedBy
  <2> QED
    BY <2>1, <2>2
<1> HIDE DEF new
<1>7. \A l \in Loc : \A e : e \in At(l)' <=> e \in At(l) \/ (l = -1 /\ e = new)
  BY <1>3, <1>4, LocFacts
<1>8. \A x : (InFlight(x) <=> qry.x = x) /\ ~InFlight(x)'
  BY <1>1 DEF InFlight
<1>9. \A b : b \in StoredWord(qry.x) <=> b \in ValueMask /\ b \in y_accum
  BY <1>6, <1>8, StoredBits
<1>10. ret' = StoredWord(qry.x)
  BY <1>1, <1>9
<1>11. ASSUME NEW x \in Addr PROVE StoredWord(x)' =
          IF x = qry.x THEN (IF qry.w THEN qry.y \cap ValueMask ELSE StoredWord(x))
                       ELSE StoredWord(x)
  <2>1. \A b : b \in StoredWord(x)' <=>
          b \in ValueMask /\ \E l \in Loc : \E e \in At(l)' : e.x = x /\ b \in e.y
    BY <1>8 DEF StoredWord
  <2>2. CASE x = qry.x
    <3>1. \A b : b \in StoredWord(x)' <=> b \in y
      <4>1. \A b : b \in StoredWord(x)' <=> b \in ValueMask /\ b \in new.y
        BY <1>5, <1>6, <1>7, <2>1, <2>2, LocFacts
      <4>2. y \subseteq ValueMask
        OBVIOUS
      <4> QED
        BY <1>5, <4>1, <4>2
    <3>2. y = IF qry.w THEN qry.y \cap ValueMask ELSE StoredWord(x)
      BY <1>9, <2>2
    <3> QED
      BY <2>2, <3>1, <3>2
  <2>3. CASE x # qry.x
    <3>1. \A b : b \in StoredWord(x)' <=> b \in StoredWord(x)
      BY <1>5, <1>7, <1>8, <2>1, <2>3, StoredBits
    <3> QED
      BY <2>3, <3>1
  <2> QED
    BY <2>2, <2>3
<1> QED
  BY <1>2, <1>10, <1>11

-----------------------------------------------------------------------------
LEMMA InitRefines == Init => M!MemInit
<1> SUFFICES ASSUME Init PROVE M!MemInit
  OBVIOUS
<1> DEFINE InitMem == IF HadInitialBottomLevel THEN InitYs ELSE [a \in Addr |-> {}]
<1>1. pc = "idle" /\ qry = nullptr /\ ret = nullptr
  BY DEF Init
<1>2. InitMem = [x \in Addr |-> InitMem[x]]
  BY DoramAssumption
<1>3. ASSUME NEW x \in Addr PROVE StoredWord(x) = InitMem[x]
  <2>1. \A b : b \in StoredWord(x) <=>
          b \in ValueMask /\ \E l \in Loc : \E e \in At(l) : e.x = x /\ b \in e.y
    BY <1>1, StoredBits DEF InFlight
  <2>2. CASE \E S \in SUBSET InitEntries :
               /\ At(-1) = Reinserted(S, Bottom)
               /\ At(Bottom) = {e \in InitEntries : e.x \notin {s.x : s \in S}}
               /\ \A l \in Level : l # Bottom => At(l) = {} /\ ~Alive(l)
               /\ HadInitialBottomLevel
    <3>1. PICK S \in SUBSET InitEntries :
               /\ At(-1) = Reinserted(S, Bottom)
               /\ At(Bottom) = {e \in InitEntries : e.x \notin {s.x : s \in S}}
               /\ \A l \in Level : l # Bottom => At(l) = {} /\ ~Alive(l)
               /\ HadInitialBottomLevel
      BY <2>2
    <3> DEFINE e0 == [x |-> x, y |-> InitYs[x]]
    <3>2. e0 \in InitEntries
      BY DEF InitEntries
    <3>3. \A e \in InitEntries : e.x = x => e.y = InitYs[x]
      BY DEF InitEntries
    <3>4. InitYs[x] \subseteq ValueMask /\ InitMem[x] = InitYs[x]
      BY <3>1, DoramAssumption
    <3>5. ASSUME NEW b \in ValueMask, NEW l \in Loc, NEW e \in At(l), e.x = x, b \in e.y
          PROVE  b \in InitYs[x]
      <4>1. CASE l = -1
        <5>1. PICK s \in S : e = [x |-> s.x, y |-> s.y \cup AlibiBit(Bottom)]
          BY <3>1, <3>5, <4>1 DEF Reinserted
        <5> QED
          BY <3>3, <3>5, <5>1, LevelFacts DEF ValueMask, AlibiBit
      <4>2. CASE l # -1
        BY <3>1, <3>3, <3>5, <4>2, LocFacts
      <4> QED
        BY <4>1, <4>2
    <3>6. ASSUME NEW b \in InitYs[x]
          PROVE  \E l \in Loc : \E e \in At(l) : e.x = x /\ b \in e.y
      <4>1. CASE \E s \in S : s.x = x
        <5>1. PICK s \in S : s.x = x
          BY <4>1
        <5>2. [x |-> s.x, y |-> s.y \cup AlibiBit(Bottom)] \in At(-1)
          BY <3>1 DEF Reinserted
        <5>3. b \in s.y
          BY <3>3, <3>6, <5>1
        <5> QED
          BY <5>1, <5>2, <5>3, LocFacts
      <4>2. CASE ~\E s \in S : s.x = x
        <5>1. e0 \in At(Bottom)
          BY <3>1, <3>2, <4>2
        <5> QED
          BY <3>6, <5>1, LocFacts, LevelFacts
      <4> QED
        BY <4>1, <4>2
    <3> QED
      BY <2>1, <3>4, <3>5, <3>6
  <2>3. CASE (\A l \in Loc : At(l) = {}) /\ ~HadInitialBottomLevel
    BY <2>1, <2>3
  <2> QED
    BY <2>2, <2>3, InitAt
<1> HIDE DEF InitMem
<1>4. [x \in Addr |-> StoredWord(x)] = InitMem
  BY <1>2, <1>3
<1> QED
  BY <1>1, <1>4 DEF M!MemInit, InitMem

LEMMA NextRefines == IInv /\ [Next]_vars => [M!MemNext]_(M!memvars)
<1> SUFFICES ASSUME IInv, [Next]_vars PROVE [M!MemNext]_(M!memvars)
  OBVIOUS
<1> DEFINE mem == [x \in Addr |-> StoredWord(x)]
<1>1. ASSUME UNCHANGED <<qry, ret>>, \A x \in Addr : StoredWord(x)' = StoredWord(x)
      PROVE  UNCHANGED M!memvars
  BY <1>1 DEF M!memvars
<1>2. ASSUME NEW q \in Requests, Call(q) PROVE M!MemCall(q)
  <2>1. /\ UNCHANGED <<stupid, ohtables, y_accum>>
        /\ pc = "idle" /\ pc' # "levels" /\ qry' = q /\ ret' = nullptr
    BY <1>2 DEF Call
  <2>2. qry = nullptr
    BY <2>1 DEF IInv, TypeOK
  <2>3. \A x \in Addr : StoredWord(x)' = StoredWord(x)
    BY <2>1, StillKeepsWords DEF InFlight
  <2> QED
    BY <2>1, <2>2, <2>3 DEF M!MemCall
<1>3. CASE Rebuild
  BY <1>1, <1>3, RebuildKeepsWords DEF Rebuild, locals
<1>4. CASE QueryStupid
  BY <1>1, <1>4, QueryStupidKeepsWords DEF QueryStupid
<1>5. CASE SkipLevel
  BY <1>1, <1>5, StillKeepsWords DEF SkipLevel, InFlight
<1>6. CASE ProbeLevel
  BY <1>1, <1>6, ProbeLevelKeepsWords DEF ProbeLevel
<1>7. ASSUME WriteBack PROVE M!MemReturn
  <2>1. /\ qry.x \in Addr /\ ret' = StoredWord(qry.x)
        /\ \A x \in Addr : StoredWord(x)' =
             IF x = qry.x THEN (IF qry.w THEN qry.y \cap ValueMask ELSE StoredWord(x))
                          ELSE StoredWord(x)
    BY <1>7, WriteBackTakesEffect
  <2>2. qry # nullptr /\ qry' = nullptr
    BY <1>7 DEF IInv, TypeOK, WriteBack
  <2>3. mem[qry.x] = StoredWord(qry.x)
    BY <2>1
  <2>4. mem' = [mem EXCEPT ![qry.x] = IF qry.w THEN qry.y \cap ValueMask ELSE @]
    BY <2>1
  <2> QED
    BY <2>1, <2>2, <2>3, <2>4 DEF M!MemReturn
<1>8. CASE UNCHANGED vars
  BY <1>1, <1>8, StillKeepsWords DEF vars, InFlight
<1> QED
  BY <1>2, <1>3, <1>4, <1>5, <1>6, <1>7, <1>8 DEF Next, Access, M!MemNext

(* The hierarchy is a memory: for every interleaving of reads and writes,  *)
(* every stash the cuckoo builds may leave and every rebuild schedule the  *)
(* parameters give, an access returns what was last written.               *)
THEOREM Refines == Spec => ImplementsMemory
BY Inductive, InitRefines, NextRefines, PTL DEF Spec, ImplementsMemory, M!MemSpec

-----------------------------------------------------------------------------
(* Sums over levels *)

(* SumAbove adds up one level after the other.                             *)
LEMMA SumAboveStep ==
    ASSUME NEW f \in [Level -> Nat]
    PROVE  /\ SumAbove(f, 0) = 0
           /\ \A i \in 0 .. NumLevels : SumAbove(f, i) \in Nat
           /\ \A i \in Level : SumAbove(f, i + 1) = SumAbove(f, i) + f[i]
<1> DEFINE IsSum(s) == s = [j \in 0 .. NumLevels |-> IF j = 0 THEN 0 ELSE s[j - 1] + f[j - 1]]
           sum == CHOOSE s : IsSum(s)
<1>1. NumLevels \in Nat /\ Level = 0 .. NumLevels - 1
  BY WordAssumption DEF Level
<1>2. ASSUME NEW s, s[0] = 0,
             \A j \in 1 .. NumLevels : s[j - 1] \in Nat => s[j] = s[j - 1] + f[j - 1]
      PROVE  \A i \in 0 .. NumLevels : s[i] \in Nat
  <2> DEFINE T == {i \in 0 .. NumLevels : s[i] \in Nat}
  <2>1. 0 \in T
    BY <1>1, <1>2
  <2>2. ASSUME NEW i \in 1 .. NumLevels, i - 1 \in T PROVE i \in T
    BY <1>1, <1>2, <2>2
  <2> HIDE DEF T
  <2>3. \A i \in 0 .. NumLevels : i \in T
    BY <1>1, <2>1, <2>2, InductionUpTo
  <2> QED
    BY <2>3 DEF T
<1>3. \E s : IsSum(s)
  <2> DEFINE h == [i \in 1 .. NumLevels |-> [n \in Nat |-> n + f[i - 1]]]
  <2>1. \A i \in 1 .. NumLevels, n \in Nat : h[i][n] = n + f[i - 1]
    OBVIOUS
  <2> HIDE DEF h
  <2> DEFINE IsRec(a, g, s) == s = [i \in 0 .. NumLevels |-> IF i = 0 THEN a ELSE g[i][s[i - 1]]]
  <2>2. \A a, g : \E s : IsRec(a, g, s)
    BY <1>1, RecursionUpTo
  <2> HIDE DEF IsRec
  <2>9. PICK s : IsRec(0, h, s)
    BY <2>2
  <2> USE DEF IsRec
  <2>10. \A i \in 0 .. NumLevels : s[i] = IF i = 0 THEN 0 ELSE h[i][s[i - 1]]
    BY <2>9
  <2>11. s[0] = 0
    BY <1>1, <2>10
  <2>12. ASSUME NEW j \in 1 .. NumLevels, s[j - 1] \in Nat PROVE s[j] = s[j - 1] + f[j - 1]
    <3>1. s[j] = h[j][s[j - 1]]
      BY <1>1, <2>10
    <3> QED
      BY <2>1, <2>12, <3>1
  <2>3. s[0] = 0 /\ \A j \in 1 .. NumLevels : s[j - 1] \in Nat => s[j] = s[j - 1] + f[j - 1]
    BY <2>11, <2>12
  <2>4. \A i \in 0 .. NumLevels : s[i] \in Nat
    BY <1>2, <2>3
  <2>5. ASSUME NEW j \in 0 .. NumLevels
        PROVE  s[j] = IF j = 0 THEN 0 ELSE s[j - 1] + f[j - 1]
    BY <1>1, <2>3, <2>4
  <2>6. s = [j \in 0 .. NumLevels |-> s[j]]
    BY <2>9
  <2>7. IsSum(s)
    BY <2>5, <2>6
  <2> QED
    BY <2>7
<1>4. IsSum(sum)
  BY <1>3
<1>5. \A i : SumAbove(f, i) = sum[i]
  BY DEF SumAbove
<1> HIDE DEF sum
<1>6. sum[0] = 0 /\ \A j \in 1 .. NumLevels : sum[j] = sum[j - 1] + f[j - 1]
  BY <1>1, <1>4
<1>7. \A i \in 0 .. NumLevels : sum[i] \in Nat
  BY <1>2, <1>6
<1>8. \A i \in Level : sum[i + 1] = sum[i] + f[i]
  BY <1>1, <1>6
<1> QED
  BY <1>5, <1>6, <1>7, <1>8

(* Sums are compared term by term.                                         *)
LEMMA SumCompare ==
    ASSUME NEW f \in [Level -> Nat], NEW g \in [Level -> Nat], NEW r \in 0 .. NumLevels,
           \A j \in Level : j < r => f[j] =< g[j]
    PROVE  SumAbove(f, r) =< SumAbove(g, r)
<1> DEFINE T == {i \in 0 .. r : SumAbove(f, i) =< SumAbove(g, i)}
<1>1. r \in Nat /\ NumLevels \in Nat /\ Level = 0 .. NumLevels - 1
  BY WordAssumption DEF Level
<1>2. 0 \in T
  <2>1. SumAbove(f, 0) = 0 /\ SumAbove(g, 0) = 0
    BY SumAboveStep
  <2> QED
    BY <1>1, <2>1
<1>3. ASSUME NEW i \in 1 .. r, i - 1 \in T PROVE i \in T
  <2> DEFINE j == i - 1
  <2>1. j \in Level /\ j < r /\ j + 1 = i /\ j \in 0 .. NumLevels /\ i \in 0 .. r
    BY <1>1
  <2> HIDE DEF j
  <2>2. SumAbove(f, i) = SumAbove(f, j) + f[j] /\ SumAbove(g, i) = SumAbove(g, j) + g[j]
    BY <2>1, SumAboveStep
  <2>3. SumAbove(f, j) \in Nat /\ SumAbove(g, j) \in Nat
    BY <2>1, SumAboveStep
  <2>4. SumAbove(f, j) =< SumAbove(g, j) /\ f[j] =< g[j]
    BY <1>3, <2>1 DEF j
  <2> QED
    BY <2>1, <2>2, <2>3, <2>4
<1> HIDE DEF T
<1>4. \A i \in 0 .. r : i \in T
  BY <1>1, <1>2, <1>3, InductionUpTo
<1> QED
  BY <1>1, <1>4 DEF T

LEMMA SumSame ==
    ASSUME NEW f \in [Level -> Nat], NEW g \in [Level -> Nat], NEW r \in 0 .. NumLevels,
           \A j \in Level : j < r => f[j] = g[j]
    PROVE  SumAbove(f, r) = SumAbove(g, r)
<1>1. \A j \in Level : j < r => f[j] =< g[j] /\ g[j] =< f[j]
  OBVIOUS
<1>2. SumAbove(f, r) =< SumAbove(g, r) /\ SumAbove(g, r) =< SumAbove(f, r)
  BY <1>1, SumCompare
<1>3. SumAbove(f, r) \in Nat /\ SumAbove(g, r) \in Nat
  BY SumAboveStep
<1> QED
  BY <1>2, <1>3

(* The state vector is an odometer: AmpFactor - 1 in every digit above r   *)
(* is one short of AmpPow[r].                                              *)
LEMMA PowFacts ==
    /\ AmpFactor \in Nat /\ AmpFactor >= 2
    /\ \A i \in 0 .. NumLevels : AmpPow[i] \in Nat /\ AmpPow[i] >= 1
    /\ \A i \in Level : AmpPow[i] \in Nat /\ AmpPow[i] >= 1
    /\ \A i \in Level : AmpPow[i + 1] = AmpFactor * AmpPow[i]
    /\ AmpPow[0] = 1
    /\ LinearSize \in Nat /\ StashSize \in Nat /\ StashSize < LinearSize
    /\ StupidFillTime \in Nat /\ StupidFillTime >= 1
    /\ StupidFillTime = LinearSize - StashSize
<1>1. AmpFactor \in Nat /\ AmpFactor >= 2
  BY DoramAssumption, WordAssumption
<1>2. \A i \in 0 .. NumLevels : AmpPow[i] \in Nat /\ AmpPow[i] >= 1
  BY DoramAssumption, WordAssumption
<1>3. \A i \in Level : i \in 0 .. NumLevels
  BY WordAssumption DEF Level
<1>4. (\A i \in Level : AmpPow[i + 1] = AmpFactor * AmpPow[i]) /\ AmpPow[0] = 1
  BY DoramAssumption, WordAssumption DEF Level
<1>5. /\ LinearSize \in Nat /\ StashSize \in Nat /\ StashSize < LinearSize
      /\ StupidFillTime = LinearSize - StashSize
  BY StashAssumption, LinearAssumption, WordAssumption DEF StupidFillTime
<1>6. StupidFillTime \in Nat /\ StupidFillTime >= 1
  BY <1>5
<1> QED
  BY <1>1, <1>2, <1>3, <1>4, <1>5, <1>6

LEMMA Geometric ==
    ASSUME NEW c \in Nat, NEW f \in [Level -> Nat], NEW r \in 0 .. NumLevels,
           \A j \in Level : j < r => f[j] = c * ((AmpFactor - 1) * AmpPow[j])
    PROVE  SumAbove(f, r) = c * (AmpPow[r] - 1)
<1> DEFINE T == {i \in 0 .. r : SumAbove(f, i) = c * (AmpPow[i] - 1)}
<1>1. r \in Nat /\ NumLevels \in Nat /\ Level = 0 .. NumLevels - 1
  BY WordAssumption DEF Level
<1>2. 0 \in T
  <2>1. SumAbove(f, 0) = 0
    BY SumAboveStep
  <2>2. c * (AmpPow[0] - 1) = 0
    BY PowFacts
  <2> QED
    BY <1>1, <2>1, <2>2
<1>3. ASSUME NEW i \in 1 .. r, i - 1 \in T PROVE i \in T
  <2> DEFINE j == i - 1
             p == AmpPow[j]
  <2>1. j \in Level /\ j < r /\ j + 1 = i /\ i \in 0 .. r
    BY <1>1
  <2>2. SumAbove(f, j) = c * (p - 1)
    BY <1>3
  <2> HIDE DEF j
  <2>3. SumAbove(f, i) = SumAbove(f, j) + f[j]
    BY <2>1, SumAboveStep
  <2>4. f[j] = c * ((AmpFactor - 1) * p)
    BY <2>1
  <2>5. AmpPow[i] = AmpFactor * p /\ p \in Nat /\ AmpFactor \in Nat
    BY <2>1, PowFacts
  <2> HIDE DEF p
  <2>6. \A a, b \in Nat : c * (b - 1) + c * ((a - 1) * b) = c * (a * b - 1)
    <3> TAKE a, b \in Nat
    <3>1. (a - 1) * b = a * b - b
      OBVIOUS
    <3> DEFINE q == a * b
    <3>2. q \in Nat
      OBVIOUS
    <3> HIDE DEF q
    <3>3. c * (b - 1) + c * (q - b) = c * (q - 1)
      BY <3>2
    <3> QED
      BY <3>1, <3>3 DEF q
  <2>7. c * (p - 1) + c * ((AmpFactor - 1) * p) = c * (AmpFactor * p - 1)
    BY <2>5, <2>6
  <2>8. SumAbove(f, i) = c * (AmpPow[i] - 1)
    BY <2>2, <2>3, <2>4, <2>5, <2>7
  <2> QED
    BY <2>1, <2>8
<1> HIDE DEF T
<1>4. \A i \in 0 .. r : i \in T
  BY <1>1, <1>2, <1>3, InductionUpTo
<1> QED
  BY <1>1, <1>4 DEF T

-----------------------------------------------------------------------------
(* The state vector *)

(* A rebuild to r resets the levels above, all of them full, and counts r  *)
(* up.                                                                     *)
LEMMA TargetState ==
    ASSUME TypeOK, NEW r \in Level, IsTarget(r)
    PROVE  /\ \A i \in Level : i < r => base_b[i] = AmpFactor - 1 /\ i # Bottom
           /\ \A i \in Level : NextBaseB(r)[i] =
                IF i < r THEN 0
                ELSE IF i = r THEN (IF r = Bottom THEN 1 ELSE base_b[r] + 1)
                ELSE base_b[i]
<1>1. \A i \in Level : i \in Nat /\ i =< Bottom /\ base_b[i] \in 0 .. AmpFactor - 1
  BY WordAssumption DEF Level, Bottom, TypeOK
<1>2. \A i \in Level : i < r => i \in 0 .. r - 1
  BY <1>1
<1>3. \A i \in Level : i < r => base_b[i] = AmpFactor - 1 /\ i # Bottom
  BY <1>1, <1>2, PowFacts DEF IsTarget
<1>4. r # Bottom => base_b[r] < AmpFactor - 1
  BY DEF IsTarget
<1>5. \A i \in Level : i < r => i \in Sources(r)
  BY DEF Sources
<1>6. \A i \in Level : r < i => i \notin Sources(r)
  BY <1>1 DEF Sources
<1>7. \A i \in Level : Wrapped(r)[i] = IF i < r THEN 0 ELSE base_b[i]
  <2> TAKE i \in Level
  <2>1. Wrapped(r)[i] = IF i \in Sources(r) /\ i # Bottom /\ base_b[i] = AmpFactor - 1
                        THEN 0 ELSE base_b[i]
    BY DEF Wrapped
  <2>2. CASE i < r
    BY <1>3, <1>5, <2>1, <2>2
  <2>3. CASE i = r
    BY <1>1, <1>4, <2>1, <2>3, PowFacts
  <2>4. CASE r < i
    BY <1>1, <1>6, <2>1, <2>4
  <2> QED
    BY <1>1, <2>2, <2>3, <2>4
<1>8. \A i \in Level : NextBaseB(r)[i] =
        IF i = r THEN (IF r = Bottom THEN 1 ELSE Wrapped(r)[r] + 1) ELSE Wrapped(r)[i]
  BY DEF NextBaseB, Incremented, Wrapped
<1>9. \A i \in Level : NextBaseB(r)[i] =
        IF i < r THEN 0
        ELSE IF i = r THEN (IF r = Bottom THEN 1 ELSE base_b[r] + 1) ELSE base_b[i]
  BY <1>1, <1>7, <1>8
<1> QED
  BY <1>3, <1>9

(* There is always a level to rebuild to.                                  *)
LEMMA TargetExists == ASSUME TypeOK PROVE \E r \in Level : IsTarget(r)
<1> DEFINE S == {r \in Level : r = Bottom \/ base_b[r] < AmpFactor - 1}
<1>1. S \in SUBSET Nat /\ S # {}
  BY LevelFacts DEF Level
<1>2. PICK r \in S : \A m \in S : r =< m
  BY <1>1, LeastNatural
<1>3. \A i \in 0 .. r - 1 : i \in Level /\ ~(r =< i)
  BY WordAssumption DEF Level
<1>4. IsTarget(r)
  BY <1>2, <1>3 DEF IsTarget
<1> QED
  BY <1>4

(* Number of builds of the levels above i: as a sum, at most one short of  *)
(* AmpPow[i], and exactly that when they are all full.                     *)
LEMMA BuildsType ==
    ASSUME TypeOK
    PROVE  [j \in Level |-> base_b[j] * AmpPow[j]] \in [Level -> Nat]
<1>1. \A j \in Level : base_b[j] \in Nat /\ AmpPow[j] \in Nat
  BY PowFacts DEF TypeOK
<1>2. \A a, b \in Nat : a * b \in Nat
  OBVIOUS
<1> QED
  BY <1>1, <1>2

LEMMA FullType ==
    ASSUME NEW c \in Nat
    PROVE  /\ [j \in Level |-> c * ((AmpFactor - 1) * AmpPow[j])] \in [Level -> Nat]
           /\ \A r \in 0 .. NumLevels :
                SumAbove([j \in Level |-> c * ((AmpFactor - 1) * AmpPow[j])], r)
                    = c * (AmpPow[r] - 1)
<1>1. \A a, b, d \in Nat : a >= 2 => d * ((a - 1) * b) \in Nat
  <2> TAKE a, b, d \in Nat
  <2> HAVE a >= 2
  <2>1. a - 1 \in Nat
    OBVIOUS
  <2>2. (a - 1) * b \in Nat
    BY <2>1
  <2> QED
    BY <2>2
<1> DEFINE f == [j \in Level |-> c * ((AmpFactor - 1) * AmpPow[j])]
<1>2. f \in [Level -> Nat]
  BY <1>1, PowFacts
<1>3. \A j \in Level : f[j] = c * ((AmpFactor - 1) * AmpPow[j])
  OBVIOUS
<1> HIDE DEF f
<1>4. \A r \in 0 .. NumLevels : SumAbove(f, r) = c * (AmpPow[r] - 1)
  BY <1>2, <1>3, Geometric
<1> QED
  BY <1>2, <1>4 DEF f

LEMMA BuildsBound ==
    ASSUME TypeOK, NEW i \in Level
    PROVE  /\ BuildsAbove(i) \in Nat
           /\ BuildsAbove(i) =< AmpPow[i] - 1
           /\ (\A j \in Level : j < i => base_b[j] = AmpFactor - 1)
                 => BuildsAbove(i) = AmpPow[i] - 1
<1> DEFINE f == [j \in Level |-> base_b[j] * AmpPow[j]]
           g == [j \in Level |-> 1 * ((AmpFactor - 1) * AmpPow[j])]
<1>1. i \in 0 .. NumLevels
  BY LevelFacts
<1>2. f \in [Level -> Nat] /\ g \in [Level -> Nat] /\ SumAbove(g, i) = 1 * (AmpPow[i] - 1)
  BY <1>1, BuildsType, FullType
<1>3. \A j \in Level : f[j] =< g[j] /\ (base_b[j] = AmpFactor - 1 => f[j] = g[j])
  <2> TAKE j \in Level
  <2>1. base_b[j] \in 0 .. AmpFactor - 1 /\ AmpPow[j] \in Nat /\ AmpFactor \in Nat
    BY PowFacts DEF TypeOK
  <2>2. \A a, b, p \in Nat : b =< a - 1 => b * p =< 1 * ((a - 1) * p)
    <3> TAKE a, b, p \in Nat
    <3> HAVE b =< a - 1
    <3>1. PICK d \in Nat : a - 1 = b + d
      <4>1. a - 1 - b \in Nat /\ a - 1 = b + (a - 1 - b)
        OBVIOUS
      <4> QED
        BY <4>1
    <3>2. (a - 1) * p = b * p + d * p /\ d * p \in Nat /\ b * p \in Nat
      BY <3>1
    <3> QED
      BY <3>2
  <2>3. base_b[j] * AmpPow[j] =< 1 * ((AmpFactor - 1) * AmpPow[j])
    BY <2>1, <2>2
  <2>4. base_b[j] = AmpFactor - 1 => base_b[j] * AmpPow[j] = 1 * ((AmpFactor - 1) * AmpPow[j])
    BY <2>1
  <2> QED
    BY <2>3, <2>4
<1> HIDE DEF f, g
<1>4. SumAbove(f, i) \in Nat /\ SumAbove(f, i) =< SumAbove(g, i)
  BY <1>1, <1>2, <1>3, SumAboveStep, SumCompare
<1>5. (\A j \in Level : j < i => base_b[j] = AmpFactor - 1) => SumAbove(f, i) = SumAbove(g, i)
  BY <1>1, <1>2, <1>3, SumSame
<1>6. AmpPow[i] \in Nat
  BY PowFacts
<1>7. BuildsAbove(i) = SumAbove(f, i)
  BY DEF BuildsAbove, f
<1> QED
  BY <1>2, <1>4, <1>5, <1>6, <1>7

(* A rebuild to r starts the tables up to r afresh and is one more build   *)
(* above each table below.                                                 *)
LEMMA BuildsAfter ==
    ASSUME TypeOK, TypeOK', NEW r \in Level, IsTarget(r), base_b' = NextBaseB(r),
           NEW i \in Level
    PROVE  BuildsAbove(i)' = IF i =< r THEN 0 ELSE BuildsAbove(i) + 1
<1> DEFINE f == [j \in Level |-> base_b[j] * AmpPow[j]]
           g == [j \in Level |-> base_b'[j] * AmpPow[j]]
           T == {k \in 0 .. NumLevels : k > r /\ k \in Level => SumAbove(g, k) = SumAbove(f, k) + 1}
<1>1. /\ r \in Nat /\ i \in Nat /\ NumLevels \in Nat /\ Level = 0 .. NumLevels - 1
      /\ i \in 0 .. NumLevels /\ r \in 0 .. NumLevels
  BY WordAssumption DEF Level
<1>2. \A j \in Level : g[j] = base_b'[j] * AmpPow[j] /\ f[j] = base_b[j] * AmpPow[j]
  OBVIOUS
<1>3. f \in [Level -> Nat] /\ g \in [Level -> Nat]
  <2>1. \A j \in Level : base_b'[j] \in Nat /\ AmpPow[j] \in Nat
    BY PowFacts DEF TypeOK
  <2>2. \A a, b \in Nat : a * b \in Nat
    OBVIOUS
  <2>3. g \in [Level -> Nat]
    BY <2>1, <2>2
  <2> QED
    BY <2>3, BuildsType
<1>4. BuildsAbove(i) = SumAbove(f, i) /\ BuildsAbove(i)' = SumAbove(g, i)
  BY DEF BuildsAbove
<1>5. BuildsAbove(r) = AmpPow[r] - 1 /\ BuildsAbove(r) = SumAbove(f, r)
  <2>1. \A j \in Level : j < r => base_b[j] = AmpFactor - 1
    BY TargetState
  <2> QED
    BY <2>1, BuildsBound DEF BuildsAbove
<1> HIDE DEF f, g
<1>6. \A j \in Level : j < r => g[j] = 0 * ((AmpFactor - 1) * AmpPow[j])
  <2> TAKE j \in Level
  <2> HAVE j < r
  <2>1. base_b'[j] = 0 /\ AmpPow[j] \in Nat /\ AmpFactor \in Nat
    BY TargetState, PowFacts
  <2>2. \A a, b \in Nat : 0 * ((a - 1) * b) = 0 /\ 0 * b = 0
    OBVIOUS
  <2> QED
    BY <1>2, <2>1, <2>2
<1>7. \A k \in 0 .. NumLevels : k =< r => SumAbove(g, k) = 0
  <2> TAKE k \in 0 .. NumLevels
  <2> HAVE k =< r
  <2>1. \A j \in Level : j < k => j < r
    BY <1>1
  <2>2. SumAbove(g, k) = 0 * (AmpPow[k] - 1)
    BY <1>3, <1>6, <2>1, Geometric
  <2>3. AmpPow[k] \in Nat
    BY PowFacts
  <2> QED
    BY <2>2, <2>3
<1>8. 0 \in T
  BY <1>1
<1>9. ASSUME NEW k \in 1 .. NumLevels, k - 1 \in T PROVE k \in T
  <2> DEFINE j == k - 1
  <2>1. j \in Level /\ j + 1 = k /\ k \in 0 .. NumLevels /\ j \in 0 .. NumLevels
    BY <1>1
  <2>2. j > r => SumAbove(g, j) = SumAbove(f, j) + 1
    BY <1>9, <2>1
  <2> HIDE DEF j
  <2>3. SumAbove(g, k) = SumAbove(g, j) + g[j] /\ SumAbove(f, k) = SumAbove(f, j) + f[j]
    BY <1>3, <2>1, SumAboveStep
  <2>4. SumAbove(g, j) \in Nat /\ SumAbove(f, j) \in Nat /\ f[j] \in Nat
    BY <1>3, <2>1, SumAboveStep
  <2>5. CASE j = r
    <3>1. base_b'[r] = IF r = Bottom THEN 1 ELSE base_b[r] + 1
      BY <1>1, TargetState
    <3>2. SumAbove(g, k) = g[r] /\ SumAbove(f, k) = AmpPow[r] - 1 + f[r]
      BY <1>1, <1>3, <1>5, <1>7, <2>3, <2>5
    <3>3. CASE r # Bottom
      <4>1. \A b, p \in Nat : (b + 1) * p = b * p + p
        OBVIOUS
      <4>2. base_b[r] \in Nat /\ AmpPow[r] \in Nat
        BY PowFacts DEF TypeOK
      <4>3. g[r] = f[r] + AmpPow[r]
        BY <1>2, <3>1, <3>3, <4>1, <4>2
      <4> QED
        BY <1>3, <2>1, <3>2, <4>2, <4>3
    <3>4. CASE r = Bottom
      BY <1>1, <2>1, <2>5, <3>4 DEF Bottom
    <3> QED
      BY <3>3, <3>4
  <2>6. CASE j > r
    <3>1. g[j] = f[j]
      <4>1. base_b'[j] = base_b[j]
        BY <1>1, <2>1, <2>6, TargetState
      <4> QED
        BY <1>2, <2>1, <4>1
    <3> QED
      BY <2>1, <2>2, <2>3, <2>4, <2>6, <3>1
  <2>7. CASE j < r
    BY <1>1, <2>1, <2>7
  <2> QED
    BY <1>1, <2>1, <2>5, <2>6, <2>7
<1> HIDE DEF T
<1>10. \A k \in 0 .. NumLevels : k \in T
  BY <1>1, <1>8, <1>9, InductionUpTo
<1>11. i > r => SumAbove(g, i) = SumAbove(f, i) + 1
  BY <1>1, <1>10 DEF T
<1> QED
  BY <1>1, <1>4, <1>7, <1>11

(* What the full levels above a target r and the target itself hold, by    *)
(* their sizes, and how much the linear level adds: the size of the new    *)
(* table at r.                                                             *)
LEMMA SizesAbove ==
    ASSUME TypeOK, NEW r \in Level, IsTarget(r)
    PROVE  /\ [i \in Level |-> NumElementsAt(i, base_b[i])] \in [Level -> Nat]
           /\ SumAbove([i \in Level |-> NumElementsAt(i, base_b[i])], r)
                  = LinearSize * (AmpPow[r] - 1)
           /\ r # Bottom =>
                  LinearSize + LinearSize * (AmpPow[r] - 1) + NumElementsAt(r, base_b[r])
                      = NumElementsAt(r, base_b[r] + 1)
<1> DEFINE f == [i \in Level |-> NumElementsAt(i, base_b[i])]
<1>1. f \in [Level -> Nat]
  <2>1. \A i \in Level : base_b[i] \in Nat
    BY DEF TypeOK
  <2> QED
    BY <2>1, NumElementsNat
<1>2. \A i \in Level : f[i] = NumElementsAt(i, base_b[i])
  OBVIOUS
<1> HIDE DEF f
<1>3. r \in 0 .. NumLevels /\ LinearSize \in Nat /\ AmpPow[r] \in Nat /\ base_b[r] \in Nat
  BY LevelFacts, PowFacts DEF TypeOK, Level
<1>4. ASSUME NEW j \in Level, j < r PROVE f[j] = LinearSize * ((AmpFactor - 1) * AmpPow[j])
  <2>1. base_b[j] = AmpFactor - 1 /\ j # Bottom
    BY <1>4, TargetState
  <2>2. f[j] = AmpPow[j] * (AmpFactor - 1) * LinearSize
    BY <1>2, <2>1 DEF NumElementsAt
  <2>3. \A a, l, p \in Nat : p * (a - 1) * l = l * ((a - 1) * p)
    OBVIOUS
  <2> QED
    BY <1>3, <2>2, <2>3, PowFacts
<1>5. SumAbove(f, r) = LinearSize * (AmpPow[r] - 1)
  BY <1>1, <1>3, <1>4, Geometric
<1>6. ASSUME r # Bottom
      PROVE  LinearSize + LinearSize * (AmpPow[r] - 1) + NumElementsAt(r, base_b[r])
                 = NumElementsAt(r, base_b[r] + 1)
  <2>1. \A l, p, b \in Nat : l + l * (p - 1) + p * b * l = p * (b + 1) * l
    <3> TAKE l, p, b \in Nat
    <3>1. l * (p - 1) = l * p - l
      OBVIOUS
    <3>2. p * (b + 1) = p * b + p
      OBVIOUS
    <3>3. (p * b + p) * l = p * b * l + l * p
      OBVIOUS
    <3>4. l * p \in Int /\ p * b * l \in Int
      OBVIOUS
    <3> QED
      BY <3>1, <3>2, <3>3, <3>4
  <2> QED
    BY <1>3, <1>6, <2>1 DEF NumElementsAt
<1> QED
  BY <1>1, <1>5, <1>6 DEF f

(* The tables of the levels above r together hold at most the sum of what  *)
(* each may hold.                                                          *)
LEMMA UnionRoom ==
    ASSUME NEW U \in [Level -> SUBSET Entry], NEW f \in [Level -> Nat], NEW r \in 0 .. NumLevels,
           \A j \in Level : j < r => IsFiniteSet(U[j]) /\ Cardinality(U[j]) =< f[j]
    PROVE  /\ IsFiniteSet(UNION {U[j] : j \in {k \in Level : k < r}})
           /\ Cardinality(UNION {U[j] : j \in {k \in Level : k < r}}) =< SumAbove(f, r)
<1> DEFINE V(i) == UNION {U[j] : j \in {k \in Level : k < i}}
           T == {i \in 0 .. r : IsFiniteSet(V(i)) /\ Cardinality(V(i)) =< SumAbove(f, i)}
<1>1. r \in Nat /\ NumLevels \in Nat /\ Level = 0 .. NumLevels - 1
  BY WordAssumption DEF Level
<1>2. 0 \in T
  <2>1. V(0) = {}
    BY <1>1
  <2> HIDE DEF V
  <2>2. IsFiniteSet(V(0)) /\ Cardinality(V(0)) = 0
    BY <2>1, FS_EmptySet
  <2>3. SumAbove(f, 0) = 0
    BY SumAboveStep
  <2> QED
    BY <1>1, <2>2, <2>3
<1>3. ASSUME NEW i \in 1 .. r, i - 1 \in T PROVE i \in T
  <2> DEFINE j == i - 1
  <2>1. j \in Level /\ j < r /\ j + 1 = i /\ j \in 0 .. NumLevels /\ i \in 0 .. r
    BY <1>1
  <2>2. IsFiniteSet(V(j)) /\ Cardinality(V(j)) =< SumAbove(f, j)
    BY <1>3
  <2> HIDE DEF j
  <2>3. V(i) = V(j) \cup U[j]
    BY <1>1, <2>1
  <2>4. IsFiniteSet(U[j]) /\ Cardinality(U[j]) =< f[j]
    BY <2>1
  <2> HIDE DEF V
  <2>5. /\ IsFiniteSet(V(j) \cup U[j])
        /\ Cardinality(V(j) \cup U[j]) = Cardinality(V(j)) + Cardinality(U[j])
                                            - Cardinality(V(j) \cap U[j])
    BY <2>2, <2>4, FS_Union
  <2>6. IsFiniteSet(V(j) \cap U[j])
    BY <2>2, FS_Subset
  <2>7. /\ Cardinality(V(j)) \in Nat /\ Cardinality(U[j]) \in Nat
        /\ Cardinality(V(j) \cap U[j]) \in Nat
    BY <2>2, <2>4, <2>6, FS_CardinalityType
  <2>8. SumAbove(f, i) = SumAbove(f, j) + f[j] /\ SumAbove(f, j) \in Nat
    BY <2>1, SumAboveStep
  <2>9. Cardinality(V(i)) =< SumAbove(f, i)
    BY <2>1, <2>2, <2>3, <2>4, <2>5, <2>7, <2>8
  <2> QED
    BY <2>1, <2>3, <2>5, <2>9
<1> HIDE DEF T
<1>4. \A i \in 0 .. r : i \in T
  BY <1>1, <1>2, <1>3, InductionUpTo
<1>5. r \in T
  BY <1>1, <1>4
<1> QED
  BY <1>5 DEF T

-----------------------------------------------------------------------------
(* What a rebuild takes out fits the table it builds *)

(* A table built has room for a stash.                                     *)
LEMMA StashFits ==
    ASSUME NEW i \in Level, NEW state \in Nat \ {0}
    PROVE  NumElementsAt(i, state) \in Nat /\ StashSize =< NumElementsAt(i, state)
<1>1. \A p, l, b \in Nat : p >= 1 /\ b >= 1 => p * l >= l /\ p * b * l >= l
  <2> TAKE p, l, b \in Nat
  <2> HAVE p >= 1 /\ b >= 1
  <2>1. \A q \in Nat : q >= 1 => q * l >= l
    <3> TAKE q \in Nat
    <3> HAVE q >= 1
    <3>1. q * l = l + (q - 1) * l /\ q - 1 \in Nat
      OBVIOUS
    <3>2. (q - 1) * l \in Nat
      BY <3>1
    <3> QED
      BY <3>1, <3>2
  <2>2. p * b \in Nat /\ p * b >= 1
    OBVIOUS
  <2> QED
    BY <2>1, <2>2
<1>2. AmpPow[i] \in Nat /\ AmpPow[i] >= 1 /\ LinearSize \in Nat /\ StashSize \in Nat
      /\ StashSize < LinearSize
  BY PowFacts
<1>3. AmpPow[i] * LinearSize >= LinearSize /\ AmpPow[i] * state * LinearSize >= LinearSize
  BY <1>1, <1>2
<1>4. NumElementsAt(i, state) \in Nat
  BY NumElementsNat
<1>5. StashSize =< AmpPow[i] * LinearSize - 1 /\ StashSize =< AmpPow[i] * state * LinearSize
  <2>1. \A q \in Nat : q >= LinearSize => StashSize =< q - 1 /\ StashSize =< q
    BY <1>2
  <2>2. AmpPow[i] * LinearSize \in Nat /\ AmpPow[i] * state * LinearSize \in Nat
    BY <1>2
  <2> QED
    BY <1>3, <2>1, <2>2
<1> QED
  BY <1>4, <1>5 DEF NumElementsAt

(* Whatever is built has a stash.                                          *)
LEMMA StashExists ==
    ASSUME NEW E, IsFiniteSet(E), NEW n \in Nat, Cardinality(E) =< n, StashSize =< n
    PROVE  \E S \in SUBSET E : IsStash(S, E, n)
<1>1. Cardinality(E) \in Nat /\ StashSize \in Nat
  BY FS_CardinalityType, StashAssumption
<1>2. CASE Cardinality(E) < StashSize
  <2>1. IsStash(E, E, n)
    BY <1>1, <1>2 DEF IsStash
  <2> QED
    BY <2>1
<1>3. CASE StashSize =< Cardinality(E)
  <2>1. PICK S \in SUBSET E : Cardinality(S) = StashSize
    BY <1>1, <1>3, SubsetOfSize
  <2>2. IsStash(S, E, n)
    BY <1>1, <2>1 DEF IsStash
  <2> QED
    BY <2>2
<1> QED
  BY <1>1, <1>2, <1>3

LEMMA CollectedUnique ==
    ASSUME IInv, NEW r \in Level, TargetAsserts(r)
    PROVE  /\ Collected(r) \subseteq Entry
           /\ \A e, f \in Collected(r) : e.x = f.x => e = f
           /\ IsFiniteSet(Collected(r)) /\ Cardinality(Collected(r)) =< Cardinality(Addr)
<1>1. Collected(r) \subseteq Entry
  BY CollectedType DEF IInv
<1>2. \A e, f \in Collected(r) : e.x = f.x => e = f
  BY CollectedAt DEF IInv, SingleCopy
<1> QED
  BY <1>1, <1>2, OnePerAddress

LEMMA CollectedRoom ==
    ASSUME IInv, StateVectorAgrees, RoomForReal, stupid.num_stored = LinearSize,
           NEW r \in Level, IsTarget(r), TargetAsserts(r)
    PROVE  /\ IsFiniteSet(Collected(r))
           /\ Cardinality(Collected(r)) =< NumElementsAt(r, NextBaseB(r)[r])
<1>1. TypeOK
  BY DEF IInv
<1>2. r \in Nat /\ NextBaseB(r)[r] = IF r = Bottom THEN 1 ELSE base_b[r] + 1
  BY <1>1, TargetState DEF Level
<1>3. CASE r = Bottom
  <2>1. NumElementsAt(r, 1) = Cardinality(Addr)
    BY <1>3, DoramAssumption DEF NumElementsAt, Bottom
  <2> QED
    BY <1>2, <1>3, <2>1, CollectedUnique
<1>4. CASE r # Bottom
  <2> DEFINE U == [j \in Level |-> IF Alive(j) THEN Untouched(ohtables[j]) ELSE {}]
             f == [j \in Level |-> NumElementsAt(j, base_b[j])]
             V == UNION {U[j] : j \in {k \in Level : k < r}}
  <2>1. ASSUME NEW j \in Level
        PROVE  U[j] \subseteq Entry /\ IsFiniteSet(U[j]) /\ Cardinality(U[j]) =< f[j]
    <3>1. CASE Alive(j)
      <4>1. ohtables[j] \in Table
        BY <1>1, <3>1 DEF TypeOK, Alive
      <4>2. U[j] \subseteq ohtables[j].elements /\ ohtables[j].elements \subseteq Entry
        BY <3>1, <4>1 DEF Untouched, Table
      <4>3. IsFiniteSet(ohtables[j].elements) /\ Cardinality(ohtables[j].elements) =< f[j]
        BY <3>1 DEF RoomForReal, StateVectorAgrees
      <4>4. f[j] \in Nat
        BY <1>1, SizesAbove
      <4> HIDE DEF U, f
      <4>5. IsFiniteSet(U[j]) /\ Cardinality(U[j]) =< Cardinality(ohtables[j].elements)
        BY <4>2, <4>3, FS_Subset
      <4>6. Cardinality(U[j]) \in Nat /\ Cardinality(ohtables[j].elements) \in Nat
        BY <4>3, <4>5, FS_CardinalityType
      <4> QED
        BY <4>2, <4>3, <4>4, <4>5, <4>6
    <3>2. CASE ~Alive(j)
      <4>1. U[j] = {} /\ f[j] \in Nat
        BY <1>1, <3>2, SizesAbove
      <4> HIDE DEF U, f
      <4> QED
        BY <4>1, FS_EmptySet
    <3> QED
      BY <3>1, <3>2
  <2>2. Collected(r) = (stupid.entries \cup V) \cup U[r]
    <3>1. \A i \in Level : i \in Sources(r) => Alive(i)
      BY DEF TargetAsserts
    <3>2. \A i \in Level : i \in Sources(r) <=> i < r \/ (i = r /\ Alive(r))
      BY <1>4 DEF Sources, NeedToExtract
    <3>3. Sources(r) \subseteq Level
      BY DEF Sources
    <3>4. \A e : e \in Collected(r) <=>
              e \in stupid.entries \/ \E i \in Sources(r) : e \in Untouched(ohtables[i])
      BY DEF Collected, Extracted
    <3>5. \A e : e \in Collected(r) <=>
              e \in stupid.entries \/ e \in U[r] \/ \E i \in Level : i < r /\ e \in U[i]
      BY <1>2, <3>1, <3>2, <3>3, <3>4
    <3> QED
      BY <3>5
  <2>3. /\ f \in [Level -> Nat]
        /\ SumAbove(f, r) = LinearSize * (AmpPow[r] - 1)
        /\ LinearSize + SumAbove(f, r) + f[r] = NumElementsAt(r, base_b[r] + 1)
    BY <1>1, <1>4, SizesAbove
  <2>4. U \in [Level -> SUBSET Entry]
    BY <2>1
  <2>5. r \in 0 .. NumLevels /\ LinearSize \in Nat
    BY <1>2, LevelFacts, PowFacts
  <2> HIDE DEF U, f
  <2>6. IsFiniteSet(V) /\ Cardinality(V) =< SumAbove(f, r) /\ SumAbove(f, r) \in Nat
    BY <2>1, <2>3, <2>4, <2>5, UnionRoom, SumAboveStep
  <2> HIDE DEF V
  <2>7. \A A, B : IsFiniteSet(A) /\ IsFiniteSet(B) =>
            /\ IsFiniteSet(A \cup B) /\ Cardinality(A \cup B) \in Nat
            /\ Cardinality(A) \in Nat /\ Cardinality(B) \in Nat
            /\ Cardinality(A \cup B) =< Cardinality(A) + Cardinality(B)
    <3> TAKE A, B
    <3> HAVE IsFiniteSet(A) /\ IsFiniteSet(B)
    <3>1. /\ IsFiniteSet(A \cup B)
          /\ Cardinality(A \cup B) = Cardinality(A) + Cardinality(B) - Cardinality(A \cap B)
      BY FS_Union
    <3>2. IsFiniteSet(A \cap B)
      BY FS_Subset
    <3> QED
      BY <3>1, <3>2, FS_CardinalityType
  <2>8. /\ IsFiniteSet(stupid.entries) /\ Cardinality(stupid.entries) =< LinearSize
    BY DEF RoomForReal
  <2>9. IsFiniteSet(stupid.entries \cup V)
        /\ Cardinality(stupid.entries \cup V) =< LinearSize + SumAbove(f, r)
        /\ Cardinality(stupid.entries \cup V) \in Nat
    BY <2>5, <2>6, <2>7, <2>8
  <2>10. IsFiniteSet(U[r]) /\ Cardinality(U[r]) =< f[r] /\ f[r] \in Nat
    BY <2>1, <2>3
  <2>11. IsFiniteSet(Collected(r))
         /\ Cardinality(Collected(r)) =< LinearSize + SumAbove(f, r) + f[r]
    BY <2>2, <2>5, <2>6, <2>7, <2>9, <2>10
  <2> QED
    BY <1>2, <1>4, <2>3, <2>11
<1> QED
  BY <1>3, <1>4

-----------------------------------------------------------------------------
(* From the invariant to the assertions *)

LEMMA TargetAssertsHold ==
    ASSUME TypeOK, AInv, NEW r \in Level, IsTarget(r)
    PROVE  TargetAsserts(r)
<1>1. \A i \in Level : Alive(i) <=> base_b[i] # 0
  BY DEF AInv, StateVectorAgrees
<1>2. \A i \in Level : i \in Nat /\ base_b[i] \in 0 .. AmpFactor - 1
  BY DEF TypeOK, Level
<1>3. ASSUME NEW i \in Sources(r) PROVE Alive(i)
  <2>1. i \in Level /\ (i < r \/ (i = r /\ NeedToExtract(r)))
    BY DEF Sources
  <2>2. CASE i < r
    <3>1. base_b[i] # 0
      BY <2>1, <2>2, TargetState, PowFacts
    <3> QED
      BY <1>1, <2>1, <3>1
  <2>3. CASE i = r /\ NeedToExtract(r)
    BY <1>1, <2>1, <2>3 DEF NeedToExtract
  <2> QED
    BY <2>1, <2>2, <2>3
<1>4. ASSUME Alive(r)
      PROVE  base_b[r] > 0 /\ ohtables[r].num_elements = NumElementsAt(r, base_b[r])
  BY <1>1, <1>2, <1>4 DEF AInv, StateVectorAgrees
<1>5. ASSUME r = Bottom, ~NeedToExtract(r) PROVE ~HadInitialBottomLevel /\ ~Alive(r)
  BY <1>1, <1>5 DEF NeedToExtract, AInv, NoneMissing
<1> QED
  BY <1>3, <1>4, <1>5 DEF TargetAsserts

(* A table that is drained has answered every query it has a dummy for.    *)
LEMMA DrainedExactly ==
    ASSUME TypeOK, AInv, pc = "rebuild", NEW r \in Level, IsTarget(r), NEW i \in Sources(r)
    PROVE  DrainAsserts(ohtables[i], NumDummies(i))
<1>1. i \in Level /\ r \in Nat /\ i \in Nat /\ i =< r /\ Alive(i)
  BY TargetAssertsHold DEF TargetAsserts, Sources, Level
<1>2. ohtables[i].query_count
        = BuildsAbove(i) * StupidFillTime + (stupid.num_stored - StashSize) + 0
  BY <1>1 DEF AInv, QueryCountExact
<1>3. stupid.num_stored - StashSize = StupidFillTime
  BY PowFacts DEF AInv, FillTracked
<1>4. \A j \in Level : j < i => base_b[j] = AmpFactor - 1
  <2>1. \A j \in Level : j < i => j < r
    BY <1>1 DEF Level
  <2> QED
    BY <2>1, TargetState
<1>5. BuildsAbove(i) = AmpPow[i] - 1
  BY <1>1, <1>4, BuildsBound
<1>6. \A p, t \in Nat : (p - 1) * t + t + 0 = p * t
  <2> TAKE p, t \in Nat
  <2>1. (p - 1) * t = p * t - t /\ p * t \in Nat
    OBVIOUS
  <2> QED
    BY <2>1
<1>7. (AmpPow[i] - 1) * StupidFillTime + StupidFillTime + 0 = AmpPow[i] * StupidFillTime
  BY <1>1, <1>6, PowFacts
<1> QED
  BY <1>2, <1>3, <1>5, <1>7 DEF DrainAsserts, NumDummies

(* With an initial bottom level, a rebuild of the bottom finds them all.   *)
LEMMA CollectedAll ==
    ASSUME IInv, AInv, pc = "rebuild", HadInitialBottomLevel, TargetAsserts(Bottom)
    PROVE  Cardinality(Collected(Bottom)) = Cardinality(Addr)
<1> DEFINE E == Collected(Bottom)
           g == [e \in E |-> e.x]
<1>1. Bottom \in Level /\ \A l \in Loc : l =< Bottom
  BY LocFacts, LevelFacts DEF Loc, Level, Bottom
<1>2. E \subseteq Entry /\ \A e, f \in E : e.x = f.x => e = f
  BY <1>1, CollectedUnique
<1>3. \A x \in Addr : \E e \in E : e.x = x
  <2> TAKE x \in Addr
  <2>1. PICK l \in Loc : \E e \in At(l) : e.x = x
    BY DEF AInv, NoneMissing
  <2> QED
    BY <1>1, <2>1, CollectedAt DEF IInv
<1>4. IsFiniteSet(E)
  BY <1>1, CollectedUnique
<1> HIDE DEF E
<1>5. g \in Injection(E, Addr) /\ g \in Surjection(E, Addr)
  BY <1>2, <1>3 DEF Injection, IsInjective, Surjection, Entry
<1> HIDE DEF g
<1>6. Cardinality(Addr) = Cardinality(E)
  BY <1>4, <1>5, FS_Surjection
<1> QED
  BY <1>6 DEF E

LEMMA RebuildAssertsFollow == IInv /\ AInv => RebuildAssertsHold
<1> SUFFICES ASSUME IInv, AInv, pc = "rebuild"
             PROVE  \E r \in Level :
                       /\ IsTarget(r) /\ TargetAsserts(r) /\ ExtractionAsserts(r)
                       /\ NextBaseB(r)[r] < AmpFactor
                       /\ \E E \in NewElements(r) : \E S \in SUBSET E :
                              IsStash(S, E, NumElementsAt(r, NextBaseB(r)[r]))
  BY DEF RebuildAssertsHold
<1>1. TypeOK /\ stupid.num_stored = LinearSize
  BY DEF IInv, AInv, FillTracked
<1>2. PICK r \in Level : IsTarget(r)
  BY <1>1, TargetExists
<1>3. TargetAsserts(r)
  BY <1>1, <1>2, TargetAssertsHold
<1>4. NextBaseB(r)[r] = (IF r = Bottom THEN 1 ELSE base_b[r] + 1) /\ base_b[r] \in Nat
  BY <1>1, <1>2, TargetState DEF Level, TypeOK
<1>5. NextBaseB(r)[r] < AmpFactor /\ NextBaseB(r)[r] \in Nat \ {0}
  <2>1. r # Bottom => base_b[r] < AmpFactor - 1
    BY <1>2 DEF IsTarget
  <2> QED
    BY <1>4, <2>1, PowFacts
<1>6. ExtractionAsserts(r)
  <2>1. ExtractAsserts(stupid)
    BY <1>1 DEF ExtractAsserts
  <2>2. \A i \in Sources(r) : DrainAsserts(ohtables[i], NumDummies(i))
    BY <1>1, <1>2, DrainedExactly
  <2>3. r # Bottom => TotNumToExtract(r) = NumElementsAt(r, base_b[r] + 1)
    <3> SUFFICES ASSUME r # Bottom PROVE TotNumToExtract(r) = NumElementsAt(r, base_b[r] + 1)
      OBVIOUS
    <3>1. ~NeedToExtract(r) => NumElementsAt(r, base_b[r]) = 0
      <4>1. ~NeedToExtract(r) => base_b[r] = 0
        BY DEF NeedToExtract, AInv, StateVectorAgrees
      <4>2. NumElementsAt(r, 0) = 0
        BY PowFacts DEF NumElementsAt
      <4> QED
        BY <4>1, <4>2
    <3>2. LinearSize + SumAbove([i \in Level |-> NumElementsAt(i, base_b[i])], r)
              + NumElementsAt(r, base_b[r]) = NumElementsAt(r, base_b[r] + 1)
      BY <1>1, <1>2, SizesAbove
    <3> QED
      BY <3>1, <3>2 DEF TotNumToExtract
  <2> QED
    BY <2>1, <2>2, <2>3 DEF ExtractionAsserts
<1> DEFINE n == NumElementsAt(r, NextBaseB(r)[r])
           E == Collected(r)
<1>7. n \in Nat /\ StashSize =< n
  BY <1>5, StashFits
<1>8. IsFiniteSet(E) /\ Cardinality(E) =< n
  BY <1>1, <1>2, <1>3, CollectedRoom DEF AInv
<1>9. E \in NewElements(r)
  <2>1. CASE r # Bottom
    BY <2>1 DEF NewElements
  <2>2. CASE r = Bottom /\ HadInitialBottomLevel
    <3>1. NumElementsAt(Bottom, 1) = Cardinality(Addr)
      BY DoramAssumption DEF NumElementsAt, Bottom
    <3>2. Cardinality(E) = Cardinality(Addr)
      BY <1>3, <2>2, CollectedAll
    <3> QED
      BY <2>2, <3>1, <3>2 DEF NewElements, Cleansed
  <2>3. CASE r = Bottom /\ ~HadInitialBottomLevel
    <3>1. Cardinality(E) =< NumElementsAt(Bottom, 1)
      BY <1>4, <1>8, <2>3
    <3> QED
      BY <2>3, <3>1 DEF NewElements, Cleansed
  <2> QED
    BY <2>1, <2>2, <2>3
<1> HIDE DEF n, E
<1>10. PICK S \in SUBSET E : IsStash(S, E, n)
  BY <1>7, <1>8, StashExists
<1> QED
  BY <1>2, <1>3, <1>5, <1>6, <1>9, <1>10 DEF n

(* A probe always has a dummy to spend and an untouched position.          *)
LEMMA ProbeAssertsFollow == IInv /\ AInv => ProbeAssertsHold
<1> SUFFICES ASSUME IInv, AInv, pc = "levels"
             PROVE  /\ lvl \in Level /\ Alive(lvl) =>
                         ProbeAsserts(ohtables[lvl], qry.x, UseDummy, NumDummies(lvl))
                    /\ WriteAsserts(stupid)
  BY DEF ProbeAssertsHold
<1>1. stupid.num_stored < LinearSize /\ StashSize =< stupid.num_stored
      /\ stupid.num_stored \in Nat
  BY LinearAssumption DEF AInv, FillTracked, IInv, TypeOK, Stupid
<1>2. ASSUME lvl \in Level, Alive(lvl)
      PROVE  ohtables[lvl].query_count < NumDummies(lvl)
  <2>1. ohtables[lvl].query_count
          = BuildsAbove(lvl) * StupidFillTime + (stupid.num_stored - StashSize) + 0
    BY <1>2 DEF AInv, QueryCountExact, Level
  <2>2. BuildsAbove(lvl) \in Nat /\ BuildsAbove(lvl) =< AmpPow[lvl] - 1
    BY <1>2, BuildsBound DEF IInv
  <2>3. \A b, p, t, d \in Nat : b =< p - 1 /\ d < t => b * t + d + 0 < p * t
    <3> TAKE b, p, t, d \in Nat
    <3> HAVE b =< p - 1 /\ d < t
    <3>1. p - 1 - b \in Nat /\ (p - 1 - b) * t \in Nat
      OBVIOUS
    <3>2. p * t = b * t + (p - 1 - b) * t + t
      OBVIOUS
    <3>3. b * t \in Nat /\ p * t \in Nat
      OBVIOUS
    <3> QED
      BY <3>1, <3>2, <3>3
  <2>4. stupid.num_stored - StashSize \in Nat
        /\ stupid.num_stored - StashSize < StupidFillTime
    BY <1>1, PowFacts
  <2>5. BuildsAbove(lvl) * StupidFillTime + (stupid.num_stored - StashSize) + 0
          < AmpPow[lvl] * StupidFillTime
    BY <1>2, <2>2, <2>3, <2>4, PowFacts
  <2> QED
    BY <2>1, <2>5 DEF NumDummies
<1>3. ASSUME lvl \in Level, Alive(lvl), NEW e \in Hit(ohtables[lvl], qry.x, UseDummy),
             e.x \in ohtables[lvl].touched
      PROVE  FALSE
  <2>1. e \in ohtables[lvl].elements /\ e \notin ohtables[lvl].stash /\ ~UseDummy /\ e.x = qry.x
    BY <1>3 DEF Hit
  <2>2. qry.x \notin ohtables[lvl].seen
    BY <1>3, <2>1, NotSeenBefore
  <2>3. PICK f \in ohtables[lvl].stash : f.x = e.x
    BY <1>3, <2>1, <2>2 DEF AInv, TouchedOnce
  <2>4. f = e
    BY <1>3, <2>1, <2>3 DEF AInv, TouchedOnce
  <2> QED
    BY <2>1, <2>3, <2>4
<1> QED
  BY <1>1, <1>2, <1>3 DEF ProbeAsserts, WriteAsserts

-----------------------------------------------------------------------------
(* The invariant *)

(* There are no more images than elements.                                 *)
LEMMA ReinsertedSize ==
    ASSUME NEW S, IsFiniteSet(S), NEW r
    PROVE  IsFiniteSet(Reinserted(S, r)) /\ Cardinality(Reinserted(S, r)) =< Cardinality(S)
<1> DEFINE g == [e \in S |-> [x |-> e.x, y |-> e.y \cup AlibiBit(r)]]
<1>1. g \in Surjection(S, Reinserted(S, r))
  BY DEF Surjection, Reinserted
<1> HIDE DEF g
<1> QED
  BY <1>1, FS_Surjection

LEMMA InitAInv == Init => AInv
<1> SUFFICES ASSUME Init PROVE AInv
  OBVIOUS
<1>1. /\ pc = "idle" /\ TypeOK
      /\ StashSize \in Nat /\ StashSize < LinearSize /\ LinearSize \in Nat
  BY InitType, PowFacts DEF Init
<1>2. CASE HadInitialBottomLevel
  <2> DEFINE n == NumElementsAt(Bottom, 1)
  <2>1. PICK S \in SUBSET InitEntries :
          /\ IsStash(S, InitEntries, n)
          /\ ohtables = [i \in Level |-> IF i = Bottom
                 THEN Build(InitEntries, S, n) ELSE nullptr]
          /\ base_b = [i \in Level |-> IF i = Bottom THEN 1 ELSE 0]
          /\ stupid = WithStash(EmptyStupid, S, Bottom)
    BY <1>2 DEF Init
  <2> DEFINE t == Build(InitEntries, S, n)
  <2>2. InitEntries \subseteq Entry /\ \A e, f \in InitEntries : e.x = f.x => e = f
    <3>1. \A a \in Addr : InitYs[a] \in Word
      BY DoramAssumption DEF ValueMask, Word
    <3> QED
      BY <3>1 DEF InitEntries, Entry
  <2>3. n \in Nat /\ n = Cardinality(Addr)
    BY NumElementsNat, LevelFacts, DoramAssumption DEF NumElementsAt, Bottom
  <2>4. IsFiniteSet(InitEntries) /\ Cardinality(InitEntries) =< n
    BY <2>2, <2>3, OnePerAddress
  <2>5. t \in Table /\ t # nullptr
    BY <2>2, <2>3, BuildType, NotNull
  <2>6. t.elements = InitEntries /\ t.stash = S /\ t.touched = {e.x : e \in S}
        /\ t.query_count = 0 /\ t.num_elements = n
    BY DEF Build
  <2> HIDE DEF n
  <2>7. \A i \in Level : ohtables[i] = IF i = Bottom THEN t ELSE nullptr
    BY <2>1
  <2> HIDE DEF t
  <2>8. \A i \in Level : Alive(i) <=> i = Bottom
    BY <2>5, <2>7 DEF Alive
  <2>9. /\ stupid.num_stored = StashSize /\ stupid.entries = Reinserted(S, Bottom)
    BY <1>1, <2>1 DEF WithStash, AfterWrite, EmptyStupid
  <2>10. StateVectorAgrees
    BY <2>1, <2>6, <2>7, <2>8 DEF StateVectorAgrees, n
  <2>11. QueryCountExact
    <3>1. BuildsAbove(Bottom) = 0
      <4> DEFINE f == [j \in Level |-> base_b[j] * AmpPow[j]]
      <4>1. \A j \in Level : j < Bottom => f[j] = 0 * ((AmpFactor - 1) * AmpPow[j])
        <5> TAKE j \in Level
        <5> HAVE j < Bottom
        <5>1. base_b[j] = 0 /\ AmpPow[j] \in Nat /\ AmpFactor \in Nat
          BY <2>1, LevelFacts, PowFacts
        <5>2. \A a, b \in Nat : 0 * ((a - 1) * b) = 0 /\ 0 * b = 0
          OBVIOUS
        <5> QED
          BY <5>1, <5>2
      <4>2. f \in [Level -> Nat] /\ Bottom \in 0 .. NumLevels
        BY <1>1, BuildsType, LevelFacts DEF Level
      <4> HIDE DEF f
      <4>3. SumAbove(f, Bottom) = 0 * (AmpPow[Bottom] - 1)
        BY <4>1, <4>2, Geometric
      <4>4. 0 * (AmpPow[Bottom] - 1) = 0
        BY <4>2, PowFacts
      <4> QED
        BY <4>3, <4>4 DEF BuildsAbove, f
    <3>2. 0 * StupidFillTime + (StashSize - StashSize) + 0 = 0
      BY PowFacts
    <3> QED
      BY <1>1, <2>6, <2>7, <2>8, <2>9, <3>1, <3>2 DEF QueryCountExact
  <2>12. FillTracked
    BY <1>1, <2>9 DEF FillTracked
  <2>13. RoomForReal
    <3>1. IsFiniteSet(S) /\ Cardinality(S) =< StashSize
      BY <2>1, <2>4, FS_Subset DEF IsStash
    <3>2. IsFiniteSet(Reinserted(S, Bottom))
          /\ Cardinality(Reinserted(S, Bottom)) =< Cardinality(S)
      BY <3>1, ReinsertedSize
    <3>3. Cardinality(S) \in Nat /\ Cardinality(Reinserted(S, Bottom)) \in Nat
      BY <3>1, <3>2, FS_CardinalityType
    <3> QED
      BY <1>1, <2>4, <2>6, <2>7, <2>8, <2>9, <3>1, <3>2, <3>3 DEF RoomForReal
  <2>14. TouchedOnce
    BY <2>2, <2>6, <2>7, <2>8 DEF TouchedOnce
  <2>15. NoneMissing
    <3>1. base_b[Bottom] # 0
      BY <2>1, LevelFacts
    <3>2. ASSUME NEW a \in Addr PROVE \E l \in Loc : \E e \in At(l) : e.x = a
      <4>1. At(-1) = Reinserted(S, Bottom)
        BY <2>9 DEF At
      <4>2. At(Bottom) = {e \in InitEntries : e.x \notin {s.x : s \in S}}
        BY <2>6, <2>7, <2>8, LocFacts, LevelFacts DEF At, Untouched
      <4> DEFINE e == [x |-> a, y |-> InitYs[a]]
      <4>3. e \in InitEntries /\ e.x = a
        BY DEF InitEntries
      <4> HIDE DEF e
      <4>4. CASE \E s \in S : s.x = a
        <5>1. PICK s \in S : s.x = a
          BY <4>4
        <5>2. [x |-> s.x, y |-> s.y \cup AlibiBit(Bottom)] \in At(-1)
          BY <4>1 DEF Reinserted
        <5> QED
          BY <5>1, <5>2, LocFacts
      <4>5. CASE ~\E s \in S : s.x = a
        BY <4>2, <4>3, <4>5, LocFacts, LevelFacts
      <4> QED
        BY <4>4, <4>5
    <3> QED
      BY <3>1, <3>2 DEF NoneMissing
  <2> QED
    BY <2>10, <2>11, <2>12, <2>13, <2>14, <2>15 DEF AInv
<1>3. CASE ~HadInitialBottomLevel
  <2>1. /\ \A i \in Level : ~Alive(i) /\ base_b[i] = 0
        /\ stupid.num_stored = StashSize /\ stupid.entries = {}
    BY <1>1, <1>3 DEF Init, Alive, AfterSkip, EmptyStupid
  <2>2. StateVectorAgrees /\ QueryCountExact /\ FillTracked /\ TouchedOnce /\ NoneMissing
    BY <1>1, <1>3, <2>1
    DEF StateVectorAgrees, QueryCountExact, FillTracked, TouchedOnce, NoneMissing
  <2>3. RoomForReal
    BY <1>1, <2>1, FS_EmptySet DEF RoomForReal
  <2> QED
    BY <2>2, <2>3 DEF AInv
<1> QED
  BY <1>2, <1>3

LEMMA RebuildAInv == ASSUME IInv, AInv, Rebuild PROVE AInv'
<1>1. TypeOK /\ TypeOK'
  BY NextType DEF IInv, Next, Access
<1>2. pc = "rebuild" /\ pc' = "stupid"
  BY DEF Rebuild
<1>3. PICK r \in Level : \E E \in NewElements(r) : \E S \in SUBSET E :
        /\ IsTarget(r) /\ TargetAsserts(r)
        /\ base_b' = NextBaseB(r)
        /\ IsStash(S, E, NumElementsAt(r, base_b'[r]))
        /\ stupid' = WithStash(EmptyStupid, S, r)
        /\ ohtables'[r] = Build(E, S, NumElementsAt(r, base_b'[r])) /\ Alive(r)'
        /\ At(-1)' = Reinserted(S, r)
        /\ At(r)' = {e \in E : e.x \notin {s.x : s \in S}}
        /\ \A l \in Level : l < r => At(l)' = {} /\ ~Alive(l)'
        /\ \A l \in Level : r < l => At(l)' = At(l) /\ ohtables'[l] = ohtables[l]
  BY <1>1, RebuildMoves
<1>4. PICK E \in NewElements(r) : \E S \in SUBSET E :
        /\ IsStash(S, E, NumElementsAt(r, base_b'[r]))
        /\ stupid' = WithStash(EmptyStupid, S, r)
        /\ ohtables'[r] = Build(E, S, NumElementsAt(r, base_b'[r])) /\ Alive(r)'
        /\ At(-1)' = Reinserted(S, r)
        /\ At(r)' = {e \in E : e.x \notin {s.x : s \in S}}
  BY <1>3
<1>5. PICK S \in SUBSET E :
        /\ IsStash(S, E, NumElementsAt(r, base_b'[r]))
        /\ stupid' = WithStash(EmptyStupid, S, r)
        /\ ohtables'[r] = Build(E, S, NumElementsAt(r, base_b'[r])) /\ Alive(r)'
        /\ At(-1)' = Reinserted(S, r)
        /\ At(r)' = {e \in E : e.x \notin {s.x : s \in S}}
  BY <1>4
<1>6. /\ IsTarget(r) /\ TargetAsserts(r) /\ base_b' = NextBaseB(r)
      /\ \A l \in Level : l < r => ~Alive(l)'
      /\ \A l \in Level : r < l => At(l)' = At(l) /\ ohtables'[l] = ohtables[l]
                                   /\ (Alive(l)' <=> Alive(l))
  BY <1>3 DEF Alive
<1> DEFINE n == NumElementsAt(r, base_b'[r])
<1>7. /\ ohtables'[r].elements = E /\ ohtables'[r].stash = S
      /\ ohtables'[r].touched = {e.x : e \in S}
      /\ ohtables'[r].query_count = 0 /\ ohtables'[r].num_elements = n
  BY <1>5 DEF Build
<1> HIDE DEF n
<1>8. /\ r \in Nat /\ r =< Bottom
      /\ \A i \in Level : i \in Nat /\ i =< Bottom
      /\ \A i \in Level : base_b'[i] = IF i < r THEN 0
                            ELSE IF i = r THEN (IF r = Bottom THEN 1 ELSE base_b[r] + 1)
                            ELSE base_b[i]
      /\ base_b[r] \in Nat
  <2>1. r \in Nat /\ r =< Bottom /\ \A i \in Level : i \in Nat /\ i =< Bottom
    BY WordAssumption DEF Level, Bottom
  <2>2. base_b[r] \in Nat
    BY <1>1 DEF TypeOK
  <2>3. \A i \in Level : NextBaseB(r)[i] = IF i < r THEN 0
                            ELSE IF i = r THEN (IF r = Bottom THEN 1 ELSE base_b[r] + 1)
                            ELSE base_b[i]
    BY <1>1, <1>6, TargetState
  <2>4. base_b' = NextBaseB(r)
    BY <1>6
  <2> QED
    BY <2>1, <2>2, <2>3, <2>4, Zenon
<1>9. E = Collected(r)
  BY <1>4, <1>6, RebuildKeepsAll
<1>10. /\ stupid'.num_stored = StashSize /\ stupid'.entries = Reinserted(S, r)
       /\ StashSize \in Nat /\ StashSize < LinearSize /\ LinearSize \in Nat
       /\ stupid.num_stored = LinearSize
  BY <1>2, <1>5, PowFacts DEF WithStash, AfterWrite, EmptyStupid, AInv, FillTracked
<1>11. StateVectorAgrees'
  <2> SUFFICES ASSUME NEW i \in Level
               PROVE  /\ Alive(i)' <=> base_b'[i] # 0
                      /\ Alive(i)' => ohtables'[i].num_elements = NumElementsAt(i, base_b'[i])
    BY DEF StateVectorAgrees
  <2>1. CASE i < r
    BY <1>6, <1>8, <2>1
  <2>2. CASE i = r
    BY <1>5, <1>7, <1>8, <2>2 DEF n
  <2>3. CASE r < i
    BY <1>6, <1>8, <2>3 DEF AInv, StateVectorAgrees
  <2> QED
    BY <1>8, <2>1, <2>2, <2>3
<1>12. QueryCountExact'
  <2> SUFFICES ASSUME NEW i \in Level, Alive(i)'
               PROVE  ohtables'[i].query_count
                        = BuildsAbove(i)' * StupidFillTime + (stupid'.num_stored - StashSize)
                          + (IF pc' = "levels" /\ i < lvl' THEN 1 ELSE 0)
    BY DEF QueryCountExact
  <2>1. BuildsAbove(i)' = IF i =< r THEN 0 ELSE BuildsAbove(i) + 1
    BY <1>1, <1>6, BuildsAfter
  <2>2. StupidFillTime \in Nat /\ StupidFillTime = LinearSize - StashSize
    BY PowFacts
  <2>3. CASE i = r
    <3>1. 0 * StupidFillTime + (StashSize - StashSize) + 0 = 0
      BY <1>10, <2>2
    <3> QED
      BY <1>2, <1>7, <1>8, <1>10, <2>1, <2>3, <3>1
  <2>4. CASE r < i
    <3>1. ohtables[i].query_count
            = BuildsAbove(i) * StupidFillTime + (LinearSize - StashSize) + 0
      BY <1>2, <1>6, <1>10, <2>4 DEF AInv, QueryCountExact
    <3>2. BuildsAbove(i) \in Nat
      BY <1>1, BuildsBound
    <3>3. \A b, t \in Nat : b * t + t + 0 = (b + 1) * t + 0 + 0
      OBVIOUS
    <3>4. BuildsAbove(i) * StupidFillTime + StupidFillTime + 0
            = (BuildsAbove(i) + 1) * StupidFillTime + 0 + 0
      BY <2>2, <3>2, <3>3
    <3>5. StashSize - StashSize = 0
      BY <1>10
    <3> QED
      BY <1>2, <1>6, <1>8, <1>10, <2>1, <2>2, <2>4, <3>1, <3>4, <3>5
  <2>5. ~(i < r)
    BY <1>6
  <2> QED
    BY <1>8, <2>3, <2>4, <2>5
<1>13. FillTracked'
  BY <1>2, <1>10 DEF FillTracked
<1>14. RoomForReal'
  <2>1. IsFiniteSet(E) /\ Cardinality(E) =< n
    BY <1>6, <1>9, <1>10, CollectedRoom DEF AInv, n
  <2>2. IsFiniteSet(S) /\ Cardinality(S) =< StashSize
    BY <1>5, <2>1, FS_Subset DEF IsStash
  <2>3. IsFiniteSet(Reinserted(S, r)) /\ Cardinality(Reinserted(S, r)) =< Cardinality(S)
    BY <2>2, ReinsertedSize
  <2>4. Cardinality(S) \in Nat /\ Cardinality(Reinserted(S, r)) \in Nat
    BY <2>2, <2>3, FS_CardinalityType
  <2>5. IsFiniteSet(stupid'.entries) /\ Cardinality(stupid'.entries) =< stupid'.num_stored
    BY <1>10, <2>2, <2>3, <2>4
  <2>6. ASSUME NEW i \in Level, Alive(i)'
        PROVE  /\ IsFiniteSet(ohtables'[i].elements)
               /\ Cardinality(ohtables'[i].elements) =< ohtables'[i].num_elements
    <3>1. CASE i = r
      BY <1>7, <2>1, <3>1
    <3>2. CASE r < i
      BY <1>6, <2>6, <3>2 DEF AInv, RoomForReal
    <3> QED
      BY <1>6, <1>8, <2>6, <3>1, <3>2
  <2> QED
    BY <2>5, <2>6 DEF RoomForReal
<1>15. TouchedOnce'
  <2> SUFFICES ASSUME NEW i \in Level, Alive(i)'
               PROVE  /\ \A e, f \in ohtables'[i].elements : e.x = f.x => e = f
                      /\ ohtables'[i].stash \subseteq ohtables'[i].elements
                      /\ \A x \in ohtables'[i].touched :
                             \/ x \in ohtables'[i].seen
                             \/ \E e \in ohtables'[i].stash : e.x = x
    BY DEF TouchedOnce
  <2>1. CASE i = r
    <3>1. \A e, f \in E : e.x = f.x => e = f
      BY <1>6, <1>9, CollectedUnique
    <3> QED
      BY <1>7, <2>1, <3>1
  <2>2. CASE r < i
    BY <1>6, <2>2 DEF AInv, TouchedOnce
  <2> QED
    BY <1>6, <1>8, <2>1, <2>2
<1>16. NoneMissing'
  <2> SUFFICES ASSUME HadInitialBottomLevel
               PROVE  /\ base_b'[Bottom] # 0
                      /\ \A x \in Addr : \/ \E l \in Loc : \E e \in At(l)' : e.x = x
                                         \/ pc' = "levels" /\ qry'.x = x
    BY DEF NoneMissing
  <2>1. base_b'[Bottom] # 0
    <3>1. base_b[Bottom] # 0 /\ Bottom \in Level
      BY LevelFacts DEF AInv, NoneMissing
    <3> QED
      BY <1>8, <3>1
  <2>2. ASSUME NEW x \in Addr PROVE \E l \in Loc : \E e \in At(l)' : e.x = x
    <3>1. PICK k \in Loc : \E e \in At(k) : e.x = x
      BY <1>2 DEF AInv, NoneMissing
    <3>2. PICK e \in At(k) : e.x = x
      BY <3>1
    <3>3. CASE k \in Level /\ r < k
      BY <1>6, <3>2, <3>3
    <3>4. CASE k =< r
      <4>1. e \in E
        BY <1>1, <1>6, <1>9, <3>2, <3>4, CollectedAt
      <4>2. CASE \E s \in S : s.x = x
        <5>1. PICK s \in S : s.x = x
          BY <4>2
        <5>2. [x |-> s.x, y |-> s.y \cup AlibiBit(r)] \in At(-1)'
          BY <1>5 DEF Reinserted
        <5> QED
          BY <5>1, <5>2, LocFacts
      <4>3. CASE ~\E s \in S : s.x = x
        BY <1>5, <3>2, <4>1, <4>3, LocFacts
      <4> QED
        BY <4>2, <4>3
    <3> QED
      BY <1>8, <3>3, <3>4, LocFacts
  <2> QED
    BY <2>1, <2>2
<1> QED
  BY <1>11, <1>12, <1>13, <1>14, <1>15, <1>16 DEF AInv

(* Steps that leave the tables, the state vector and the fill alone.       *)
LEMMA StillAInv ==
    ASSUME AInv, UNCHANGED <<stupid, ohtables, base_b>>
    PROVE  /\ StateVectorAgrees' /\ RoomForReal' /\ TouchedOnce'
           /\ \A i \in Level : (Alive(i)' <=> Alive(i)) /\ BuildsAbove(i)' = BuildsAbove(i)
           /\ \A l \in Loc : At(l)' = At(l)
BY NothingMoves
   DEF AInv, StateVectorAgrees, RoomForReal, TouchedOnce, Alive, BuildsAbove

LEMMA CallAInv == ASSUME IInv, AInv, NEW q \in Requests, Call(q) PROVE AInv'
<1>1. /\ UNCHANGED <<stupid, ohtables, base_b, lvl>> /\ pc = "idle"
      /\ pc' = IF stupid.num_stored < LinearSize THEN "stupid" ELSE "rebuild"
  BY DEF Call, IsWriteable
<1>2. StateVectorAgrees' /\ RoomForReal' /\ TouchedOnce'
  BY <1>1, StillAInv
<1>3. FillTracked'
  <2>1. stupid.num_stored \in 0 .. LinearSize /\ LinearSize \in Nat
    BY LinearAssumption DEF IInv, TypeOK, Stupid
  <2> QED
    BY <1>1, <2>1 DEF AInv, FillTracked
<1>4. QueryCountExact'
  BY <1>1, StillAInv DEF AInv, QueryCountExact
<1>5. NoneMissing'
  BY <1>1, StillAInv DEF AInv, NoneMissing
<1> QED
  BY <1>2, <1>3, <1>4, <1>5 DEF AInv

LEMMA SkipLevelAInv == ASSUME IInv, AInv, SkipLevel PROVE AInv'
<1>1. /\ UNCHANGED <<stupid, ohtables, base_b, pc, qry>>
      /\ pc = "levels" /\ lvl \in Level /\ ~Alive(lvl) /\ lvl' = lvl + 1
  BY DEF SkipLevel
<1>2. StateVectorAgrees' /\ RoomForReal' /\ TouchedOnce'
  BY <1>1, StillAInv
<1>3. FillTracked'
  BY <1>1 DEF AInv, FillTracked
<1>4. QueryCountExact'
  <2>1. \A i \in Level : i # lvl => (i < lvl' <=> i < lvl)
    BY <1>1 DEF Level
  <2>2. \A i \in Level : Alive(i) => i # lvl
    BY <1>1
  <2> QED
    BY <1>1, <2>1, <2>2, StillAInv DEF AInv, QueryCountExact
<1>5. NoneMissing'
  BY <1>1, StillAInv DEF AInv, NoneMissing
<1> QED
  BY <1>2, <1>3, <1>4, <1>5 DEF AInv

LEMMA QueryStupidAInv == ASSUME IInv, AInv, QueryStupid PROVE AInv'
<1>1. /\ UNCHANGED <<ohtables, base_b, qry>> /\ pc = "stupid" /\ pc' = "levels" /\ lvl' = 0
      /\ stupid' = [stupid EXCEPT !.entries = @ \ Matches(stupid, qry.x)]
  BY DEF QueryStupid, AfterQuery
<1>2. /\ stupid'.num_stored = stupid.num_stored
      /\ stupid'.entries = stupid.entries \ Matches(stupid, qry.x)
  BY <1>1 DEF IInv, TypeOK, Stupid
<1>3. \A i \in Level : (Alive(i)' <=> Alive(i)) /\ BuildsAbove(i)' = BuildsAbove(i)
  BY <1>1 DEF Alive, BuildsAbove
<1>4. StateVectorAgrees' /\ TouchedOnce'
  BY <1>1, <1>3 DEF AInv, StateVectorAgrees, TouchedOnce
<1>5. FillTracked'
  BY <1>1, <1>2 DEF AInv, FillTracked
<1>6. RoomForReal'
  <2>1. /\ IsFiniteSet(stupid.entries) /\ Cardinality(stupid.entries) =< stupid.num_stored
        /\ stupid.num_stored \in Nat
    BY LinearAssumption DEF AInv, RoomForReal, IInv, TypeOK, Stupid
  <2>2. /\ IsFiniteSet(stupid'.entries)
        /\ Cardinality(stupid'.entries) =< Cardinality(stupid.entries)
    BY <1>2, <2>1, FS_Subset
  <2>3. Cardinality(stupid'.entries) \in Nat /\ Cardinality(stupid.entries) \in Nat
    BY <2>1, <2>2, FS_CardinalityType
  <2>4. Cardinality(stupid'.entries) =< stupid'.num_stored
    BY <1>2, <2>1, <2>2, <2>3
  <2> QED
    BY <1>1, <1>3, <2>2, <2>4 DEF AInv, RoomForReal
<1>7. QueryCountExact'
  <2>1. \A i \in Level : ~(i < 0)
    BY DEF Level
  <2> QED
    BY <1>1, <1>2, <1>3, <2>1 DEF AInv, QueryCountExact
<1>8. NoneMissing'
  <2>1. /\ At(-1)' = {e \in At(-1) : e.x # qry.x}
        /\ \A l \in Level : At(l)' = At(l)
    BY QueryStupidMoves
  <2>2. \A l \in Loc : \A e \in At(l) : e.x # qry.x => e \in At(l)'
    BY <2>1, LocFacts
  <2> QED
    BY <1>1, <2>2 DEF AInv, NoneMissing
<1> QED
  BY <1>4, <1>5, <1>6, <1>7, <1>8 DEF AInv

LEMMA ProbeLevelAInv == ASSUME IInv, AInv, ProbeLevel PROVE AInv'
<1>1. /\ UNCHANGED <<stupid, base_b, qry>> /\ pc = "levels" /\ pc' = "levels"
      /\ lvl \in Level /\ Alive(lvl) /\ lvl' = lvl + 1
      /\ ohtables' = [ohtables EXCEPT ![lvl] = AfterProbe(@, qry.x, UseDummy)]
  BY DEF ProbeLevel
<1>2. PICK i \in Level : i = lvl
  BY <1>1
<1> DEFINE t == ohtables[i]
           u == ohtables'[i]
<1>3. t \in Table
  BY <1>1, <1>2 DEF IInv, TypeOK, Alive
<1>4. /\ \A l \in Level : l # i => ohtables'[l] = ohtables[l]
      /\ u = AfterProbe(t, qry.x, UseDummy)
  BY <1>1, <1>2 DEF IInv, TypeOK
<1>5. /\ u.elements = t.elements /\ u.stash = t.stash /\ u.num_elements = t.num_elements
      /\ u.touched = t.touched \cup {e.x : e \in Hit(t, qry.x, UseDummy)}
      /\ u.seen = (IF UseDummy THEN t.seen ELSE t.seen \cup {qry.x})
      /\ u.query_count = t.query_count + 1
  BY <1>3, <1>4 DEF AfterProbe, Table
<1>6. /\ \A l \in Level : (Alive(l)' <=> Alive(l)) /\ BuildsAbove(l)' = BuildsAbove(l)
      /\ At(i)' = {e \in At(i) : UseDummy \/ e.x # qry.x}
      /\ \A l \in Loc \ {i} : At(l)' = At(l)
  BY <1>1, <1>2, ProbeMoves DEF IInv, BuildsAbove
<1> HIDE DEF t, u
<1>7. \A l \in Level : /\ ohtables'[l].elements = ohtables[l].elements
                       /\ ohtables'[l].stash = ohtables[l].stash
                       /\ ohtables'[l].num_elements = ohtables[l].num_elements
  BY <1>4, <1>5 DEF t, u
<1>8. StateVectorAgrees' /\ RoomForReal' /\ FillTracked'
  BY <1>1, <1>6, <1>7 DEF AInv, StateVectorAgrees, RoomForReal, FillTracked
<1>9. QueryCountExact'
  <2>1. \A l \in Level : l # i => (l < lvl' <=> l < lvl)
    BY <1>1, <1>2 DEF Level
  <2>2. ASSUME NEW l \in Level, Alive(l)
        PROVE  ohtables'[l].query_count = BuildsAbove(l)' * StupidFillTime
                 + (stupid'.num_stored - StashSize)
                 + (IF pc' = "levels" /\ l < lvl' THEN 1 ELSE 0)
    <3>1. CASE l # i
      BY <1>1, <1>4, <1>6, <2>1, <2>2, <3>1 DEF AInv, QueryCountExact
    <3>2. CASE l = i
      <4> DEFINE c == BuildsAbove(l) * StupidFillTime + (stupid.num_stored - StashSize)
      <4>1. ~(i < lvl) /\ i < lvl'
        BY <1>1, <1>2 DEF Level
      <4>2. t.query_count = c + 0
        BY <1>1, <2>2, <3>2, <4>1 DEF AInv, QueryCountExact, t
      <4>3. c \in Int
        <5>1. BuildsAbove(l) \in Nat
          BY BuildsBound DEF IInv
        <5>2. stupid.num_stored \in Nat
          BY LinearAssumption DEF IInv, TypeOK, Stupid
        <5>3. \A a, b, d, s \in Nat : a * b + (d - s) \in Int
          OBVIOUS
        <5> QED
          BY <5>1, <5>2, <5>3, PowFacts
      <4> HIDE DEF c
      <4>4. u.query_count = c + 1
        BY <1>5, <4>2, <4>3
      <4> QED
        BY <1>1, <1>6, <3>2, <4>1, <4>4 DEF c, u
    <3> QED
      BY <3>1, <3>2
  <2> QED
    BY <1>6, <2>2 DEF QueryCountExact
<1>10. TouchedOnce'
  <2>1. ASSUME NEW x \in u.touched PROVE x \in u.seen \/ \E e \in u.stash : e.x = x
    <3>1. CASE x \in t.touched
      <4>1. x \in t.seen \/ \E e \in t.stash : e.x = x
        BY <1>1, <1>2, <3>1 DEF AInv, TouchedOnce, t
      <4> QED
        BY <1>5, <4>1
    <3>2. CASE x \notin t.touched
      <4>1. ~UseDummy /\ x = qry.x
        BY <1>5, <2>1, <3>2 DEF Hit
      <4> QED
        BY <1>5, <4>1
    <3> QED
      BY <3>1, <3>2
  <2>2. \A l \in Level : l # i => ohtables'[l] = ohtables[l]
    BY <1>4
  <2>3. ASSUME NEW l \in Level, Alive(l), NEW x \in ohtables'[l].touched
        PROVE  x \in ohtables'[l].seen \/ \E e \in ohtables'[l].stash : e.x = x
    <3>1. CASE l = i
      BY <2>1, <2>3, <3>1 DEF u
    <3>2. CASE l # i
      BY <2>2, <2>3, <3>2 DEF AInv, TouchedOnce
    <3> QED
      BY <3>1, <3>2
  <2> QED
    BY <1>6, <1>7, <2>3 DEF AInv, TouchedOnce
<1>11. NoneMissing'
  <2>1. \A l \in Loc : \A e \in At(l) : e.x # qry.x => e \in At(l)'
    BY <1>6
  <2> QED
    BY <1>1, <2>1 DEF AInv, NoneMissing
<1> QED
  BY <1>8, <1>9, <1>10, <1>11 DEF AInv

LEMMA WriteBackAInv == ASSUME IInv, AInv, WriteBack PROVE AInv'
<1> DEFINE new == [x |-> qry.x, y |-> (IF qry.w THEN qry.y ELSE y_accum) \cap ValueMask]
<1>1. /\ UNCHANGED <<ohtables, base_b>> /\ pc = "levels" /\ pc' = "idle" /\ lvl = NumLevels
      /\ stupid' = AfterWrite(stupid, {new}, 1)
  BY DEF WriteBack
<1>2. /\ stupid'.num_stored = stupid.num_stored + 1
      /\ stupid'.entries = stupid.entries \cup {new}
  BY <1>1 DEF AfterWrite
<1>3. new.x = qry.x
  OBVIOUS
<1> HIDE DEF new
<1>4. \A i \in Level : (Alive(i)' <=> Alive(i)) /\ BuildsAbove(i)' = BuildsAbove(i)
  BY <1>1 DEF Alive, BuildsAbove
<1>5. StateVectorAgrees' /\ TouchedOnce'
  BY <1>1, <1>4 DEF AInv, StateVectorAgrees, TouchedOnce
<1>6. stupid.num_stored \in Nat /\ StashSize \in Nat
  BY LinearAssumption, StashAssumption DEF IInv, TypeOK, Stupid
<1>7. FillTracked'
  BY <1>1, <1>2, <1>6 DEF AInv, FillTracked
<1>8. RoomForReal'
  <2>1. IsFiniteSet(stupid.entries) /\ Cardinality(stupid.entries) =< stupid.num_stored
    BY DEF AInv, RoomForReal
  <2>2. Cardinality(stupid.entries) \in Nat
    BY <2>1, FS_CardinalityType
  <2>3. /\ IsFiniteSet(stupid'.entries)
        /\ Cardinality(stupid'.entries) = IF new \in stupid.entries
               THEN Cardinality(stupid.entries) ELSE Cardinality(stupid.entries) + 1
    BY <1>2, <2>1, FS_AddElement
  <2>4. Cardinality(stupid'.entries) =< stupid'.num_stored
    BY <1>2, <1>6, <2>1, <2>2, <2>3
  <2> QED
    BY <1>1, <1>4, <2>3, <2>4 DEF AInv, RoomForReal
<1>9. QueryCountExact'
  <2> SUFFICES ASSUME NEW i \in Level, Alive(i)
               PROVE  ohtables'[i].query_count = BuildsAbove(i)' * StupidFillTime
                        + (stupid'.num_stored - StashSize)
                        + (IF pc' = "levels" /\ i < lvl' THEN 1 ELSE 0)
    BY <1>4 DEF QueryCountExact
  <2>1. i < lvl
    BY <1>1, LevelFacts
  <2>2. ohtables[i].query_count
          = BuildsAbove(i) * StupidFillTime + (stupid.num_stored - StashSize) + 1
    BY <1>1, <2>1 DEF AInv, QueryCountExact
  <2>3. BuildsAbove(i) \in Nat /\ StupidFillTime \in Nat
    BY BuildsBound, PowFacts DEF IInv
  <2>4. \A a, b, d, s \in Nat : a * b + (d - s) + 1 = a * b + ((d + 1) - s) + 0
    OBVIOUS
  <2>5. BuildsAbove(i) * StupidFillTime + (stupid.num_stored - StashSize) + 1
          = BuildsAbove(i) * StupidFillTime + ((stupid.num_stored + 1) - StashSize) + 0
    BY <1>6, <2>3, <2>4
  <2> QED
    BY <1>1, <1>2, <1>4, <2>2, <2>5
<1>10. NoneMissing'
  <2>1. /\ At(-1)' = At(-1) \cup {new}
        /\ \A l \in Level : At(l)' = At(l)
    BY <1>1, <1>2, LocFacts DEF At, Alive
  <2>2. \A l \in Loc : \A e \in At(l) : e \in At(l)'
    BY <2>1, LocFacts
  <2>3. new \in At(-1)' /\ -1 \in Loc
    BY <2>1, LocFacts
  <2> QED
    BY <1>1, <1>3, <2>2, <2>3 DEF AInv, NoneMissing
<1> QED
  BY <1>5, <1>7, <1>8, <1>9, <1>10 DEF AInv

LEMMA StutterAInv == ASSUME AInv, UNCHANGED vars PROVE AInv'
<1>1. UNCHANGED <<stupid, ohtables, base_b, pc, qry, lvl>>
  BY DEF vars
<1>2. StateVectorAgrees' /\ RoomForReal' /\ TouchedOnce'
  BY <1>1, StillAInv
<1>3. FillTracked' /\ QueryCountExact' /\ NoneMissing'
  BY <1>1, StillAInv DEF AInv, FillTracked, QueryCountExact, NoneMissing
<1> QED
  BY <1>2, <1>3 DEF AInv

(* Every action keeps the invariant behind the assertions.                 *)
LEMMA NextAInv == IInv /\ AInv /\ [Next]_vars => AInv'
BY CallAInv, RebuildAInv, QueryStupidAInv, SkipLevelAInv, ProbeLevelAInv, WriteBackAInv,
   StutterAInv
   DEF Next, Access

(* So does the invariant behind the assertions: what each level holds, how *)
(* full it can be and how often it was queried.                            *)
THEOREM AssertsInductive == Spec => []AInv
BY Inductive, InitAInv, NextAInv, PTL DEF Spec

-----------------------------------------------------------------------------
(* A table has answered exactly as many queries as the state vector and    *)
(* the fill of the linear level say.                                       *)
THEOREM QueryCountExactHolds == Spec => []QueryCountExact
<1>1. AInv => QueryCountExact
  BY DEF AInv
<1> QED
  BY <1>1, AssertsInductive, PTL

(* No rebuild is ever stuck on an assertion: its target, its spent tables  *)
(* and its exact element count are always there.                           *)
THEOREM RebuildAssertsAlwaysHold == Spec => []RebuildAssertsHold
BY Inductive, AssertsInductive, RebuildAssertsFollow, PTL

(* No probe is ever stuck on an assertion.                                 *)
THEOREM ProbeAssertsAlwaysHold == Spec => []ProbeAssertsHold
BY Inductive, AssertsInductive, ProbeAssertsFollow, PTL
=============================================================================
