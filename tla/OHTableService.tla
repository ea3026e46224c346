--------------------------- MODULE OHTableService ---------------------------
(***************************************************************************)
(* What the ORAM relies on a hash table for, as a state machine over the   *)
(* operators of OHTable: it is built, answers NumDummies queries, none of  *)
(* which asks for an address a second time, and is drained.                *)
(***************************************************************************)
EXTENDS OHTable

CONSTANTS NumElements, NumDummies, nullptr

VARIABLES
    t,            \* the table
    y, found,     \* the answer to the last query
    drained       \* what extract returned, or nullptr

ServiceInit == t = nullptr /\ y = {} /\ found = FALSE /\ drained = nullptr

ServiceBuild ==
    /\ t = nullptr
    /\ \E E \in SUBSET Entry : \E S \in SUBSET E :
         /\ \A e, f \in E : e.x = f.x => e = f
         /\ IsStash(S, E, NumElements)
         /\ t' = Build(E, S, NumElements)
    /\ UNCHANGED <<y, found, drained>>

ServiceQuery ==
    /\ t # nullptr /\ drained = nullptr
    /\ \E x \in Addr, use_dummy \in BOOLEAN :
         /\ use_dummy \/ x \notin t.seen
         /\ ProbeAsserts(t, x, use_dummy, NumDummies)
         /\ t' = AfterProbe(t, x, use_dummy)
         /\ y' = XorAll(Hit(t, x, use_dummy))
         /\ found' = (Hit(t, x, use_dummy) # {})
    /\ UNCHANGED drained

ServiceExtract ==
    /\ t # nullptr /\ drained = nullptr
    /\ DrainAsserts(t, NumDummies)
    /\ drained' = Untouched(t)
    /\ UNCHANGED <<t, y, found>>

ServiceNext == ServiceBuild \/ ServiceQuery \/ ServiceExtract
ServiceSpec == ServiceInit /\ [][ServiceNext]_<<t, y, found, drained>>
=============================================================================
