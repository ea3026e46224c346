------------------------------- MODULE Memory -------------------------------
(***************************************************************************)
(* What the ORAM promises its client, after the oracle the test driver     *)
(* keeps beside it (simulated_doram): a memory with one outstanding access *)
(* at a time.  An access returns the word stored at its address, read or   *)
(* write, and a write then replaces it by its data without the bits the    *)
(* hierarchy reserves for itself.                                          *)
(***************************************************************************)
CONSTANTS
    Addr,         \* addresses
    ValueMask,    \* the bits of a word a client's value may use
    Requests,     \* the requests clients make: records [x, y, w]
    InitMem,      \* what the memory holds at the start
    None          \* no request, no result

VARIABLES
    mem,   \* the word stored at each address
    req,   \* the request being served, or None
    ret    \* the result of the last request, None while one is served

memvars == <<mem, req, ret>>

MemTypeOK ==
    /\ mem \in [Addr -> SUBSET ValueMask]
    /\ req = None \/ req \in Requests
    /\ ret = None \/ ret \in SUBSET ValueMask

MemInit == mem = InitMem /\ req = None /\ ret = None

MemCall(q) ==
    /\ req = None
    /\ req' = q
    /\ ret' = None
    /\ UNCHANGED mem

MemReturn ==
    /\ req # None
    /\ ret' = mem[req.x]
    /\ mem' = [mem EXCEPT ![req.x] = IF req.w THEN req.y \cap ValueMask ELSE @]
    /\ req' = None

MemNext == (\E q \in Requests : MemCall(q)) \/ MemReturn

MemSpec == MemInit /\ [][MemNext]_memvars
=============================================================================
