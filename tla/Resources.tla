----------------------------- MODULE Resources -----------------------------
(***************************************************************************)
(* What a C program holds: memory blocks and library handles that it must  *)
(* release once, use only while it holds them, and give back before it     *)
(* returns.  A resource is named by its kind and by the index it belongs   *)
(* to, a thread or a transaction.                                          *)
(***************************************************************************)
EXTENDS Integers

VARIABLES
    live,       \* the resources held
    misused     \* resources used or released while they were not held

resourceVars == <<live, misused>>

Res(kind, i) == [kind |-> kind, of |-> i]

(* A resource that belongs to no index.                                     *)
One(kind) == Res(kind, -1)

ResourceInit == live = {} /\ misused = {}

(* Release `out`, use or go on holding `held`, and acquire `in`.             *)
Exchange(out, held, in) ==
    /\ live' = (live \ out) \cup in
    /\ misused' = misused \cup ((out \cup held) \ live)

Acquire(in) == Exchange({}, {}, in)
Release(out) == Exchange(out, {}, {})
Use(held) == Exchange({}, held, {})
=============================================================================
