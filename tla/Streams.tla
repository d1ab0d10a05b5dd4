------------------------------- MODULE Streams -------------------------------
(***************************************************************************)
(* The file tables of tinyos: kernel_streams.c.  A process has a table     *)
(* FIDT of file ids, each of which is NULL or points to a file control     *)
(* block (FCB).  An FCB counts its references: one for each entry of a     *)
(* FIDT and one for each Read or Write in progress.                        *)
(*                                                                         *)
(* This module has the state and what each call does to it for a process   *)
(* p, the CURPROC of the code; module Processes lets threads make the      *)
(* calls.  What a stream delivers is left out.  A call that fails without  *)
(* changing the tables (a bad file id, no free entry) is left out too.     *)
(***************************************************************************)
EXTENDS Integers, FiniteSets, FiniteSetsExt

CONSTANTS
    NULL,
    MAX_PROC,        \* size of the process table
    MAX_FILEID,      \* size of each FIDT
    FCBs             \* the array FT

Pids == 1 .. MAX_PROC - 1          \* pid 0, the idle process, has no thread
Fids == 0 .. MAX_FILEID - 1

ASSUME StreamsAssumption ==
    /\ MAX_PROC \in Nat /\ MAX_PROC >= 2
    /\ MAX_FILEID \in Nat
    /\ IsFiniteSet(FCBs)
    /\ NULL \notin FCBs
    /\ NULL \notin Int

VARIABLES
    FIDT,            \* the file id table of each process
    refcount,        \* FCB.refcount
    FCB_freelist     \* the FCBs that are not in use

streamVars == <<FIDT, refcount, FCB_freelist>>

NoFiles == [fd \in Fids |-> NULL]

initialize_files ==
    /\ FIDT = [p \in Pids |-> NoFiles]
    /\ refcount = [f \in FCBs |-> 0]
    /\ FCB_freelist = FCBs

(* The number of entries of p's table that point to f.                     *)
Entries(p, f) == Cardinality({fd \in Fids : FIDT[p][fd] = f})

(* FCB_incref and FCB_decref: counts is what refcount becomes.  An FCB     *)
(* whose last reference goes is closed and returns to the free list.       *)
FCB_counts(counts) ==
    /\ refcount' = counts
    /\ FCB_freelist' = FCB_freelist \cup {f \in FCBs : refcount[f] > 0 /\ counts[f] = 0}

FCB_incref(f) == FCB_counts([refcount EXCEPT ![f] = @ + 1])

FCB_decref(f) == FCB_counts([refcount EXCEPT ![f] = @ - 1])

(* Exec: the child inherits the table of its parent.                       *)
InheritFiles(p, child) ==
    /\ FIDT' = [FIDT EXCEPT ![child] = FIDT[p]]
    /\ FCB_counts([f \in FCBs |-> refcount[f] + Entries(p, f)])

(* Process exit: every entry is closed.                                    *)
CloseFiles(p) ==
    /\ FIDT' = [FIDT EXCEPT ![p] = NoFiles]
    /\ FCB_counts([f \in FCBs |-> refcount[f] - Entries(p, f)])

(* OpenNull and OpenTerminal: FCB_reserve takes the first free entry and a *)
(* free FCB; when device_open fails FCB_unreserve gives both back, without *)
(* resetting the count.                                                    *)
open_stream(p, opened) ==
    \E f \in FCB_freelist :
      /\ \E fd \in Fids :
           /\ FIDT[p][fd] = NULL
           /\ \A g \in Fids : g < fd => FIDT[p][g] # NULL
           /\ FIDT' = IF opened THEN [FIDT EXCEPT ![p][fd] = f] ELSE FIDT
      /\ refcount' = [refcount EXCEPT ![f] = 1]
      /\ FCB_freelist' = IF opened THEN FCB_freelist \ {f} ELSE FCB_freelist

sys_Close(p, fd) ==
    /\ FIDT[p][fd] # NULL
    /\ FIDT' = [FIDT EXCEPT ![p][fd] = NULL]
    /\ FCB_decref(FIDT[p][fd])

(* Slip: the stream that newfd had keeps its reference.                    *)
sys_Dup2_keeps(p, oldfd, newfd) ==
    /\ FIDT[p][oldfd] # NULL
    /\ FIDT[p][oldfd] # FIDT[p][newfd]
    /\ FIDT' = [FIDT EXCEPT ![p][newfd] = FIDT[p][oldfd]]
    /\ FCB_incref(FIDT[p][oldfd])

(* The stream that newfd had, if any, loses a reference first.             *)
sys_Dup2(p, oldfd, newfd) ==
    LET old == FIDT[p][oldfd]
        new == FIDT[p][newfd]
    IN  /\ old # NULL
        /\ old # new
        /\ FIDT' = [FIDT EXCEPT ![p][newfd] = old]
        /\ FCB_counts([f \in FCBs |-> refcount[f] + (IF f = old THEN 1 ELSE 0)
                                                  - (IF f = new THEN 1 ELSE 0)])

=============================================================================
