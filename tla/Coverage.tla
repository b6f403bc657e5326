------------------------------ MODULE Coverage ------------------------------
(***************************************************************************)
(* What incremental polling promises (src/README.md:313-315, the comments  *)
(* at src/src/fetcher_loop.rs:106-110 and 154): the windows that succeed   *)
(* leave no hole behind them, so a transaction that shows up late, but no  *)
(* later than the overlap of two windows, is picked up.  There is no loop  *)
(* here, no clock, no configuration table and no failure.                  *)
(***************************************************************************)
EXTENDS Integers

CONSTANTS None, Overlap, Lateness

(* The theorems assume this of the constants; FetcherLoop, which is the    *)
(* module that gives them values, has it as an ASSUME.                     *)
Overlapping == None \notin Int /\ Overlap \in Nat /\ Lateness \in 0 .. Overlap

VARIABLES
  start,   \* start of the window to be fetched next, None while undecided
  hi,      \* end of the last window fetched
  marked,  \* is there, for a later process, where to resume?
  overlooked, \* has a process that is to open a window not found it?
  since,   \* start of the last window that left a gap to the one before
  txn,     \* a transaction, when it is posted and when it becomes visible
  stored   \* has it been fetched?

vars == <<start, hi, marked, overlooked, since, txn, stored>>

Init ==
  /\ start = None
  /\ hi = None
  /\ marked = FALSE
  /\ overlooked = FALSE
  /\ since = None
  /\ txn \in [posted : Nat, visible : Nat]
  /\ txn.visible \in txn.posted .. txn.posted + Lateness
  /\ stored = FALSE

(* Without a mark, or without finding it, the window starts anywhere,     *)
(* though no earlier than the last that left a gap.                        *)
OpenFresh ==
  /\ start = None
  /\ overlooked' \in BOOLEAN
  /\ marked => overlooked'
  /\ start' \in Int
  /\ since # None => since <= start'
  /\ since' = start'
  /\ UNCHANGED <<hi, marked, txn, stored>>

(* It overlaps all that was fetched, if it resumes from a mark; and it may *)
(* without one.                                                            *)
OpenResumed ==
  /\ start = None
  /\ hi # None
  /\ start' \in Int
  /\ start' <= hi - Overlap
  /\ overlooked' \in BOOLEAN
  /\ UNCHANGED <<hi, marked, since, txn, stored>>

Store ==
  /\ start # None
  /\ stored' = TRUE
  /\ UNCHANGED <<start, hi, marked, overlooked, since, txn>>

(* [start, hi') has been fetched whole, and what was overlooked is past.   *)
Close ==
  /\ start # None
  /\ hi' \in Int
  /\ hi # None => hi <= hi'
  /\ start <= txn.posted /\ txn.posted < hi' /\ txn.visible <= hi' => stored
  /\ start' = hi' - Overlap
  /\ overlooked' = FALSE
  /\ UNCHANGED <<marked, since, txn, stored>>

(* Only what was just fetched is marked.                                   *)
Mark ==
  /\ start # None
  /\ hi # None
  /\ start = hi - Overlap
  /\ marked' = TRUE
  /\ UNCHANGED <<start, hi, overlooked, since, txn, stored>>

(* The process is gone, and the window with it; the next one may not find  *)
(* the mark.                                                               *)
Lose ==
  /\ start' = None
  /\ overlooked' \in BOOLEAN
  /\ UNCHANGED <<hi, marked, since, txn, stored>>

Next == OpenFresh \/ OpenResumed \/ Store \/ Close \/ Mark \/ Lose

Spec == Init /\ [][Next]_vars

-----------------------------------------------------------------------------

(* Whatever was visible when the last window ended, and was not posted     *)
(* before the last window that left a gap, has been fetched.               *)
NotMissed ==
  /\ hi # None
  /\ since # None
  /\ since <= txn.posted
  /\ txn.posted < hi
  /\ txn.visible <= hi
  => stored

(* Once there is a mark, every window whose process found it reaches back  *)
(* over the end of the last.                                               *)
ResumeSafe ==
  marked /\ start # None /\ ~overlooked => hi # None /\ start <= hi - Overlap
=============================================================================
