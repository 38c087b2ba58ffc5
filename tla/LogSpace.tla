------------------------------ MODULE LogSpace ------------------------------
(***************************************************************************)
(* What the persistent log promises to the key-value layer above it: a     *)
(* thread reserves a region of a log page that nobody else holds or has    *)
(* written, then either writes its log there, after which the log can be   *)
(* read back for ever, or gives the region up.  Pages, latches and the     *)
(* table that maps a page id to an address are below this interface; they  *)
(* are in PPageLog, which implements it.                                   *)
(***************************************************************************)
EXTENDS Integers

CONSTANTS
  Threads,   \* foreground threads
  Shards,    \* pairs <<numa node, hash shard>>
  Sizes      \* the lengths a log may have

VARIABLES
  held,      \* held[t]: the set of regions t has reserved, {} or a singleton
  kept       \* the logs that were written, as they read back

vars == <<held, kept>>

\* A region of a page of a shard; "ver" is what its owner writes there.
Regions == [sh: Shards, page: Nat, off: Nat, size: Sizes, ver: Nat]

\* Two regions share no byte.
Apart(a, b) ==
  \/ a.sh # b.sh
  \/ a.page # b.page
  \/ a.off + a.size <= b.off
  \/ b.off + b.size <= a.off

Init ==
  /\ held = [t \in Threads |-> {}]
  /\ kept = {}

\* LogKV::alloc_log: a region apart from everything reserved or written.  The
\* region is named through held', since there are infinitely many to choose from.
Reserve(t) ==
  /\ held[t] = {}
  /\ \E r \in held'[t] :
       /\ r \in Regions
       /\ \A b \in kept \union UNION {held[u] : u \in Threads} : Apart(r, b)
       /\ held' = [held EXCEPT ![t] = {r}]
  /\ UNCHANGED kept

\* Pair_t::store_persist: the log is written and stays readable.
Keep(t) ==
  /\ held[t] # {}
  /\ kept' = kept \union held[t]
  /\ held' = [held EXCEPT ![t] = {}]

\* An update of an absent key never writes the region it reserved.
GiveUp(t) ==
  /\ held[t] # {}
  /\ held' = [held EXCEPT ![t] = {}]
  /\ UNCHANGED kept

Next == \E t \in Threads : Reserve(t) \/ Keep(t) \/ GiveUp(t)

Spec == Init /\ [][Next]_vars
=============================================================================
