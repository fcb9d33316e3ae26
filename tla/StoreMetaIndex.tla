--------------------------- MODULE StoreMetaIndex ---------------------------
(***************************************************************************)
(* src/store/store_meta_index.cpp: the store's key index and its intrusive *)
(* LRU list.  Committed records (stat 1) are linked into a circular doubly *)
(* linked list around sentinel_, most recently used after the sentinel;    *)
(* eviction walks it from the other end.  committed_count_ is kept beside  *)
(* the list.  Every method holds mutex_ throughout and is one action.      *)
(* Offsets, sizes and access times are stored and never looked at by the   *)
(* list; alloc_size is kept because candidate selection adds it up.        *)
(***************************************************************************)
EXTENDS Integers, Sequences, FiniteSets

Seqs == INSTANCE SequencesExt

CONSTANTS Keys,
          Sentinel,     \* &sentinel_
          Null,         \* nullptr
          AllocSizes,   \* alloc_size values of records
          MaxBatch      \* bound: keys passed to one BatchContains

ASSUME IndexAssumption ==
    /\ IsFiniteSet(Keys) /\ Sentinel \notin Keys
    /\ Null \notin Keys \cup {Sentinel}
    /\ AllocSizes \subseteq Nat
    /\ MaxBatch \in Nat \ {0}

Stats == {0, 1, 2}      \* allocated, committed, being evicted
Absent == -1            \* no record under this key
Nodes == Keys \cup {Sentinel}

VARIABLES stat,         \* index_: stat of each key's record, or Absent
          alloc,        \* alloc_size of each key's record
          prev, next,   \* lru_prev and lru_next of every node
          committedCount

vars == <<stat, alloc, prev, next, committedCount>>

Committed(k) == stat[k] = 1

Init ==
    /\ stat = [k \in Keys |-> Absent]
    /\ alloc = [k \in Keys |-> 0]
    /\ prev = [n \in Nodes |-> IF n = Sentinel THEN Sentinel ELSE Null]
    /\ next = [n \in Nodes |-> IF n = Sentinel THEN Sentinel ELSE Null]
    /\ committedCount = 0

----------------------------------------------------------------------------
(* The two list helpers, as functions from a list to a list. *)
List == [prev |-> prev, next |-> next]

(* Mutant of LruRemove: the successor keeps pointing at the removed node. *)
LruRemoveOneSided(l, k) ==
    [next |-> [[l.next EXCEPT ![l.prev[k]] = l.next[k]] EXCEPT ![k] = Null],
     prev |-> [l.prev EXCEPT ![k] = Null]]

LruRemove(l, k) ==
    [next |-> [[l.next EXCEPT ![l.prev[k]] = l.next[k]] EXCEPT ![k] = Null],
     prev |-> [[l.prev EXCEPT ![l.next[k]] = l.prev[k]] EXCEPT ![k] = Null]]

(* Mutant of LruPushFront: inserts at the LRU end. *)
LruPushBack(l, k) ==
    LET last == l.prev[Sentinel]
    IN  [next |-> [l.next EXCEPT ![k] = Sentinel, ![last] = k],
         prev |-> [l.prev EXCEPT ![k] = last, ![Sentinel] = k]]

LruPushFront(l, k) ==
    LET first == l.next[Sentinel]
    IN  [next |-> [l.next EXCEPT ![k] = first, ![Sentinel] = k],
         prev |-> [l.prev EXCEPT ![k] = Sentinel, ![first] = k]]

SetList(l) == prev' = l.prev /\ next' = l.next

LruTouch(l, k) == LruPushFront(LruRemove(l, k), k)

Put(k, newStat, size) ==
    LET unlinked == IF Committed(k) THEN LruRemove(List, k) ELSE List
    IN  /\ stat' = [stat EXCEPT ![k] = newStat]
        /\ alloc' = [alloc EXCEPT ![k] = size]
        /\ SetList(IF newStat = 1 THEN LruPushFront(unlinked, k) ELSE unlinked)
        /\ committedCount' = committedCount - (IF Committed(k) THEN 1 ELSE 0)
                                            + (IF newStat = 1 THEN 1 ELSE 0)

(* Get: a hit is moved to the MRU end. *)
Get(k) ==
    /\ Committed(k)
    /\ SetList(LruTouch(List, k))
    /\ UNCHANGED <<stat, alloc, committedCount>>

(* Touch has the effect of Get and returns nothing. *)
Touch(k) ==
    /\ Committed(k)
    /\ SetList(LruTouch(List, k))
    /\ UNCHANGED <<stat, alloc, committedCount>>

(* Hits are touched in the order of the request, which may repeat a key. *)
LruTouchHits(l, ks) ==
    LET after[i \in 0 .. Len(ks)] ==
            IF i = 0 THEN l
            ELSE IF Committed(ks[i]) THEN LruTouch(after[i - 1], ks[i]) ELSE after[i - 1]
    IN  after[Len(ks)]

BatchContains(ks) ==
    /\ SetList(LruTouchHits(List, ks))
    /\ UNCHANGED <<stat, alloc, committedCount>>

(* Mutant of Commit: an already committed record is linked and counted again. *)
CommitAgain(k) ==
    /\ stat[k] # Absent
    /\ stat' = [stat EXCEPT ![k] = 1]
    /\ SetList(LruPushFront(List, k))
    /\ committedCount' = committedCount + 1
    /\ UNCHANGED alloc

Commit(k) ==
    /\ stat[k] \notin {Absent, 1}
    /\ stat' = [stat EXCEPT ![k] = 1]
    /\ SetList(LruPushFront(List, k))
    /\ committedCount' = committedCount + 1
    /\ UNCHANGED alloc

Remove(k) ==
    /\ stat[k] # Absent
    /\ SetList(IF Committed(k) THEN LruRemove(List, k) ELSE List)
    /\ committedCount' = committedCount - (IF Committed(k) THEN 1 ELSE 0)
    /\ stat' = [stat EXCEPT ![k] = Absent]
    /\ alloc' = [alloc EXCEPT ![k] = 0]

Next ==
    \/ \E k \in Keys : Get(k) \/ Touch(k) \/ Commit(k) \/ Remove(k)
    \/ \E k \in Keys, st \in Stats, size \in AllocSizes : Put(k, st, size)
    \/ \E ks \in Seqs!BoundedSeq(Keys, MaxBatch) : BatchContains(ks)

Spec == Init /\ [][Next]_vars

----------------------------------------------------------------------------
(* The keys met by following one pointer field from the sentinel until it  *)
(* comes round again; the walk is cut when it has visited more nodes than  *)
(* there are keys.                                                         *)
Walk(field) ==
    LET n == Cardinality(Keys) + 1
        node[i \in 0 .. n] == IF i = 0 THEN Sentinel
                              ELSE IF node[i - 1] = Null THEN Null
                              ELSE field[node[i - 1]]
        ends == {i \in 1 .. n : node[i] \in {Sentinel, Null}}
        len == IF ends = {} THEN n ELSE (CHOOSE i \in ends : \A j \in ends : i <= j) - 1
    IN  [i \in 1 .. len |-> node[i]]

GetLRUCandidates(max) ==
    LET coldest == Walk(prev)
    IN  SubSeq(coldest, 1, IF max < Len(coldest) THEN max ELSE Len(coldest))

(* The total size collected after each entry of s. *)
Collected(s) ==
    LET total[i \in 0 .. Len(s)] == IF i = 0 THEN 0 ELSE total[i - 1] + alloc[s[i]]
    IN  total

(* Mutant of GetLRUCandidatesBySize: leaves out the entry that reaches the *)
(* total.                                                                  *)
CandidatesBySizeShort(needed, max) ==
    LET coldest == Walk(prev)
        taken == {i \in 1 .. Len(coldest) : i <= max /\ Collected(coldest)[i] < needed}
    IN  SubSeq(coldest, 1, Cardinality(taken))

(* Entries are added while the total collected so far is below `needed`. *)
GetLRUCandidatesBySize(needed, max) ==
    LET coldest == Walk(prev)
        taken == {i \in 1 .. Len(coldest) : i <= max /\ Collected(coldest)[i - 1] < needed}
    IN  SubSeq(coldest, 1, Cardinality(taken))

----------------------------------------------------------------------------
TypeOK ==
    /\ stat \in [Keys -> Stats \cup {Absent}]
    /\ alloc \in [Keys -> AllocSizes \cup {0}]
    /\ prev \in [Nodes -> Nodes \cup {Null}]
    /\ next \in [Nodes -> Nodes \cup {Null}]
    /\ committedCount \in 0 .. Cardinality(Keys)

(* The list threads exactly the committed records, in both directions and  *)
(* with no cycle short of the sentinel, and no other record keeps a        *)
(* pointer into it: eviction reaches every committed key and never a freed *)
(* record.                                                                 *)
ListExact ==
    LET forward == Walk(next)
    IN  /\ {forward[i] : i \in DOMAIN forward} = {k \in Keys : Committed(k)}
        /\ Walk(prev) = Seqs!Reverse(forward)
        /\ \A k \in Keys : ~Committed(k) => prev[k] = Null /\ next[k] = Null

(* committed_count_, which sizes the full resync, agrees with the index. *)
CountExact == committedCount = Cardinality({k \in Keys : Committed(k)})

(* Forced eviction takes a coldest-first prefix that is just large enough: *)
(* it stops short of `needed` only at the cap or when nothing is left, and *)
(* without its last entry it would not reach `needed`.                     *)
JustEnough(needed, max) ==
    LET got == GetLRUCandidatesBySize(needed, max)
        n == Len(got)
    IN  /\ got = GetLRUCandidates(n)
        /\ Collected(got)[n] >= needed \/ n = max \/ n = committedCount
        /\ n > 0 => Collected(got)[n - 1] < needed

CandidatesJustEnough ==
    \A max \in 1 .. Cardinality(Keys), needed \in 1 .. 4 : JustEnough(needed, max)

(* The linked list implements the order of last use: Put, Get, Touch,      *)
(* BatchContains, Commit and Remove move keys exactly as the abstract      *)
(* sequence does.                                                          *)
Order == INSTANCE LruOrder WITH MaxKeys <- MaxBatch,
                                order <- Walk(next),
                                uncommitted <- {k \in Keys : stat[k] \in {0, 2}}

OrderSpec == Order!Spec
=============================================================================
