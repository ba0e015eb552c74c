-------------------------------- MODULE Slab --------------------------------
(***************************************************************************)
(* SlabCache of base/mem/slab.cc: slabs of BatchObjects objects each in    *)
(* the lists full_, partial_ and empty_.  Threads allocate and free, while *)
(* Shrink and the reclaimer remove empty slabs.  What an object is does    *)
(* not matter: used[s] counts those of slab s that are in use.  The lists  *)
(* are changed with lock_ held, which AllocObject gives up while it grows  *)
(* the cache; Shrink and Reclaim read the counters without it.             *)
(***************************************************************************)
EXTENDS Integers, FiniteSets

CONSTANTS
    Slabs,          \* bound: the slabs there can be at a time
    BatchObjects,   \* batch_object_num_
    Threads,        \* that allocate
    Keeps,          \* what Shrink is told to keep
    Word            \* 2^32 in the code

ASSUME SlabAssumption ==
    /\ IsFiniteSet(Slabs) /\ BatchObjects \in Nat \ {0} /\ Keeps \subseteq Nat
    /\ Word \in Nat /\ \A k \in Keeps : k < Word
    /\ Word > 10 * BatchObjects * (Cardinality(Slabs) + 1)

VARIABLES
    list,       \* list[s]: the list that slab s is in; "none": there is no such slab;
                \* "grow": being made; "free": list_free of RemoveSlabs
    used,       \* active_obj_num_ of the slab
    emptyNum,   \* slab_empty_num_
    objNum,     \* obj_num_
    alloc,      \* alloc[t]: where a thread is in AllocObject
    shrink      \* where the thread that shrinks is, and what it has read

slabVars == <<list, used, emptyNum, objNum, alloc, shrink>>

In(l) == {s \in Slabs : list[s] = l}

NotShrinking == [at |-> "no", keep |-> 0, count |-> 0]

SlabInit ==
    /\ list = [s \in Slabs |-> "none"] /\ used = [s \in Slabs |-> 0]
    /\ emptyNum = 0 /\ objNum = 0
    /\ alloc = [t \in Threads |-> "idle"]
    /\ shrink = NotShrinking

-----------------------------------------------------------------------------
CallAlloc(t) ==
    /\ alloc[t] = "idle" /\ alloc' = [alloc EXCEPT ![t] = "look"]
    /\ UNCHANGED <<list, used, emptyNum, objNum, shrink>>

(* AllocObject takes an object of a slab that is in use before it takes    *)
(* one of an empty slab.  The order of the slabs in a list is left open.   *)
AllocObject(t) ==
    /\ alloc[t] = "look"
    /\ \E s \in IF In("partial") # {} THEN In("partial") ELSE In("empty") :
         /\ used' = [used EXCEPT ![s] = @ + 1]
         /\ list' = [list EXCEPT ![s] =
                IF used[s] + 1 = BatchObjects THEN "full" ELSE "partial"]
         /\ emptyNum' = IF list[s] = "empty" THEN emptyNum - 1 ELSE emptyNum
    /\ alloc' = [alloc EXCEPT ![t] = "idle"]
    /\ UNCHANGED <<objNum, shrink>>

(* GrowLocked makes a slab without the lock, or fails to; ... *)
Grow(t) ==
    /\ alloc[t] = "look" /\ In("partial") \cup In("empty") = {}
    /\ \/ \E s \in In("none") : /\ list' = [list EXCEPT ![s] = "grow"]
                                /\ alloc' = [alloc EXCEPT ![t] = "grow"]
       \/ list' = list /\ alloc' = [alloc EXCEPT ![t] = "idle"]
    /\ UNCHANGED <<used, emptyNum, objNum, shrink>>

(* ... it adds the slab with it, and AllocObject looks again. *)
Grown(t) ==
    /\ alloc[t] = "grow"
    /\ \E s \in In("grow") : list' = [list EXCEPT ![s] = "empty"]
    /\ emptyNum' = emptyNum + 1 /\ objNum' = objNum + BatchObjects
    /\ alloc' = [alloc EXCEPT ![t] = "look"]
    /\ UNCHANGED <<used, shrink>>

(* Mutant of FreeObject: only the last object of a full slab moves it. *)
FreeObject_Kept(s) ==
    /\ used[s] > 0
    /\ used' = [used EXCEPT ![s] = @ - 1]
    /\ list' = [list EXCEPT ![s] = IF used[s] = 1 THEN "empty" ELSE @]
    /\ emptyNum' = IF used[s] = 1 THEN emptyNum + 1 ELSE emptyNum
    /\ UNCHANGED <<objNum, alloc, shrink>>

FreeObject(s) ==
    /\ used[s] > 0
    /\ used' = [used EXCEPT ![s] = @ - 1]
    /\ list' = [list EXCEPT ![s] = IF used[s] = 1 THEN "empty" ELSE "partial"]
    /\ emptyNum' = IF used[s] = 1 THEN emptyNum + 1 ELSE emptyNum
    /\ UNCHANGED <<objNum, alloc, shrink>>

-----------------------------------------------------------------------------
(* Shrink reads slab_empty_num_ once to compare it, ... *)
Shrink(keep) ==
    /\ shrink.at = "no" /\ emptyNum > 0
    /\ keep = 0 \/ emptyNum > keep
    /\ shrink' = [at |-> "count", keep |-> keep, count |-> 0]
    /\ UNCHANGED <<list, used, emptyNum, objNum, alloc>>

(* ... and again to subtract from it; 0 keeps none, and the number is      *)
(* unsigned.                                                               *)
ShrinkCount ==
    /\ shrink.at = "count"
    /\ shrink' = [shrink EXCEPT !.at = "remove",
                     !.count = IF shrink.keep = 0 THEN Word - 1
                               ELSE (emptyNum - shrink.keep) % Word]
    /\ UNCHANGED <<list, used, emptyNum, objNum, alloc>>

(* Reclaim computes how many slabs to remove from the counters, unsigned:  *)
(* unless all slabs are empty the percentage is below 0 and the number of  *)
(* slabs huge.                                                             *)
Reclaim ==
    /\ shrink.at = "no" /\ objNum > 0
    /\ LET percent == ((emptyNum * BatchObjects * 100) \div (objNum * 100)) * 100
           objects == ((objNum * ((percent - 10) % Word)) % Word) \div 100
           slabs == objects \div BatchObjects
       IN shrink' = [at |-> "remove", keep |-> 0,
                     count |-> IF slabs > 0 THEN slabs ELSE emptyNum]
    /\ UNCHANGED <<list, used, emptyNum, objNum, alloc>>

(* RemoveSlabs takes at most so many of those that have been empty for     *)
(* long enough, ...                                                        *)
RemoveSlabs ==
    /\ shrink.at = "remove"
    /\ \E S \in SUBSET In("empty") :
         /\ Cardinality(S) <= shrink.count
         /\ list' = [s \in Slabs |-> IF s \in S THEN "free" ELSE list[s]]
         /\ emptyNum' = emptyNum - Cardinality(S)
         /\ objNum' = objNum - BatchObjects * Cardinality(S)
    /\ shrink' = NotShrinking
    /\ UNCHANGED <<used, alloc>>

(* ... and deletes them without the lock. *)
DeleteSlab(s) ==
    /\ list[s] = "free" /\ list' = [list EXCEPT ![s] = "none"]
    /\ UNCHANGED <<used, emptyNum, objNum, alloc, shrink>>

SlabNext ==
    \/ \E t \in Threads : CallAlloc(t) \/ AllocObject(t) \/ Grow(t) \/ Grown(t)
    \/ \E s \in Slabs : FreeObject(s) \/ DeleteSlab(s)
    \/ \E keep \in Keeps : Shrink(keep)
    \/ ShrinkCount \/ Reclaim \/ RemoveSlabs

SlabSpec == SlabInit /\ [][SlabNext]_slabVars

-----------------------------------------------------------------------------
(* The lists tell how full a slab is, and the counters agree with them, so *)
(* that none of the aborts is reached: AllocObject finds an object in a    *)
(* slab of partial_ or empty_ and a counter above 0, no slab is deleted    *)
(* while an object of it is in use, and there is no division by 0.         *)
SlabsAccounted ==
    /\ emptyNum = Cardinality(In("empty"))
    /\ objNum = BatchObjects * Cardinality(In("empty") \cup In("partial") \cup In("full"))
    /\ \A s \in Slabs :
         /\ list[s] \in {"none", "grow", "free", "empty"} <=> used[s] = 0
         /\ list[s] = "full" <=> used[s] = BatchObjects
=============================================================================
