----------------------------- MODULE QueueShares -----------------------------
(***************************************************************************)
(* The fairness functions as the sorters use them: each queue keeps its    *)
(* allocated resource, updated in place with AddTo when an allocation is   *)
(* made and with SubFrom when one is released (explicit zero entries stay  *)
(* behind), and pruned with Prune.  In every state the sorters may compare *)
(* any two queues with CompUsageRatio or CompUsageRatioSeparately, ask     *)
(* FairnessRatio, or DominantResourceType against the cluster total; the   *)
(* properties are stated over all queues of a state.                       *)
(***************************************************************************)
EXTENDS Fairness

CONSTANTS
  Queues,      \* the queues being sorted
  Asks,        \* resources allocated or released in one step
  Total,       \* the cluster total the shares are taken of
  Guaranteed,  \* the guaranteed resource of every queue
  FairMax      \* the fair maximum of every queue

ASSUME /\ Asks \subseteq Values
       /\ \A r \in {Total, Guaranteed, FairMax} : r = Nil \/ r \in Values

VARIABLE allocated   \* allocated[q]: the Resources map of queue q's usage

\* A queue starts from NewResource().
Init == allocated = [q \in Queues |-> EmptyRes]

Allocate(q, ask) ==
  allocated' = [allocated EXCEPT ![q] = AddTo(@, ask)]

Release(q, ask) ==
  allocated' = [allocated EXCEPT ![q] = SubFrom(@, ask)]

PruneQueue(q) ==
  allocated' = [allocated EXCEPT ![q] = Prune(@)]

Next ==
  \E q \in Queues :
    \/ \E ask \in Asks : Allocate(q, ask) \/ Release(q, ask)
    \/ PruneQueue(q)

Spec == Init /\ [][Next]_allocated

-----------------------------------------------------------------------------
TypeOK == allocated \in [Queues -> Values]

Cmp(a, b) == CompUsageRatio(allocated[a], allocated[b], Total)

\* CompUsageRatio orders queues consistently, as sort.SliceStable in the
\* sorters needs: swapping the arguments negates the result, and "at least
\* as large" is transitive, whatever zero, negative and missing entries the
\* allocations have picked up.
CompUsageRatioIsOrder ==
  \A a, b, c \in Queues :
    /\ Cmp(a, b) = -Cmp(b, a)
    /\ (Cmp(a, b) >= 0 /\ Cmp(b, c) >= 0) => Cmp(a, c) >= 0

DominantIsArgMax ==
  \A q \in Queues :
    LET u == allocated[q]
        common == DOMAIN u \cap DOMAIN Total
    IN  Total # Nil =>
          \A d \in DominantResourceType(u, Total) \ {NoType} :
            /\ d \in common
            /\ \A k \in common :
                 ~Lt(UsageRatio(u[d], Total[d]), UsageRatio(u[k], Total[k]))

\* Spec 4.5: getShares skips zero usages, so a queue's explicit zero
\* entries, left behind by SubFrom, do not change how CompUsageRatio ranks
\* it against another queue.
CompUsageRatioIgnoresZeroEntries ==
  \A a, b \in Queues : a # b =>
    Cmp(a, b) = CompUsageRatio(Prune(allocated[a]), allocated[b], Total)

\* FairnessRatio is 1 when the largest share of the right queue is 0
\* (comment at 623: "If highest share for the right resource is 0 fairness
\* is 1").
FairnessRatioZeroRight ==
  \A a, b \in Queues :
    Largest(getShares(allocated[b], Total)) = Zero_ =>
      FairnessRatio(allocated[a], allocated[b], Total) = IntShare(1)

\* Raises(q): the step leaves q every type it had and lowers none.
Raises(q) ==
  /\ DOMAIN allocated[q] \subseteq DOMAIN allocated'[q]
  /\ \A k \in Keys : Get(allocated'[q], k) >= Get(allocated[q], k)

\* An allocation never lowers a queue's rank: when a step raises queue a's
\* usage and leaves queue b alone, CompUsageRatio of a against b does not go
\* down, whatever zero, negative and new entries a's usage has.
AllocationRaisesRank ==
  [][\A a, b \in Queues :
       (a # b /\ allocated'[b] = allocated[b] /\ Raises(a)) =>
         CompUsageRatio(allocated'[a], allocated'[b], Total) >= Cmp(a, b)]_allocated

=============================================================================
