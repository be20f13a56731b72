------------------------------- MODULE GroupProofs -------------------------------
(***************************************************************************)
(* What Bandwidth and TaskGroups show of small instances, for any number of  *)
(* tasks, groups, CPUs and writers: the quotas of groups are what            *)
(* BandwidthKept says, the clamps of tasks, groups and runqueue what         *)
(* ClampsCounted and Restricted say.                                         *)
(*                                                                           *)
(* The invariants are BwInv and ClampInv; each of their parts is named for   *)
(* what it says.  ClampInv holds until the code has lost a race (raced).     *)
(***************************************************************************)
EXTENDS Bandwidth, FiniteSetTheorems, WellFoundedInduction, TLAPS

\* A set of naturals has a least member: what stands for induction below.
LEMMA LeastMember == ASSUME NEW S \in SUBSET Nat, S # {}
    PROVE \E x \in S : \A y \in S : ~(y < x)
<1> DEFINE R == OpToRel(<, Nat)
<1>1. IsWellFoundedOn(R, Nat)
  BY NatLessThanWellFounded
<1>2. PICK x \in S : \A y \in S : ~ (<<y, x>> \in R)
  <2> HIDE DEF R
  <2> QED
    BY <1>1, WFMin
<1>3. \A y \in Nat : y < x => <<y, x>> \in R
  BY DEF OpToRel
<1> QED
  BY <1>2, <1>3 DEF R
--------------------------------------------------------------------------------
(* The inductive invariant of the quotas *)

Lengths == MinPeriod..MaxPeriod
Limits == {RUNTIME_INF} \cup (MinPeriod..MaxRuntime)

\* What a writer of a quota or a period can be doing.
WriterState ==
    {Resting}
    \cup [pc : {"checked", "mutex"}, g : Groups, period : Lengths, quota : Limits]
    \cup [pc : {"set"}, g : Groups, period : Lengths, quota : Limits, was : BOOLEAN]
    \cup [pc : {"cpus"}, g : Groups, quota : Limits, was : BOOLEAN, todo : SUBSET CPUs]

BwTypeOK ==
    /\ about \in {"clamps", "bandwidth"} /\ unified \in BOOLEAN
    /\ period \in [Groups -> Lengths] /\ quota \in [Groups -> Limits]
    /\ timer \in [Groups -> BOOLEAN] /\ bw_used \in Int
    /\ enabled \in [Groups -> SUBSET CPUs] /\ throttled \in [Groups -> SUBSET CPUs]
    /\ online \in SUBSET CPUs
    /\ writer \in [Writers -> WriterState]
    /\ group \in [Groups -> {"none", "alloc", "online"}]

OneWriter == \A v, w \in Writers : HoldsMutex(v) /\ HoldsMutex(w) => v = w

\* A group exists while it is written, has a limit, or has a group below it.
Tree ==
    /\ group[0] = "online"
    /\ \A g \in Groups \ {0} : group[g] # "none" => group[g - 1] = "online"
    /\ \A g \in Groups : quota[g] # RUNTIME_INF => g \in Listed \ {0}
    /\ \A w \in Writers : writer[w].pc # "none" => writer[w].g \in Listed \ {0}

Separate == about = "clamps" =>
    /\ \A g \in Groups : quota[g] = RUNTIME_INF
    /\ \A w \in Writers : writer[w].pc = "none"

\* A writer is in the loop over the CPUs of a group: some follow the new quota already.
InLoop(g) == \E w \in Writers : writer[w].pc = "cpus" /\ writer[w].g = g

LoopOK(d) ==
    /\ quota[d.g] = d.quota /\ d.todo \subseteq online
    /\ d.quota # RUNTIME_INF => online \ d.todo \subseteq enabled[d.g] /\ enabled[d.g] \subseteq online
    /\ d.quota = RUNTIME_INF => enabled[d.g] \subseteq d.todo /\ (enabled[d.g] # {} => d.was)

EnabledOK ==
    /\ \A g \in Groups : ~InLoop(g) => enabled[g] = IF quota[g] # RUNTIME_INF THEN online ELSE {}
    /\ \A w \in Writers : writer[w].pc = "cpus" => LoopOK(writer[w])

ThrottledOK == \A g \in Groups :
    /\ throttled[g] \subseteq enabled[g]
    /\ throttled[g] # {} => timer[g] \/ quota[g] = RUNTIME_INF

\* The groups the static key is held for: those with a limit, and the one that is about
\* to get one or has had one until the writer unlocks.
HeldFor(d, g) ==
    d.pc \in {"set", "cpus"} /\ d.g = g /\ (IF d.pc = "set" THEN d.quota # RUNTIME_INF ELSE d.was)
Keyed == {g \in Groups : quota[g] # RUNTIME_INF \/ \E w \in Writers : HeldFor(writer[w], g)}

KeyOK ==
    /\ Cardinality(Keyed) <= bw_used
    /\ \A w \in Writers : writer[w].pc = "set" => (writer[w].was <=> quota[writer[w].g] # RUNTIME_INF)

\* No group with a limit has more than one above it, as it is or with new settings.
InOrder(n) == \A a, g \in Groups :
    a < g /\ n[a] # RUNTIME_INF /\ n[g] # RUNTIME_INF => n[g] <= n[a]
With(d) == [g \in Groups |-> normalize_cfs_quota(g, d)]
Now == [g \in Groups |-> IF quota[g] = RUNTIME_INF THEN RUNTIME_INF ELSE Share(g)]
SharesOK == ~unified =>
    InOrder(Now) /\ \A w \in Writers : writer[w].pc = "set" => InOrder(With(writer[w]))

BwInv == BwTypeOK /\ OneWriter /\ Tree /\ Separate /\ EnabledOK /\ ThrottledOK /\ KeyOK /\ SharesOK
--------------------------------------------------------------------------------
\* The constants are natural numbers, and the default period is in range.
LEMMA Bounds ==
    /\ MinPeriod \in Nat /\ MaxPeriod \in Nat /\ MaxRuntime \in Nat /\ DefaultPeriod \in Lengths
    /\ MinPeriod > 0 /\ BW_UNIT \in Nat /\ Depth \in Nat /\ 0 \in Groups
    /\ Groups \subseteq Nat /\ Lengths \subseteq Nat \ {0} /\ Limits \subseteq Int
    /\ RUNTIME_INF \in Limits
<1>1. {Depth, SCALE, BUCKETS, MaxCalls} \subseteq Nat \ {0}
  BY GroupsAssumption
<1>2. Depth \in Nat
  BY <1>1
<1>3. {MinPeriod, MaxPeriod, MaxRuntime, DefaultPeriod} \subseteq Nat \ {0}
  BY BandwidthAssumption
<1>4. /\ MinPeriod \in Nat /\ MaxPeriod \in Nat /\ MaxRuntime \in Nat /\ DefaultPeriod \in Lengths
      /\ MinPeriod > 0 /\ BW_UNIT \in Nat
  BY <1>3, BandwidthAssumption DEF Lengths
<1> QED
  BY <1>2, <1>4 DEF Groups, Lengths, Limits, RUNTIME_INF

\* The fields a writer has in each of its states.
LEMMA WriterFacts == ASSUME NEW d \in WriterState
    PROVE /\ d.pc \in {"none", "checked", "mutex", "set", "cpus"}
          /\ d.pc = "none" <=> d = Resting
          /\ d.pc # "none" => d.g \in Groups /\ d.quota \in Limits
          /\ d.pc \in {"checked", "mutex", "set"} => d.period \in Lengths
          /\ d.pc \in {"set", "cpus"} => d.was \in BOOLEAN
          /\ d.pc = "cpus" => d.todo \in SUBSET CPUs
  BY DEF WriterState, Resting

\* A writer that rests.
LEMMA RestingFacts == Resting \in WriterState /\ Resting.pc = "none"
  BY DEF WriterState, Resting

\* There are finitely many groups.
LEMMA GroupsFinite == IsFiniteSet(Groups) /\ Cardinality({}) = 0
  BY FS_Interval, FS_EmptySet, Bounds DEF Groups

\* So has every set of groups a cardinality.
LEMMA SubsetOfGroups == ASSUME NEW S \in SUBSET Groups
    PROVE IsFiniteSet(S) /\ Cardinality(S) \in Nat
  BY GroupsFinite, FS_Subset, FS_CardinalityType

\* And the groups the static key is held for.
LEMMA KeyedFinite == IsFiniteSet(Keyed) /\ Cardinality(Keyed) \in Nat
  BY SubsetOfGroups DEF Keyed

\* A share is no number that stands for no limit.
LEMMA RatioNat == ASSUME NEW p \in Lengths, NEW q \in Limits, q # RUNTIME_INF
    PROVE to_ratio(p, q) \in Nat
<1>1. q \in Nat /\ p \in Nat /\ p > 0 /\ BW_UNIT \in Nat
  BY Bounds DEF Limits
<1>2. q * BW_UNIT \in Nat
  BY <1>1
<1>3. \A x \in Nat : x \div p \in Nat
  BY <1>1
<1> QED
  BY <1>2, <1>3 DEF to_ratio
--------------------------------------------------------------------------------
(* What follows from the invariant *)

\* The key is held for a group that limits a CPU.
LEMMA NothingKeyed == ASSUME BwInv, NEW g \in Groups, enabled[g] # {} PROVE g \in Keyed
<1>1. CASE InLoop(g)
  <2>1. PICK w \in Writers : writer[w].pc = "cpus" /\ writer[w].g = g
    BY <1>1 DEF InLoop
  <2>2. LoopOK(writer[w])
    BY <2>1 DEF BwInv, EnabledOK
  <2> QED
    BY <2>1, <2>2 DEF LoopOK, Keyed, HeldFor
<1>2. CASE ~InLoop(g)
  BY <1>2 DEF BwInv, EnabledOK, Keyed
<1> QED
  BY <1>1, <1>2

\* The invariant gives the property.
LEMMA InvGivesKept == BwInv => BandwidthKept
<1> SUFFICES ASSUME BwInv PROVE BandwidthKept
  OBVIOUS
<1>1. ASSUME ~unified, NEW g \in Limited, NEW a \in Limited, a < g PROVE Share(g) <= Share(a)
  <2>1. g \in Groups /\ a \in Groups /\ quota[g] # RUNTIME_INF /\ quota[a] # RUNTIME_INF
    BY DEF Limited, Listed
  <2>2. Share(g) \in Nat /\ Share(a) \in Nat
    BY <2>1, RatioNat DEF Share, BwInv, BwTypeOK
  <2>3. Now[g] = Share(g) /\ Now[a] = Share(a)
    BY <2>1 DEF Now
  <2>4. InOrder(Now)
    BY <1>1 DEF BwInv, SharesOK
  <2>5. Now[g] # RUNTIME_INF /\ Now[a] # RUNTIME_INF
    BY <2>2, <2>3 DEF RUNTIME_INF
  <2> QED
    BY <1>1, <2>1, <2>3, <2>4, <2>5 DEF InOrder
<1>2. ASSUME NEW g \in Groups, enabled[g] # {} PROVE bw_used > 0
  <2>1. g \in Keyed
    BY <1>2, NothingKeyed
  <2>2. Cardinality(Keyed) # 0
    BY <2>1, KeyedFinite, FS_EmptySet
  <2> QED
    BY <2>2, KeyedFinite DEF BwInv, KeyOK, BwTypeOK
<1>3. ASSUME NEW g \in Groups, \A w \in Writers : HoldsMutex(w) => writer[w].g # g
      PROVE  /\ enabled[g] = IF g \in Limited THEN online ELSE {}
             /\ throttled[g] \subseteq enabled[g]
             /\ throttled[g] # {} => timer[g]
  <2>1. ~InLoop(g)
    BY <1>3 DEF InLoop, HoldsMutex
  <2>2. g \in Limited <=> quota[g] # RUNTIME_INF
    BY DEF BwInv, Tree, Limited, Listed
  <2>3. enabled[g] = IF g \in Limited THEN online ELSE {}
    BY <2>1, <2>2 DEF BwInv, EnabledOK
  <2>4. throttled[g] \subseteq enabled[g] /\ (throttled[g] # {} => timer[g] \/ quota[g] = RUNTIME_INF)
    BY DEF BwInv, ThrottledOK
  <2> QED
    BY <2>2, <2>3, <2>4
<1> QED
  BY <1>1, <1>2, <1>3 DEF BandwidthKept
--------------------------------------------------------------------------------
(* The beginning *)

\* It holds initially.
LEMMA BwInitInv == BwInit => BwInv
<1> SUFFICES ASSUME BwInit PROVE BwInv
  OBVIOUS
<1> USE Bounds, RestingFacts
<1>1. PICK made \in Groups : group = [g \in Groups |-> IF g <= made THEN "online" ELSE "none"]
  BY DEF BwInit, Init
<1>2. BwTypeOK
  <2>1. group \in [Groups -> {"none", "alloc", "online"}]
    BY <1>1
  <2> QED
    BY <2>1 DEF BwInit, BwTypeOK
<1>3. \A w \in Writers : writer[w] = Resting /\ writer[w].pc = "none"
  BY DEF BwInit
<1>4. \A g \in Groups : quota[g] = RUNTIME_INF /\ enabled[g] = {} /\ throttled[g] = {}
  BY DEF BwInit
<1>5. Tree
  <2>1. \A g \in Groups \ {0} : g - 1 \in Groups
    BY DEF Groups
  <2> QED
    BY <1>1, <1>3, <1>4, <2>1 DEF Tree
<1>6. EnabledOK /\ ThrottledOK /\ OneWriter /\ Separate
  BY <1>3, <1>4 DEF EnabledOK, InLoop, ThrottledOK, OneWriter, HoldsMutex, Separate
<1>7. KeyOK
  <2>1. Keyed = {}
    BY <1>3, <1>4 DEF Keyed, HeldFor
  <2> QED
    BY <1>3, <2>1, GroupsFinite DEF KeyOK, BwInit
<1>8. SharesOK
  BY <1>3, <1>4 DEF SharesOK, InOrder, Now
<1> QED
  BY <1>2, <1>5, <1>6, <1>7, <1>8 DEF BwInv
--------------------------------------------------------------------------------
(* Steps that leave the quotas alone *)

\* A step that changes the state of groups without settings keeps the invariant.
LEMMA GroupsChange ==
    ASSUME TaskStep \/ WalkStep \/ CallStep \/ CpuUclampStore \/ SysctlCheck \/ WriteDone
           \/ \E g \in Groups : CssOnline(g)
    PROVE  group' = group \/ \E g \in Groups : CssAlloc(g) \/ CssOnline(g) \/ CssReleased(g)
<1>1. CASE TaskStep
  BY <1>1 DEF TaskStep, Enqueue, Dequeue, Link, SchedPostFork, Attach, SetschedulerUclamp,
              SyncRtDefault, Fork, tgs
<1>2. CASE WalkStep
  BY <1>2 DEF WalkStep, Visit, Store, UpdateActive, tgs
<1>3. CASE CallStep
  BY <1>3 DEF CallStep, SetPolicy, CanAttach, UclampValidate, CpuUclampWrite, SysctlWrite, tgs
<1>4. CASE CpuUclampStore \/ SysctlCheck \/ WriteDone
  BY <1>4 DEF CpuUclampStore, SysctlCheck, WriteDone, tgs
<1> QED
  BY <1>1, <1>2, <1>3, <1>4

\* The part of Tree that is about groups alone.
Chain ==
    /\ group[0] = "online"
    /\ \A g \in Groups \ {0} : group[g] # "none" => group[g - 1] = "online"

\* Making, removing and bringing up groups keeps the chain.
LEMMA ChainKept ==
    ASSUME Chain, group \in [Groups -> {"none", "alloc", "online"}],
           NEW g \in Groups, CssAlloc(g) \/ CssOnline(g) \/ CssReleased(g)
    PROVE  /\ Chain' /\ group' \in [Groups -> {"none", "alloc", "online"}]
           /\ ~CssReleased(g) => Listed \subseteq Listed'
           /\ CssReleased(g) => g > 0 /\ Listed' = Listed \ {g}
<1> USE Bounds
<1>1. \A k \in Groups \ {0} : k - 1 \in Groups /\ k - 1 # k
  BY DEF Groups
<1>2. CASE CssAlloc(g)
  BY <1>1, <1>2 DEF CssAlloc, Chain, Listed
<1>3. CASE CssOnline(g)
  <2>1. group' = [group EXCEPT ![g] = "online"] /\ group[g] = "alloc"
    BY <1>3 DEF CssOnline
  <2>2. Chain' /\ group' \in [Groups -> {"none", "alloc", "online"}]
    BY <1>1, <2>1 DEF Chain
  <2>3. Listed \subseteq Listed'
    BY <2>1 DEF Listed
  <2>4. ~CssReleased(g)
    BY <2>1 DEF CssReleased
  <2> QED
    BY <2>2, <2>3, <2>4
<1>4. CASE CssReleased(g)
  <2>1. \A k \in Groups \ {0} : k - 1 = g => group[k] = "none"
    BY <1>4 DEF CssReleased, Groups
  <2>2. g > 0 /\ group' = [group EXCEPT ![g] = "none"]
    BY <1>4 DEF CssReleased
  <2>3. Chain'
    BY <1>1, <2>1, <2>2 DEF Chain
  <2>4. Listed' = Listed \ {g} /\ group' \in [Groups -> {"none", "alloc", "online"}]
    BY <2>2 DEF Listed
  <2> QED
    BY <1>4, <2>2, <2>3, <2>4
<1>5. ~(CssReleased(g) /\ (CssAlloc(g) \/ CssOnline(g)))
  BY DEF CssReleased, CssAlloc, CssOnline
<1> QED
  BY <1>2, <1>3, <1>4, <1>5

\* The quotas stay, and groups that are written or have a limit stay on the list.
LEMMA BwUnchanged ==
    ASSUME BwInv, UNCHANGED bwvars, Chain', group' \in [Groups -> {"none", "alloc", "online"}],
           Listed \subseteq Listed' \/ about = "clamps"
    PROVE  BwInv'
<1> USE DEF bwvars, settings, cfs_rqs
<1>1. BwTypeOK' /\ OneWriter' /\ Separate' /\ EnabledOK' /\ ThrottledOK'
  BY DEF BwInv, BwTypeOK, OneWriter, HoldsMutex, Separate, EnabledOK, InLoop, LoopOK, ThrottledOK
<1>2. Tree'
  BY DEF BwInv, Tree, Chain, Separate
<1>3. KeyOK' 
  BY DEF BwInv, KeyOK, Keyed, HeldFor
<1>4. SharesOK'
  BY DEF BwInv, SharesOK, InOrder, Now, With, normalize_cfs_quota, Share
<1> QED
  BY <1>1, <1>2, <1>3, <1>4 DEF BwInv

\* A behaviour about clamps has no quotas.
LEMMA ClampStepInv == ASSUME BwInv, about = "clamps", ClampStep PROVE BwInv'
<1>1. group' = group \/ \E g \in Groups : CssAlloc(g) \/ CssOnline(g) \/ CssReleased(g)
  BY GroupsChange DEF ClampStep, Next
<1>2. Chain /\ group \in [Groups -> {"none", "alloc", "online"}]
  BY DEF BwInv, Tree, Chain, BwTypeOK
<1>3. Chain' /\ group' \in [Groups -> {"none", "alloc", "online"}]
  <2>1. CASE group' = group
    BY <1>2, <2>1 DEF Chain
  <2> QED
    BY <1>1, <1>2, <2>1, ChainKept
<1> QED
  BY <1>3, BwUnchanged DEF ClampStep

\* The walks and css_online leave the quotas.
LEMMA WalkStepInv ==
    ASSUME BwInv, UNCHANGED bwvars, WalkStep \/ \E g \in Groups : CssOnline(g)
    PROVE  BwInv'
<1>1. group' = group \/ \E g \in Groups : CssOnline(g)
  BY DEF WalkStep, Visit, Store, UpdateActive, tgs
<1>2. Chain /\ group \in [Groups -> {"none", "alloc", "online"}]
  BY DEF BwInv, Tree, Chain, BwTypeOK
<1>3. /\ Chain' /\ group' \in [Groups -> {"none", "alloc", "online"}] /\ Listed \subseteq Listed'
  <2>1. CASE group' = group
    BY <1>2, <2>1 DEF Chain, Listed
  <2>2. CASE \E g \in Groups : CssOnline(g)
    <3>1. PICK g \in Groups : CssOnline(g)
      BY <2>2
    <3>2. ~CssReleased(g)
      BY <3>1 DEF CssOnline, CssReleased
    <3> QED
      BY <1>2, <3>1, <3>2, ChainKept
  <2> QED
    BY <1>1, <2>1, <2>2
<1> QED
  BY <1>3, BwUnchanged
--------------------------------------------------------------------------------
(* Groups are made and removed *)

\* sched_create_group.
LEMMA BwAllocInv == ASSUME BwInv, NEW g \in Groups, BwCssAlloc(g) PROVE BwInv'
<1> USE Bounds
<1>1. Chain /\ group \in [Groups -> {"none", "alloc", "online"}]
  BY DEF BwInv, Tree, Chain, BwTypeOK
<1>2. ~CssReleased(g)
  BY DEF BwCssAlloc, CssAlloc, CssReleased
<1>3. Chain' /\ group' \in [Groups -> {"none", "alloc", "online"}] /\ Listed \subseteq Listed'
  BY <1>1, <1>2, ChainKept DEF BwCssAlloc
<1>4. quota[g] = RUNTIME_INF /\ g \notin Listed
  BY DEF BwInv, Tree, Listed, BwCssAlloc, CssAlloc
<1>5. quota' = quota
  BY <1>4 DEF BwCssAlloc, Initialised, BwInv, BwTypeOK
<1>6. /\ period' = [period EXCEPT ![g] = DefaultPeriod]
      /\ UNCHANGED <<about, unified, timer, enabled, throttled, online, bw_used, writer>>
  BY DEF BwCssAlloc, Initialised, cfs_rqs
<1> HIDE DEF BwCssAlloc
<1>7. BwTypeOK'
  BY <1>3, <1>5, <1>6 DEF BwInv, BwTypeOK
<1>8. OneWriter' /\ Separate' /\ EnabledOK' /\ ThrottledOK' /\ KeyOK'
  BY <1>5, <1>6 DEF BwInv, OneWriter, HoldsMutex, Separate, EnabledOK, InLoop, LoopOK, ThrottledOK,
        KeyOK, Keyed, HeldFor
<1>9. Tree'
  BY <1>3, <1>5, <1>6 DEF BwInv, Tree, Chain
<1>10. SharesOK'
  <2>1. \A k \in Groups : k # g => period'[k] = period[k]
    BY <1>6 DEF BwInv, BwTypeOK
  <2>2. Now' = Now
    BY <1>4, <1>5, <2>1 DEF Now, Share
  <2>3. ASSUME NEW w \in Writers, writer[w].pc = "set" PROVE With(writer[w])' = With(writer[w])
    BY <1>4, <1>5, <1>6, <2>1, <2>3 DEF With, normalize_cfs_quota
  <2>4. ASSUME NEW w \in Writers, writer'[w].pc = "set", ~unified PROVE InOrder(With(writer[w]))'
    <3>1. writer'[w] = writer[w] /\ InOrder(With(writer[w]))
      BY <1>6, <2>4 DEF BwInv, SharesOK
    <3> QED
      BY <2>3, <2>4, <3>1 DEF InOrder
  <2> QED
    BY <1>6, <2>2, <2>4 DEF BwInv, SharesOK, InOrder
<1> QED
  BY <1>7, <1>8, <1>9, <1>10 DEF BwInv

\* sched_free_group.
LEMMA BwReleasedInv == ASSUME BwInv, NEW g \in Groups, BwCssReleased(g) PROVE BwInv'
<1> USE Bounds
<1>1. Chain /\ group \in [Groups -> {"none", "alloc", "online"}]
  BY DEF BwInv, Tree, Chain, BwTypeOK
<1>2. CssReleased(g)
  BY DEF BwCssReleased
<1>3. /\ Chain' /\ group' \in [Groups -> {"none", "alloc", "online"}]
      /\ Listed' = Listed \ {g} /\ g > 0
  BY <1>1, <1>2, ChainKept
<1>4. /\ period' = [period EXCEPT ![g] = DefaultPeriod] /\ quota' = [quota EXCEPT ![g] = RUNTIME_INF]
      /\ timer' = [timer EXCEPT ![g] = FALSE]
      /\ enabled' = [enabled EXCEPT ![g] = {}] /\ throttled' = [throttled EXCEPT ![g] = {}]
      /\ UNCHANGED <<about, unified, online, bw_used, writer>>
  BY DEF BwCssReleased, Initialised
<1>5. \A w \in Writers : writer[w].pc # "none" => writer[w].g # g
  BY WriterFacts DEF BwCssReleased, BwInv, BwTypeOK
<1> HIDE DEF BwCssReleased
<1>6. BwTypeOK'
  BY <1>3, <1>4 DEF BwInv, BwTypeOK
<1>7. OneWriter' /\ Separate'
  BY <1>4 DEF BwInv, OneWriter, HoldsMutex, Separate, BwTypeOK
<1>8. EnabledOK'
  <2>1. \A k \in Groups : InLoop(k)' <=> InLoop(k)
    BY <1>4 DEF InLoop
  <2>2. \A k \in Groups : ~InLoop(k)' => enabled'[k] = IF quota'[k] # RUNTIME_INF THEN online' ELSE {}
    BY <1>4, <2>1 DEF BwInv, EnabledOK, BwTypeOK
  <2>3. ASSUME NEW w \in Writers, writer[w].pc = "cpus" PROVE LoopOK(writer[w])'
    <3>1. LoopOK(writer[w]) /\ writer[w].g # g /\ writer[w].g \in Groups
      BY <1>5, <2>3, WriterFacts DEF BwInv, EnabledOK, BwTypeOK
    <3>2. quota'[writer[w].g] = quota[writer[w].g] /\ enabled'[writer[w].g] = enabled[writer[w].g]
      BY <1>4, <3>1 DEF BwInv, BwTypeOK
    <3> QED
      BY <1>4, <3>1, <3>2 DEF LoopOK
  <2> QED
    BY <1>4, <2>2, <2>3 DEF EnabledOK
<1>9. ThrottledOK'
  BY <1>4 DEF BwInv, ThrottledOK, BwTypeOK
<1>10. KeyOK'
  <2>1. Keyed' \subseteq Keyed
    BY <1>4 DEF Keyed, HeldFor, BwInv, BwTypeOK
  <2>2. Cardinality(Keyed') <= Cardinality(Keyed) /\ Cardinality(Keyed') \in Nat
    BY <2>1, KeyedFinite, FS_Subset, FS_CardinalityType
  <2>3. \A w \in Writers : writer'[w].pc = "set" => (writer'[w].was <=> quota'[writer'[w].g] # RUNTIME_INF)
    BY <1>4, <1>5, WriterFacts DEF BwInv, KeyOK, BwTypeOK
  <2> QED
    BY <1>4, <2>2, <2>3, KeyedFinite DEF BwInv, KeyOK, BwTypeOK
<1>11. Tree'
  BY <1>3, <1>4, <1>5 DEF BwInv, Tree, Chain, BwTypeOK
<1>12. SharesOK'
  <2>1. \A k \in Groups : Now'[k] = Now[k] \/ Now'[k] = RUNTIME_INF
    BY <1>4 DEF Now, Share, BwInv, BwTypeOK
  <2>2. ASSUME NEW w \in Writers, writer[w].pc = "set"
        PROVE  \A k \in Groups : With(writer[w])'[k] = With(writer[w])[k] \/ With(writer[w])'[k] = RUNTIME_INF
    BY <1>4, <1>5, <2>2 DEF With, normalize_cfs_quota, BwInv, BwTypeOK
  <2>3. ASSUME NEW w \in Writers, writer'[w].pc = "set", ~unified PROVE InOrder(With(writer[w]))'
    <3>1. writer'[w] = writer[w] /\ InOrder(With(writer[w]))
      BY <1>4, <2>3 DEF BwInv, SharesOK
    <3> QED
      BY <2>2, <2>3, <3>1 DEF InOrder
  <2>4. ~unified => InOrder(Now)'
    BY <2>1 DEF BwInv, SharesOK, InOrder
  <2> QED
    BY <1>4, <2>3, <2>4 DEF SharesOK
<1> QED
  BY <1>6, <1>7, <1>8, <1>9, <1>10, <1>11, <1>12 DEF BwInv
--------------------------------------------------------------------------------
(* fair.c and hotplug *)

\* The settings and the writers stay: what is not about the CPUs is kept.
LEMMA SettingsKept ==
    ASSUME BwInv, UNCHANGED <<group, about, unified, period, quota, bw_used, writer>>
    PROVE  OneWriter' /\ Tree' /\ Separate' /\ KeyOK' /\ SharesOK'
<1>1. OneWriter' /\ Separate' /\ Tree' /\ KeyOK'
  BY DEF BwInv, OneWriter, HoldsMutex, Separate, Tree, Listed, KeyOK, Keyed, HeldFor
<1>2. SharesOK'
  BY DEF BwInv, SharesOK, InOrder, Now, With, normalize_cfs_quota, Share
<1> QED
  BY <1>1, <1>2

\* throttle_cfs_rq.
LEMMA ThrottleInv == ASSUME BwInv, NEW g \in Groups, NEW i \in CPUs, Throttle(g, i) PROVE BwInv'
<1>1. /\ UNCHANGED <<group, about, unified, period, quota, enabled, online, bw_used, writer>>
      /\ i \in enabled[g]
      /\ throttled' = [throttled EXCEPT ![g] = @ \cup {i}] /\ timer' = [timer EXCEPT ![g] = TRUE]
  BY DEF Throttle, vars, tgs, settings
<1>2. BwTypeOK' /\ ThrottledOK'
  BY <1>1 DEF BwInv, BwTypeOK, ThrottledOK
<1>3. EnabledOK'
  BY <1>1 DEF BwInv, EnabledOK, InLoop, LoopOK
<1> QED
  BY <1>1, <1>2, <1>3, SettingsKept DEF BwInv

\* do_sched_cfs_period_timer.
LEMMA PeriodTimerInv == ASSUME BwInv, NEW g \in Groups, PeriodTimer(g) PROVE BwInv'
<1>1. /\ UNCHANGED <<group, about, unified, period, quota, enabled, online, bw_used, writer>>
      /\ \/ throttled' = [throttled EXCEPT ![g] = {}] /\ timer' = timer
         \/ /\ timer' = [timer EXCEPT ![g] = FALSE] /\ throttled' = throttled
            /\ throttled[g] = {} \/ quota[g] = RUNTIME_INF
  BY DEF PeriodTimer, vars, tgs, settings
<1>2. BwTypeOK' /\ ThrottledOK'
  BY <1>1 DEF BwInv, BwTypeOK, ThrottledOK
<1>3. EnabledOK'
  BY <1>1 DEF BwInv, EnabledOK, InLoop, LoopOK
<1> QED
  BY <1>1, <1>2, <1>3, SettingsKept DEF BwInv

\* rq_offline_fair.
LEMMA OfflineInv == ASSUME BwInv, NEW i \in CPUs, Offline(i) PROVE BwInv'
<1>1. /\ UNCHANGED <<group, about, unified, period, quota, timer, bw_used, writer>>
      /\ \A w \in Writers : writer[w].pc # "cpus"
      /\ online' = online \ {i}
      /\ enabled' = [g \in Groups |-> enabled[g] \ {i}]
      /\ throttled' = [g \in Groups |-> throttled[g] \ {i}]
  BY DEF Offline, HoldsCpus, vars, tgs, settings
<1>2. BwTypeOK'
  BY <1>1 DEF BwInv, BwTypeOK
<1>3. ThrottledOK'
  BY <1>1 DEF BwInv, BwTypeOK, ThrottledOK
<1>4. EnabledOK'
  BY <1>1 DEF BwInv, EnabledOK, InLoop
<1> QED
  BY <1>1, <1>2, <1>3, <1>4, SettingsKept DEF BwInv

\* rq_online_fair.
LEMMA OnlineInv == ASSUME BwInv, NEW i \in CPUs, Online(i) PROVE BwInv'
<1>1. /\ UNCHANGED <<group, about, unified, period, quota, timer, throttled, bw_used, writer>>
      /\ \A w \in Writers : writer[w].pc # "cpus"
      /\ online' = online \cup {i}
      /\ enabled' = [g \in Groups |-> IF g \in Limited THEN enabled[g] \cup {i} ELSE enabled[g]]
  BY DEF Online, HoldsCpus, vars, tgs, settings
<1>2. \A g \in Groups : g \in Limited <=> quota[g] # RUNTIME_INF
  BY DEF BwInv, Tree, Limited, Listed
<1>3. BwTypeOK'
  BY <1>1 DEF BwInv, BwTypeOK
<1>4. ThrottledOK'
  BY <1>1 DEF BwInv, BwTypeOK, ThrottledOK
<1>5. EnabledOK'
  BY <1>1, <1>2 DEF BwInv, EnabledOK, InLoop
<1> QED
  BY <1>1, <1>3, <1>4, <1>5, SettingsKept DEF BwInv
--------------------------------------------------------------------------------
(* Writers *)

\* A writer that does not hold the mutex goes on to another place where it does not.
LEMMA WriterMoves ==
    ASSUME BwInv, NEW w \in Writers, NEW e \in WriterState,
           writer' = [writer EXCEPT ![w] = e],
           UNCHANGED <<group, about, unified, period, quota, timer, enabled, throttled, online, bw_used>>,
           ~HoldsMutex(w), e.pc \notin {"set", "cpus"},
           e.pc # "none" => e.g \in Listed \ {0} /\ about # "clamps"
    PROVE  BwInv'
<1>1. /\ \A v \in Writers : writer'[v] = IF v = w THEN e ELSE writer[v]
      /\ writer[w].pc \notin {"set", "cpus"}
  BY DEF BwInv, BwTypeOK, HoldsMutex
<1>2. BwTypeOK'
  BY DEF BwInv, BwTypeOK
<1>3. OneWriter' /\ Separate' /\ Tree'
  BY <1>1 DEF BwInv, OneWriter, HoldsMutex, Separate, Tree, Listed
<1>4. EnabledOK' /\ ThrottledOK'
  BY <1>1 DEF BwInv, EnabledOK, InLoop, LoopOK, ThrottledOK
<1>5. KeyOK'
  <2>1. Keyed' = Keyed
    BY <1>1 DEF Keyed, HeldFor
  <2> QED
    BY <1>1, <2>1 DEF BwInv, KeyOK
<1>6. SharesOK'
  <2>1. Now' = Now
    BY DEF Now, Share
  <2>2. ASSUME NEW v \in Writers, writer'[v].pc = "set", ~unified PROVE InOrder(With(writer[v]))'
    <3>1. writer'[v] = writer[v] /\ InOrder(With(writer[v]))
      BY <1>1, <2>2 DEF BwInv, SharesOK
    <3> QED
      BY <3>1 DEF InOrder, With, normalize_cfs_quota
  <2> QED
    BY <2>1, <2>2 DEF BwInv, SharesOK, InOrder
<1> QED
  BY <1>2, <1>3, <1>4, <1>5, <1>6 DEF BwInv

\* A write that has read what it keeps.
LEMMA CallsInv ==
    ASSUME BwInv, about = "bandwidth", NEW w \in Writers, NEW g \in Groups, NEW p, NEW q, Calls(w, g, p, q)
    PROVE  BwInv'
<1> DEFINE e == [pc |-> "checked", g |-> g, period |-> p, quota |-> q]
<1>1. p \in Lengths /\ q \in Limits
  BY DEF Calls, InRange, Lengths, Limits
<1>2. e \in WriterState /\ e.pc = "checked" /\ e.g = g
  BY <1>1 DEF WriterState
<1>3. g \in Listed \ {0} /\ writer[w] = Resting /\ ~HoldsMutex(w)
  BY RestingFacts DEF Calls, Free, HoldsMutex
<1>4. writer' = [writer EXCEPT ![w] = e]
  BY DEF Calls
<1>5. UNCHANGED <<group, about, unified, period, quota, timer, enabled, throttled, online, bw_used>>
  BY DEF Calls, tgs, settings, cfs_rqs
<1> HIDE DEF e
<1> QED
  BY <1>2, <1>3, <1>4, <1>5, WriterMoves

\* get_online_cpus.
LEMMA GetOnlineCpusInv == ASSUME BwInv, NEW w \in Writers, GetOnlineCpus(w) PROVE BwInv'
<1>1. PICK d \in WriterState : d = writer[w]
  BY DEF BwInv, BwTypeOK
<1> DEFINE e == [d EXCEPT !.pc = "mutex"]
<1>2. d.pc = "checked" /\ writer' = [writer EXCEPT ![w] = e]
  BY <1>1 DEF GetOnlineCpus
<1>3. e \in WriterState /\ e.pc = "mutex" /\ e.g = d.g
  BY <1>2 DEF WriterState, Resting
<1>4. d.g \in Listed \ {0} /\ about # "clamps" /\ ~HoldsMutex(w)
  BY <1>1, <1>2 DEF BwInv, Tree, Separate, HoldsMutex
<1>5. UNCHANGED <<group, about, unified, period, quota, timer, enabled, throttled, online, bw_used>>
  BY DEF GetOnlineCpus, vars, tgs, settings, cfs_rqs
<1> HIDE DEF e
<1> QED
  BY <1>2, <1>3, <1>4, <1>5, WriterMoves

\* A turn of the loop.
LEMMA EachCpuInv == ASSUME BwInv, NEW w \in Writers, NEW i \in CPUs, EachCpu(w, i) PROVE BwInv'
<1>1. PICK d \in WriterState : d = writer[w]
  BY DEF BwInv, BwTypeOK
<1> DEFINE e == [d EXCEPT !.todo = @ \ {i}]
<1>2. /\ d.pc = "cpus" /\ i \in d.todo /\ writer' = [writer EXCEPT ![w] = e]
      /\ enabled' = [enabled EXCEPT ![d.g] = IF d.quota # RUNTIME_INF THEN @ \cup {i} ELSE @ \ {i}]
      /\ throttled' = [throttled EXCEPT ![d.g] = @ \ {i}]
      /\ UNCHANGED <<group, about, unified, period, quota, timer, online, bw_used>>
  BY <1>1 DEF EachCpu, vars, tgs, settings
<1>3. /\ e \in WriterState /\ e.pc = "cpus" /\ e.g = d.g /\ e.quota = d.quota /\ e.was = d.was
      /\ e.todo = d.todo \ {i} /\ d.g \in Groups
  BY <1>2 DEF WriterState, Resting
<1>4. LoopOK(d)
  BY <1>1, <1>2 DEF BwInv, EnabledOK
<1> HIDE DEF e, EachCpu
<1>5. \A v \in Writers : writer'[v] = IF v = w THEN e ELSE writer[v]
  BY <1>2 DEF BwInv, BwTypeOK
<1>6. BwTypeOK'
  BY <1>2, <1>3 DEF BwInv, BwTypeOK
<1>7. OneWriter' /\ Separate' /\ Tree'
  BY <1>1, <1>2, <1>3, <1>5 DEF BwInv, OneWriter, HoldsMutex, Separate, Tree, Listed
<1>8. \A v \in Writers : writer[v].pc \in {"set", "cpus"} => v = w
  BY <1>1, <1>2 DEF BwInv, OneWriter, HoldsMutex
<1>9. EnabledOK'
  <2>1. \A g \in Groups : InLoop(g) <=> g = d.g
    BY <1>1, <1>2, <1>8 DEF InLoop
  <2>2. \A g \in Groups : InLoop(g)' <=> g = d.g
    BY <1>2, <1>3, <1>5, <1>8 DEF InLoop
  <2>3. \A g \in Groups : g # d.g => enabled'[g] = enabled[g]
    BY <1>2 DEF BwInv, BwTypeOK
  <2>4. enabled'[d.g] = IF d.quota # RUNTIME_INF THEN enabled[d.g] \cup {i} ELSE enabled[d.g] \ {i}
    BY <1>2, <1>3 DEF BwInv, BwTypeOK
  <2>5. LoopOK(e)'
    BY <1>2, <1>3, <1>4, <2>4 DEF LoopOK
  <2>6. \A v \in Writers : writer'[v].pc = "cpus" => v = w /\ writer'[v] = e
    BY <1>5, <1>8
  <2>7. \A v \in Writers : writer'[v].pc = "cpus" => LoopOK(writer[v])'
    BY <2>5, <2>6 DEF LoopOK
  <2> QED
    BY <1>2, <2>1, <2>2, <2>3, <2>7 DEF BwInv, EnabledOK
<1>10. ThrottledOK'
  BY <1>2, <1>3 DEF BwInv, ThrottledOK, BwTypeOK
<1>11. KeyOK'
  <2>1. Keyed' = Keyed
    BY <1>1, <1>2, <1>3, <1>5 DEF Keyed, HeldFor
  <2> QED
    BY <1>1, <1>2, <1>3, <1>5, <2>1 DEF BwInv, KeyOK
<1>12. SharesOK'
  <2>1. Now' = Now
    BY <1>2 DEF Now, Share
  <2>2. \A v \in Writers : writer'[v].pc # "set"
    BY <1>3, <1>5, <1>8, <1>1, <1>2
  <2> QED
    BY <1>2, <2>1, <2>2 DEF BwInv, SharesOK, InOrder
<1> QED
  BY <1>6, <1>7, <1>9, <1>10, <1>11, <1>12 DEF BwInv

\* What is done under cfs_b->lock.
LEMMA SetBandwidthInv == ASSUME BwInv, NEW w \in Writers, SetBandwidth(w) PROVE BwInv'
<1>1. PICK d \in WriterState : d = writer[w]
  BY DEF BwInv, BwTypeOK
<1>0. PICK e : e = [pc |-> "cpus", g |-> d.g, quota |-> d.quota, was |-> d.was, todo |-> online]
  OBVIOUS
<1>2. /\ d.pc = "set" /\ writer' = [writer EXCEPT ![w] = e]
      /\ period' = [period EXCEPT ![d.g] = d.period] /\ quota' = [quota EXCEPT ![d.g] = d.quota]
      /\ timer' = [timer EXCEPT ![d.g] = @ \/ d.quota # RUNTIME_INF]
      /\ UNCHANGED <<group, about, unified, enabled, throttled, online, bw_used>>
  BY <1>0, <1>1 DEF SetBandwidth, vars, tgs, cfs_rqs
<1>3. /\ d.g \in Groups /\ d.quota \in Limits /\ d.period \in Lengths /\ d.was \in BOOLEAN
      /\ online \in SUBSET CPUs
  BY <1>2, WriterFacts DEF BwInv, BwTypeOK
<1>4. /\ e \in WriterState /\ e.pc = "cpus" /\ e.g = d.g /\ e.quota = d.quota /\ e.was = d.was
      /\ e.todo = online
  BY <1>0, <1>3 DEF WriterState
<1> HIDE DEF SetBandwidth
<1>5. \A v \in Writers : writer'[v] = IF v = w THEN e ELSE writer[v]
  BY <1>2 DEF BwInv, BwTypeOK
<1>6. BwTypeOK'
  <2>1. timer' \in [Groups -> BOOLEAN]
    BY <1>2 DEF BwInv, BwTypeOK
  <2> QED
    BY <1>2, <1>3, <1>4, <2>1 DEF BwInv, BwTypeOK
<1>7. d.g \in Listed \ {0} /\ about # "clamps" /\ (d.was <=> quota[d.g] # RUNTIME_INF)
  BY <1>1, <1>2 DEF BwInv, Tree, Separate, KeyOK
<1>8. OneWriter' /\ Separate' /\ Tree'
  BY <1>1, <1>2, <1>3, <1>4, <1>5, <1>7 DEF BwInv, BwTypeOK, OneWriter, HoldsMutex, Separate, Tree, Listed
<1>9. \A v \in Writers : writer[v].pc \in {"set", "cpus"} => v = w
  BY <1>1, <1>2 DEF BwInv, OneWriter, HoldsMutex
<1>10. EnabledOK'
  <2>1. \A g \in Groups : ~InLoop(g)
    BY <1>1, <1>2, <1>9 DEF InLoop
  <2>2. \A g \in Groups : InLoop(g)' <=> g = d.g
    BY <1>2, <1>4, <1>5, <1>9 DEF InLoop
  <2>3. \A g \in Groups : enabled[g] = IF quota[g] # RUNTIME_INF THEN online ELSE {}
    BY <2>1 DEF BwInv, EnabledOK
  <2>4. \A g \in Groups : g # d.g => quota'[g] = quota[g]
    BY <1>2 DEF BwInv, BwTypeOK
  <2>5. quota'[d.g] = d.quota
    BY <1>2, <1>3 DEF BwInv, BwTypeOK
  <2>6. LoopOK(e)'
    BY <1>2, <1>3, <1>4, <1>7, <2>3, <2>5 DEF LoopOK
  <2>7. \A v \in Writers : writer'[v].pc = "cpus" => writer'[v] = e
    BY <1>5, <1>9
  <2>8. \A v \in Writers : writer'[v].pc = "cpus" => LoopOK(writer[v])'
    BY <2>6, <2>7 DEF LoopOK
  <2> QED
    BY <1>2, <2>2, <2>3, <2>4, <2>8 DEF EnabledOK
<1>11. ThrottledOK'
  <2>1. \A g \in Groups : g # d.g => timer'[g] = timer[g] /\ quota'[g] = quota[g]
    BY <1>2 DEF BwInv, BwTypeOK
  <2>2. quota'[d.g] = d.quota /\ (d.quota # RUNTIME_INF => timer'[d.g])
    BY <1>2, <1>3 DEF BwInv, BwTypeOK
  <2> QED
    BY <1>2, <2>1, <2>2 DEF BwInv, ThrottledOK
<1>12. KeyOK'
  <2>1. Keyed' = Keyed
    <3>1. \A g \in Groups : g # d.g => (g \in Keyed' <=> g \in Keyed)
      BY <1>1, <1>2, <1>4, <1>5 DEF Keyed, HeldFor, BwInv, BwTypeOK
    <3>2. d.g \in Keyed <=> d.was \/ d.quota # RUNTIME_INF
      BY <1>1, <1>2, <1>3, <1>7, <1>9 DEF Keyed, HeldFor
    <3>3. d.g \in Keyed' <=> d.was \/ d.quota # RUNTIME_INF
      BY <1>2, <1>3, <1>4, <1>5, <1>9 DEF Keyed, HeldFor, BwInv, BwTypeOK
    <3> QED
      BY <3>1, <3>2, <3>3 DEF Keyed
  <2> QED
    BY <1>2, <1>4, <1>5, <1>9, <2>1 DEF BwInv, KeyOK
<1>13. SharesOK'
  <2>1. Now' = With(d)
    <3>1. \A g \in Groups : g # d.g => Now'[g] = With(d)[g]
      BY <1>2 DEF Now, With, normalize_cfs_quota, Share, BwInv, BwTypeOK
    <3>2. Now'[d.g] = With(d)[d.g]
      BY <1>2, <1>3 DEF Now, With, normalize_cfs_quota, Share, BwInv, BwTypeOK
    <3> QED
      BY <3>1, <3>2 DEF Now, With
  <2>2. ~unified => InOrder(With(d))
    BY <1>1, <1>2 DEF BwInv, SharesOK
  <2>3. \A v \in Writers : writer'[v].pc # "set"
    BY <1>4, <1>5, <1>9
  <2> QED
    BY <1>2, <2>1, <2>2, <2>3 DEF SharesOK, InOrder
<1> QED
  BY <1>6, <1>8, <1>10, <1>11, <1>12, <1>13 DEF BwInv

\* The end of tg_set_cfs_bandwidth.
LEMMA UnlockInv == ASSUME BwInv, NEW w \in Writers, Unlock(w) PROVE BwInv'
<1>1. PICK d \in WriterState : d = writer[w]
  BY DEF BwInv, BwTypeOK
<1>2. /\ d.pc = "cpus" /\ d.todo = {} /\ writer' = [writer EXCEPT ![w] = Resting]
      /\ bw_used' = IF d.was /\ d.quota = RUNTIME_INF THEN bw_used - 1 ELSE bw_used
      /\ UNCHANGED <<group, about, unified, period, quota, timer, enabled, throttled, online>>
  BY <1>1 DEF Unlock, vars, tgs, cfs_rqs, settings
<1>3. d.g \in Groups /\ d.quota \in Limits /\ d.was \in BOOLEAN
  BY <1>2, WriterFacts
<1> HIDE DEF Unlock
<1>4. /\ \A v \in Writers : writer'[v] = IF v = w THEN Resting ELSE writer[v]
      /\ Resting.pc = "none" /\ Resting \in WriterState
  BY <1>2, RestingFacts DEF BwInv, BwTypeOK
<1>5. BwTypeOK'
  BY <1>2, <1>4 DEF BwInv, BwTypeOK
<1>6. OneWriter' /\ Separate' /\ Tree'
  BY <1>2, <1>4 DEF BwInv, OneWriter, HoldsMutex, Separate, Tree, Listed
<1>7. \A v \in Writers : writer[v].pc \in {"set", "cpus"} => v = w
  BY <1>1, <1>2 DEF BwInv, OneWriter, HoldsMutex
<1>8. LoopOK(d)
  BY <1>1, <1>2 DEF BwInv, EnabledOK
<1>9. EnabledOK'
  <2>1. \A g \in Groups : InLoop(g) <=> g = d.g
    BY <1>1, <1>2, <1>7 DEF InLoop
  <2>2. \A v \in Writers : writer'[v].pc # "cpus"
    BY <1>4, <1>7
  <2>3. enabled[d.g] = IF quota[d.g] # RUNTIME_INF THEN online ELSE {}
    BY <1>2, <1>8 DEF LoopOK
  <2> QED
    BY <1>2, <2>1, <2>2, <2>3 DEF BwInv, EnabledOK
<1>10. ThrottledOK'
  BY <1>2 DEF BwInv, ThrottledOK
<1>11. KeyOK'
  <2>1. quota[d.g] = d.quota
    BY <1>8 DEF LoopOK
  <2>2. \A v \in Writers : writer'[v].pc # "set" /\ writer'[v].pc # "cpus"
    BY <1>4, <1>7
  <2>3. Keyed' = IF d.was /\ d.quota = RUNTIME_INF THEN Keyed \ {d.g} ELSE Keyed
    <3>1. Keyed' = {g \in Groups : quota[g] # RUNTIME_INF}
      BY <1>2, <2>2 DEF Keyed, HeldFor
    <3>2. \A g \in Groups : g \in Keyed <=> (quota[g] # RUNTIME_INF \/ (g = d.g /\ d.was))
      BY <1>1, <1>2, <1>7 DEF Keyed, HeldFor
    <3>3. Keyed \subseteq Groups
      BY DEF Keyed
    <3> QED
      BY <1>3, <2>1, <3>1, <3>2, <3>3
  <2>4. d.was => d.g \in Keyed
    BY <1>1, <1>2, <1>3 DEF Keyed, HeldFor
  <2>5. d.was => Cardinality(Keyed \ {d.g}) = Cardinality(Keyed) - 1
    BY ZenonT(30), <2>4, KeyedFinite, FS_RemoveElement
  <2>6. Cardinality(Keyed') <= bw_used'
    BY <1>2, <1>3, <2>3, <2>5, KeyedFinite DEF BwInv, KeyOK, BwTypeOK
  <2> QED
    BY <2>2, <2>6 DEF KeyOK
<1>12. SharesOK'
  <2>1. Now' = Now
    BY <1>2 DEF Now, Share
  <2>2. \A v \in Writers : writer'[v].pc # "set"
    BY <1>4, <1>7
  <2> QED
    BY <1>2, <2>1, <2>2 DEF BwInv, SharesOK, InOrder
<1> QED
  BY <1>5, <1>6, <1>9, <1>10, <1>11, <1>12 DEF BwInv
--------------------------------------------------------------------------------
(* __cfs_schedulable *)


\* The recursion of Hierarchy for shares n, and its solution up to group k.
Solves(n, h, k) == \A g \in 0..k : h[g] = IF g = 0 THEN RUNTIME_INF ELSE Down(n[g], h[g - 1])

\* The quotas of a chain of groups can be computed down to any group.
LEMMA SolutionExists == ASSUME NEW n, NEW m \in Nat
    PROVE \E h : h = [g \in 0..m |-> h[g]] /\ Solves(n, h, m)
<1> DEFINE Bad == {k \in Nat : ~\E h : h = [g \in 0..k |-> h[g]] /\ Solves(n, h, k)}
<1>1. SUFFICES ASSUME Bad # {} PROVE FALSE
  OBVIOUS
<1>2. PICK k \in Bad : \A j \in Bad : ~(j < k)
  BY <1>1, LeastMember
<1>3. CASE k = 0
  <2> DEFINE f == [g \in 0..0 |-> RUNTIME_INF]
  <2>1. f = [g \in 0..0 |-> f[g]] /\ Solves(n, f, 0)
    BY DEF Solves
  <2> QED
    BY <1>3, <2>1
<1>4. CASE k # 0
  <2>1. k - 1 \in Nat /\ k - 1 \notin Bad
    BY <1>2, <1>4
  <2>2. PICK h : h = [g \in 0..(k - 1) |-> h[g]] /\ Solves(n, h, k - 1)
    BY <2>1
  <2> DEFINE f == [g \in 0..k |-> IF g = k THEN Down(n[k], h[k - 1]) ELSE h[g]]
  <2>3. f = [g \in 0..k |-> f[g]]
    OBVIOUS
  <2>4. Solves(n, f, k)
    <3>1. \A g \in 0..(k - 1) : f[g] = h[g]
      OBVIOUS
    <3>2. f[k] = Down(n[k], f[k - 1])
      BY <1>4, <3>1
    <3>3. \A g \in 0..k : g # k => g \in 0..(k - 1) /\ (g # 0 => g - 1 \in 0..(k - 1))
      OBVIOUS
    <3> HIDE DEF f
    <3> QED
      BY <1>4, <2>2, <3>1, <3>2, <3>3 DEF Solves
  <2> QED
    BY <2>3, <2>4
<1> QED
  BY <1>3, <1>4

\* What walk_tg_tree passes down.
LEMMA HierarchyDef == ASSUME NEW d
    PROVE /\ Hierarchy(d)[0] = RUNTIME_INF
          /\ \A g \in Groups \ {0} : Hierarchy(d)[g] = Down(With(d)[g], Hierarchy(d)[g - 1])
<1> USE Bounds
<1> DEFINE n == With(d)
           Eq(h) == h = [g \in Groups |-> IF g = 0 THEN RUNTIME_INF ELSE Down(normalize_cfs_quota(g, d), h[g - 1])]
<1>1. \A g \in Groups : n[g] = normalize_cfs_quota(g, d)
  BY DEF With
<1>2. PICK h : h = [g \in Groups |-> h[g]] /\ Solves(n, h, Depth)
  BY SolutionExists DEF Groups
<1>3. \A g \in Groups : h[g] = IF g = 0 THEN RUNTIME_INF ELSE Down(normalize_cfs_quota(g, d), h[g - 1])
  <2> HIDE DEF n
  <2> QED
    BY <1>1, <1>2 DEF Solves, Groups
<1>4. Eq(h)
  BY <1>2, <1>3
<1>5. Hierarchy(d) = CHOOSE f : Eq(f)
  BY DEF Hierarchy
<1>6. Eq(Hierarchy(d))
  BY <1>4, <1>5
<1> DEFINE f == Hierarchy(d)
<1>7. Eq(f)
  BY <1>6
<1> HIDE DEF f
<1>8. f[0] = RUNTIME_INF /\ \A g \in Groups \ {0} : f[g] = Down(normalize_cfs_quota(g, d), f[g - 1])
  BY <1>7
<1> QED
  BY <1>1, <1>8 DEF f

\* The quotas that are compared are numbers.
LEMMA SharesType == ASSUME BwInv, NEW d \in WriterState, d.pc = "mutex", NEW g \in Groups
    PROVE /\ With(d)[g] \in Nat \cup {RUNTIME_INF}
          /\ With(d)[g] = RUNTIME_INF <=> (IF g = d.g THEN d.quota ELSE quota[g]) = RUNTIME_INF
<1> DEFINE p == IF g = d.g THEN d.period ELSE period[g]
           q == IF g = d.g THEN d.quota ELSE quota[g]
<1>1. p \in Lengths /\ q \in Limits
  BY WriterFacts DEF BwInv, BwTypeOK
<1>2. With(d)[g] = IF q = RUNTIME_INF THEN RUNTIME_INF ELSE to_ratio(p, q)
  BY DEF With, normalize_cfs_quota
<1> HIDE DEF p, q
<1>3. q # RUNTIME_INF => to_ratio(p, q) \in Nat
  BY <1>1, RatioNat
<1>4. q # RUNTIME_INF => to_ratio(p, q) # RUNTIME_INF
  BY <1>3 DEF RUNTIME_INF
<1> QED
  BY <1>2, <1>3, <1>4 DEF q

\* Settings that are not refused keep every group within those above it: what is passed
\* down to a group is the share of the nearest group above it that has a limit.
LEMMA NotRefused ==
    ASSUME BwInv, ~unified, NEW d \in WriterState, d.pc = "mutex", d.g \in Listed \ {0}, Refused(d) = {}
    PROVE  InOrder(With(d))
<1> USE Bounds
<1> DEFINE n == With(d)
           h == Hierarchy(d)
<1>1. h[0] = RUNTIME_INF /\ \A g \in Groups \ {0} : h[g] = Down(n[g], h[g - 1])
  BY HierarchyDef
<1>2. \A g \in Groups : n[g] \in Nat \cup {RUNTIME_INF}
  BY SharesType
<1>3. \A g \in Groups : n[g] # RUNTIME_INF => g \in Listed \ {0}
  BY SharesType DEF BwInv, Tree
<1>4. \A g \in Groups : n[g] # RUNTIME_INF => ~Exceeds(n[g], h[g - 1])
  BY <1>3 DEF Refused, With, Listed
<1> HIDE DEF n, h
<1> DEFINE Within(k) == /\ h[k] \in Nat \cup {RUNTIME_INF}
                        /\ \A a \in Groups : a <= k /\ n[a] # RUNTIME_INF =>
                             h[k] # RUNTIME_INF /\ h[k] <= n[a]
           Bad == {k \in Groups : ~Within(k)}
<1>5. ASSUME Bad # {} PROVE FALSE
  <2>1. PICK k \in Bad : \A j \in Bad : ~(j < k)
    BY <1>5, LeastMember
  <2>2. k # 0
    BY <1>1, <1>3
  <2>3. k - 1 \in Groups /\ k \in Groups \ {0} /\ Within(k - 1)
    BY <2>1, <2>2 DEF Groups
  <2>4. h[k] = IF n[k] = RUNTIME_INF THEN h[k - 1] ELSE n[k]
    BY <1>1, <2>3 DEF Down
  <2>5. n[k] # RUNTIME_INF => h[k - 1] = RUNTIME_INF \/ n[k] <= h[k - 1]
    <3>1. n[k] \in Nat \cup {RUNTIME_INF} /\ h[k - 1] \in Nat \cup {RUNTIME_INF}
      BY <1>2, <2>3
    <3> QED
      BY <1>4, <2>3, <3>1 DEF Exceeds, RUNTIME_INF
  <2>6. ASSUME NEW a \in Groups, a <= k, n[a] # RUNTIME_INF PROVE h[k] # RUNTIME_INF /\ h[k] <= n[a]
    <3>1. n[a] \in Nat /\ n[k] \in Nat \cup {RUNTIME_INF}
      BY <1>2, <2>3, <2>6
    <3>2. CASE a = k
      BY <2>4, <2>6, <3>1, <3>2
    <3>3. CASE a # k
      <4>1. a <= k - 1
        BY <2>3, <2>6, <3>3
      <4>2. h[k - 1] \in Nat /\ h[k - 1] <= n[a]
        BY <2>3, <2>6, <4>1
      <4>3. CASE n[k] = RUNTIME_INF
        BY <2>4, <4>2, <4>3 DEF RUNTIME_INF
      <4>4. CASE n[k] # RUNTIME_INF
        BY <2>4, <2>5, <3>1, <4>2, <4>4 DEF RUNTIME_INF
      <4> QED
        BY <4>3, <4>4
    <3> QED
      BY <3>2, <3>3
  <2>7. h[k] \in Nat \cup {RUNTIME_INF}
    BY <1>2, <2>3, <2>4
  <2> QED
    BY <2>1, <2>6, <2>7
<1>6. ASSUME NEW a \in Groups, NEW g \in Groups, a < g, n[a] # RUNTIME_INF, n[g] # RUNTIME_INF
      PROVE  n[g] <= n[a]
  <2>1. g - 1 \in Groups /\ a <= g - 1
    BY <1>6 DEF Groups
  <2>2. Within(g - 1)
    BY <1>5, <2>1
  <2>3. h[g - 1] \in Nat /\ h[g - 1] <= n[a]
    BY <1>6, <2>1, <2>2
  <2>4. n[g] <= h[g - 1]
    BY <1>2, <1>4, <1>6, <2>3 DEF Exceeds, RUNTIME_INF
  <2> QED
    BY <1>2, <1>6, <2>3, <2>4
<1> QED
  BY <1>6 DEF InOrder, n

\* __cfs_schedulable: what it accepts is in order.
LEMMA CfsSchedulableInv == ASSUME BwInv, NEW w \in Writers, CfsSchedulable(w) PROVE BwInv'
<1>1. PICK d \in WriterState : d = writer[w]
  BY DEF BwInv, BwTypeOK
<1>2. PICK e : e = [pc |-> "set", g |-> d.g, period |-> d.period, quota |-> d.quota,
                    was |-> quota[d.g] # RUNTIME_INF]
  OBVIOUS
<1>3. /\ d.pc = "mutex" /\ \A v \in Writers : ~HoldsMutex(v)
      /\ writer' = [writer EXCEPT ![w] = IF Refused(d) # {} THEN Resting ELSE e]
      /\ bw_used' = IF Refused(d) = {} /\ SwitchesOn(d) THEN bw_used + 1 ELSE bw_used
      /\ UNCHANGED <<group, about, unified, period, quota, timer, enabled, throttled, online>>
  BY <1>1, <1>2 DEF CfsSchedulable, vars, tgs, cfs_rqs
<1> HIDE DEF CfsSchedulable
<1>4. CASE Refused(d) # {}
  <2>1. writer' = [writer EXCEPT ![w] = Resting] /\ UNCHANGED bw_used
    BY <1>3, <1>4
  <2> QED
    BY <1>3, <2>1, RestingFacts, WriterMoves
<1>5. CASE Refused(d) = {}
  <2>1. d.g \in Groups /\ d.quota \in Limits /\ d.period \in Lengths
    BY <1>3, WriterFacts
  <2>2. /\ e \in WriterState /\ e.pc = "set" /\ e.g = d.g /\ e.quota = d.quota /\ e.period = d.period
        /\ (e.was <=> quota[d.g] # RUNTIME_INF)
    BY <1>2, <2>1 DEF WriterState
  <2>3. \A v \in Writers : writer'[v] = IF v = w THEN e ELSE writer[v]
    BY <1>3, <1>5 DEF BwInv, BwTypeOK
  <2>4. \A v \in Writers : writer[v].pc \notin {"set", "cpus"}
    BY <1>3 DEF HoldsMutex
  <2>5. d.g \in Listed \ {0} /\ about # "clamps"
    BY <1>1, <1>3 DEF BwInv, Tree, Separate
  <2>6. BwTypeOK'
    BY <1>3, <1>5, <2>2 DEF BwInv, BwTypeOK
  <2>7. OneWriter' /\ Separate' /\ Tree'
    BY <1>3, <2>2, <2>3, <2>4, <2>5 DEF BwInv, OneWriter, HoldsMutex, Separate, Tree, Listed
  <2>8. EnabledOK' /\ ThrottledOK'
    <3>1. \A v \in Writers : writer'[v].pc # "cpus" /\ writer[v].pc # "cpus"
      BY <2>2, <2>3, <2>4
    <3> QED
      BY <1>3, <3>1 DEF BwInv, EnabledOK, InLoop, ThrottledOK
  <2>9. KeyOK'
    <3>1. Keyed = {g \in Groups : quota[g] # RUNTIME_INF}
      BY <2>4 DEF Keyed, HeldFor
    <3>2. Keyed' = IF SwitchesOn(d) THEN Keyed \cup {d.g} ELSE Keyed
      <4>1. \A g \in Groups : g \in Keyed' <=> quota[g] # RUNTIME_INF \/ (g = d.g /\ d.quota # RUNTIME_INF)
        BY <1>3, <2>2, <2>3, <2>4 DEF Keyed, HeldFor
      <4>2. Keyed' \subseteq Groups
        BY DEF Keyed
      <4> QED
        BY <2>1, <3>1, <4>1, <4>2 DEF SwitchesOn
    <3>3. SwitchesOn(d) => Cardinality(Keyed \cup {d.g}) = Cardinality(Keyed) + 1
      BY <3>1, KeyedFinite, FS_AddElement DEF SwitchesOn
    <3>4. Cardinality(Keyed') <= bw_used'
      BY <1>3, <1>5, <3>2, <3>3, KeyedFinite DEF BwInv, KeyOK, BwTypeOK
    <3> QED
      BY <1>3, <2>2, <2>3, <2>4, <3>4 DEF KeyOK
  <2>10. SharesOK'
    <3>1. Now' = Now
      BY <1>3 DEF Now, Share
    <3>2. With(e)' = With(d)
      BY <1>3, <2>2 DEF With, normalize_cfs_quota
    <3>3. ~unified => InOrder(With(d))
      BY <1>3, <1>5, <2>5, NotRefused
    <3>4. \A v \in Writers : writer'[v].pc = "set" => writer'[v] = e
      BY <2>3, <2>4
    <3>5. ~unified => \A v \in Writers : writer'[v].pc = "set" => InOrder(With(writer[v]))'
      BY <3>2, <3>3, <3>4 DEF InOrder, With, normalize_cfs_quota
    <3> QED
      BY <1>3, <3>1, <3>5 DEF BwInv, SharesOK, InOrder
  <2> QED
    BY <2>6, <2>7, <2>8, <2>9, <2>10 DEF BwInv
<1> QED
  BY <1>4, <1>5
--------------------------------------------------------------------------------
\* Every step keeps the invariant.
LEMMA BwStepInv == BwInv /\ [BwNext]_bandvars => BwInv'
<1> SUFFICES ASSUME BwInv, [BwNext]_bandvars PROVE BwInv'
  OBVIOUS
<1>1. CASE about = "clamps" /\ ClampStep
  BY <1>1, ClampStepInv
<1>2. CASE about = "bandwidth" /\ BandwidthStep
  <2>1. CASE FileStep
    BY <1>2, <2>1, CallsInv DEF FileStep, QuotaWrite, PeriodWrite, MaxWrite
  <2>2. CASE \E g \in Groups : BwCssAlloc(g) \/ BwCssReleased(g)
    BY <2>2, BwAllocInv, BwReleasedInv
  <2>3. CASE UNCHANGED <<calls, bwvars>> /\ (WalkStep \/ \E g \in Groups : CssOnline(g))
    <3>1. UNCHANGED bwvars
      BY <2>3
    <3> QED
      BY <2>3, <3>1, WalkStepInv
  <2>4. CASE \E w \in Writers : GetOnlineCpus(w) \/ CfsSchedulable(w) \/ SetBandwidth(w) \/ Unlock(w)
                                \/ \E i \in CPUs : EachCpu(w, i)
    BY <2>4, GetOnlineCpusInv, CfsSchedulableInv, SetBandwidthInv, UnlockInv, EachCpuInv
  <2>5. CASE \E g \in Groups : PeriodTimer(g) \/ \E i \in CPUs : Throttle(g, i)
    BY <2>5, PeriodTimerInv, ThrottleInv
  <2>6. CASE \E i \in CPUs : Offline(i) \/ Online(i)
    BY <2>6, OfflineInv, OnlineInv
  <2> QED
    BY <1>2, <2>1, <2>2, <2>3, <2>4, <2>5, <2>6 DEF BandwidthStep
<1>3. CASE UNCHANGED bandvars
  <2>1. UNCHANGED bwvars /\ group' = group
    BY <1>3 DEF bandvars, vars, tgs
  <2>2. /\ Chain' /\ group' \in [Groups -> {"none", "alloc", "online"}] /\ Listed \subseteq Listed'
    BY <2>1 DEF BwInv, Tree, Chain, BwTypeOK, Listed
  <2> QED
    BY <2>1, <2>2, BwUnchanged
<1> QED
  BY <1>1, <1>2, <1>3 DEF BwNext

\* The inductive invariant of the quotas.
THEOREM BandwidthInvariant == BwSpec => []BwInv
  BY BwInitInv, BwStepInv, PTL DEF BwSpec

\* For any number of groups, CPUs and writers: the shares of v1 stay in the order of the
\* hierarchy, and the CPUs, the timer and the static key follow the quotas.
THEOREM BandwidthKeptCorrect == BwSpec => []BandwidthKept
  BY BandwidthInvariant, InvGivesKept, PTL
--------------------------------------------------------------------------------
(* The clamps of tasks and runqueue *)

Lives == {"unborn", "dup", "linked", "asleep", "queued"}
Walks == {"write", "online"}
States == {"none", "alloc", "online"}
Vars == {"min", "max", "rt"}
Alive == {"asleep", "queued"}

\* Clamp without the bound of the counters.
Shape == [value : [Tasks -> [Ids -> Values]], active : [Tasks -> [Ids -> BOOLEAN]],
          tasks : [Ids -> [Buckets -> Nat]], bucket : [Ids -> [Buckets -> Values]],
          rq : [Ids -> Values], idle : BOOLEAN, warn : BOOLEAN]

WriteState ==
    [pc : {"none", "walk"}]
    \cup [pc : {"mutex"}, g : Groups, id : Ids, util : Values]
    \cup [pc : {"check"}, var : Vars, old : Nat]
    \cup [pc : {"sync"}, todo : SUBSET Tasks]

WalkState == [at : Groups \cup {None}, eff : {None} \cup [Ids -> Values], todo : SUBSET (Tasks \X Ids)]

\* The types of everything but the clamps of the runqueue.
Types ==
    /\ used \in BOOLEAN /\ calls \in 0..MaxCalls
    /\ life \in [Tasks -> Lives] /\ rt \in [Tasks -> BOOLEAN]
    /\ req \in [Tasks -> [Ids -> Nat]] /\ user \in [Tasks -> [Ids -> BOOLEAN]]
    /\ css \in [Tasks -> Groups] /\ tg \in [Tasks -> Groups]
    /\ group \in [Groups -> States]
    /\ tgReq \in [Groups -> [Ids -> Values]] /\ tgEff \in [Groups -> [Ids -> Values]]
    /\ sysctl \in [Vars -> Nat] /\ default \in [Ids -> Values]
    /\ attr \in {None} \cup [p : Tasks, id : Ids, value : Requests]
    /\ write \in WriteState /\ walk \in [Walks -> WalkState]
    /\ raced \in SUBSET {"idle", "online", "refused"}

\* A walk that has computed clamps has no task left to do and will store them.
WalksOK == \A w \in Walks : walk[w].eff # None => walk[w].at # None /\ walk[w].todo = {}

TypeInv == Types /\ WalksOK

\* The tasks counted in a bucket of clamps c.
Holding(c, id, b) == {t \in Tasks : c.active[t][id] /\ uclamp_bucket_id(c.value[t][id]) = b}

\* The buckets of one clamp are right: what they count, the highest clamp of each, which
\* belongs to the bucket, and the clamp of the runqueue above them.
Counts(c, id) ==
    /\ \A b \in Buckets : c.tasks[id][b] = Cardinality(Holding(c, id, b))
    /\ \A t \in Tasks : c.active[t][id] => c.value[t][id] <= c.bucket[id][uclamp_bucket_id(c.value[t][id])]
    /\ \A b \in Buckets : c.tasks[id][b] > 0 =>
         uclamp_bucket_id(c.bucket[id][b]) = b /\ c.bucket[id][b] <= c.rq[id]

\* Both clamps of a task are counted, or none, and none while the runqueue is idle.
Sound(c) ==
    /\ c \in Shape /\ ~c.warn
    /\ \A id \in Ids : Counts(c, id)
    /\ \A t \in Tasks : c.active[t]["MIN"] <=> c.active[t]["MAX"]
Rests(c) == c.idle => \A t \in Tasks, id \in Ids : ~c.active[t][id]

CountInv ==
    /\ Sound(clamp) /\ ("idle" \notin raced => Rests(clamp))
    /\ \A t \in Tasks, id \in Ids : clamp.active[t][id] => used /\ life[t] = "queued"

(* Restricted *)

Ranked == \A g, h \in Groups : g < h /\ group[h] # "none" => group[g] = "online"
Places ==
    /\ group[0] = "online" /\ Ranked
    /\ \A t \in Tasks : group[css[t]] = "online" /\ group[tg[t]] = "online"
    /\ \A w \in Walks : walk[w].at # None => group[walk[w].at] # "none"
    /\ write.pc = "mutex" => write.g # 0 /\ group[write.g] = "online"
    /\ write.pc # "walk" => walk["write"] = Idling
    /\ (\E g \in Groups : group[g] = "alloc") => walk["online"] = Idling

\* The value of a sysctl before the one that is not checked yet.
Settled(var) == IF write.pc = "check" /\ write.var = var THEN write.old ELSE sysctl[var]
DefaultOK ==
    /\ default["MIN"] = Settled("min") /\ default["MAX"] = Settled("max")
    /\ Settled("min") <= Settled("max") /\ Settled("rt") <= SCALE
    /\ tgReq[0] = default

\* Both walks have a group to visit: the first that stores has lost the race.
Doomed == \A w \in Walks : walk[w].at # None

Agrees(g) == tgEff[g] = Effective(g, ParentEff(g))
GroupsOK ==
    /\ \A g \in Groups : group[g] = "online" => Agrees(g) \/ \E w \in Walks : walk[w].at = g
    /\ \A w \in Walks : walk[w].eff # None /\ (\A v \in Walks \ {w} : walk[v].at = None) =>
          walk[w].eff = Effective(walk[w].at, ParentEff(walk[w].at))

\* The clamps a task is counted with are those it has to have.
Fits(t, id) ==
    /\ clamp.value[t][id] <= default[id]
    /\ tg[t] # 0 => clamp.value[t][id] <= tgEff[tg[t]][id]
    /\ user[t][id] => clamp.value[t][id] = uclamp_eff_get(t, id)
\* The walk has not changed the clamp of this group yet, and will.
Ahead(g, id) == IF g = 0 THEN tgEff[0][id] # default[id] ELSE tgEff[g][id] > default[id]
Waits(t, id) == \E w \in Walks : <<t, id>> \in walk[w].todo
Held(t, id) == clamp.active[t][id] /\ css[t] = tg[t] => Fits(t, id) \/ Ahead(tg[t], id) \/ Waits(t, id)
TasksOK == ~Doomed => \A t \in Tasks, id \in Ids : Held(t, id)

\* A real-time task has the default of its class, or the writer will give it.
RtHas(t) ==
    CASE write.pc = "check" /\ write.var = "rt" ->
            req[t]["MIN"] = write.old \/ (req[t]["MIN"] = sysctl["rt"] /\ sysctl["rt"] <= SCALE)
      [] write.pc = "sync" -> req[t]["MIN"] = sysctl["rt"] \/ t \in write.todo
      [] OTHER -> req[t]["MIN"] = sysctl["rt"]
RtOK == \A t \in Tasks : rt[t] /\ ~user[t]["MIN"] /\ life[t] \in Alive => RtHas(t)

RestrictInv == Places /\ DefaultOK /\ (raced = {} => GroupsOK /\ TasksOK /\ RtOK)

--------------------------------------------------------------------------------
\* Every step of the clamps; the steps of the quotas take some of them or none.
AnyStep ==
    \/ TaskStep \/ WalkStep \/ CallStep \/ CpuUclampStore \/ SysctlCheck \/ WriteDone
    \/ \E g \in Groups : CssOnline(g)
StepVars == <<used, task, clamp, tgs, sys, attr, write, walk, raced>>

\* The constants of the groups, one by one.
LEMMA Sizes ==
    /\ Depth \in Nat /\ SCALE \in Nat /\ BUCKETS \in Nat /\ MaxCalls \in Nat
    /\ Depth > 0 /\ SCALE > 0 /\ BUCKETS > 0 /\ BUCKETS <= SCALE
    /\ 0 \in Groups /\ Groups \subseteq Nat /\ None \notin Groups
    /\ \A g \in Groups \ {0} : g - 1 \in Groups
    /\ \A g \in Groups : g < Depth => g + 1 \in Groups
<1>1. {Depth, SCALE, BUCKETS, MaxCalls} \subseteq Nat \ {0}
  BY GroupsAssumption
<1>2. /\ Depth \in Nat /\ SCALE \in Nat /\ BUCKETS \in Nat /\ MaxCalls \in Nat
      /\ Depth > 0 /\ SCALE > 0 /\ BUCKETS > 0
  BY <1>1
<1> QED
  BY <1>2, GroupsAssumption DEF Groups

\* What the callers write.
LEMMA Inputs ==
    /\ \A v \in Percents : v \in 0..10000
    /\ \A v \in SysctlValues : v \in Nat
    /\ \A v \in Requests : v # None => v \in Values /\ v \in Nat
<1>1. ASSUME NEW v \in Percents PROVE v \in 0..10000
  BY GroupsAssumption
<1>2. ASSUME NEW v \in SysctlValues PROVE v \in Nat
  BY SMTT(30), GroupsAssumption
<1>3. ASSUME NEW v \in Requests PROVE v \in (0..SCALE) \cup {None}
  BY GroupsAssumption
<1>4. ASSUME NEW v \in Requests, v # None PROVE v \in Values /\ v \in Nat
  BY <1>3, <1>4, Sizes DEF Values
<1> QED
  BY <1>1, <1>2, <1>4

\* The smaller one of two clamps is a clamp.
LEMMA LeastType == ASSUME NEW a \in Nat, NEW b \in Values PROVE Least(a, b) \in Values
  BY Sizes DEF Least, Values

\* The effective clamps of a group are clamps,
LEMMA EffectiveType == ASSUME Types, NEW g \in Groups, NEW parent \in [Ids -> Values]
    PROVE Effective(g, parent) \in [Ids -> Values]
<1>1. ASSUME NEW id \in Ids PROVE Least(tgReq[g][id], parent[id]) \in Values
  <2>1. tgReq[g][id] \in Values /\ parent[id] \in Values
    BY DEF Types
  <2>2. tgReq[g][id] \in Nat
    BY <2>1, Sizes DEF Values
  <2> QED
    BY <2>1, <2>2, LeastType
<1> DEFINE eff == [id \in Ids |-> Least(tgReq[g][id], parent[id])]
<1>2. eff \in [Ids -> Values]
  BY <1>1
<1>3. Least(eff["MIN"], eff["MAX"]) \in Values
  BY <1>2, LeastType, Sizes DEF Values, Ids
<1> QED
  BY <1>2, <1>3 DEF Effective

\* and those of its parent,
LEMMA ParentType == ASSUME Types, NEW g \in Groups PROVE ParentEff(g) \in [Ids -> Values]
<1>1. [id \in Ids |-> SCALE] \in [Ids -> Values]
  BY Sizes DEF Values
<1> QED
  BY <1>1, Sizes DEF ParentEff, Types

\* and those of a task, whatever it asked for;
LEMMA EffType == ASSUME Types, NEW t \in Tasks PROVE Eff(t) \in [Ids -> Values]
<1>1. ASSUME NEW id \in Ids PROVE uclamp_tg_restrict(t, id) \in Nat
  <2>1. req[t][id] \in Nat /\ tgEff[tg[t]][id] \in Values
    BY <1>1 DEF Types
  <2>2. tgEff[tg[t]][id] \in Nat
    BY <2>1, Sizes DEF Values
  <2> QED
    BY <2>1, <2>2 DEF uclamp_tg_restrict
<1>2. ASSUME NEW id \in Ids PROVE uclamp_eff_get(t, id) \in Values
  <2>1. default[id] \in Values
    BY DEF Types
  <2> QED
    BY <1>1, <2>1, LeastType DEF uclamp_eff_get
<1> QED
  BY <1>2 DEF Eff

\* so is what a percentage is converted to.
LEMMA CapacityType == ASSUME NEW percent \in Percents PROVE capacity_from_percent(percent) \in Values
<1>0. percent \in 0..10000
  BY Inputs
<1>1. percent \in Nat /\ percent <= 10000
  BY <1>0
<1>2. SCALE \in Nat
  BY Sizes
<1> DEFINE x == percent * SCALE
<1>3. x \in Nat
  BY <1>1, <1>2
<1>4. x <= 10000 * SCALE
  BY <1>1, <1>2
<1> HIDE DEF x
<1>5. (x + 5000) \div 10000 \in 0..SCALE
  BY <1>2, <1>3, <1>4
<1> QED
  BY <1>5 DEF capacity_from_percent, Values, x

\* uclamp_none.
LEMMA NoneType == NoClamps \in [Ids -> Values] /\ \A id \in Ids : uclamp_none(id) \in Nat
  BY Sizes DEF NoClamps, uclamp_none, Values, Ids

\* The fields the owner of uclamp_mutex has in each of its states.
LEMMA WriteFacts == ASSUME NEW d \in WriteState
    PROVE /\ d.pc \in {"none", "mutex", "check", "walk", "sync"}
          /\ d.pc = "mutex" => d.g \in Groups /\ d.id \in Ids /\ d.util \in Values
          /\ d.pc = "check" => d.var \in Vars /\ d.old \in Nat
          /\ d.pc = "sync" => d.todo \in SUBSET Tasks
  BY DEF WriteState

\* A walk that is not under way.
LEMMA IdlingType == Idling \in WalkState
  BY DEF Idling, WalkState

\* What uclamp_reset gives.
LEMMA ResetType == ASSUME Types, NEW id \in Ids, NEW r \in BOOLEAN PROVE ResetValue(id, r) \in Nat
  BY NoneType DEF ResetValue, Types, Vars

\* What uclamp_post_fork gives.
LEMMA PostForkType == ASSUME Types, NEW t \in Tasks PROVE PostFork(t) \in [Tasks -> [Ids -> Nat]]
  BY DEF PostFork, Types, Vars, Ids

\* The types without the number of calls.
StateTypes ==
    /\ used \in BOOLEAN
    /\ life \in [Tasks -> Lives] /\ rt \in [Tasks -> BOOLEAN]
    /\ req \in [Tasks -> [Ids -> Nat]] /\ user \in [Tasks -> [Ids -> BOOLEAN]]
    /\ css \in [Tasks -> Groups] /\ tg \in [Tasks -> Groups]
    /\ group \in [Groups -> States]
    /\ tgReq \in [Groups -> [Ids -> Values]] /\ tgEff \in [Groups -> [Ids -> Values]]
    /\ sysctl \in [Vars -> Nat] /\ default \in [Ids -> Values]
    /\ attr \in {None} \cup [p : Tasks, id : Ids, value : Requests]
    /\ write \in WriteState /\ walk \in [Walks -> WalkState]
    /\ raced \in SUBSET {"idle", "online", "refused"}

\* The steps of tasks keep the types,
LEMMA TaskTypes == ASSUME TypeInv, TaskStep PROVE StateTypes' /\ WalksOK'
<1> USE DEF TypeInv, Types, StateTypes, tgs, sys, WalksOK
<1>1. ASSUME NEW t \in Tasks, Enqueue(t) \/ Dequeue(t) \/ Link(t) \/ Attach(t) PROVE StateTypes' /\ WalksOK'
  BY <1>1 DEF Enqueue, Dequeue, Link, Attach, Lives
<1>2. ASSUME NEW t \in Tasks, SchedPostFork(t) PROVE StateTypes' /\ WalksOK'
  BY <1>2, PostForkType DEF SchedPostFork, Read, Lives
<1>3. ASSUME NEW t \in Tasks, SetschedulerUclamp(t) PROVE StateTypes' /\ WalksOK'
  <2>1. attr \in [p : Tasks, id : Ids, value : Requests]
    BY <1>3 DEF SetschedulerUclamp
  <2>2. attr.value # None => attr.value \in Nat
    BY <2>1, Inputs
  <2>3. ResetValue(attr.id, rt[t]) \in Nat
    BY <2>1, ResetType
  <2>4. req' \in [Tasks -> [Ids -> Nat]] /\ user' \in [Tasks -> [Ids -> BOOLEAN]]
    BY <1>3, <2>1, <2>2, <2>3 DEF SetschedulerUclamp
  <2> QED
    BY <1>3, <2>4 DEF SetschedulerUclamp, Read
<1>4. ASSUME NEW t \in Tasks, SyncRtDefault(t) PROVE StateTypes' /\ WalksOK'
  <2>1. write' \in WriteState
    BY <1>4 DEF SyncRtDefault, WriteState
  <2> QED
    BY <1>4, <2>1, PostForkType DEF SyncRtDefault
<1>5. ASSUME NEW t \in Tasks, NEW p \in Tasks, NEW reset \in BOOLEAN, Fork(t, p, reset)
      PROVE  StateTypes' /\ WalksOK'
  <2>1. NoClamps \in [Ids -> Nat]
    BY NoneType DEF Values
  <2>2. [id \in Ids |-> user[t][id] /\ ~reset] \in [Ids -> BOOLEAN]
    OBVIOUS
  <2>3. req' \in [Tasks -> [Ids -> Nat]] /\ user' \in [Tasks -> [Ids -> BOOLEAN]] /\ rt' \in [Tasks -> BOOLEAN]
    BY <1>5, <2>1, <2>2 DEF Fork
  <2> QED
    BY <1>5, <2>3 DEF Fork, Lives
<1> QED
  BY SMTT(30), <1>1, <1>2, <1>3, <1>4, <1>5 DEF TaskStep

\* and those of the walks,
LEMMA WalkTypes == ASSUME TypeInv, WalkStep PROVE StateTypes' /\ WalksOK'
<1> USE DEF TypeInv, Types, StateTypes, tgs, sys, task
<1>1. ASSUME NEW w \in Walks, Visit(w) PROVE StateTypes' /\ WalksOK'
  <2>1. walk[w] \in WalkState /\ walk[w].at \in Groups /\ walk[w].todo = {}
    BY <1>1 DEF Visit, WalkState
  <2>2. Effective(walk[w].at, ParentEff(walk[w].at)) \in [Ids -> Values]
    BY <2>1, EffectiveType, ParentType
  <2> DEFINE e == Effective(walk[w].at, ParentEff(walk[w].at))
  <2>3. walk' = [walk EXCEPT ![w].eff = e]
    BY <1>1 DEF Visit
  <2>4. e \in [Ids -> Values]
    BY <2>2
  <2> HIDE DEF e
  <2>5. walk' \in [Walks -> WalkState]
    BY <2>1, <2>3, <2>4 DEF WalkState
  <2>6. WalksOK'
    BY <1>1, <2>1, <2>3, <2>4 DEF WalkState, WalksOK, Visit
  <2> QED
    BY <1>1, <2>5, <2>6 DEF Visit
<1>2. ASSUME NEW w \in Walks, Store(w) PROVE StateTypes' /\ WalksOK'
  <2>1. walk[w] \in WalkState /\ walk[w].at \in Groups /\ walk[w].eff \in [Ids -> Values]
    BY <1>2 DEF Store, WalkState, WalksOK
  <2>2. NextGroup(walk[w].at) \in Groups \cup {None}
    BY <2>1, Sizes DEF NextGroup
  <2>3. \A ids \in SUBSET Ids : ({t \in Tasks : Member(t, walk[w].at)} \X ids) \in SUBSET (Tasks \X Ids)
    OBVIOUS
  <2>4. \A ids \in SUBSET Ids : [at |-> NextGroup(walk[w].at), eff |-> None,
              todo |-> {t \in Tasks : Member(t, walk[w].at)} \X ids] \in WalkState
    BY <2>2, <2>3 DEF WalkState
  <2>5. PICK e \in WalkState : walk' = [walk EXCEPT ![w] = e] /\ e.eff = None
    <3>1. Changed(walk[w].at, walk[w].eff) \in SUBSET Ids
      BY DEF Changed
    <3> DEFINE ids == Changed(walk[w].at, walk[w].eff)
               n == [at |-> NextGroup(walk[w].at), eff |-> None,
                     todo |-> {t \in Tasks : Member(t, walk[w].at)} \X ids]
    <3>2. n \in WalkState /\ n.eff = None
      BY <2>4, <3>1
    <3>3. walk' = [walk EXCEPT ![w] = IF ids = {} THEN Idling ELSE n]
      BY <1>2 DEF Store
    <3>4. Idling.eff = None
      BY DEF Idling
    <3> HIDE DEF n, ids
    <3> QED
      BY <3>2, <3>3, <3>4, IdlingType
  <2>6. walk' \in [Walks -> WalkState] /\ WalksOK'
    BY <2>5 DEF WalksOK
  <2>7. tgEff' \in [Groups -> [Ids -> Values]]
    BY <1>2, <2>1 DEF Store
  <2> QED
    BY <1>2, <2>6, <2>7 DEF Store
<1>3. ASSUME NEW w \in Walks, NEW t \in Tasks, NEW id \in Ids, UpdateActive(w, t, id)
      PROVE  StateTypes' /\ WalksOK'
  <2>1. walk' = [walk EXCEPT ![w].todo = @ \ {<<t, id>>}] /\ walk[w] \in WalkState
    BY <1>3 DEF UpdateActive
  <2>2. walk' \in [Walks -> WalkState] /\ WalksOK'
    BY <2>1 DEF WalkState, WalksOK
  <2> QED
    BY <1>3, <2>2 DEF UpdateActive
<1> QED
  BY <1>1, <1>2, <1>3 DEF WalkStep, Walks

\* and the calls,
LEMMA CallTypes == ASSUME TypeInv, CallStep PROVE StateTypes' /\ WalksOK'
<1> USE DEF TypeInv, Types, StateTypes, tgs, sys, task, WalksOK
<1>1. ASSUME NEW t \in Tasks, SetPolicy(t) PROVE StateTypes' /\ WalksOK'
  <2>1. [id \in Ids |-> IF user[t][id] THEN req[t][id] ELSE ResetValue(id, ~rt[t])] \in [Ids -> Nat]
    <3>1. \A id \in Ids : ResetValue(id, ~rt[t]) \in Nat
      <4> HIDE DEF Types
      <4> QED
        BY ResetType DEF TypeInv
    <3> QED
      BY <3>1
  <2>2. req' \in [Tasks -> [Ids -> Nat]]
    BY <1>1, <2>1 DEF SetPolicy
  <2> QED
    BY <1>1, <2>2 DEF SetPolicy, Read
<1>2. ASSUME NEW t \in Tasks, NEW g \in Groups, CanAttach(t, g) PROVE StateTypes' /\ WalksOK'
  BY <1>2 DEF CanAttach
<1>3. ASSUME NEW t \in Tasks, NEW id \in Ids, NEW v \in Requests, UclampValidate(t, id, v)
      PROVE  StateTypes' /\ WalksOK'
  BY <1>3 DEF UclampValidate
<1>4. ASSUME NEW g \in Groups, CssAlloc(g) PROVE StateTypes' /\ WalksOK'
  <2>1. g - 1 \in Groups
    BY <1>4, Sizes DEF CssAlloc
  <2> QED
    BY <1>4, <2>1, NoneType DEF CssAlloc, States
<1>5. ASSUME NEW g \in Groups, CssReleased(g) PROVE StateTypes' /\ WalksOK'
  BY <1>5 DEF CssReleased, States
<1>6. ASSUME NEW g \in Groups, NEW id \in Ids, NEW percent \in Percents, CpuUclampWrite(g, id, percent)
      PROVE  StateTypes' /\ WalksOK'
  <2>1. write' \in WriteState
    BY <1>6, CapacityType DEF CpuUclampWrite, WriteState
  <2> QED
    BY <1>6, <2>1 DEF CpuUclampWrite
<1>7. ASSUME NEW var \in Vars, NEW v \in SysctlValues, SysctlWrite(var, v) PROVE StateTypes' /\ WalksOK'
  <2>1. v \in Nat
    BY Inputs
  <2>2. write' \in WriteState
    BY <1>7 DEF SysctlWrite, WriteState
  <2> QED
    BY <1>7, <2>1, <2>2 DEF SysctlWrite
<1> QED
  BY <1>1, <1>2, <1>3, <1>4, <1>5, <1>6, <1>7 DEF CallStep, Vars

\* and what follows a write or the making of a group.
LEMMA OtherTypes ==
    ASSUME TypeInv, Places, CpuUclampStore \/ SysctlCheck \/ WriteDone \/ \E g \in Groups : CssOnline(g)
    PROVE  StateTypes' /\ WalksOK'
<1> USE DEF TypeInv, Types, StateTypes, tgs, sys, task
<1>1. \A k \in {"none", "walk"} : [pc |-> k] \in WriteState
  BY DEF WriteState
<1>2. ASSUME NEW w \in Walks, NEW g \in Groups, walk[w] = Idling, walk' = [walk EXCEPT ![w].at = g]
      PROVE  walk' \in [Walks -> WalkState] /\ WalksOK'
  BY <1>2, Sizes DEF WalkState, WalksOK, Idling
<1>3. CASE CpuUclampStore
  <2>1. write.g \in Groups /\ write.id \in Ids /\ write.util \in Values
    BY <1>3, WriteFacts DEF CpuUclampStore
  <2>2. walk' \in [Walks -> WalkState] /\ WalksOK'
    BY <1>2, <1>3, <2>1 DEF CpuUclampStore, Places, Walks
  <2> QED
    BY <1>1, <1>3, <2>1, <2>2 DEF CpuUclampStore
<1>4. CASE SysctlCheck
  <2>1. write.var \in Vars /\ write.old \in Nat /\ walk["write"] = Idling
    BY <1>4, WriteFacts DEF SysctlCheck, Places
  <2>2. sysctl' \in [Vars -> Nat]
    BY <1>4, <2>1 DEF SysctlCheck
  <2>3. default' \in [Ids -> Values]
    <3>1. \/ default' = default
          \/ /\ default' = [MIN |-> sysctl["min"], MAX |-> sysctl["max"]]
             /\ sysctl["min"] <= sysctl["max"] /\ sysctl["max"] <= SCALE
      BY <1>4, Sizes DEF SysctlCheck, Vars
    <3>2. sysctl["min"] \in Nat /\ sysctl["max"] \in Nat
      BY DEF Vars
    <3>3. sysctl["min"] <= sysctl["max"] /\ sysctl["max"] <= SCALE =>
             sysctl["min"] \in Values /\ sysctl["max"] \in Values
      BY <3>2, Sizes DEF Values
    <3> QED
      BY <3>1, <3>3 DEF Ids
  <2>4. tgReq' \in [Groups -> [Ids -> Values]]
    BY <1>4, <2>3, Sizes DEF SysctlCheck
  <2>5. write' \in WriteState
    <3>1. Linked \in SUBSET Tasks
      BY DEF Linked
    <3>2. [pc |-> "sync", todo |-> Linked] \in WriteState
      BY <3>1 DEF WriteState
    <3> QED
      BY <1>1, <1>4, <3>2 DEF SysctlCheck
  <2>6. walk' \in [Walks -> WalkState] /\ WalksOK'
    <3>1. walk' = walk \/ walk' = [walk EXCEPT !["write"].at = 0]
      BY <1>4 DEF SysctlCheck
    <3>2. CASE walk' = walk
      BY <3>2 DEF WalksOK
    <3>3. CASE walk' = [walk EXCEPT !["write"].at = 0]
      BY <1>2, <2>1, <3>3, Sizes DEF Walks
    <3> QED
      BY <3>1, <3>2, <3>3
  <2>7. used' \in BOOLEAN
    BY <1>4 DEF SysctlCheck
  <2> QED
    BY <1>4, <2>2, <2>3, <2>4, <2>5, <2>6, <2>7 DEF SysctlCheck
<1>5. CASE WriteDone
  BY <1>1, <1>5 DEF WriteDone, WalksOK
<1>6. ASSUME NEW g \in Groups, CssOnline(g) PROVE StateTypes' /\ WalksOK'
  <2>1. walk' \in [Walks -> WalkState] /\ WalksOK'
    BY <1>2, <1>6 DEF CssOnline, Places, Walks
  <2> QED
    BY <1>6, <2>1 DEF CssOnline, States
<1> QED
  BY <1>3, <1>4, <1>5, <1>6
--------------------------------------------------------------------------------
(* The buckets *)

\* Division is monotone.
LEMMA DivFacts == ASSUME NEW b \in Nat, b > 0
    PROVE /\ \A a \in Nat : a \div b \in Nat
          /\ \A a, c \in Nat : a <= c => a \div b <= c \div b
          /\ \A a \in Nat : a >= b => a \div b > 0
<1>1. ASSUME NEW a \in Nat, a >= b PROVE a \div b > 0
  BY <1>1
<1>2. ASSUME NEW a \in Nat, NEW c \in Nat, a <= c PROVE a \div b <= c \div b
  BY <1>2
<1>3. ASSUME NEW a \in Nat PROVE a \div b \in Nat
  OBVIOUS
<1> QED
  BY <1>1, <1>2, <1>3

\* The buckets divide the values, in their order.
LEMMA BucketFacts ==
    /\ \A v \in Values : uclamp_bucket_id(v) \in Buckets
    /\ \A u, v \in Values : uclamp_bucket_id(u) < uclamp_bucket_id(v) => u < v
<1> DEFINE d == (2 * SCALE + BUCKETS) \div (2 * BUCKETS)
<1>1. d \in Nat /\ d > 0
  <2>1. 2 * SCALE + BUCKETS \in Nat /\ 2 * BUCKETS \in Nat /\ 2 * BUCKETS > 0
        /\ 2 * SCALE + BUCKETS >= 2 * BUCKETS
    BY Sizes
  <2> QED
    BY <2>1, DivFacts
<1>2. \A v \in Values : uclamp_bucket_id(v) = Least(v \div d, BUCKETS - 1)
  BY DEF uclamp_bucket_id
<1> HIDE DEF d
<1>3. ASSUME NEW v \in Values PROVE uclamp_bucket_id(v) \in Buckets
  <2>1. v \div d \in Nat
    BY <1>1, DivFacts, Sizes DEF Values
  <2> QED
    BY <1>2, <2>1, Sizes DEF Least, Buckets
<1>4. ASSUME NEW u \in Values, NEW v \in Values, uclamp_bucket_id(u) < uclamp_bucket_id(v) PROVE u < v
  <2>1. u \in Nat /\ v \in Nat
    BY Sizes DEF Values
  <2>2. SUFFICES ASSUME v <= u PROVE FALSE
    BY <2>1
  <2>3. v \div d <= u \div d /\ v \div d \in Nat /\ u \div d \in Nat
    BY <1>1, <2>1, <2>2, DivFacts
  <2> QED
    BY <1>2, <1>4, <2>3, Sizes DEF Least
<1> QED
  BY <1>3, <1>4

\* The fields of the clamps.
LEMMA ShapeFacts == ASSUME NEW c \in Shape
    PROVE /\ c.value \in [Tasks -> [Ids -> Values]] /\ c.active \in [Tasks -> [Ids -> BOOLEAN]]
          /\ c.tasks \in [Ids -> [Buckets -> Nat]] /\ c.bucket \in [Ids -> [Buckets -> Values]]
          /\ c.rq \in [Ids -> Values] /\ c.idle \in BOOLEAN /\ c.warn \in BOOLEAN
  BY DEF Shape

\* A bucket has no more tasks than there are.
LEMMA HoldingFinite == ASSUME NEW c, NEW id, NEW b
    PROVE /\ IsFiniteSet(Holding(c, id, b)) /\ Cardinality(Holding(c, id, b)) \in Nat
          /\ Cardinality(Holding(c, id, b)) <= Cardinality(Tasks)
          /\ Cardinality(Holding(c, id, b)) = 0 <=> Holding(c, id, b) = {}
<1>1. IsFiniteSet(Tasks)
  BY GroupsAssumption
<1>2. Holding(c, id, b) \subseteq Tasks
  BY DEF Holding
<1> QED
  BY <1>1, <1>2, FS_Subset, FS_CardinalityType, FS_EmptySet

\* One clamp is as it was.
Same(c, r, id) ==
    /\ \A t \in Tasks : (r.active[t][id] <=> c.active[t][id]) /\ r.value[t][id] = c.value[t][id]
    /\ r.tasks[id] = c.tasks[id] /\ r.bucket[id] = c.bucket[id] /\ r.rq[id] = c.rq[id]

\* A clamp that is as it was stays right.
LEMMA SameCounts == ASSUME NEW c, NEW r, NEW id, Same(c, r, id), Counts(c, id) PROVE Counts(r, id)
<1>1. \A b : Holding(r, id, b) = Holding(c, id, b)
  BY DEF Same, Holding
<1> QED
  BY <1>1 DEF Same, Counts

\* uclamp_rq_inc_id, field by field.
LEMMA IncFields ==
    ASSUME NEW c \in Shape, NEW t \in Tasks, NEW id \in Ids, NEW v \in Values,
           NEW r, r = RqIncId(c, t, id, v), NEW b, b = uclamp_bucket_id(v)
    PROVE  /\ r \in Shape /\ r.idle = c.idle /\ r.warn = c.warn
           /\ \A s \in Tasks, j \in Ids :
                /\ r.value[s][j] = IF s = t /\ j = id THEN v ELSE c.value[s][j]
                /\ r.active[s][j] <=> (s = t /\ j = id) \/ c.active[s][j]
           /\ r.tasks[id][b] = c.tasks[id][b] + 1
           /\ r.bucket[id][b] = IF c.tasks[id][b] = 0 \/ v > c.bucket[id][b] THEN v ELSE c.bucket[id][b]
           /\ \A k \in Buckets \ {b} : r.tasks[id][k] = c.tasks[id][k] /\ r.bucket[id][k] = c.bucket[id][k]
           /\ r.rq[id] = IF c.idle \/ v > c.rq[id] THEN v ELSE c.rq[id]
           /\ \A j \in Ids \ {id} : r.tasks[j] = c.tasks[j] /\ r.bucket[j] = c.bucket[j] /\ r.rq[j] = c.rq[j]
<1> DEFINE tasks == c.tasks[id][b] + 1
           q == IF c.idle THEN v ELSE c.rq[id]
           V == [c.value EXCEPT ![t][id] = v]
           A == [c.active EXCEPT ![t][id] = TRUE]
           N == [c.tasks EXCEPT ![id][b] = tasks]
           B == [c.bucket EXCEPT ![id][b] = IF tasks = 1 \/ v > @ THEN v ELSE @]
           Q == [c.rq EXCEPT ![id] = IF v > q THEN v ELSE q]
<1>1. /\ c.value \in [Tasks -> [Ids -> Values]] /\ c.active \in [Tasks -> [Ids -> BOOLEAN]]
      /\ c.tasks \in [Ids -> [Buckets -> Nat]] /\ c.bucket \in [Ids -> [Buckets -> Values]]
      /\ c.rq \in [Ids -> Values] /\ c.idle \in BOOLEAN /\ c.warn \in BOOLEAN /\ b \in Buckets
  BY ShapeFacts, BucketFacts
<1>2. c.tasks[id][b] \in Nat
  BY <1>1
<1>3. r = [c EXCEPT !.value = V, !.active = A, !.tasks = N, !.bucket = B, !.rq = Q]
  BY DEF RqIncId
<1>4. V \in [Tasks -> [Ids -> Values]] /\ A \in [Tasks -> [Ids -> BOOLEAN]]
  BY <1>1
<1>5. N \in [Ids -> [Buckets -> Nat]] /\ B \in [Ids -> [Buckets -> Values]] /\ Q \in [Ids -> Values]
  BY <1>1
<1>6. r \in Shape
  <2> HIDE DEF V, A, N, B, Q
  <2> QED
    BY <1>3, <1>4, <1>5 DEF Shape
<1>7. /\ r.value = V /\ r.active = A /\ r.tasks = N /\ r.bucket = B /\ r.rq = Q
      /\ r.idle = c.idle /\ r.warn = c.warn
  <2> HIDE DEF V, A, N, B, Q
  <2> QED
    BY <1>3 DEF Shape
<1>8. \A s \in Tasks, j \in Ids : V[s][j] = IF s = t /\ j = id THEN v ELSE c.value[s][j]
  BY <1>1
<1>9. ASSUME NEW s \in Tasks, NEW j \in Ids PROVE A[s][j] <=> (s = t /\ j = id) \/ c.active[s][j]
  <2>1. A[t] = [c.active[t] EXCEPT ![id] = TRUE] /\ (s # t => A[s] = c.active[s])
    BY <1>1
  <2>2. A[t][id] = TRUE /\ (j # id => A[t][j] = c.active[t][j])
    BY <1>1, <2>1
  <2> QED
    BY <2>1, <2>2
<1>10. N[id][b] = c.tasks[id][b] + 1 /\ \A k \in Buckets \ {b} : N[id][k] = c.tasks[id][k]
  BY <1>1
<1>11. /\ B[id][b] = IF c.tasks[id][b] = 0 \/ v > c.bucket[id][b] THEN v ELSE c.bucket[id][b]
       /\ \A k \in Buckets \ {b} : B[id][k] = c.bucket[id][k]
  <2>1. tasks = 1 <=> c.tasks[id][b] = 0
    BY <1>2
  <2>2. B[id] = [c.bucket[id] EXCEPT ![b] = IF tasks = 1 \/ v > @ THEN v ELSE @]
    BY <1>1
  <2> HIDE DEF tasks, B
  <2> QED
    BY <1>1, <2>1, <2>2
<1>12. Q[id] = IF c.idle \/ v > c.rq[id] THEN v ELSE c.rq[id]
  BY <1>1, Sizes DEF Values
<1>13. \A j \in Ids \ {id} : N[j] = c.tasks[j] /\ B[j] = c.bucket[j] /\ Q[j] = c.rq[j]
  BY <1>1
<1> HIDE DEF V, A, N, B, Q
<1> QED
  BY <1>6, <1>7, <1>8, <1>9, <1>10, <1>11, <1>12, <1>13

\* A task is added to a bucket, or was the first since the runqueue was idle.
LEMMA IncCounts ==
    ASSUME NEW c \in Shape, NEW t \in Tasks, NEW id \in Ids, NEW v \in Values, ~c.active[t][id],
           Counts(c, id), c.idle => \A s \in Tasks : ~c.active[s][id],
           NEW r, r = RqIncId(c, t, id, v)
    PROVE  /\ r \in Shape /\ r.idle = c.idle /\ r.warn = c.warn /\ Counts(r, id)
           /\ r.active[t][id] /\ r.value[t][id] = v
           /\ \A s \in Tasks, j \in Ids : s # t \/ j # id =>
                 (r.active[s][j] <=> c.active[s][j]) /\ r.value[s][j] = c.value[s][j]
           /\ \A j \in Ids \ {id} : Same(c, r, j)
<1>1. PICK b : b = uclamp_bucket_id(v)
  OBVIOUS
<1>2. /\ r \in Shape /\ r.idle = c.idle /\ r.warn = c.warn
      /\ \A s \in Tasks, j \in Ids :
            /\ r.value[s][j] = IF s = t /\ j = id THEN v ELSE c.value[s][j]
            /\ r.active[s][j] <=> (s = t /\ j = id) \/ c.active[s][j]
      /\ r.tasks[id][b] = c.tasks[id][b] + 1
      /\ r.bucket[id][b] = IF c.tasks[id][b] = 0 \/ v > c.bucket[id][b] THEN v ELSE c.bucket[id][b]
      /\ \A k \in Buckets \ {b} : r.tasks[id][k] = c.tasks[id][k] /\ r.bucket[id][k] = c.bucket[id][k]
      /\ r.rq[id] = IF c.idle \/ v > c.rq[id] THEN v ELSE c.rq[id]
      /\ \A j \in Ids \ {id} : r.tasks[j] = c.tasks[j] /\ r.bucket[j] = c.bucket[j] /\ r.rq[j] = c.rq[j]
  BY SMTT(30), <1>1, IncFields
<1>3. b \in Buckets
  BY <1>1, BucketFacts
<1> USE ShapeFacts
<1>4. /\ r.active[t][id] /\ r.value[t][id] = v
      /\ \A s \in Tasks, j \in Ids : s # t \/ j # id =>
            (r.active[s][j] <=> c.active[s][j]) /\ r.value[s][j] = c.value[s][j]
  BY <1>2
<1>5. \A j \in Ids \ {id} : Same(c, r, j)
  BY <1>2, <1>4 DEF Same
<1>6. /\ r.tasks[id][b] = c.tasks[id][b] + 1 /\ c.tasks[id][b] \in Nat
      /\ r.bucket[id][b] = IF c.tasks[id][b] = 0 \/ v > c.bucket[id][b] THEN v ELSE c.bucket[id][b]
      /\ r.rq[id] = IF c.idle \/ v > c.rq[id] THEN v ELSE c.rq[id]
      /\ \A k \in Buckets : k # b => r.tasks[id][k] = c.tasks[id][k] /\ r.bucket[id][k] = c.bucket[id][k]
      /\ \A k \in Buckets : c.tasks[id][k] \in Nat /\ c.bucket[id][k] \in Values /\ r.bucket[id][k] \in Values
      /\ c.rq[id] \in Values /\ r.rq[id] \in Values
  BY <1>2, <1>3
<1>7. /\ Holding(r, id, b) = Holding(c, id, b) \cup {t} /\ t \notin Holding(c, id, b)
      /\ \A k \in Buckets : k # b => Holding(r, id, k) = Holding(c, id, k)
  <2>1. \A s \in Tasks : s \in Holding(r, id, b) <=> s \in Holding(c, id, b) \/ s = t
    BY <1>1, <1>4 DEF Holding
  <2>2. \A k \in Buckets, s \in Tasks : k # b => (s \in Holding(r, id, k) <=> s \in Holding(c, id, k))
    BY <1>1, <1>4 DEF Holding
  <2> QED
    BY <2>1, <2>2 DEF Holding
<1>8. \A k \in Buckets : r.tasks[id][k] = Cardinality(Holding(r, id, k))
  <2>1. Cardinality(Holding(r, id, b)) = Cardinality(Holding(c, id, b)) + 1
    <3>1. IsFiniteSet(Holding(c, id, b))
      BY HoldingFinite
    <3> QED
      BY <1>7, <3>1, FS_AddElement
  <2> QED
    BY <1>3, <1>6, <1>7, <2>1 DEF Counts
<1>9. ASSUME NEW s \in Tasks, r.active[s][id]
      PROVE  r.value[s][id] <= r.bucket[id][uclamp_bucket_id(r.value[s][id])]
  <2>1. r.value[s][id] \in Values /\ uclamp_bucket_id(r.value[s][id]) \in Buckets
    <3>1. r.value \in [Tasks -> [Ids -> Values]]
      BY <1>2
    <3>2. r.value[s][id] \in Values
      BY <3>1
    <3> QED
      BY <3>2, BucketFacts
  <2>2. CASE s = t
    BY <1>3, <1>4, <1>6, <2>2, <1>1, Sizes DEF Values
  <2>3. CASE s # t
    <3>1. c.active[s][id] /\ r.value[s][id] = c.value[s][id]
      BY <1>4, <1>9, <2>3
    <3>2. c.value[s][id] <= c.bucket[id][uclamp_bucket_id(c.value[s][id])]
      BY <3>1 DEF Counts
    <3>3. CASE uclamp_bucket_id(c.value[s][id]) = b
      <4>1. s \in Holding(c, id, b)
        BY <3>1, <3>3 DEF Holding
      <4>2. c.tasks[id][b] # 0
        BY <1>3, <4>1, HoldingFinite DEF Counts
      <4> QED
        BY <1>3, <1>6, <2>1, <3>1, <3>2, <3>3, <4>2, Sizes DEF Values
    <3>4. CASE uclamp_bucket_id(c.value[s][id]) # b
      BY <1>6, <2>1, <3>1, <3>2, <3>4
    <3> QED
      BY <3>3, <3>4
  <2> QED
    BY <2>2, <2>3
<1>10. ASSUME NEW k \in Buckets, r.tasks[id][k] > 0
       PROVE  uclamp_bucket_id(r.bucket[id][k]) = k /\ r.bucket[id][k] <= r.rq[id]
  <2>1. \A j \in Buckets : c.tasks[id][j] > 0 =>
            uclamp_bucket_id(c.bucket[id][j]) = j /\ c.bucket[id][j] <= c.rq[id]
    BY DEF Counts
  <2>2. c.idle => \A j \in Buckets : c.tasks[id][j] = 0
    <3>1. c.idle => \A j \in Buckets : Holding(c, id, j) = {}
      BY DEF Holding
    <3> QED
      BY <3>1, HoldingFinite DEF Counts
  <2>3. CASE k = b
    <3>1. CASE c.tasks[id][b] = 0
      BY <1>3, <1>6, <2>3, <3>1, <1>1, Sizes DEF Values
    <3>2. CASE c.tasks[id][b] # 0
      BY <1>3, <1>6, <2>1, <2>2, <2>3, <3>2, <1>1, Sizes DEF Values
    <3> QED
      BY <3>1, <3>2
  <2>4. CASE k # b
    BY <1>6, <1>10, <2>1, <2>2, <2>4, Sizes DEF Values
  <2> QED
    BY <2>3, <2>4
<1>11. Counts(r, id)
  BY <1>8, <1>9, <1>10 DEF Counts
<1> QED
  BY <1>2, <1>4, <1>5, <1>11

\* The highest bucket that has tasks.
LEMMA MaxBucket == ASSUME NEW S \in SUBSET Buckets, S # {}
    PROVE Max(S) \in S /\ \A b \in S : b <= Max(S)
<1> DEFINE D == {BUCKETS - b : b \in S}
<1>0. \A b \in S : b \in Nat /\ b < BUCKETS
  BY Sizes DEF Buckets
<1>1. D \in SUBSET Nat /\ D # {}
  <2>1. \A b \in S : BUCKETS - b \in Nat
    BY <1>0, Sizes
  <2> QED
    BY <2>1
<1>2. PICK x \in D : \A y \in D : ~(y < x)
  BY <1>1, LeastMember
<1>3. PICK m \in S : x = BUCKETS - m
  OBVIOUS
<1>4. \A b \in S : m >= b
  <2>1. ASSUME NEW b \in S PROVE m >= b
    <3>1. BUCKETS - b \in D
      OBVIOUS
    <3>2. ~(BUCKETS - b < BUCKETS - m)
      BY <1>2, <1>3, <3>1
    <3> QED
      BY <1>0, <3>2, Sizes
  <2> QED
    BY <2>1
<1>5. \E m1 \in S : \A b \in S : m1 >= b
  BY <1>4
<1>6. Max(S) \in S /\ \A b \in S : Max(S) >= b
  BY <1>5 DEF Max
<1> QED
  BY <1>6, Sizes DEF Buckets

\* uclamp_rq_dec_id up to uclamp_rq_max_value, for a task that is counted.
Dropped(c, t, id) ==
    LET v == c.value[t][id]
        b == uclamp_bucket_id(v)
        left == IF c.tasks[id][b] = 0 THEN 0 ELSE c.tasks[id][b] - 1
    IN  [c EXCEPT !.tasks[id][b] = left, !.active[t][id] = FALSE,
                  !.warn = @ \/ c.tasks[id][b] = 0 \/ (left = 0 /\ c.bucket[id][b] > c.rq[id])]

\* uclamp_rq_dec_id of a counted task, field by field.
LEMMA DecFields ==
    ASSUME NEW c \in Shape, NEW t \in Tasks, NEW id \in Ids,
           NEW b, b = uclamp_bucket_id(c.value[t][id]), c.tasks[id][b] > 0,
           c.bucket[id][b] <= c.rq[id], NEW d, d = Dropped(c, t, id)
    PROVE  /\ d \in Shape /\ d.idle = c.idle /\ d.warn = c.warn
           /\ \A s \in Tasks, j \in Ids :
                /\ d.value[s][j] = c.value[s][j]
                /\ d.active[s][j] <=> ~(s = t /\ j = id) /\ c.active[s][j]
           /\ d.tasks[id][b] = c.tasks[id][b] - 1
           /\ \A k \in Buckets \ {b} : d.tasks[id][k] = c.tasks[id][k]
           /\ d.bucket = c.bucket /\ d.rq = c.rq
           /\ \A j \in Ids \ {id} : d.tasks[j] = c.tasks[j]
<1> DEFINE left == IF c.tasks[id][b] = 0 THEN 0 ELSE c.tasks[id][b] - 1
           A == [c.active EXCEPT ![t][id] = FALSE]
           N == [c.tasks EXCEPT ![id][b] = left]
           W == c.warn \/ c.tasks[id][b] = 0 \/ (left = 0 /\ c.bucket[id][b] > c.rq[id])
<1>1. /\ c.value \in [Tasks -> [Ids -> Values]] /\ c.active \in [Tasks -> [Ids -> BOOLEAN]]
      /\ c.tasks \in [Ids -> [Buckets -> Nat]] /\ c.bucket \in [Ids -> [Buckets -> Values]]
      /\ c.rq \in [Ids -> Values] /\ c.idle \in BOOLEAN /\ c.warn \in BOOLEAN
  BY ShapeFacts
<1>2. b \in Buckets /\ left \in Nat /\ left = c.tasks[id][b] - 1
  <2>1. c.value[t][id] \in Values
    BY <1>1
  <2>2. b \in Buckets
    BY <2>1, BucketFacts
  <2> QED
    BY <1>1, <2>2
<1>3. d = [c EXCEPT !.tasks = N, !.active = A, !.warn = W]
  BY DEF Dropped
<1>4. A \in [Tasks -> [Ids -> BOOLEAN]] /\ N \in [Ids -> [Buckets -> Nat]]
  BY <1>1, <1>2
<1>5. W = c.warn
  <2>1. c.tasks[id][b] \in Nat /\ c.bucket[id][b] \in Nat /\ c.rq[id] \in Nat
    BY <1>1, <1>2, Sizes DEF Values
  <2>2. ~(c.bucket[id][b] > c.rq[id]) /\ c.tasks[id][b] # 0
    BY <2>1
  <2>3. W <=> c.warn
    BY <2>2
  <2> HIDE DEF W
  <2> QED
    BY <1>1, <1>3, <2>3
<1>6. d \in Shape
  <2> HIDE DEF A, N, W
  <2> QED
    BY <1>1, <1>3, <1>4, <1>5 DEF Shape
<1>7. /\ d.value = c.value /\ d.active = A /\ d.tasks = N /\ d.bucket = c.bucket /\ d.rq = c.rq
      /\ d.idle = c.idle /\ d.warn = c.warn
  <2> HIDE DEF A, N, W
  <2> QED
    BY <1>3, <1>5 DEF Shape
<1>8. ASSUME NEW s \in Tasks, NEW j \in Ids PROVE A[s][j] <=> ~(s = t /\ j = id) /\ c.active[s][j]
  <2>1. A[t] = [c.active[t] EXCEPT ![id] = FALSE] /\ (s # t => A[s] = c.active[s])
    BY <1>1
  <2>2. A[t][id] = FALSE /\ (j # id => A[t][j] = c.active[t][j])
    BY <1>1, <2>1
  <2> QED
    BY <2>1, <2>2
<1>9. /\ N[id][b] = left /\ \A k \in Buckets \ {b} : N[id][k] = c.tasks[id][k]
      /\ \A j \in Ids \ {id} : N[j] = c.tasks[j]
  BY <1>1, <1>2
<1> HIDE DEF A, N, left
<1> QED
  BY <1>2, <1>6, <1>7, <1>8, <1>9

\* uclamp_rq_max_value, field by field.
Full(d, id) == {b \in Buckets : d.tasks[id][b] > 0}

\* uclamp_rq_max_value, field by field.
LEMMA MaxFields ==
    ASSUME NEW d \in Shape, NEW id \in Ids, NEW v \in Values,
           NEW full, full = Full(d, id), NEW r, r = RqMaxValue(d, id, v)
    PROVE  /\ r \in Shape /\ r.warn = d.warn /\ (r.idle => d.idle \/ (full = {} /\ id = "MAX"))
           /\ r.value = d.value /\ r.active = d.active /\ r.tasks = d.tasks /\ r.bucket = d.bucket
           /\ \A j \in Ids \ {id} : r.rq[j] = d.rq[j]
           /\ full # {} => r.rq[id] = d.bucket[id][Max(full)]
<1>1. /\ d.value \in [Tasks -> [Ids -> Values]] /\ d.active \in [Tasks -> [Ids -> BOOLEAN]]
      /\ d.tasks \in [Ids -> [Buckets -> Nat]] /\ d.bucket \in [Ids -> [Buckets -> Values]]
      /\ d.rq \in [Ids -> Values] /\ d.idle \in BOOLEAN /\ d.warn \in BOOLEAN
  BY ShapeFacts
<1> DEFINE Set(q) == [d EXCEPT !.rq[id] = q]
           SetIdle(q) == [d EXCEPT !.rq[id] = q, !.idle = TRUE]
           Q(q) == [d.rq EXCEPT ![id] = q]
<1>2. ASSUME NEW q \in Values
      PROVE  Q(q) \in [Ids -> Values] /\ Q(q)[id] = q /\ \A j \in Ids \ {id} : Q(q)[j] = d.rq[j]
  BY <1>1
<1>3. ASSUME NEW q \in Values
      PROVE  /\ Set(q) \in Shape /\ Set(q).warn = d.warn /\ Set(q).idle = d.idle
             /\ Set(q).value = d.value /\ Set(q).active = d.active
             /\ Set(q).tasks = d.tasks /\ Set(q).bucket = d.bucket
             /\ Set(q).rq[id] = q /\ \A j \in Ids \ {id} : Set(q).rq[j] = d.rq[j]
  <2>1. PICK e : e = Set(q)
    OBVIOUS
  <2>2. e = [d EXCEPT !.rq = Q(q)]
    BY <2>1
  <2> HIDE DEF Q
  <2>3. e \in Shape
    BY <1>2, <2>2 DEF Shape
  <2>4. /\ e.warn = d.warn /\ e.idle = d.idle /\ e.rq = Q(q)
        /\ e.value = d.value /\ e.active = d.active /\ e.tasks = d.tasks /\ e.bucket = d.bucket
    BY <2>2 DEF Shape
  <2> HIDE DEF Set
  <2> QED
    BY <1>2, <2>1, <2>3, <2>4
<1>4. ASSUME NEW q \in Values
      PROVE  /\ SetIdle(q) \in Shape /\ SetIdle(q).warn = d.warn
             /\ SetIdle(q).value = d.value /\ SetIdle(q).active = d.active
             /\ SetIdle(q).tasks = d.tasks /\ SetIdle(q).bucket = d.bucket
             /\ \A j \in Ids \ {id} : SetIdle(q).rq[j] = d.rq[j]
  <2>1. PICK e : e = SetIdle(q)
    OBVIOUS
  <2>2. e = [d EXCEPT !.rq = Q(q), !.idle = TRUE]
    BY <2>1
  <2> HIDE DEF Q
  <2>3. e \in Shape
    BY <1>2, <2>2 DEF Shape
  <2>4. /\ e.warn = d.warn /\ e.rq = Q(q)
        /\ e.value = d.value /\ e.active = d.active /\ e.tasks = d.tasks /\ e.bucket = d.bucket
    BY <2>2 DEF Shape
  <2> HIDE DEF SetIdle
  <2> QED
    BY <1>2, <2>1, <2>3, <2>4
<1> HIDE DEF Q
<1>5. CASE full # {}
  <2>1. full \in SUBSET Buckets
    BY DEF Full
  <2>2. Max(full) \in Buckets
    BY <1>5, <2>1, MaxBucket
  <2>3. d.bucket[id][Max(full)] \in Values
    BY <1>1, <2>2
  <2>4. r = Set(d.bucket[id][Max(full)])
    BY <1>5 DEF RqMaxValue, Full
  <2> HIDE DEF Set
  <2> QED
    BY <1>3, <1>5, <2>3, <2>4
<1>6. CASE full = {} /\ id = "MAX"
  <2>1. r = SetIdle(v)
    BY <1>6 DEF RqMaxValue, Full
  <2> HIDE DEF SetIdle
  <2> QED
    BY <1>4, <1>6, <2>1
<1>7. CASE full = {} /\ id # "MAX"
  <2>1. uclamp_none("MIN") \in Values
    BY Sizes DEF uclamp_none, Values
  <2>2. r = Set(uclamp_none("MIN"))
    BY <1>7 DEF RqMaxValue, Full
  <2> HIDE DEF Set
  <2> QED
    BY <1>3, <1>7, <2>1, <2>2
<1> QED
  BY <1>5, <1>6, <1>7

\* A task is taken out of its bucket; when that was the highest the next one takes its place.
LEMMA DecCounts ==
    ASSUME NEW c \in Shape, NEW t \in Tasks, NEW id \in Ids, Counts(c, id),
           NEW r, r = RqDecId(c, t, id)
    PROVE  /\ r \in Shape /\ r.warn = c.warn /\ Counts(r, id)
           /\ r.idle => c.idle \/ (id = "MAX" /\ \A s \in Tasks : ~r.active[s][id])
           /\ \A s \in Tasks, j \in Ids :
                /\ r.value[s][j] = c.value[s][j]
                /\ r.active[s][j] <=> ~(s = t /\ j = id) /\ c.active[s][j]
           /\ \A j \in Ids \ {id} : Same(c, r, j)
<1>1. CASE ~c.active[t][id]
  <2>1. r = c
    BY <1>1 DEF RqDecId, Counted
  <2> QED
    BY <1>1, <2>1 DEF Same
<1>2. CASE c.active[t][id]
  <2>1. PICK v, b, d : v = c.value[t][id] /\ b = uclamp_bucket_id(v) /\ d = Dropped(c, t, id)
    OBVIOUS
  <2>2. PICK left : left = IF c.tasks[id][b] = 0 THEN 0 ELSE c.tasks[id][b] - 1
    OBVIOUS
  <2>3. r = IF left = 0 /\ c.bucket[id][b] >= c.rq[id] THEN RqMaxValue(d, id, v) ELSE d
    <3> DEFINE w == c.value[t][id]
               k == uclamp_bucket_id(w)
               l == IF c.tasks[id][k] = 0 THEN 0 ELSE c.tasks[id][k] - 1
               e == [c EXCEPT !.tasks[id][k] = l, !.active[t][id] = FALSE,
                       !.warn = @ \/ c.tasks[id][k] = 0 \/ (l = 0 /\ c.bucket[id][k] > c.rq[id])]
    <3>1. RqDecId(c, t, id) =
            CASE ~Counted(c, t, id) -> c
              [] Counted(c, t, id) /\ l = 0 /\ c.bucket[id][k] >= c.rq[id] -> RqMaxValue(e, id, w)
              [] OTHER -> e
      BY DEF RqDecId
    <3>2. d = e /\ v = w /\ b = k /\ left = l
      BY <2>1, <2>2 DEF Dropped
    <3>3. Counted(c, t, id)
      BY <1>2 DEF Counted
    <3> HIDE DEF e, l, k, w
    <3>4. RqDecId(c, t, id) = IF l = 0 /\ c.bucket[id][k] >= c.rq[id] THEN RqMaxValue(e, id, w) ELSE e
      BY <3>1, <3>3
    <3> QED
      BY <3>2, <3>4
  <2>4. v \in Values /\ b \in Buckets
    <3>1. v \in Values
      BY <2>1, ShapeFacts
    <3> QED
      BY <2>1, <3>1, BucketFacts
  <2>5. /\ c.tasks[id] \in [Buckets -> Nat] /\ c.bucket[id] \in [Buckets -> Values] /\ c.rq[id] \in Values
        /\ c.warn \in BOOLEAN
    BY ShapeFacts
  <2>6. c.tasks[id][b] > 0 /\ t \in Holding(c, id, b)
    <3>1. t \in Holding(c, id, b)
      BY <1>2, <2>1 DEF Holding
    <3> QED
      BY <2>4, <2>5, <3>1, HoldingFinite DEF Counts
  <2>7. c.bucket[id][b] <= c.rq[id] /\ uclamp_bucket_id(c.bucket[id][b]) = b
    BY <2>4, <2>6 DEF Counts
  <2>8. left = c.tasks[id][b] - 1 /\ left \in Nat
    BY <2>2, <2>4, <2>5, <2>6
  <2>9. /\ d \in Shape /\ d.idle = c.idle /\ d.warn = c.warn
        /\ \A s \in Tasks, j \in Ids :
             /\ d.value[s][j] = c.value[s][j]
             /\ d.active[s][j] <=> ~(s = t /\ j = id) /\ c.active[s][j]
        /\ d.tasks[id][b] = left /\ \A k \in Buckets \ {b} : d.tasks[id][k] = c.tasks[id][k]
        /\ d.bucket = c.bucket /\ d.rq = c.rq
        /\ \A j \in Ids \ {id} : d.tasks[j] = c.tasks[j]
    BY <2>1, <2>6, <2>7, <2>8, DecFields
  <2>10. /\ Holding(d, id, b) = Holding(c, id, b) \ {t}
         /\ \A k \in Buckets : k # b => Holding(d, id, k) = Holding(c, id, k)
    <3>1. \A s \in Tasks : s \in Holding(d, id, b) <=> s \in Holding(c, id, b) /\ s # t
      BY <2>9 DEF Holding
    <3>2. \A k \in Buckets, s \in Tasks : k # b => (s \in Holding(d, id, k) <=> s \in Holding(c, id, k))
      BY <2>1, <2>9 DEF Holding
    <3> QED
      BY <3>1, <3>2 DEF Holding
  <2>11. \A k \in Buckets : d.tasks[id][k] = Cardinality(Holding(d, id, k))
    <3>1. IsFiniteSet(Holding(c, id, b))
      BY HoldingFinite
    <3>2. Cardinality(Holding(d, id, b)) = Cardinality(Holding(c, id, b)) - 1
      BY <2>6, <2>10, <3>1, FS_RemoveElement
    <3> QED
      <4>1. \A k \in Buckets : c.tasks[id][k] = Cardinality(Holding(c, id, k))
        BY DEF Counts
      <4>2. d.tasks[id][b] = Cardinality(Holding(d, id, b))
        BY <2>4, <2>8, <2>9, <3>2, <4>1
      <4> QED
        BY <2>9, <2>10, <4>1, <4>2
  <2>12. \A s \in Tasks : d.active[s][id] => d.value[s][id] <= d.bucket[id][uclamp_bucket_id(d.value[s][id])]
    BY <2>9 DEF Counts
  <2>13. \A k \in Buckets : d.tasks[id][k] > 0 =>
            uclamp_bucket_id(d.bucket[id][k]) = k /\ d.bucket[id][k] <= d.rq[id]
    <3>1. \A k \in Buckets : d.tasks[id][k] > 0 => c.tasks[id][k] > 0
      BY <2>6, <2>9
    <3> QED
      BY <2>9, <3>1 DEF Counts
  <2>14. \A j \in Ids \ {id} : Same(c, d, j)
    BY <2>9 DEF Same
  <2>15. CASE ~(left = 0 /\ c.bucket[id][b] >= c.rq[id])
    <3>1. r = d
      BY <2>3, <2>15
    <3>2. Counts(d, id)
      BY <2>11, <2>12, <2>13 DEF Counts
    <3> QED
      BY <2>9, <2>14, <3>1, <3>2
  <2>16. CASE left = 0 /\ c.bucket[id][b] >= c.rq[id]
    <3>1. r = RqMaxValue(d, id, v)
      BY <2>3, <2>16
    <3>2. PICK full : full = Full(d, id)
      OBVIOUS
    <3>3. /\ r \in Shape /\ r.warn = d.warn /\ (r.idle => d.idle \/ (full = {} /\ id = "MAX"))
          /\ r.value = d.value /\ r.active = d.active /\ r.tasks = d.tasks /\ r.bucket = d.bucket
          /\ \A j \in Ids \ {id} : r.rq[j] = d.rq[j]
          /\ full # {} => r.rq[id] = d.bucket[id][Max(full)]
      BY <2>4, <2>9, <3>1, <3>2, MaxFields
    <3>4. \A k : Holding(r, id, k) = Holding(d, id, k)
      BY <3>3 DEF Holding
    <3>5. ASSUME NEW k \in Buckets, d.tasks[id][k] > 0 PROVE d.bucket[id][k] <= r.rq[id]
      <4>1. k \in full /\ full \in SUBSET Buckets
        BY <3>2, <3>5 DEF Full
      <4>2. Max(full) \in full /\ k <= Max(full)
        BY <4>1, MaxBucket
      <4>3. uclamp_bucket_id(d.bucket[id][k]) = k /\ uclamp_bucket_id(d.bucket[id][Max(full)]) = Max(full)
        BY <2>13, <3>2, <3>5, <4>2 DEF Full
      <4>4. d.bucket[id][k] \in Values /\ d.bucket[id][Max(full)] \in Values
        BY <2>5, <2>9, <4>1, <4>2
      <4>5. CASE k = Max(full)
        BY <3>3, <4>1, <4>4, <4>5, Sizes DEF Values
      <4>6. CASE k # Max(full)
        <5>1. k < Max(full)
          <6>1. k \in Nat /\ Max(full) \in Nat
            <7>1. k \in Buckets /\ Max(full) \in Buckets
              BY <4>1, <4>2
            <7>2. \A x \in Buckets : x \in Nat
              BY Sizes DEF Buckets
            <7> QED
              BY <7>1, <7>2
          <6> QED
            BY <4>2, <4>6, <6>1
        <5>2. d.bucket[id][k] < d.bucket[id][Max(full)]
          BY <4>3, <4>4, <5>1, BucketFacts
        <5> QED
          BY <3>3, <4>1, <4>4, <5>2, Sizes DEF Values
      <4> QED
        BY <4>5, <4>6
    <3>6. Counts(r, id)
      BY <2>11, <2>12, <2>13, <3>3, <3>4, <3>5 DEF Counts
    <3>7. full = {} => \A s \in Tasks : ~d.active[s][id]
      <4>1. ASSUME NEW s \in Tasks, d.active[s][id] PROVE full # {}
        <5>1. d.value[s][id] \in Values
          BY <2>9, ShapeFacts
        <5>2. PICK k \in Buckets : k = uclamp_bucket_id(d.value[s][id])
          BY <5>1, BucketFacts
        <5>3. s \in Holding(d, id, k)
          BY <4>1, <5>2 DEF Holding
        <5>4. d.tasks[id][k] > 0
          BY <2>11, <5>3, HoldingFinite
        <5> QED
          BY <3>2, <5>4 DEF Full
      <4> QED
        BY <4>1
    <3>8. \A j \in Ids \ {id} : Same(c, r, j)
      BY <2>14, <3>3 DEF Same
    <3> QED
      BY <2>9, <3>3, <3>6, <3>7, <3>8
  <2> QED
    BY <2>15, <2>16
<1> QED
  BY <1>1, <1>2

\* A task is dequeued: neither of its clamps is counted.
LEMMA RqDecSound ==
    ASSUME used, NEW c, Sound(c), Rests(c), NEW t \in Tasks, NEW r, r = RqDec(c, t)
    PROVE  /\ Sound(r) /\ Rests(r)
           /\ \A s \in Tasks, j \in Ids :
                r.value[s][j] = c.value[s][j] /\ (r.active[s][j] <=> s # t /\ c.active[s][j])
<1> USE DEF Ids
<1>1. PICK e : e = RqDecId(c, t, "MIN")
  OBVIOUS
<1>2. r = RqDecId(e, t, "MAX")
  BY <1>1 DEF RqDec
<1>3. c \in Shape /\ ~c.warn /\ Counts(c, "MIN") /\ Counts(c, "MAX")
      /\ \A s \in Tasks : c.active[s]["MIN"] <=> c.active[s]["MAX"]
  BY DEF Sound
<1>4. /\ e \in Shape /\ e.warn = c.warn /\ Counts(e, "MIN") /\ (e.idle => c.idle)
      /\ \A s \in Tasks, j \in Ids :
            e.value[s][j] = c.value[s][j] /\ (e.active[s][j] <=> ~(s = t /\ j = "MIN") /\ c.active[s][j])
      /\ Same(c, e, "MAX")
  BY SMTT(30), <1>1, <1>3, DecCounts
<1>5. Counts(e, "MAX")
  BY <1>3, <1>4, SameCounts
<1>6. /\ r \in Shape /\ r.warn = e.warn /\ Counts(r, "MAX")
      /\ r.idle => e.idle \/ \A s \in Tasks : ~r.active[s]["MAX"]
      /\ \A s \in Tasks, j \in Ids :
            r.value[s][j] = e.value[s][j] /\ (r.active[s][j] <=> ~(s = t /\ j = "MAX") /\ e.active[s][j])
      /\ Same(e, r, "MIN")
  BY SMTT(30), <1>2, <1>4, <1>5, DecCounts
<1>7. Counts(r, "MIN")
  BY <1>4, <1>6, SameCounts
<1>8. \A s \in Tasks, j \in Ids :
         r.value[s][j] = c.value[s][j] /\ (r.active[s][j] <=> s # t /\ c.active[s][j])
  BY <1>4, <1>6
<1>9. Sound(r)
  BY <1>3, <1>4, <1>6, <1>7, <1>8 DEF Sound
<1>10. Rests(r)
  BY <1>3, <1>4, <1>6, <1>8 DEF Rests
<1> QED
  BY <1>8, <1>9, <1>10

\* A task is enqueued: both of its clamps are counted.
LEMMA RqIncSound ==
    ASSUME used, NEW c, Sound(c), Rests(c), NEW t \in Tasks, NEW eff \in [Ids -> Values],
           \A id \in Ids : ~c.active[t][id], NEW r, r = RqInc(c, t, eff)
    PROVE  /\ Sound(r) /\ Rests(r)
           /\ \A s \in Tasks, j \in Ids :
                /\ r.value[s][j] = IF s = t THEN eff[j] ELSE c.value[s][j]
                /\ r.active[s][j] <=> s = t \/ c.active[s][j]
<1> USE DEF Ids
<1>1. PICK e : e = RqIncId(c, t, "MIN", eff["MIN"])
  OBVIOUS
<1>2. PICK f : f = RqIncId(e, t, "MAX", eff["MAX"])
  OBVIOUS
<1>3. r = [f EXCEPT !.idle = FALSE]
  BY <1>1, <1>2 DEF RqInc
<1>4. /\ c \in Shape /\ ~c.warn /\ Counts(c, "MIN") /\ Counts(c, "MAX")
      /\ \A s \in Tasks : c.active[s]["MIN"] <=> c.active[s]["MAX"]
      /\ c.idle => \A s \in Tasks, id \in Ids : ~c.active[s][id]
      /\ eff["MIN"] \in Values /\ eff["MAX"] \in Values
  BY DEF Sound, Rests
<1>5. /\ e \in Shape /\ e.idle = c.idle /\ e.warn = c.warn /\ Counts(e, "MIN")
      /\ e.active[t]["MIN"] /\ e.value[t]["MIN"] = eff["MIN"]
      /\ \A s \in Tasks, j \in Ids : s # t \/ j # "MIN" =>
            (e.active[s][j] <=> c.active[s][j]) /\ e.value[s][j] = c.value[s][j]
      /\ Same(c, e, "MAX")
  BY <1>1, <1>4, IncCounts
<1>6. Counts(e, "MAX")
  BY <1>4, <1>5, SameCounts
<1>7. ~e.active[t]["MAX"] /\ (e.idle => \A s \in Tasks : ~e.active[s]["MAX"])
  BY <1>4, <1>5
<1>8. /\ f \in Shape /\ f.idle = e.idle /\ f.warn = e.warn /\ Counts(f, "MAX")
      /\ f.active[t]["MAX"] /\ f.value[t]["MAX"] = eff["MAX"]
      /\ \A s \in Tasks, j \in Ids : s # t \/ j # "MAX" =>
            (f.active[s][j] <=> e.active[s][j]) /\ f.value[s][j] = e.value[s][j]
      /\ Same(e, f, "MIN")
  BY <1>2, <1>4, <1>5, <1>6, <1>7, IncCounts
<1>9. Counts(f, "MIN")
  BY <1>5, <1>8, SameCounts
<1>10. /\ r \in Shape /\ r.value = f.value /\ r.active = f.active /\ r.tasks = f.tasks
       /\ r.bucket = f.bucket /\ r.rq = f.rq /\ r.warn = f.warn /\ r.idle = FALSE
  BY <1>3, <1>8 DEF Shape
<1>11. \A id \in Ids : Same(f, r, id)
  BY <1>10 DEF Same
<1>12. Counts(r, "MIN") /\ Counts(r, "MAX")
  BY <1>8, <1>9, <1>11, SameCounts
<1>13. \A s \in Tasks, j \in Ids :
          /\ r.value[s][j] = IF s = t THEN eff[j] ELSE c.value[s][j]
          /\ r.active[s][j] <=> s = t \/ c.active[s][j]
  BY <1>5, <1>8, <1>10
<1>14. Sound(r) /\ Rests(r)
  BY <1>4, <1>5, <1>8, <1>10, <1>12, <1>13 DEF Sound, Rests
<1> QED
  BY <1>13, <1>14
--------------------------------------------------------------------------------
(* The clamps of the runqueue are right *)

\* What a step makes of the clamps: those of the others stay, task t is not counted or is
\* counted anew.
Others(t) == \A s \in Tasks, j \in Ids : s # t =>
    clamp'.value[s][j] = clamp.value[s][j] /\ (clamp'.active[s][j] <=> clamp.active[s][j])

Unraced == TypeInv /\ CountInv /\ "idle" \notin raced

\* A task that does not run, or ran before the clamps were used, is not counted.
LEMMA NotCounted ==
    ASSUME CountInv, NEW t \in Tasks, ~used \/ life[t] # "queued" PROVE \A j \in Ids : ~clamp.active[t][j]
  BY DEF CountInv

\* A task that is dequeued and enqueued is counted with its new clamps.
LEMMA RequeueEffect ==
    ASSUME Unraced, Types', NEW t \in Tasks, Requeue(t), life' = life, used' = used
    PROVE  /\ Sound(clamp') /\ Rests(clamp') /\ Others(t)
           /\ \A j \in Ids : clamp'.active[t][j] =>
                 used /\ life[t] = "queued" /\ clamp'.value[t][j] = uclamp_eff_get(t, j)'
<1>1. Sound(clamp) /\ Rests(clamp)
  BY DEF Unraced, CountInv
<1>2. CASE life[t] = "queued" /\ used
  <2>1. Eff(t)' \in [Ids -> Values]
    <3>1. ASSUME NEW id \in Ids PROVE uclamp_tg_restrict(t, id)' \in Nat
      <4>1. req'[t][id] \in Nat /\ tgEff'[tg'[t]][id] \in Values
        BY <3>1 DEF Types
      <4>2. tgEff'[tg'[t]][id] \in Nat
        BY <4>1, Sizes DEF Values
      <4> QED
        BY <4>1, <4>2 DEF uclamp_tg_restrict
    <3>2. ASSUME NEW id \in Ids PROVE uclamp_eff_get(t, id)' \in Values
      <4>1. default'[id] \in Values
        BY DEF Types
      <4>2. Least(uclamp_tg_restrict(t, id)', default'[id]) \in Values
        BY <3>1, <4>1, LeastType
      <4> QED
        BY <4>2 DEF uclamp_eff_get
    <3> QED
      BY <3>2 DEF Eff
  <2>2. PICK eff \in [Ids -> Values] : eff = Eff(t)'
    BY <2>1
  <2>3. \A j \in Ids : eff[j] = uclamp_eff_get(t, j)'
    BY <2>2 DEF Eff
  <2>4. PICK d : d = RqDec(clamp, t)
    OBVIOUS
  <2>5. clamp' = RqInc(d, t, eff)
    BY <1>2, <2>2, <2>4 DEF Requeue
  <2>6. /\ Sound(d) /\ Rests(d)
        /\ \A s \in Tasks, j \in Ids :
             d.value[s][j] = clamp.value[s][j] /\ (d.active[s][j] <=> s # t /\ clamp.active[s][j])
    BY <1>1, <1>2, <2>4, RqDecSound
  <2>7. \A j \in Ids : ~d.active[t][j]
    BY <2>6
  <2>8. /\ Sound(clamp') /\ Rests(clamp')
        /\ \A s \in Tasks, j \in Ids :
             /\ clamp'.value[s][j] = IF s = t THEN eff[j] ELSE d.value[s][j]
             /\ clamp'.active[s][j] <=> s = t \/ d.active[s][j]
    BY <1>2, <2>5, <2>6, <2>7, RqIncSound
  <2> QED
    BY <1>2, <2>3, <2>6, <2>8 DEF Others
<1>3. CASE ~(life[t] = "queued" /\ used)
  <2>1. clamp' = clamp
    BY <1>3 DEF Requeue, RqInc, RqDec
  <2>2. \A j \in Ids : ~clamp.active[t][j]
    BY <1>3, NotCounted DEF Unraced
  <2> QED
    BY <1>1, <2>1, <2>2 DEF Others
<1> QED
  BY <1>2, <1>3

\* A task that is enqueued is counted with its clamps.
LEMMA EnqueueEffect ==
    ASSUME Unraced, NEW t \in Tasks, Enqueue(t)
    PROVE  /\ Sound(clamp') /\ Rests(clamp') /\ Others(t)
           /\ \A j \in Ids : clamp'.active[t][j] => used /\ clamp'.value[t][j] = uclamp_eff_get(t, j)
<1>1. Sound(clamp) /\ Rests(clamp) /\ life[t] = "asleep"
  BY DEF Unraced, CountInv, Enqueue
<1>2. \A j \in Ids : ~clamp.active[t][j]
  BY <1>1, NotCounted DEF Unraced
<1>3. CASE used
  <2>1. PICK eff \in [Ids -> Values] : eff = Eff(t)
    BY EffType DEF Unraced, TypeInv
  <2>2. \A j \in Ids : eff[j] = uclamp_eff_get(t, j)
    BY <2>1 DEF Eff
  <2>3. clamp' = RqInc(clamp, t, eff)
    BY <2>1 DEF Enqueue
  <2>4. /\ Sound(clamp') /\ Rests(clamp')
        /\ \A s \in Tasks, j \in Ids :
             /\ clamp'.value[s][j] = IF s = t THEN eff[j] ELSE clamp.value[s][j]
             /\ clamp'.active[s][j] <=> s = t \/ clamp.active[s][j]
    BY <1>1, <1>2, <1>3, <2>3, RqIncSound
  <2> QED
    BY <1>3, <2>2, <2>4 DEF Others
<1>4. CASE ~used
  <2>1. clamp' = clamp
    BY <1>4 DEF Enqueue, RqInc
  <2> QED
    BY <1>1, <1>2, <2>1 DEF Others
<1> QED
  BY <1>3, <1>4

\* A task that is dequeued is not counted.
LEMMA DequeueEffect ==
    ASSUME Unraced, NEW t \in Tasks, Dequeue(t)
    PROVE  Sound(clamp') /\ Rests(clamp') /\ Others(t) /\ \A j \in Ids : ~clamp'.active[t][j]
<1>1. Sound(clamp) /\ Rests(clamp)
  BY DEF Unraced, CountInv
<1>2. CASE used
  <2>1. clamp' = RqDec(clamp, t)
    BY DEF Dequeue
  <2>2. /\ Sound(clamp') /\ Rests(clamp')
        /\ \A s \in Tasks, j \in Ids :
             clamp'.value[s][j] = clamp.value[s][j] /\ (clamp'.active[s][j] <=> s # t /\ clamp.active[s][j])
    BY <1>1, <1>2, <2>1, RqDecSound
  <2> QED
    BY <2>2 DEF Others
<1>3. CASE ~used
  <2>1. clamp' = clamp
    BY <1>3 DEF Dequeue, RqDec
  <2>2. \A j \in Ids : ~clamp.active[t][j]
    BY <1>3, NotCounted DEF Unraced
  <2> QED
    BY <1>1, <2>1, <2>2 DEF Others
<1> QED
  BY <1>2, <1>3

\* A child is not counted.
LEMMA ForkEffect ==
    ASSUME Unraced, NEW t \in Tasks, NEW p \in Tasks, NEW reset \in BOOLEAN, Fork(t, p, reset)
    PROVE  Sound(clamp') /\ Rests(clamp') /\ Others(p) /\ \A j \in Ids : ~clamp'.active[p][j]
<1>1. Sound(clamp) /\ Rests(clamp) /\ clamp \in Shape
  BY DEF Unraced, CountInv, Sound
<1>2. \A j \in Ids : ~clamp.active[p][j]
  BY NotCounted DEF Unraced, Fork
<1> DEFINE A == [clamp.active EXCEPT ![p] = [id \in Ids |-> FALSE]]
<1>3. clamp' = [clamp EXCEPT !.active = A]
  BY DEF Fork
<1>4. A = clamp.active
  <2>1. clamp.active \in [Tasks -> [Ids -> BOOLEAN]]
    BY <1>1, ShapeFacts
  <2>2. clamp.active[p] = [id \in Ids |-> FALSE]
    <3>1. \A j \in Ids : clamp.active[p][j] = FALSE
      BY <1>2, <2>1
    <3> QED
      BY <2>1, <3>1
  <2> QED
    BY <2>1, <2>2
<1>5. clamp' = clamp
  BY <1>1, <1>3, <1>4 DEF Shape
<1> QED
  BY <1>1, <1>2, <1>5 DEF Others

\* uclamp_update_active counts a task anew; it may leave the runqueue marked idle.
LEMMA UpdateEffect ==
    ASSUME Unraced, NEW w \in Walks, NEW t \in Tasks, NEW id \in Ids, UpdateActive(w, t, id)
    PROVE  /\ Sound(clamp') /\ ("idle" \notin raced' => Rests(clamp'))
           /\ \A s \in Tasks, j \in Ids : clamp'.active[s][j] <=> clamp.active[s][j]
           /\ \A s \in Tasks, j \in Ids : s # t \/ j # id => clamp'.value[s][j] = clamp.value[s][j]
           /\ clamp.active[t][id] => clamp'.value[t][id] = uclamp_eff_get(t, id)
<1>1. Sound(clamp) /\ Rests(clamp)
  BY DEF Unraced, CountInv
<1>2. CASE ~clamp.active[t][id]
  <2>1. clamp' = clamp
    BY <1>2 DEF UpdateActive
  <2> QED
    BY <1>1, <1>2, <2>1
<1>3. CASE clamp.active[t][id]
  <2>1. PICK v \in Values : v = uclamp_eff_get(t, id)
    <3>1. Eff(t) \in [Ids -> Values]
      BY EffType DEF Unraced, TypeInv
    <3> QED
      BY <3>1 DEF Eff
  <2>2. PICK d : d = RqDecId(clamp, t, id)
    OBVIOUS
  <2>3. PICK r : r = RqIncId(d, t, id, v)
    OBVIOUS
  <2>4. clamp' = r
    BY <1>3, <2>1, <2>2, <2>3 DEF UpdateActive
  <2>5. clamp \in Shape /\ ~clamp.warn /\ \A j \in Ids : Counts(clamp, j)
    BY <1>1 DEF Sound
  <2>6. ~clamp.idle
    BY <1>1, <1>3 DEF Rests
  <2>7. /\ d \in Shape /\ d.warn = clamp.warn /\ Counts(d, id)
        /\ d.idle => \A s \in Tasks : ~d.active[s][id]
        /\ \A s \in Tasks, j \in Ids :
             /\ d.value[s][j] = clamp.value[s][j]
             /\ d.active[s][j] <=> ~(s = t /\ j = id) /\ clamp.active[s][j]
        /\ \A j \in Ids \ {id} : Same(clamp, d, j)
    BY <2>2, <2>5, <2>6, DecCounts
  <2>8. ~d.active[t][id]
    BY <2>7
  <2>9. /\ r \in Shape /\ r.idle = d.idle /\ r.warn = d.warn /\ Counts(r, id)
        /\ r.active[t][id] /\ r.value[t][id] = v
        /\ \A s \in Tasks, j \in Ids : s # t \/ j # id =>
              (r.active[s][j] <=> d.active[s][j]) /\ r.value[s][j] = d.value[s][j]
        /\ \A j \in Ids \ {id} : Same(d, r, j)
    BY <2>3, <2>7, <2>8, IncCounts
  <2>10. ASSUME NEW j \in Ids PROVE Counts(r, j)
    <3>1. CASE j = id
      BY <2>9, <3>1
    <3>2. CASE j # id
      <4>1. Counts(d, j)
        BY <2>5, <2>7, <3>2, SameCounts
      <4> QED
        BY <2>9, <3>2, <4>1, SameCounts
    <3> QED
      BY <3>1, <3>2
  <2>11. \A s \in Tasks, j \in Ids : r.active[s][j] <=> clamp.active[s][j]
    BY <1>3, <2>7, <2>9
  <2>12. Sound(r)
    BY <1>1, <2>5, <2>7, <2>9, <2>10, <2>11 DEF Sound, Ids
  <2>13. "idle" \notin raced' => ~r.idle
    BY <2>4, <2>6 DEF UpdateActive
  <2> QED
    BY <2>1, <2>4, <2>7, <2>9, <2>11, <2>12, <2>13 DEF Rests
<1> QED
  BY <1>2, <1>3

\* Every step keeps the types.
LEMMA StepTypes ==
    ASSUME TypeInv, Places, AnyStep, calls' \in 0..MaxCalls PROVE TypeInv'
<1>1. StateTypes' /\ WalksOK'
  BY TaskTypes, WalkTypes, CallTypes, OtherTypes DEF AnyStep
<1> QED
  BY <1>1 DEF TypeInv, Types, StateTypes

\* A step that leaves the clamps and wakes nobody.
LEMMA ClampSame ==
    ASSUME CountInv, raced = {}, clamp' = clamp, used => used',
           \A t \in Tasks : life[t] = "queued" => life'[t] = "queued"
    PROVE  CountInv'
<1>1. Sound(clamp') /\ Rests(clamp')
  BY DEF CountInv
<1>2. \A t \in Tasks, id \in Ids : clamp'.active[t][id] => used' /\ life'[t] = "queued"
  BY DEF CountInv
<1> QED
  BY <1>1, <1>2 DEF CountInv, Sound, Rests, Counts, Holding

\* What a step has to show of the clamps.
LEMMA ClampDone ==
    ASSUME Sound(clamp'), "idle" \notin raced' => Rests(clamp'),
           \A t \in Tasks, id \in Ids : clamp'.active[t][id] => used' /\ life'[t] = "queued"
    PROVE  CountInv'
  BY DEF CountInv, Sound, Rests, Counts, Holding

\* Every step before a race keeps the buckets right.
LEMMA CountedStep ==
    ASSUME TypeInv, CountInv, raced = {}, AnyStep, Types' PROVE CountInv'
<1>0. Unraced
  BY DEF Unraced
<1>1. life \in [Tasks -> Lives]
  BY DEF TypeInv, Types
<1>a. \A t \in Tasks, id \in Ids : clamp.active[t][id] => used /\ life[t] = "queued"
  BY DEF CountInv
<1>2. ASSUME NEW t \in Tasks, Enqueue(t) PROVE CountInv'
  <2>1. /\ Sound(clamp') /\ Rests(clamp') /\ Others(t)
        /\ \A j \in Ids : clamp'.active[t][j] => used
    BY <1>0, <1>2, EnqueueEffect
  <2>2. life' = [life EXCEPT ![t] = "queued"] /\ used' = used
    BY <1>2 DEF Enqueue
  <2> QED
    BY <1>1, <1>a, <2>1, <2>2, ClampDone DEF Others
<1>3. ASSUME NEW t \in Tasks, Dequeue(t) PROVE CountInv'
  <2>1. Sound(clamp') /\ Rests(clamp') /\ Others(t) /\ \A j \in Ids : ~clamp'.active[t][j]
    BY <1>0, <1>3, DequeueEffect
  <2>2. life' = [life EXCEPT ![t] = "asleep"] /\ used' = used
    BY <1>3 DEF Dequeue
  <2> QED
    BY <1>1, <1>a, <2>1, <2>2, ClampDone DEF Others
<1>4. ASSUME NEW t \in Tasks, Requeue(t), life' = life, used' = used PROVE CountInv'
  <2>1. /\ Sound(clamp') /\ Rests(clamp') /\ Others(t)
        /\ \A j \in Ids : clamp'.active[t][j] => used /\ life[t] = "queued"
    BY <1>0, <1>4, RequeueEffect
  <2> QED
    BY <1>4, <1>a, <2>1, ClampDone DEF Others
<1>5. ASSUME NEW t \in Tasks, NEW p \in Tasks, NEW reset \in BOOLEAN, Fork(t, p, reset) PROVE CountInv'
  <2>1. Sound(clamp') /\ Rests(clamp') /\ Others(p) /\ \A j \in Ids : ~clamp'.active[p][j]
    BY <1>0, <1>5, ForkEffect
  <2>2. life' = [life EXCEPT ![p] = "dup"] /\ used' = used
    BY <1>5 DEF Fork
  <2> QED
    BY <1>1, <1>a, <2>1, <2>2, ClampDone DEF Others
<1>6. ASSUME NEW w \in Walks, NEW t \in Tasks, NEW id \in Ids, UpdateActive(w, t, id) PROVE CountInv'
  <2>1. /\ Sound(clamp') /\ ("idle" \notin raced' => Rests(clamp'))
        /\ \A s \in Tasks, j \in Ids : clamp'.active[s][j] <=> clamp.active[s][j]
    BY <1>0, <1>6, UpdateEffect
  <2>2. life' = life /\ used' = used
    BY <1>6 DEF UpdateActive, task
  <2> QED
    BY <1>a, <2>1, <2>2, ClampDone
<1>7. CASE TaskStep
  <2>1. PICK t \in Tasks : \/ Enqueue(t) \/ Dequeue(t) \/ Link(t) \/ SchedPostFork(t) \/ Attach(t) 
                           \/ SetschedulerUclamp(t) \/ SyncRtDefault(t)
                           \/ \E p \in Tasks, reset \in BOOLEAN : Fork(t, p, reset)
    BY <1>7 DEF TaskStep
  <2>2. CASE Link(t) \/ SchedPostFork(t) \/ SyncRtDefault(t)
    <3>1. clamp' = clamp /\ used' = used /\ \A s \in Tasks : life[s] = "queued" => life'[s] = "queued"
      BY <1>1, <2>2 DEF Link, SchedPostFork, SyncRtDefault
    <3> QED
      BY <3>1, ClampSame
  <2>3. CASE Attach(t)
    BY <1>4, <2>3 DEF Attach
  <2>4. CASE SetschedulerUclamp(t)
    BY <1>4, <2>4 DEF SetschedulerUclamp
  <2> QED
    BY <1>2, <1>3, <1>5, <2>1, <2>2, <2>3, <2>4
<1>8. CASE WalkStep
  <2>1. PICK w \in Walks : Visit(w) \/ Store(w) \/ \E t \in Tasks, id \in Ids : UpdateActive(w, t, id)
    BY <1>8 DEF WalkStep, Walks
  <2>2. CASE Visit(w) \/ Store(w)
    BY <2>2, ClampSame DEF Visit, Store, task
  <2> QED
    BY <1>6, <2>1, <2>2
<1>9. CASE CallStep
  <2>1. CASE \E t \in Tasks : SetPolicy(t)
    BY <1>4, <2>1 DEF SetPolicy
  <2>2. CASE ~\E t \in Tasks : SetPolicy(t)
    <3>1. clamp' = clamp /\ life' = life /\ (used => used')
      BY <1>9, <2>2 DEF CallStep, CanAttach, UclampValidate, CssAlloc, CssReleased, CpuUclampWrite, SysctlWrite, task
    <3> QED
      BY <3>1, ClampSame
  <2> QED
    BY <2>1, <2>2
<1>10. CASE CpuUclampStore \/ SysctlCheck \/ WriteDone \/ \E g \in Groups : CssOnline(g)
  <2>1. clamp' = clamp /\ life' = life /\ (used => used')
    BY <1>10 DEF CpuUclampStore, SysctlCheck, WriteDone, CssOnline, task
  <2> QED
    BY <2>1, ClampSame
<1> QED
  BY <1>7, <1>8, <1>9, <1>10 DEF AnyStep

\* The invariant gives the property.
LEMMA CountedShows == ASSUME TypeInv, CountInv PROVE ClampsCounted
<1>1. clamp \in Shape /\ ~clamp.warn /\ \A id \in Ids : Counts(clamp, id)
  BY DEF CountInv, Sound
<1>2. /\ clamp.value \in [Tasks -> [Ids -> Values]] /\ clamp.active \in [Tasks -> [Ids -> BOOLEAN]]
      /\ clamp.tasks \in [Ids -> [Buckets -> Nat]] /\ clamp.bucket \in [Ids -> [Buckets -> Values]]
      /\ clamp.rq \in [Ids -> Values] /\ clamp.idle \in BOOLEAN /\ clamp.warn \in BOOLEAN
  BY <1>1, ShapeFacts
<1>3. \A id \in Ids, b \in Buckets : InBucket(id, b) = Holding(clamp, id, b)
  BY DEF InBucket, Holding
<1>4. Cardinality(Tasks) \in Nat
  BY GroupsAssumption, FS_CardinalityType
<1>5. \A id \in Ids, b \in Buckets : clamp.tasks[id][b] \in 0..Cardinality(Tasks)
  <2> TAKE id \in Ids, b \in Buckets
  <2>1. clamp.tasks[id][b] = Cardinality(Holding(clamp, id, b))
    BY <1>1 DEF Counts
  <2>2. Cardinality(Holding(clamp, id, b)) \in Nat /\ Cardinality(Holding(clamp, id, b)) <= Cardinality(Tasks)
    BY HoldingFinite
  <2> QED
    BY <1>4, <2>1, <2>2
<1>6. clamp.tasks \in [Ids -> [Buckets -> 0..Cardinality(Tasks)]]
  <2>1. \A id \in Ids : clamp.tasks[id] \in [Buckets -> 0..Cardinality(Tasks)]
    BY <1>2, <1>5
  <2> QED
    BY <1>2, <2>1
<1>7. clamp \in Clamp
  BY <1>1, <1>2, <1>6 DEF Shape, Clamp
<1>8. write.pc \in {"none", "mutex", "check", "walk", "sync"}
  BY WriteFacts DEF TypeInv, Types
<1>9. TypeOK
  BY <1>7, <1>8 DEF TypeInv, Types, TypeOK, Lives, Vars, Walks, WalkState, States
<1>10. ASSUME NEW id \in Ids, NEW b \in Buckets
       PROVE  /\ clamp.tasks[id][b] = Cardinality(InBucket(id, b))
              /\ \A t \in InBucket(id, b) :
                    /\ life[t] = "queued"
                    /\ clamp.value[t][id] <= clamp.bucket[id][b]
                    /\ clamp.bucket[id][b] <= clamp.rq[id]
  <2>1. clamp.tasks[id][b] = Cardinality(InBucket(id, b))
    BY <1>1, <1>3 DEF Counts
  <2>2. ASSUME NEW t \in InBucket(id, b)
        PROVE  /\ life[t] = "queued" /\ clamp.value[t][id] <= clamp.bucket[id][b]
               /\ clamp.bucket[id][b] <= clamp.rq[id]
    <3>1. t \in Tasks /\ clamp.active[t][id] /\ uclamp_bucket_id(clamp.value[t][id]) = b
      BY <2>2 DEF InBucket
    <3>2. clamp.tasks[id][b] > 0
      <4>1. Holding(clamp, id, b) # {}
        BY <1>3, <2>2
      <4> QED
        BY <1>3, <2>1, <4>1, HoldingFinite
    <3> QED
      BY <1>1, <3>1, <3>2 DEF Counts, CountInv
  <2> QED
    BY <2>1, <2>2
<1> QED
  BY <1>1, <1>9, <1>10 DEF ClampsCounted
--------------------------------------------------------------------------------
(* The groups are restricted by their parents, and the tasks by their groups *)

\* The fields of a walk.
LEMMA WalkFacts == ASSUME TypeInv, NEW w \in Walks
    PROVE /\ walk[w] \in WalkState /\ walk[w].at \in Groups \cup {None}
          /\ walk[w].eff # None => walk[w].at \in Groups /\ walk[w].eff \in [Ids -> Values] /\ walk[w].todo = {}
          /\ walk[w] = Idling <=> walk[w].at = None /\ walk[w].eff = None /\ walk[w].todo = {}
  BY DEF TypeInv, Types, WalksOK, WalkState, Idling

\* What a visit does to the walks.
LEMMA VisitEffect == ASSUME TypeInv, NEW w \in Walks, Visit(w)
    PROVE /\ walk[w].at \in Groups /\ walk[w].todo = {}
          /\ \A v \in Walks : walk'[v].at = walk[v].at /\ walk'[v].todo = walk[v].todo
          /\ \A v \in Walks \ {w} : walk'[v] = walk[v]
          /\ walk'[w].eff = Effective(walk[w].at, ParentEff(walk[w].at))
<1> DEFINE e == Effective(walk[w].at, ParentEff(walk[w].at))
<1>1. walk' = [walk EXCEPT ![w].eff = e] /\ walk[w].at # None /\ walk[w].todo = {}
  BY DEF Visit
<1>2. walk \in [Walks -> WalkState] /\ walk[w] \in WalkState
  BY DEF TypeInv, Types
<1> HIDE DEF e
<1>3. /\ walk'[w].eff = e /\ walk'[w].at = walk[w].at /\ walk'[w].todo = walk[w].todo
      /\ \A v \in Walks \ {w} : walk'[v] = walk[v]
  BY <1>1, <1>2 DEF WalkState
<1> QED
  BY <1>1, <1>2, <1>3, WalkFacts DEF e

\* What a store does: the group has the clamps computed, and the tasks wait that have others.
LEMMA StoreEffect == ASSUME TypeInv, NEW w \in Walks, Store(w), NEW g, g = walk[w].at
    PROVE /\ g \in Groups /\ walk[w].eff \in [Ids -> Values] /\ walk[w].todo = {}
          /\ tgEff'[g] = walk[w].eff /\ \A h \in Groups \ {g} : tgEff'[h] = tgEff[h]
          /\ \A v \in Walks \ {w} : walk'[v] = walk[v]
          /\ walk'[w].eff = None
          /\ tgEff'[g] = tgEff[g] => walk'[w] = Idling
          /\ tgEff'[g] # tgEff[g] =>
                /\ walk'[w].at = NextGroup(g)
                /\ \A t \in Tasks, id \in Ids : Member(t, g) /\ tgEff'[g][id] # tgEff[g][id] =>
                      <<t, id>> \in walk'[w].todo
          /\ walk'[w].at # None => walk'[w].at = NextGroup(g)
<1>1. g \in Groups /\ walk[w].eff \in [Ids -> Values] /\ walk[w].todo = {}
  BY WalkFacts DEF Store
<1>2. walk \in [Walks -> WalkState] /\ tgEff \in [Groups -> [Ids -> Values]]
  BY DEF TypeInv, Types
<1>3. PICK ids : ids = Changed(g, walk[w].eff)
  OBVIOUS
<1>4. tgEff' = [tgEff EXCEPT ![g] = [id \in Ids |-> IF id \in ids THEN walk[w].eff[id] ELSE @[id]]]
  BY <1>3 DEF Store
<1>5. tgEff'[g] = [id \in Ids |-> IF id \in ids THEN walk[w].eff[id] ELSE tgEff[g][id]]
      /\ \A h \in Groups \ {g} : tgEff'[h] = tgEff[h]
  BY <1>1, <1>2, <1>4
<1>6. ids = {id \in Ids : walk[w].eff[id] # tgEff[g][id]}
  BY <1>3 DEF Changed
<1>7. \A id \in Ids : tgEff'[g][id] = walk[w].eff[id]
  BY <1>5, <1>6
<1>8. tgEff'[g] = walk[w].eff
  <2>1. tgEff'[g] = [id \in Ids |-> tgEff'[g][id]]
    BY <1>5
  <2>2. walk[w].eff = [id \in Ids |-> walk[w].eff[id]]
    BY <1>1
  <2> QED
    BY <1>7, <2>1, <2>2
<1>9. PICK n : n = [at |-> NextGroup(g), eff |-> None, todo |-> {t \in Tasks : Member(t, g)} \X ids]
  OBVIOUS
<1>10. n.at = NextGroup(g) /\ n.eff = None /\ n.todo = {t \in Tasks : Member(t, g)} \X ids
  BY <1>9
<1>11. walk' = [walk EXCEPT ![w] = IF ids = {} THEN Idling ELSE n]
  BY <1>3, <1>9 DEF Store
<1>12. walk'[w] = (IF ids = {} THEN Idling ELSE n) /\ \A v \in Walks \ {w} : walk'[v] = walk[v]
  BY <1>2, <1>11
<1>13. Idling.eff = None /\ Idling.at = None
  BY DEF Idling
<1>14. tgEff'[g] = tgEff[g] <=> ids = {}
  <2>1. ids = {} => \A id \in Ids : walk[w].eff[id] = tgEff[g][id]
    BY <1>6
  <2>2. tgEff[g] = [id \in Ids |-> tgEff[g][id]] /\ walk[w].eff = [id \in Ids |-> walk[w].eff[id]]
    BY <1>1, <1>2
  <2>3. tgEff'[g] = tgEff[g] => ids = {}
    BY <1>6, <1>8
  <2> QED
    BY <1>8, <2>1, <2>2, <2>3
<1>15. \A t \in Tasks, id \in Ids : Member(t, g) /\ tgEff'[g][id] # tgEff[g][id] => <<t, id>> \in n.todo
  BY <1>6, <1>7, <1>10
<1> QED
  BY <1>1, <1>5, <1>8, <1>10, <1>12, <1>13, <1>14, <1>15

\* What the update of a task does to the walks.
LEMMA UpdateWalks ==
    ASSUME TypeInv, NEW w \in Walks, NEW t \in Tasks, NEW id \in Ids, UpdateActive(w, t, id)
    PROVE  /\ walk[w].todo # {}
           /\ \A v \in Walks : walk'[v].at = walk[v].at /\ walk'[v].eff = walk[v].eff
           /\ \A v \in Walks \ {w} : walk'[v] = walk[v]
           /\ walk'[w].todo = walk[w].todo \ {<<t, id>>}
<1>1. walk' = [walk EXCEPT ![w].todo = @ \ {<<t, id>>}] /\ <<t, id>> \in walk[w].todo
  BY DEF UpdateActive
<1>2. walk \in [Walks -> WalkState] /\ walk[w] \in WalkState
  BY DEF TypeInv, Types
<1> QED
  BY <1>1, <1>2 DEF WalkState

\* A walk that begins.
LEMMA BeginEffect ==
    ASSUME TypeInv, NEW w \in Walks, walk[w] = Idling, NEW g \in Groups, walk' = [walk EXCEPT ![w].at = g]
    PROVE  /\ walk'[w].at = g /\ walk'[w].eff = None /\ walk'[w].todo = {}
           /\ \A v \in Walks \ {w} : walk'[v] = walk[v]
<1>1. walk \in [Walks -> WalkState] /\ walk[w] \in WalkState
  BY DEF TypeInv, Types
<1> QED
  BY <1>1 DEF WalkState, Idling

\* The groups and walks stay in their places when only tasks move to groups that are online.
LEMMA PlacesFrame ==
    ASSUME Places, group' = group, walk' = walk,
           \A t \in Tasks : group[css'[t]] = "online" /\ group[tg'[t]] = "online",
           write'.pc = "mutex" => write'.g # 0 /\ group[write'.g] = "online",
           write'.pc # "walk" => walk["write"] = Idling
    PROVE  Places'
  BY DEF Places, Ranked

\* Every step keeps groups, tasks and walks in their places.
LEMMA PlacesStep == ASSUME TypeInv, Places, AnyStep PROVE Places'
<1>0. /\ css \in [Tasks -> Groups] /\ tg \in [Tasks -> Groups] /\ group \in [Groups -> States]
      /\ write \in WriteState
  BY DEF TypeInv, Types
<1>a. "write" \in Walks /\ "online" \in Walks
  BY DEF Walks
<1>1. CASE TaskStep
  <2>1. PICK t \in Tasks : \/ Enqueue(t) \/ Dequeue(t) \/ Link(t) \/ SchedPostFork(t) \/ Attach(t) 
                           \/ SetschedulerUclamp(t) \/ SyncRtDefault(t)
                           \/ \E p \in Tasks, reset \in BOOLEAN : Fork(t, p, reset)
    BY <1>1 DEF TaskStep
  <2>2. group' = group /\ walk' = walk
    BY <2>1 DEF Enqueue, Dequeue, Link, SchedPostFork, Attach, SetschedulerUclamp, SyncRtDefault, Fork, tgs
  <2>3. \A s \in Tasks : group[css'[s]] = "online" /\ group[tg'[s]] = "online"
    BY <1>0, <2>1 DEF Places, Enqueue, Dequeue, Link, SchedPostFork, Attach, SetschedulerUclamp, SyncRtDefault, Fork
  <2>4. write' = write \/ (write'.pc = "sync" /\ write.pc = "sync")
    <3>1. CASE SyncRtDefault(t)
      BY <1>0, <3>1 DEF SyncRtDefault, WriteState
    <3>2. CASE ~SyncRtDefault(t)
      BY <2>1, <3>2 DEF Enqueue, Dequeue, Link, SchedPostFork, Attach, SetschedulerUclamp, Fork
    <3> QED
      BY <3>1, <3>2
  <2> QED
    BY <2>2, <2>3, <2>4, PlacesFrame DEF Places
<1>2. ASSUME NEW w \in Walks, UNCHANGED <<task, group, write>>, walk[w] # Idling,
             \A v \in Walks \ {w} : walk'[v] = walk[v],
             walk'[w].at # None => group[walk'[w].at] # "none"
      PROVE  Places'
  <2>1. css' = css /\ tg' = tg /\ group' = group /\ write' = write
    BY <1>2 DEF task
  <2>2. \A v \in Walks : walk'[v].at # None => group[walk'[v].at] # "none"
    BY <1>2 DEF Places
  <2>3. write.pc # "walk" => walk'["write"] = Idling
    BY <1>2, <1>a DEF Places
  <2>4. (\E g \in Groups : group[g] = "alloc") => walk'["online"] = Idling
    BY <1>2, <1>a DEF Places
  <2> QED
    BY <2>1, <2>2, <2>3, <2>4 DEF Places, Ranked
<1>3. CASE WalkStep
  <2>1. PICK w \in Walks : Visit(w) \/ Store(w) \/ \E t \in Tasks, id \in Ids : UpdateActive(w, t, id)
    BY <1>3 DEF WalkStep, Walks
  <2>2. walk[w].at # None => group[walk[w].at] # "none"
    BY DEF Places
  <2>3. CASE Visit(w)
    <3>1. UNCHANGED <<task, group, write>> /\ walk[w].at # None
      BY <2>3 DEF Visit, tgs
    <3>2. walk[w] # Idling
      BY <3>1, WalkFacts
    <3> QED
      BY <1>2, <2>2, <2>3, <3>1, <3>2, VisitEffect
  <2>4. CASE Store(w)
    <3>1. UNCHANGED <<task, group, write>> /\ walk[w].eff # None
      BY <2>4 DEF Store
    <3>2. walk[w] # Idling
      BY <3>1, WalkFacts
    <3>3. walk'[w].at # None => group[walk'[w].at] # "none"
      <4>1. PICK g : g = walk[w].at
        OBVIOUS
      <4>2. walk'[w].at # None => walk'[w].at = NextGroup(g)
        BY <2>4, <4>1, StoreEffect
      <4> QED
        BY <4>2 DEF NextGroup
    <3>4. \A v \in Walks \ {w} : walk'[v] = walk[v]
      BY <2>4, StoreEffect
    <3> QED
      BY <1>2, <3>1, <3>2, <3>3, <3>4
  <2>5. ASSUME NEW t \in Tasks, NEW id \in Ids, UpdateActive(w, t, id) PROVE Places'
    <3>1. UNCHANGED <<task, group, write>>
      BY <2>5 DEF UpdateActive, tgs
    <3>2. /\ walk[w].todo # {} /\ walk'[w].at = walk[w].at /\ \A v \in Walks \ {w} : walk'[v] = walk[v]
      BY <2>5, UpdateWalks
    <3>3. walk[w] # Idling
      BY <3>2, WalkFacts
    <3> QED
      BY <1>2, <2>2, <3>1, <3>2, <3>3
  <2> QED
    BY <2>1, <2>3, <2>4, <2>5
<1>4. CASE CallStep
  <2>1. CASE \E t \in Tasks : \/ SetPolicy(t) \/ \E g \in Groups : CanAttach(t, g)
                              \/ \E id \in Ids, v \in Requests : UclampValidate(t, id, v)
    <3>1. /\ group' = group /\ walk' = walk /\ write' = write
          /\ \A s \in Tasks : group[css'[s]] = "online" /\ group[tg'[s]] = "online"
      BY <1>0, <2>1 DEF SetPolicy, CanAttach, UclampValidate, tgs, task, Places
    <3> QED
      BY <3>1, PlacesFrame DEF Places
  <2>2. ASSUME NEW g \in Groups, CssAlloc(g) PROVE Places'
    <3>1. /\ group[g] = "none" /\ g > 0 /\ group[g - 1] = "online" /\ walk["online"] = Idling
          /\ group' = [group EXCEPT ![g] = "alloc"] /\ UNCHANGED <<css, tg, walk, write>>
      BY <2>2 DEF CssAlloc, task
    <3>2. ASSUME NEW k \in Groups, NEW h \in Groups, k < h, group'[h] # "none" PROVE group'[k] = "online"
      <4>1. CASE h = g
        <5>1. k = g - 1 \/ k < g - 1
          BY <3>2, <4>1, Sizes
        <5>2. group[k] = "online"
          BY <3>1, <5>1, Sizes DEF Places, Ranked
        <5>3. k # g
          BY <3>2, <4>1, Sizes
        <5> QED
          BY <1>0, <3>1, <5>2, <5>3
      <4>2. CASE h # g
        <5>1. group[h] # "none"
          BY <1>0, <3>1, <3>2, <4>2
        <5>2. group[k] = "online"
          BY <3>2, <5>1 DEF Places, Ranked
        <5> QED
          BY <1>0, <3>1, <5>2
      <4> QED
        BY <4>1, <4>2
    <3>3. \A h \in Groups : group[h] # "none" => group'[h] = group[h]
      BY <1>0, <3>1
    <3>4. Ranked'
      BY <3>2 DEF Ranked
    <3>5. \A w \in Walks : walk[w].at # None => walk[w].at \in Groups
      BY WalkFacts
    <3>6. \A w \in Walks : walk'[w].at # None => group'[walk'[w].at] # "none"
      BY <3>1, <3>3, <3>5 DEF Places
    <3>7. \A t \in Tasks : group'[css'[t]] = "online" /\ group'[tg'[t]] = "online"
      BY <1>0, <3>1, <3>3 DEF Places
    <3>8. write.pc = "mutex" => write.g # 0 /\ group'[write.g] = "online"
      BY <1>0, <3>3, WriteFacts DEF Places
    <3> QED
      BY <3>1, <3>3, <3>4, <3>6, <3>7, <3>8, Sizes DEF Places
  <2>3. ASSUME NEW g \in Groups, CssReleased(g) PROVE Places'
    <3>1. /\ g > 0 /\ group[g] = "online" /\ (g < Depth => group[g + 1] = "none")
          /\ \A t \in Tasks : css[t] # g /\ tg[t] # g
          /\ \A w \in Walks : walk[w] = Idling
          /\ write.pc # "mutex" /\ group' = [group EXCEPT ![g] = "none"] /\ UNCHANGED <<css, tg, walk, write>>
      BY <2>3 DEF CssReleased, task, Walks
    <3>2. ASSUME NEW k \in Groups, NEW h \in Groups, k < h, group'[h] # "none" PROVE group'[k] = "online"
      <4>1. h # g /\ group[h] # "none" /\ group'[h] = group[h]
        BY <1>0, <3>1, <3>2
      <4>2. group[k] = "online"
        BY <3>2, <4>1 DEF Places, Ranked
      <4>3. k # g
        <5>1. SUFFICES ASSUME k = g PROVE FALSE
          OBVIOUS
        <5>2. g < Depth /\ g + 1 \in Groups /\ (h = g + 1 \/ g + 1 < h)
          BY <3>2, <5>1, Sizes DEF Groups
        <5>3. group[g + 1] = "none" /\ h # g + 1
          BY <3>1, <4>1, <5>2
        <5>4. group[g + 1] = "online"
          BY <4>1, <5>2, <5>3 DEF Places, Ranked
        <5> QED
          BY <5>3, <5>4
      <4> QED
        BY <1>0, <3>1, <4>2, <4>3
    <3>3. \A h \in Groups : h # g => group'[h] = group[h]
      BY <1>0, <3>1
    <3>4. Ranked'
      BY <3>2 DEF Ranked
    <3>5. \A w \in Walks : walk'[w].at = None
      BY <3>1 DEF Idling
    <3>6. \A t \in Tasks : group'[css'[t]] = "online" /\ group'[tg'[t]] = "online"
      BY <1>0, <3>1, <3>3 DEF Places
    <3> QED
      BY <1>a, <3>1, <3>3, <3>4, <3>5, <3>6, Sizes DEF Places
  <2>4. ASSUME NEW g \in Groups, NEW id \in Ids, NEW percent \in Percents, CpuUclampWrite(g, id, percent)
        PROVE  Places'
    <3>1. /\ group' = group /\ walk' = walk /\ css' = css /\ tg' = tg /\ write.pc = "none"
          /\ write'.pc = "mutex" /\ write'.g = g /\ g > 0 /\ group[g] = "online"
      BY <2>4 DEF CpuUclampWrite, tgs, task
    <3> QED
      BY <3>1, PlacesFrame, Sizes DEF Places
  <2>5. ASSUME NEW var \in Vars, NEW v \in SysctlValues, SysctlWrite(var, v) PROVE Places'
    <3>1. group' = group /\ walk' = walk /\ css' = css /\ tg' = tg /\ write.pc = "none" /\ write'.pc = "check"
      BY <2>5 DEF SysctlWrite, tgs, task
    <3> QED
      BY <3>1, PlacesFrame DEF Places
  <2> QED
    BY <1>4, <2>1, <2>2, <2>3, <2>4, <2>5 DEF CallStep, Vars
<1>5. ASSUME NEW g \in Groups, group[g] # "none", walk' = [walk EXCEPT !["write"].at = g],
             write.pc # "walk", write'.pc = "walk", UNCHANGED <<task, group>>
      PROVE  Places'
  <2>1. walk["write"] = Idling
    BY <1>5 DEF Places
  <2>2. /\ walk'["write"].at = g /\ \A v \in Walks \ {"write"} : walk'[v] = walk[v]
    BY <1>5, <1>a, <2>1, BeginEffect
  <2>3. walk'["online"] = walk["online"]
    BY <1>a, <2>2
  <2>4. css' = css /\ tg' = tg /\ group' = group
    BY <1>5 DEF task
  <2>5. \A v \in Walks : walk'[v].at # None => group[walk'[v].at] # "none"
    BY <1>5, <2>2 DEF Places
  <2> QED
    BY <1>5, <2>3, <2>4, <2>5 DEF Places, Ranked
<1>6. CASE CpuUclampStore
  <2>1. write.g \in Groups /\ group[write.g] # "none" /\ write.pc # "walk" /\ write'.pc = "walk"
    BY <1>0, <1>6, WriteFacts DEF CpuUclampStore, Places
  <2> QED
    BY <1>5, <1>6, <2>1 DEF CpuUclampStore
<1>7. CASE SysctlCheck
  <2>1. CASE walk' = walk
    <3>1. write'.pc # "mutex" /\ (write'.pc # "walk" => walk["write"] = Idling)
      BY <1>7, <2>1 DEF SysctlCheck, Places
    <3> QED
      BY <1>7, <2>1, <3>1, PlacesFrame DEF SysctlCheck, task, Places
  <2>2. CASE walk' # walk
    <3>1. /\ walk' = [walk EXCEPT !["write"].at = 0] /\ write.pc # "walk" /\ write'.pc = "walk"
          /\ UNCHANGED <<task, group>>
      BY <1>7, <2>2 DEF SysctlCheck
    <3>2. group[0] # "none"
      BY DEF Places
    <3> QED
      BY <1>5, <3>1, <3>2, Sizes
  <2> QED
    BY <2>1, <2>2
<1>8. CASE WriteDone
  <2>1. /\ group' = group /\ walk' = walk /\ css' = css /\ tg' = tg /\ write'.pc = "none"
        /\ walk["write"] = Idling
    BY <1>8 DEF WriteDone, tgs, task, Places
  <2> QED
    BY <2>1, PlacesFrame DEF Places
<1>9. ASSUME NEW g \in Groups, CssOnline(g) PROVE Places'
  <2>1. /\ group[g] = "alloc" /\ group' = [group EXCEPT ![g] = "online"] /\ walk["online"] = Idling
        /\ walk' = [walk EXCEPT !["online"].at = g] /\ UNCHANGED <<css, tg, write>>
    BY <1>9 DEF CssOnline, Places, task
  <2>2. /\ walk'["online"].at = g /\ \A v \in Walks \ {"online"} : walk'[v] = walk[v]
    BY <1>a, <2>1, BeginEffect
  <2>3. walk'["write"] = walk["write"]
    BY <1>a, <2>2
  <2>4. \A h \in Groups : h # g => group'[h] = group[h] /\ group'[h] # "alloc"
    <3> TAKE h \in Groups
    <3>1. h # g => h < g \/ g < h
      BY Sizes
    <3>2. h # g => group[h] # "alloc"
      BY <2>1, <3>1 DEF Places, Ranked
    <3> QED
      BY <1>0, <2>1, <3>2
  <2>5. group'[g] = "online" /\ group[g] # "online"
    BY <1>0, <2>1
  <2>6. \A h \in Groups : group[h] = "online" => group'[h] = "online"
    BY <2>4, <2>5
  <2>7. \A h \in Groups : group'[h] # "none" <=> group[h] # "none"
    BY <2>1, <2>4, <2>5
  <2>8. Ranked'
    BY <2>6, <2>7 DEF Places, Ranked
  <2>9. \A w \in Walks : walk'[w].at # None => group'[walk'[w].at] # "none"
    <3> TAKE w \in Walks
    <3>1. walk[w].at # None => walk[w].at \in Groups
      BY WalkFacts
    <3> QED
      BY <1>9, <2>2, <2>7, <3>1, <2>1 DEF Places
  <2>10. \A t \in Tasks : group'[css'[t]] = "online" /\ group'[tg'[t]] = "online"
    BY <1>0, <2>1, <2>6 DEF Places
  <2>11. write.pc = "mutex" => write.g # 0 /\ group'[write.g] = "online"
    BY <1>0, <2>6, WriteFacts DEF Places
  <2> QED
    BY <2>1, <2>3, <2>4, <2>5, <2>6, <2>8, <2>9, <2>10, <2>11, Sizes DEF Places
<1> QED
  BY <1>1, <1>3, <1>4, <1>6, <1>7, <1>8, <1>9 DEF AnyStep

\* A step that leaves the sysctls.
LEMMA DefaultSame ==
    ASSUME DefaultOK, sysctl' = sysctl, default' = default, tgReq'[0] = tgReq[0],
           (write'.pc # "check" /\ write.pc # "check") \/ write' = write
    PROVE  DefaultOK'
  BY DEF DefaultOK, Settled

\* Every step keeps the default in line with the sysctls that were accepted.
LEMMA DefaultStep == ASSUME TypeInv, Places, DefaultOK, AnyStep PROVE DefaultOK'
<1>0. /\ sysctl \in [Vars -> Nat] /\ tgReq \in [Groups -> [Ids -> Values]] /\ write \in WriteState
      /\ default \in [Ids -> Values]
  BY DEF TypeInv, Types
<1>1. CASE TaskStep
  <2>1. sysctl' = sysctl /\ default' = default /\ tgReq' = tgReq
    BY <1>1 DEF TaskStep, Enqueue, Dequeue, Link, SchedPostFork, Attach, SetschedulerUclamp, SyncRtDefault, Fork, tgs, sys
  <2>2. (write'.pc # "check" /\ write.pc # "check") \/ write' = write
    <3>1. CASE \E t \in Tasks : SyncRtDefault(t)
      BY <1>0, <3>1 DEF SyncRtDefault, WriteState
    <3>2. CASE ~\E t \in Tasks : SyncRtDefault(t)
      BY <1>1, <3>2 DEF TaskStep, Enqueue, Dequeue, Link, SchedPostFork, Attach, SetschedulerUclamp, Fork
    <3> QED
      BY <3>1, <3>2
  <2> QED
    BY <2>1, <2>2, DefaultSame
<1>2. CASE WalkStep
  BY <1>2, DefaultSame DEF WalkStep, Visit, Store, UpdateActive, tgs, sys
<1>3. CASE CallStep
  <2>1. CASE \E var \in Vars, v \in SysctlValues : SysctlWrite(var, v)
    <3>1. PICK var \in Vars, v \in SysctlValues : SysctlWrite(var, v)
      BY <2>1
    <3>2. /\ sysctl' = [sysctl EXCEPT ![var] = v] /\ write.pc = "none" /\ write'.pc = "check"
          /\ write'.var = var /\ write'.old = sysctl[var] /\ default' = default /\ tgReq' = tgReq
      BY <3>1 DEF SysctlWrite, tgs
    <3>3. \A x \in Vars : Settled(x)' = Settled(x)
      BY <1>0, <3>2 DEF Settled
    <3>4. "min" \in Vars /\ "max" \in Vars /\ "rt" \in Vars
      BY DEF Vars
    <3> QED
      BY <3>2, <3>3, <3>4 DEF DefaultOK
  <2>2. ASSUME NEW g \in Groups, CssAlloc(g) PROVE DefaultOK'
    <3>1. tgReq'[0] = tgReq[0]
      BY <1>0, <2>2, Sizes DEF CssAlloc
    <3> QED
      BY <2>2, <3>1, DefaultSame DEF CssAlloc, sys
  <2>3. ASSUME NEW g \in Groups, NEW id \in Ids, NEW percent \in Percents, CpuUclampWrite(g, id, percent)
        PROVE  DefaultOK'
    BY <2>3, DefaultSame DEF CpuUclampWrite, sys, tgs
  <2>4. ASSUME NEW g \in Groups, CssReleased(g) PROVE DefaultOK'
    BY <2>4, DefaultSame DEF CssReleased, sys
  <2>5. CASE \E t \in Tasks : \/ SetPolicy(t) \/ \E g \in Groups : CanAttach(t, g)
                              \/ \E id \in Ids, v \in Requests : UclampValidate(t, id, v)
    BY <2>5, DefaultSame DEF SetPolicy, CanAttach, UclampValidate, sys, tgs
  <2> QED
    BY <1>3, <2>1, <2>2, <2>3, <2>4, <2>5 DEF CallStep, Vars
<1>4. CASE CpuUclampStore
  <2>1. tgReq' = [tgReq EXCEPT ![write.g][write.id] = write.util] /\ write.g # 0 /\ write.g \in Groups
        /\ write.pc = "mutex" /\ write'.pc = "walk" /\ sysctl' = sysctl /\ default' = default
    BY <1>0, <1>4, WriteFacts DEF CpuUclampStore, Places, sys
  <2>2. tgReq'[0] = tgReq[0]
    BY <1>0, <2>1, Sizes
  <2> QED
    BY <2>1, <2>2, DefaultSame
<1>5. CASE SysctlCheck
  <2>1. write.pc = "check" /\ write.var \in Vars /\ write.old \in Nat
    BY <1>0, <1>5, WriteFacts DEF SysctlCheck
  <2>2. CASE sysctl["min"] > sysctl["max"] \/ sysctl["max"] > SCALE \/ sysctl["rt"] > SCALE
    <3>1. /\ sysctl' = [sysctl EXCEPT ![write.var] = write.old] /\ write'.pc = "none"
          /\ default' = default /\ tgReq' = tgReq
      BY <1>5, <2>2 DEF SysctlCheck
    <3>2. \A x \in Vars : Settled(x)' = Settled(x)
      BY <1>0, <2>1, <3>1 DEF Settled
    <3>3. "min" \in Vars /\ "max" \in Vars /\ "rt" \in Vars
      BY DEF Vars
    <3> QED
      BY <3>1, <3>2, <3>3 DEF DefaultOK
  <2>3. CASE ~(sysctl["min"] > sysctl["max"] \/ sysctl["max"] > SCALE \/ sysctl["rt"] > SCALE)
    <3>1. /\ sysctl' = sysctl /\ write'.pc # "check"
          /\ default' = [MIN |-> sysctl["min"], MAX |-> sysctl["max"]]
      BY <1>5, <2>3 DEF SysctlCheck
    <3>2. sysctl["min"] \in Nat /\ sysctl["max"] \in Nat /\ sysctl["rt"] \in Nat
      BY <1>0 DEF Vars
    <3>3. sysctl["min"] <= sysctl["max"] /\ sysctl["max"] <= SCALE /\ sysctl["rt"] <= SCALE
      BY <2>3, <3>2, Sizes
    <3>4. tgReq'[0] = default'
      <4>1. CASE write.var = "rt"
        <5>1. tgReq' = tgReq
          BY <1>5, <2>3, <4>1 DEF SysctlCheck
        <5>2. default["MIN"] = sysctl["min"] /\ default["MAX"] = sysctl["max"]
          BY <4>1 DEF DefaultOK, Settled
        <5>3. default = [MIN |-> default["MIN"], MAX |-> default["MAX"]]
          BY <1>0 DEF Ids
        <5> QED
          BY <3>1, <5>1, <5>2, <5>3 DEF DefaultOK
      <4>2. CASE write.var # "rt"
        <5>1. tgReq' = [tgReq EXCEPT ![0] = default']
          BY <1>5, <2>3, <4>2 DEF SysctlCheck
        <5> QED
          BY <1>0, <5>1, Sizes
      <4> QED
        BY <4>1, <4>2
    <3>5. default'["MIN"] = sysctl["min"] /\ default'["MAX"] = sysctl["max"]
      BY <3>1
    <3> QED
      BY <3>1, <3>3, <3>4, <3>5 DEF DefaultOK, Settled
  <2> QED
    BY <2>2, <2>3
<1>6. CASE WriteDone
  BY <1>6, DefaultSame DEF WriteDone, sys, tgs
<1>7. ASSUME NEW g \in Groups, CssOnline(g) PROVE DefaultOK'
  BY <1>7, DefaultSame DEF CssOnline, sys
<1> QED
  BY <1>1, <1>2, <1>3, <1>4, <1>5, <1>6, <1>7 DEF AnyStep

\* The clamps a group has to have depend on its request and its parent only.
LEMMA EffSame ==
    ASSUME NEW g, tgReq'[g] = tgReq[g], g # 0 => tgEff'[g - 1] = tgEff[g - 1],
           group'[g] = "online" <=> group[g] = "online"
    PROVE  Effective(g, ParentEff(g))' = Effective(g, ParentEff(g))
<1>1. ParentEff(g)' = ParentEff(g)
  BY DEF ParentEff
<1>2. PICK p : p = ParentEff(g)
  OBVIOUS
<1>3. Effective(g, ParentEff(g)) = Effective(g, p)
  BY <1>2
<1> QED
  BY <1>1 DEF Effective

\* A step that leaves groups and walks.
LEMMA GroupsSame ==
    ASSUME TypeInv, GroupsOK, group' = group, tgReq' = tgReq, tgEff' = tgEff,
           \A v \in Walks : walk'[v].at = walk[v].at /\ walk'[v].eff = walk[v].eff
    PROVE  GroupsOK'
<1>1. \A g : Effective(g, ParentEff(g))' = Effective(g, ParentEff(g))
  BY EffSame
<1>2. ASSUME NEW g \in Groups, group'[g] = "online" PROVE Agrees(g)' \/ \E w \in Walks : walk'[w].at = g
  BY <1>1, <1>2 DEF GroupsOK, Agrees
<1>3. ASSUME NEW w \in Walks, walk'[w].eff # None, \A v \in Walks \ {w} : walk'[v].at = None
      PROVE  walk'[w].eff = Effective(walk[w].at, ParentEff(walk[w].at))'
  <2>1. PICK g : g = walk[w].at
    OBVIOUS
  <2>2. walk'[w].eff = Effective(g, ParentEff(g)) /\ walk'[w].at = g
    BY <1>3, <2>1 DEF GroupsOK
  <2>3. Effective(g, ParentEff(g))' = Effective(walk[w].at, ParentEff(walk[w].at))'
    BY <2>2
  <2> QED
    BY <1>1, <2>2, <2>3
<1> QED
  BY <1>2, <1>3 DEF GroupsOK

\* A walk that begins where the request has changed.
LEMMA GroupsBegin ==
    ASSUME TypeInv, GroupsOK, NEW w \in Walks, walk[w] = Idling, NEW g \in Groups,
           walk' = [walk EXCEPT ![w].at = g], tgEff' = tgEff,
           \A h \in Groups \ {g} : tgReq'[h] = tgReq[h] /\ group'[h] = group[h]
    PROVE  GroupsOK'
<1>1. /\ walk'[w].at = g /\ walk'[w].eff = None
      /\ \A v \in Walks \ {w} : walk'[v] = walk[v]
  BY BeginEffect
<1>2. ASSUME NEW h \in Groups, group'[h] = "online" PROVE Agrees(h)' \/ \E v \in Walks : walk'[v].at = h
  <2>1. CASE h = g
    BY <1>1, <2>1
  <2>2. CASE h # g
    <3>1. Effective(h, ParentEff(h))' = Effective(h, ParentEff(h)) /\ group[h] = "online"
      BY <1>2, <2>2, EffSame
    <3>2. CASE Agrees(h)
      BY <3>1, <3>2 DEF Agrees
    <3>3. ASSUME NEW v \in Walks, walk[v].at = h PROVE walk'[v].at = h
      <4>1. h # None /\ walk[w].at = None
        BY Sizes DEF Idling
      <4> QED
        BY <1>1, <3>3, <4>1
    <3> QED
      BY <3>1, <3>2, <3>3 DEF GroupsOK
  <2> QED
    BY <2>1, <2>2
<1>3. \A v \in Walks : walk'[v].eff # None => \E u \in Walks \ {v} : walk'[u].at # None
  BY <1>1, Sizes
<1> QED
  BY <1>2, <1>3 DEF GroupsOK

\* Every step keeps the groups in line with their parents, or in the way of a walk.
LEMMA GroupsStep ==
    ASSUME TypeInv, Places, DefaultOK, GroupsOK, AnyStep, raced' = {} PROVE GroupsOK'
<1>0. group \in [Groups -> States] /\ tgReq \in [Groups -> [Ids -> Values]]
      /\ tgEff \in [Groups -> [Ids -> Values]] /\ write \in WriteState
  BY DEF TypeInv, Types
<1>a. "write" \in Walks /\ "online" \in Walks
  BY DEF Walks
<1>1. CASE TaskStep
  <2>1. UNCHANGED <<group, tgReq, tgEff, walk>>
    BY <1>1 DEF TaskStep, Enqueue, Dequeue, Link, SchedPostFork, Attach, SetschedulerUclamp, SyncRtDefault, Fork, tgs
  <2> QED
    BY <2>1, GroupsSame
<1>2. ASSUME NEW w \in Walks, Visit(w) PROVE GroupsOK'
  <2>1. /\ walk[w].at \in Groups
        /\ \A v \in Walks : walk'[v].at = walk[v].at
        /\ \A v \in Walks \ {w} : walk'[v] = walk[v]
        /\ walk'[w].eff = Effective(walk[w].at, ParentEff(walk[w].at))
    BY <1>2, VisitEffect
  <2>2. UNCHANGED <<group, tgReq, tgEff>>
    BY <1>2 DEF Visit, tgs
  <2>3. \A g : Effective(g, ParentEff(g))' = Effective(g, ParentEff(g))
    BY <2>2, EffSame
  <2>4. ASSUME NEW g \in Groups, group'[g] = "online" PROVE Agrees(g)' \/ \E v \in Walks : walk'[v].at = g
    BY <2>1, <2>2, <2>3, <2>4 DEF GroupsOK, Agrees
  <2>5. ASSUME NEW v \in Walks, walk'[v].eff # None, \A u \in Walks \ {v} : walk'[u].at = None
        PROVE  walk'[v].eff = Effective(walk[v].at, ParentEff(walk[v].at))'
    <3>1. PICK g : g = walk[v].at
      OBVIOUS
    <3>2. walk'[v].at = g
      BY <2>1, <3>1
    <3>3. walk'[v].eff = Effective(g, ParentEff(g))
      <4>1. CASE v = w
        BY <2>1, <3>1, <4>1
      <4>2. CASE v # w
        BY <2>1, <2>5, <3>1, <4>2 DEF GroupsOK
      <4> QED
        BY <4>1, <4>2
    <3>4. Effective(g, ParentEff(g))' = Effective(walk[v].at, ParentEff(walk[v].at))'
      BY <3>2
    <3> QED
      BY <2>3, <3>3, <3>4
  <2> QED
    BY <2>4, <2>5 DEF GroupsOK
<1>3. ASSUME NEW w \in Walks, Store(w) PROVE GroupsOK'
  <2>1. PICK g : g = walk[w].at
    OBVIOUS
  <2>2. /\ g \in Groups /\ tgEff'[g] = walk[w].eff /\ \A h \in Groups \ {g} : tgEff'[h] = tgEff[h]
        /\ \A v \in Walks \ {w} : walk'[v] = walk[v]
        /\ walk'[w].eff = None
        /\ tgEff'[g] # tgEff[g] => walk'[w].at = NextGroup(g)
    BY <1>3, <2>1, StoreEffect
  <2>3. UNCHANGED <<group, tgReq>> /\ walk[w].eff # None
    BY <1>3 DEF Store
  <2>4. \A v \in Walks \ {w} : walk[v] = Idling
    BY <1>3 DEF Store, Walks
  <2>5. \A v \in Walks \ {w} : walk[v].at = None /\ walk[v].eff = None
    BY <2>4 DEF Idling
  <2>6. tgEff'[g] = Effective(g, ParentEff(g))
    BY <2>1, <2>2, <2>3, <2>5 DEF GroupsOK
  <2>7. ASSUME NEW h \in Groups, group'[h] = "online" PROVE Agrees(h)' \/ \E v \in Walks : walk'[v].at = h
    <3>1. group[h] = "online"
      BY <2>3, <2>7
    <3>2. CASE h = g
      <4>0. g \in Groups /\ g \in Nat
        BY <2>2, Sizes
      <4>1. g # 0 => g - 1 \in Groups /\ g - 1 # g
        BY <4>0, Sizes
      <4>2. Effective(g, ParentEff(g))' = Effective(g, ParentEff(g))
        BY <2>2, <2>3, <4>1, EffSame
      <4> QED
        BY <2>6, <3>2, <4>2 DEF Agrees
    <3>3. CASE h = g + 1 /\ tgEff'[g] # tgEff[g]
      <4>1. g < Depth /\ group[g + 1] # "none"
        BY <2>2, <3>1, <3>3, Sizes DEF Groups
      <4>2. NextGroup(g) = g + 1
        BY <4>1 DEF NextGroup
      <4> QED
        BY <2>2, <3>3, <4>2
    <3>4. CASE h # g /\ ~(h = g + 1 /\ tgEff'[g] # tgEff[g])
      <4>1. ~\E v \in Walks : walk[v].at = h
        BY <2>1, <2>5, <3>4, Sizes
      <4>2. Agrees(h)
        BY <3>1, <4>1 DEF GroupsOK
      <4>3. h # 0 => h - 1 \in Groups /\ (h - 1 = g <=> h = g + 1)
        BY <2>2, Sizes
      <4>4. h # 0 => tgEff'[h - 1] = tgEff[h - 1]
        BY <2>2, <3>4, <4>3
      <4>5. Effective(h, ParentEff(h))' = Effective(h, ParentEff(h))
        BY <2>3, <4>4, EffSame
      <4> QED
        BY <2>2, <3>4, <4>2, <4>5 DEF Agrees
    <3> QED
      BY <3>2, <3>3, <3>4
  <2>8. \A v \in Walks : walk'[v].eff = None
    BY <2>2, <2>5
  <2> QED
    BY <2>7, <2>8 DEF GroupsOK
<1>4. CASE WalkStep
  <2>1. PICK w \in Walks : Visit(w) \/ Store(w) \/ \E t \in Tasks, id \in Ids : UpdateActive(w, t, id)
    BY <1>4 DEF WalkStep, Walks
  <2>2. ASSUME NEW t \in Tasks, NEW id \in Ids, UpdateActive(w, t, id) PROVE GroupsOK'
    <3>1. UNCHANGED <<group, tgReq, tgEff>>
      BY <2>2 DEF UpdateActive, tgs
    <3> QED
      BY <2>2, <3>1, UpdateWalks, GroupsSame
  <2> QED
    BY <1>2, <1>3, <2>1, <2>2
<1>5. CASE CallStep
  <2>1. ASSUME NEW g \in Groups, CssAlloc(g) PROVE GroupsOK'
    <3>1. /\ g > 0 /\ group[g] = "none" /\ walk' = walk
          /\ group' = [group EXCEPT ![g] = "alloc"] /\ tgReq' = [tgReq EXCEPT ![g] = NoClamps]
          /\ tgEff' = [tgEff EXCEPT ![g] = tgEff[g - 1]]
      BY <2>1 DEF CssAlloc
    <3>2. /\ group'[g] = "alloc"
          /\ \A h \in Groups \ {g} : group'[h] = group[h] /\ tgReq'[h] = tgReq[h] /\ tgEff'[h] = tgEff[h]
      BY <1>0, <3>1
    <3>3. ASSUME NEW h \in Groups, group[h] # "none"
          PROVE  h # g /\ (h # 0 => tgEff'[h - 1] = tgEff[h - 1])
      <4>1. h # g
        BY <3>1, <3>3
      <4>2. h # 0 => h - 1 \in Groups /\ h - 1 < h
        BY Sizes
      <4>3. h # 0 => group[h - 1] = "online"
        BY <3>3, <4>2 DEF Places, Ranked
      <4>4. h # 0 => h - 1 # g
        BY <3>1, <4>3
      <4> QED
        BY <3>2, <4>1, <4>2, <4>4
    <3>4. \A h \in Groups : group[h] # "none" => Effective(h, ParentEff(h))' = Effective(h, ParentEff(h))
      BY <3>2, <3>3, EffSame
    <3>5. ASSUME NEW h \in Groups, group'[h] = "online" PROVE Agrees(h)' \/ \E v \in Walks : walk'[v].at = h
      <4>1. h # g /\ group[h] = "online" /\ tgEff'[h] = tgEff[h]
        BY <3>2, <3>5
      <4> QED
        BY <3>1, <3>4, <4>1 DEF GroupsOK, Agrees
    <3>6. ASSUME NEW w \in Walks, walk[w].eff # None, \A v \in Walks \ {w} : walk[v].at = None
          PROVE  walk'[w].eff = Effective(walk[w].at, ParentEff(walk[w].at))'
      <4>1. PICK h \in Groups : h = walk[w].at
        BY <3>6, WalkFacts
      <4>2. group[h] # "none"
        BY <4>1, Sizes DEF Places
      <4>3. walk[w].eff = Effective(h, ParentEff(h))
        BY <3>6, <4>1 DEF GroupsOK
      <4>4. Effective(h, ParentEff(h))' = Effective(walk[w].at, ParentEff(walk[w].at))'
        BY <3>1, <4>1
      <4> QED
        BY <3>1, <3>4, <4>2, <4>3, <4>4
    <3> QED
      BY <3>1, <3>5, <3>6 DEF GroupsOK
  <2>2. ASSUME NEW g \in Groups, CssReleased(g) PROVE GroupsOK'
    <3>1. /\ group' = [group EXCEPT ![g] = "none"] /\ UNCHANGED <<tgReq, tgEff, walk>>
          /\ \A w \in Walks : walk[w] = Idling
      BY <2>2 DEF CssReleased, Walks
    <3>2. \A w \in Walks : walk[w].at = None /\ walk[w].eff = None
      BY <3>1 DEF Idling
    <3>3. ASSUME NEW h \in Groups, group'[h] = "online" PROVE Agrees(h)'
      <4>1. group[h] = "online"
        BY <1>0, <3>1, <3>3
      <4>2. Agrees(h)
        BY <3>2, <4>1, Sizes DEF GroupsOK
      <4>3. Effective(h, ParentEff(h))' = Effective(h, ParentEff(h))
        BY <3>1, <3>3, <4>1, EffSame
      <4> QED
        BY <3>1, <4>2, <4>3 DEF Agrees
    <3> QED
      BY <3>1, <3>2, <3>3 DEF GroupsOK
  <2>3. CASE \/ \E t \in Tasks : \/ SetPolicy(t) \/ \E g \in Groups : CanAttach(t, g)
                                 \/ \E id \in Ids, v \in Requests : UclampValidate(t, id, v)
             \/ \E g \in Groups, id \in Ids, percent \in Percents : CpuUclampWrite(g, id, percent)
             \/ \E var \in Vars, v \in SysctlValues : SysctlWrite(var, v)
    <3>1. UNCHANGED <<group, tgReq, tgEff, walk>>
      BY <2>3 DEF SetPolicy, CanAttach, UclampValidate, CpuUclampWrite, SysctlWrite, tgs
    <3> QED
      BY <3>1, GroupsSame
  <2> QED
    BY <1>5, <2>1, <2>2, <2>3 DEF CallStep, Vars
<1>6. CASE CpuUclampStore
  <2>1. write.g \in Groups /\ walk["write"] = Idling
    BY <1>0, <1>6, WriteFacts DEF CpuUclampStore, Places
  <2>2. /\ tgReq' = [tgReq EXCEPT ![write.g][write.id] = write.util]
        /\ walk' = [walk EXCEPT !["write"].at = write.g] /\ UNCHANGED <<group, tgEff>>
    BY <1>6 DEF CpuUclampStore
  <2>3. \A h \in Groups \ {write.g} : tgReq'[h] = tgReq[h] /\ group'[h] = group[h]
    BY <1>0, <2>1, <2>2
  <2> QED
    BY <1>a, <2>1, <2>2, <2>3, GroupsBegin
<1>7. CASE SysctlCheck
  <2>1. CASE walk' = walk /\ tgReq' = tgReq
    BY <1>7, <2>1, GroupsSame DEF SysctlCheck
  <2>2. CASE ~(walk' = walk /\ tgReq' = tgReq)
    <3>1. /\ walk' = [walk EXCEPT !["write"].at = 0] /\ tgReq' = [tgReq EXCEPT ![0] = default']
          /\ UNCHANGED <<group, tgEff>> /\ walk["write"] = Idling
      BY <1>7, <2>2 DEF SysctlCheck, Places
    <3>2. \A h \in Groups \ {0} : tgReq'[h] = tgReq[h] /\ group'[h] = group[h]
      BY <1>0, <3>1
    <3> QED
      BY <1>a, <3>1, <3>2, Sizes, GroupsBegin
  <2> QED
    BY <2>1, <2>2
<1>8. CASE WriteDone
  BY <1>8, GroupsSame DEF WriteDone, tgs
<1>9. ASSUME NEW g \in Groups, CssOnline(g) PROVE GroupsOK'
  <2>1. /\ group' = [group EXCEPT ![g] = "online"] /\ walk' = [walk EXCEPT !["online"].at = g]
        /\ UNCHANGED <<tgReq, tgEff>> /\ walk["online"] = Idling
    BY <1>9 DEF CssOnline, Places
  <2>2. \A h \in Groups \ {g} : tgReq'[h] = tgReq[h] /\ group'[h] = group[h]
    BY <1>0, <2>1
  <2> QED
    BY <1>a, <2>1, <2>2, GroupsBegin
<1> QED
  BY <1>1, <1>4, <1>5, <1>6, <1>7, <1>8, <1>9 DEF AnyStep

\* Without a walk under way every group is within the default of the system.
LEMMA WithinDefault ==
    ASSUME TypeInv, Places, DefaultOK, GroupsOK, \A w \in Walks : walk[w].at = None
    PROVE  /\ \A g \in Groups : group[g] = "online" => Agrees(g)
           /\ tgEff[0] = default
           /\ \A g \in Groups, id \in Ids : group[g] = "online" => tgEff[g][id] <= default[id]
<1>0. /\ tgReq \in [Groups -> [Ids -> Values]] /\ tgEff \in [Groups -> [Ids -> Values]]
      /\ default \in [Ids -> Values]
  BY DEF TypeInv, Types
<1>1. ASSUME NEW g \in Groups, group[g] = "online" PROVE Agrees(g)
  <2>1. g # None
    BY Sizes
  <2> QED
    BY <1>1, <2>1 DEF GroupsOK
<1>2. tgEff[0] = default
  <2>1. 0 \in Groups /\ group[0] = "online" /\ tgReq[0] = default
    BY Sizes DEF Places, DefaultOK
  <2>2. tgEff[0] = Effective(0, [id \in Ids |-> SCALE])
    BY <1>1, <2>1 DEF Agrees, ParentEff
  <2>3. default["MIN"] \in Nat /\ default["MAX"] \in Nat /\ default["MIN"] <= SCALE /\ default["MAX"] <= SCALE
        /\ default["MIN"] <= default["MAX"]
    <3>1. default["MIN"] \in Values /\ default["MAX"] \in Values
      BY <1>0 DEF Ids
    <3> QED
      BY <3>1, Sizes DEF Values, DefaultOK
  <2>4. tgEff[0]["MIN"] = default["MIN"] /\ tgEff[0]["MAX"] = default["MAX"]
    BY <2>1, <2>2, <2>3, Sizes DEF Effective, Least, Ids
  <2>5. tgEff[0] \in [Ids -> Values]
    BY <1>0, <2>1
  <2> QED
    BY <1>0, <2>4, <2>5 DEF Ids
<1>3. ASSUME NEW id \in Ids, NEW g \in Groups, g # 0, group[g] = "online"
      PROVE  g - 1 \in Groups /\ group[g - 1] = "online" /\ tgEff[g][id] <= tgEff[g - 1][id]
  <2>1. g - 1 \in Groups /\ g - 1 < g
    BY <1>3, Sizes
  <2>2. group[g - 1] = "online"
    BY <1>3, <2>1 DEF Places, Ranked
  <2>3. tgEff[g] = Effective(g, tgEff[g - 1])
    BY <1>1, <1>3 DEF Agrees, ParentEff
  <2>4. PICK p \in [Ids -> Values] : p = tgEff[g - 1]
    BY <1>0, <2>1
  <2>5. PICK q \in [Ids -> Values] : q = tgReq[g]
    BY <1>0
  <2>6. p["MIN"] \in Nat /\ p["MAX"] \in Nat /\ q["MIN"] \in Nat /\ q["MAX"] \in Nat
    BY Sizes DEF Ids, Values
  <2>7. /\ tgEff[g]["MAX"] = Least(q["MAX"], p["MAX"])
        /\ tgEff[g]["MIN"] = Least(Least(q["MIN"], p["MIN"]), Least(q["MAX"], p["MAX"]))
    BY <2>3, <2>4, <2>5 DEF Effective, Ids
  <2>8. tgEff[g]["MAX"] <= p["MAX"] /\ tgEff[g]["MIN"] <= p["MIN"]
    BY <2>6, <2>7 DEF Least
  <2> QED
    BY <2>1, <2>2, <2>4, <2>8 DEF Ids
<1>4. ASSUME NEW id \in Ids PROVE \A g \in Groups : group[g] = "online" => tgEff[g][id] <= default[id]
  <2> DEFINE S == {g \in Groups : group[g] = "online" /\ ~(tgEff[g][id] <= default[id])}
  <2>1. SUFFICES ASSUME S # {} PROVE FALSE
    OBVIOUS
  <2>2. S \in SUBSET Nat
    BY Sizes
  <2>3. PICK g \in S : \A h \in S : ~(h < g)
    BY <2>1, <2>2, LeastMember
  <2>4. default[id] \in Nat /\ \A h \in Groups : tgEff[h][id] \in Nat
    BY <1>0, Sizes DEF Values
  <2>5. g \in Groups /\ group[g] = "online" /\ ~(tgEff[g][id] <= default[id])
    BY <2>3
  <2>6. g # 0
    BY <1>2, <2>4, <2>5
  <2>7. g - 1 \in Groups /\ group[g - 1] = "online" /\ tgEff[g][id] <= tgEff[g - 1][id]
    BY <1>3, <2>5, <2>6
  <2>8. ~(tgEff[g - 1][id] <= default[id])
    BY <2>4, <2>5, <2>7
  <2>9. g - 1 \in S
    BY <2>7, <2>8
  <2>10. g - 1 < g
    BY <2>5, Sizes
  <2> QED
    BY <2>3, <2>9, <2>10
<1> QED
  BY <1>1, <1>2, <1>4

\* The invariant gives the property.
LEMMA RestrictedShows == ASSUME TypeInv, RestrictInv PROVE Restricted
<1> SUFFICES ASSUME NobodyWrites, raced = {}
    PROVE  /\ \A g \in Groups : group[g] = "online" => tgEff[g] = Effective(g, ParentEff(g))
           /\ \A t \in Tasks, id \in Ids : clamp.active[t][id] /\ css[t] = tg[t] =>
                /\ clamp.value[t][id] <= default[id] /\ clamp.value[t][id] <= tgEff[tg[t]][id]
                /\ user[t][id] => clamp.value[t][id] = uclamp_eff_get(t, id)
           /\ \A t \in Tasks : rt[t] /\ ~user[t]["MIN"] /\ life[t] \in {"asleep", "queued"} =>
                req[t]["MIN"] = sysctl["rt"]
  BY DEF Restricted
<1>1. Places /\ DefaultOK /\ GroupsOK /\ TasksOK /\ RtOK
  BY DEF RestrictInv
<1>2. write.pc = "none" /\ \A w \in Walks : walk[w].at = None /\ walk[w].todo = {}
  BY DEF NobodyWrites, Walks, Idling
<1>3. /\ \A g \in Groups : group[g] = "online" => Agrees(g)
      /\ tgEff[0] = default
      /\ \A g \in Groups, id \in Ids : group[g] = "online" => tgEff[g][id] <= default[id]
  BY <1>1, <1>2, WithinDefault
<1>4. ASSUME NEW t \in Tasks, NEW id \in Ids, clamp.active[t][id], css[t] = tg[t] PROVE Fits(t, id)
  <2>1. ~Doomed
    BY <1>2 DEF Doomed, Walks
  <2>2. Fits(t, id) \/ Ahead(tg[t], id) \/ Waits(t, id)
    BY <1>1, <1>4, <2>1 DEF TasksOK, Held
  <2>3. ~Waits(t, id)
    BY <1>2 DEF Waits
  <2>4. tg[t] \in Groups /\ group[tg[t]] = "online"
    BY <1>1 DEF TypeInv, Types, Places
  <2>5. tgEff[tg[t]][id] \in Nat /\ default[id] \in Nat
    <3>1. tgEff[tg[t]][id] \in Values /\ default[id] \in Values
      BY <2>4 DEF TypeInv, Types
    <3> QED
      BY <3>1, Sizes DEF Values
  <2>6. tgEff[tg[t]][id] <= default[id]
    BY <1>3, <2>4
  <2>7. ~Ahead(tg[t], id)
    BY <1>3, <2>5, <2>6 DEF Ahead
  <2> QED
    BY <2>2, <2>3, <2>7
<1>5. ASSUME NEW t \in Tasks, rt[t], ~user[t]["MIN"], life[t] \in {"asleep", "queued"}
      PROVE  req[t]["MIN"] = sysctl["rt"]
  BY <1>1, <1>2, <1>5 DEF RtOK, RtHas, Alive
<1> QED
  BY <1>3, <1>4, <1>5 DEF Agrees, Fits

\* What a step has to show of the real-time tasks.
LEMMA RtDone ==
    ASSUME \A t \in Tasks : rt'[t] /\ ~user'[t]["MIN"] /\ life'[t] \in Alive => RtHas(t)'
    PROVE  RtOK'
  BY DEF RtOK, RtHas

\* A task whose request stays.
LEMMA RtKept ==
    ASSUME RtOK, NEW t \in Tasks, rt'[t] = rt[t], user'[t]["MIN"] <=> user[t]["MIN"],
           life'[t] \in Alive => life[t] \in Alive, req'[t]["MIN"] = req[t]["MIN"],
           write' = write, sysctl' = sysctl,
           rt'[t] /\ ~user'[t]["MIN"] /\ life'[t] \in Alive
    PROVE  RtHas(t)'
<1>1. RtHas(t)
  BY DEF RtOK
<1> QED
  BY <1>1 DEF RtHas

\* Every step keeps the real-time tasks in line with the default of their class.
LEMMA RtStep ==
    ASSUME TypeInv, Places, DefaultOK, RtOK, AnyStep, raced' = {} PROVE RtOK'
<1>0. /\ rt \in [Tasks -> BOOLEAN] /\ user \in [Tasks -> [Ids -> BOOLEAN]] /\ life \in [Tasks -> Lives]
      /\ req \in [Tasks -> [Ids -> Nat]] /\ write \in WriteState /\ sysctl \in [Vars -> Nat]
  BY DEF TypeInv, Types
<1>a. "MIN" \in Ids
  BY DEF Ids
<1>b. sysctl["rt"] \in Nat /\ SCALE \in Nat
  BY <1>0, Sizes DEF Vars
<1>1. ASSUME UNCHANGED <<rt, req, user, write, sysctl>>,
             \A t \in Tasks : life'[t] \in Alive => life[t] \in Alive
      PROVE  RtOK'
  BY <1>1, RtKept, RtDone
<1>2. ASSUME NEW t \in Tasks, SchedPostFork(t) PROVE RtOK'
  <2>1. /\ life' = [life EXCEPT ![t] = "asleep"] /\ UNCHANGED <<rt, user, write, sysctl>>
        /\ req' = PostFork(t) /\ Read(req'[t]["MIN"])
    BY <1>2 DEF SchedPostFork, sys
  <2>2. ASSUME rt'[t], ~user'[t]["MIN"] PROVE RtHas(t)'
    <3>1. req' = [req EXCEPT ![t]["MIN"] = sysctl["rt"]]
      BY <2>1, <2>2 DEF PostFork
    <3>2. req'[t]["MIN"] = sysctl["rt"]
      BY <1>0, <1>a, <3>1
    <3>3. sysctl["rt"] <= SCALE
      BY <1>b, <2>1, <3>2 DEF Read
    <3> QED
      BY <2>1, <3>2, <3>3 DEF RtHas
  <2>3. ASSUME NEW s \in Tasks, s # t, rt'[s] /\ ~user'[s]["MIN"] /\ life'[s] \in Alive PROVE RtHas(s)'
    <3>1. req'[s]["MIN"] = req[s]["MIN"]
      BY <1>0, <2>1, <2>3 DEF PostFork
    <3>2. life'[s] = life[s]
      BY <1>0, <2>1, <2>3
    <3> QED
      BY <2>1, <2>3, <3>1, <3>2, RtKept
  <2> QED
    BY <2>2, <2>3, RtDone
<1>3. ASSUME NEW t \in Tasks, SetschedulerUclamp(t) PROVE RtOK'
  <2>1. PICK a \in [p : Tasks, id : Ids, value : Requests] : a = attr
    BY <1>3 DEF SetschedulerUclamp, TypeInv, Types
  <2>2. /\ req' = [req EXCEPT ![t][a.id] = IF a.value = None THEN ResetValue(a.id, rt[t]) ELSE a.value]
        /\ user' = [user EXCEPT ![t][a.id] = a.value # None]
        /\ Read(req'[t][a.id]) /\ UNCHANGED <<life, rt, write, sysctl>>
    BY <1>3, <2>1 DEF SetschedulerUclamp, sys
  <2>3. ASSUME NEW s \in Tasks, rt'[s] /\ ~user'[s]["MIN"] /\ life'[s] \in Alive PROVE RtHas(s)'
    <3>1. CASE s = t /\ a.id = "MIN"
      <4>1. user'[t]["MIN"] <=> a.value # None
        BY <1>0, <1>a, <2>2, <3>1
      <4>2. req'[t]["MIN"] = ResetValue("MIN", rt[t])
        BY <1>0, <1>a, <2>2, <2>3, <3>1, <4>1
      <4>3. req'[t]["MIN"] = sysctl["rt"]
        BY <2>2, <2>3, <3>1, <4>2 DEF ResetValue
      <4>4. sysctl["rt"] <= SCALE
        BY <1>b, <2>2, <3>1, <4>3 DEF Read
      <4> QED
        BY <2>2, <3>1, <4>3, <4>4 DEF RtHas
    <3>2. CASE ~(s = t /\ a.id = "MIN")
      <4>1. req'[s]["MIN"] = req[s]["MIN"] /\ user'[s]["MIN"] = user[s]["MIN"]
        BY <1>0, <1>a, <2>2, <3>2
      <4> QED
        BY <2>2, <2>3, <4>1, RtKept
    <3> QED
      BY <3>1, <3>2
  <2> QED
    BY <2>3, RtDone
<1>4. ASSUME NEW t \in Tasks, SetPolicy(t) PROVE RtOK'
  <2>1. /\ rt' = [rt EXCEPT ![t] = ~@]
        /\ req' = [req EXCEPT ![t] = [id \in Ids |-> IF user[t][id] THEN req[t][id] ELSE ResetValue(id, ~rt[t])]]
        /\ Read(req'[t]["MIN"]) /\ UNCHANGED <<life, user, write, sysctl>>
    BY <1>4 DEF SetPolicy, sys
  <2>2. ASSUME NEW s \in Tasks, rt'[s] /\ ~user'[s]["MIN"] /\ life'[s] \in Alive PROVE RtHas(s)'
    <3>1. CASE s = t
      <4>1. ~rt[t] /\ ~user[t]["MIN"]
        BY <1>0, <2>1, <2>2, <3>1
      <4>2. req'[t] = [id \in Ids |-> IF user[t][id] THEN req[t][id] ELSE ResetValue(id, ~rt[t])]
        BY <1>0, <2>1
      <4>3. req'[t]["MIN"] = ResetValue("MIN", ~rt[t])
        BY <1>a, <4>1, <4>2
      <4>4. req'[t]["MIN"] = sysctl["rt"]
        BY <4>1, <4>3 DEF ResetValue
      <4>5. sysctl["rt"] <= SCALE
        BY <1>b, <2>1, <4>4 DEF Read
      <4> QED
        BY <2>1, <3>1, <4>4, <4>5 DEF RtHas
    <3>2. CASE s # t
      <4>1. req'[s]["MIN"] = req[s]["MIN"] /\ rt'[s] = rt[s]
        BY <1>0, <2>1, <3>2
      <4> QED
        BY <2>1, <2>2, <4>1, RtKept
    <3> QED
      BY <3>1, <3>2
  <2> QED
    BY <2>2, RtDone
<1>5. ASSUME NEW t \in Tasks, NEW p \in Tasks, NEW reset \in BOOLEAN, Fork(t, p, reset) PROVE RtOK'
  <2>1. /\ life' = [life EXCEPT ![p] = "dup"] /\ rt' = [rt EXCEPT ![p] = rt[t] /\ ~reset]
        /\ req' = [req EXCEPT ![p] = IF reset THEN NoClamps ELSE req[t]]
        /\ user' = [user EXCEPT ![p] = [id \in Ids |-> user[t][id] /\ ~reset]]
        /\ UNCHANGED <<write, sysctl>>
    BY <1>5 DEF Fork, sys
  <2>2. life'[p] \notin Alive
    BY <1>0, <2>1 DEF Alive
  <2>3. ASSUME NEW s \in Tasks, s # p, rt'[s] /\ ~user'[s]["MIN"] /\ life'[s] \in Alive PROVE RtHas(s)'
    <3>1. req'[s] = req[s] /\ user'[s] = user[s] /\ rt'[s] = rt[s] /\ life'[s] = life[s]
      BY <1>0, <2>1, <2>3
    <3> QED
      BY <2>1, <2>3, <3>1, RtKept
  <2> QED
    BY <2>2, <2>3, RtDone
<1>6. ASSUME NEW t \in Tasks, SyncRtDefault(t) PROVE RtOK'
  <2>1. /\ write.pc = "sync" /\ req' = PostFork(t) /\ write' = [write EXCEPT !.todo = @ \ {t}]
        /\ UNCHANGED <<life, rt, user, sysctl>>
    BY <1>6 DEF SyncRtDefault, sys
  <2>2. write'.pc = "sync" /\ write'.todo = write.todo \ {t}
    BY <1>0, <2>1 DEF WriteState
  <2>3. ASSUME NEW s \in Tasks, rt'[s] /\ ~user'[s]["MIN"] /\ life'[s] \in Alive PROVE RtHas(s)'
    <3>1. CASE s = t
      <4>1. req' = [req EXCEPT ![t]["MIN"] = sysctl["rt"]]
        BY <2>1, <2>3, <3>1 DEF PostFork
      <4>2. req'[t]["MIN"] = sysctl["rt"]
        BY <1>0, <1>a, <4>1
      <4> QED
        BY <2>1, <2>2, <3>1, <4>2 DEF RtHas
    <3>2. CASE s # t
      <4>1. req'[s]["MIN"] = req[s]["MIN"]
        BY <1>0, <2>1, <3>2 DEF PostFork
      <4>2. RtHas(s)
        BY <2>1, <2>3 DEF RtOK
      <4>3. req[s]["MIN"] = sysctl["rt"] \/ s \in write.todo
        BY <2>1, <4>2 DEF RtHas
      <4> QED
        BY <2>1, <2>2, <3>2, <4>1, <4>3 DEF RtHas
    <3> QED
      BY <3>1, <3>2
  <2> QED
    BY <2>3, RtDone
<1>7. CASE TaskStep
  <2>1. PICK t \in Tasks : \/ Enqueue(t) \/ Dequeue(t) \/ Link(t) \/ SchedPostFork(t) \/ Attach(t) 
                           \/ SetschedulerUclamp(t) \/ SyncRtDefault(t)
                           \/ \E p \in Tasks, reset \in BOOLEAN : Fork(t, p, reset)
    BY <1>7 DEF TaskStep
  <2>2. CASE Enqueue(t) \/ Dequeue(t) \/ Link(t) \/ Attach(t)
    <3>1. /\ UNCHANGED <<rt, req, user, write, sysctl>>
          /\ \A s \in Tasks : life'[s] \in Alive => life[s] \in Alive
      BY <1>0, <2>2 DEF Enqueue, Dequeue, Link, Attach, sys, Alive
    <3> QED
      BY <1>1, <3>1
  <2> QED
    BY <1>2, <1>3, <1>5, <1>6, <2>1, <2>2
<1>8. CASE WalkStep
  BY <1>1, <1>8 DEF WalkStep, Visit, Store, UpdateActive, task, sys
<1>c. ASSUME UNCHANGED <<rt, req, user, life>>,
             \A t \in Tasks : rt[t] /\ ~user[t]["MIN"] /\ life[t] \in Alive /\ RtHas(t) => RtHas(t)'
      PROVE  RtOK'
  BY <1>c, RtDone DEF RtOK
<1>9. CASE CallStep
  <2>1. ASSUME NEW var \in Vars, NEW v \in SysctlValues, SysctlWrite(var, v) PROVE RtOK'
    <3>1. /\ sysctl' = [sysctl EXCEPT ![var] = v] /\ write.pc = "none" /\ write'.pc = "check"
          /\ write'.var = var /\ write'.old = sysctl[var] /\ UNCHANGED <<rt, req, user, life>>
      BY <2>1 DEF SysctlWrite, task
    <3>2. \A t \in Tasks : RtHas(t) => RtHas(t)'
      BY <1>0, <3>1 DEF RtHas, Vars
    <3> QED
      BY <1>c, <3>1, <3>2
  <2>2. ASSUME NEW g \in Groups, NEW id \in Ids, NEW percent \in Percents, CpuUclampWrite(g, id, percent)
        PROVE  RtOK'
    <3>1. /\ write.pc = "none" /\ write'.pc = "mutex" /\ UNCHANGED <<rt, req, user, life, sysctl>>
      BY <2>2 DEF CpuUclampWrite, task, sys
    <3>2. \A t \in Tasks : RtHas(t) => RtHas(t)'
      BY <3>1 DEF RtHas
    <3> QED
      BY <1>c, <3>1, <3>2
  <2>3. CASE \/ \E t \in Tasks : \/ \E g \in Groups : CanAttach(t, g)
                                 \/ \E id \in Ids, v \in Requests : UclampValidate(t, id, v)
             \/ \E g \in Groups : CssAlloc(g) \/ CssReleased(g)
    BY <1>1, <2>3 DEF CanAttach, UclampValidate, CssAlloc, CssReleased, task, sys
  <2> QED
    BY <1>4, <1>9, <2>1, <2>2, <2>3 DEF CallStep, Vars
<1>10. CASE CpuUclampStore
  <2>1. /\ write.pc = "mutex" /\ write'.pc = "walk" /\ UNCHANGED <<rt, req, user, life, sysctl>>
    BY <1>10 DEF CpuUclampStore, task, sys
  <2>2. \A t \in Tasks : RtHas(t) => RtHas(t)'
    BY <2>1 DEF RtHas
  <2> QED
    BY <1>c, <2>1, <2>2
<1>11. CASE SysctlCheck
  <2>1. write.pc = "check" /\ write.var \in Vars /\ UNCHANGED <<rt, req, user, life>>
    BY <1>0, <1>11, WriteFacts DEF SysctlCheck, task
  <2>2. CASE sysctl["min"] > sysctl["max"] \/ sysctl["max"] > SCALE \/ sysctl["rt"] > SCALE
    <3>1. sysctl' = [sysctl EXCEPT ![write.var] = write.old] /\ write'.pc = "none"
      BY <1>11, <2>2 DEF SysctlCheck
    <3>2. write.var = "rt" => sysctl["rt"] > SCALE
      <4>1. write.var = "rt" => sysctl["min"] <= sysctl["max"] /\ sysctl["max"] = default["MAX"]
        BY <2>1 DEF DefaultOK, Settled
      <4>2. default["MAX"] \in Values
        BY DEF TypeInv, Types, Ids
      <4>3. default["MAX"] \in Nat /\ default["MAX"] <= SCALE /\ sysctl["min"] \in Nat /\ sysctl["max"] \in Nat
        BY <1>0, <4>2, Sizes DEF Values, Vars
      <4> QED
        BY <1>b, <2>2, <4>1, <4>3
    <3>3. \A t \in Tasks : RtHas(t) => RtHas(t)'
      BY <1>0, <1>b, <2>1, <3>1, <3>2 DEF RtHas, Vars
    <3> QED
      BY <1>c, <2>1, <3>3
  <2>3. CASE ~(sysctl["min"] > sysctl["max"] \/ sysctl["max"] > SCALE \/ sysctl["rt"] > SCALE)
    <3>1. CASE write.var = "rt"
      <4>1. write'.pc = "sync" /\ write'.todo = Linked
        BY <1>11, <2>3, <3>1 DEF SysctlCheck
      <4>2. \A t \in Tasks : life[t] \in Alive => t \in Linked
        BY DEF Linked, Alive
      <4>3. \A t \in Tasks : life[t] \in Alive => RtHas(t)'
        BY <4>1, <4>2 DEF RtHas
      <4> QED
        BY <1>c, <2>1, <4>3
    <3>2. CASE write.var # "rt"
      <4>1. write'.pc = "walk" /\ sysctl' = sysctl
        BY <1>11, <2>3, <3>2 DEF SysctlCheck
      <4>2. \A t \in Tasks : RtHas(t) => RtHas(t)'
        BY <2>1, <3>2, <4>1 DEF RtHas
      <4> QED
        BY <1>c, <2>1, <4>2
    <3> QED
      BY <3>1, <3>2
  <2> QED
    BY <2>2, <2>3
<1>12. CASE WriteDone
  <2>1. /\ write.pc = "walk" \/ (write.pc = "sync" /\ write.todo = {})
        /\ write'.pc = "none" /\ UNCHANGED <<rt, req, user, life, sysctl>>
    BY <1>12 DEF WriteDone, task, sys
  <2>2. \A t \in Tasks : RtHas(t) => RtHas(t)'
    BY <2>1 DEF RtHas
  <2> QED
    BY <1>c, <2>1, <2>2
<1>13. CASE \E g \in Groups : CssOnline(g)
  BY <1>1, <1>13 DEF CssOnline, task, sys
<1> QED
  BY <1>7, <1>8, <1>9, <1>10, <1>11, <1>12, <1>13 DEF AnyStep

\* A task that has just been counted is within its group and the default.
LEMMA FitsNew ==
    ASSUME Types', NEW t \in Tasks, NEW id \in Ids, clamp'.value[t][id] = uclamp_eff_get(t, id)'
    PROVE  Fits(t, id)'
<1>1. req'[t][id] \in Nat /\ tg'[t] \in Groups
  BY DEF Types
<1>2. tgEff'[tg'[t]][id] \in Values /\ default'[id] \in Values
  BY <1>1 DEF Types
<1>3. tgEff'[tg'[t]][id] \in Nat /\ default'[id] \in Nat
  BY <1>2, Sizes DEF Values
<1>4. PICK r : r = uclamp_tg_restrict(t, id)'
  OBVIOUS
<1>5. r \in Nat /\ (tg'[t] # 0 => r <= tgEff'[tg'[t]][id])
  BY <1>1, <1>3, <1>4 DEF uclamp_tg_restrict
<1>6. uclamp_eff_get(t, id)' = Least(r, default'[id])
  BY <1>4 DEF uclamp_eff_get
<1>7. uclamp_eff_get(t, id)' <= default'[id] /\ uclamp_eff_get(t, id)' <= r /\ uclamp_eff_get(t, id)' \in Nat
  BY <1>3, <1>5, <1>6 DEF Least
<1>8. tg'[t] # 0 => uclamp_eff_get(t, id)' <= tgEff'[tg'[t]][id]
  BY <1>3, <1>5, <1>7
<1> QED
  BY <1>7, <1>8 DEF Fits

\* A task of which nothing that matters changes.
LEMMA HeldKept ==
    ASSUME NEW t \in Tasks, NEW id \in Ids, Held(t, id),
           clamp'.active[t][id] => clamp.active[t][id], clamp'.value[t][id] = clamp.value[t][id],
           tg'[t] = tg[t], css'[t] = tg'[t] => css[t] = tg[t],
           tgEff'[tg[t]][id] = tgEff[tg[t]][id], default'[id] = default[id],
           user'[t][id] <=> user[t][id], user[t][id] => req'[t][id] = req[t][id],
           Waits(t, id) => Waits(t, id)'
    PROVE  Held(t, id)'
<1> SUFFICES ASSUME clamp'.active[t][id], css'[t] = tg'[t]
    PROVE  Fits(t, id)' \/ Ahead(tg[t], id)' \/ Waits(t, id)'
  BY DEF Held
<1>1. Fits(t, id) \/ Ahead(tg[t], id) \/ Waits(t, id)
  BY DEF Held
<1>2. user[t][id] => uclamp_eff_get(t, id)' = uclamp_eff_get(t, id)
  BY DEF uclamp_eff_get, uclamp_tg_restrict
<1>3. Fits(t, id) => Fits(t, id)'
  BY <1>2 DEF Fits
<1>4. Ahead(tg[t], id) => Ahead(tg[t], id)'
  BY DEF Ahead
<1> QED
  BY <1>1, <1>3, <1>4

\* A step that changes nothing but groups nobody is in, the requests of groups, and the walks.
LEMMA TasksFrame ==
    ASSUME TasksOK, UNCHANGED <<req, user, css, tg, clamp, default>>, \A t \in Tasks : tgEff'[tg[t]] = tgEff[tg[t]],
           \A v \in Walks : walk[v].todo \subseteq walk'[v].todo,
           \A v \in Walks : walk[v].at # None => walk'[v].at # None
    PROVE  TasksOK'
<1>1. ~Doomed' => ~Doomed
  BY DEF Doomed
<1>2. \A t \in Tasks, id \in Ids : Waits(t, id) => Waits(t, id)'
  BY DEF Waits
<1>3. ASSUME NEW t \in Tasks, NEW id \in Ids, Held(t, id) PROVE Held(t, id)'
  BY <1>2, <1>3, HeldKept
<1> QED
  BY <1>1, <1>3 DEF TasksOK

\* A step of one task, which is not counted any more or is counted anew.
LEMMA TasksOne ==
    ASSUME TypeInv, Types', TasksOK, NEW t \in Tasks, Others(t), UNCHANGED <<tgEff, default, walk>>,
           \A s \in Tasks \ {t} : req'[s] = req[s] /\ user'[s] = user[s] /\ css'[s] = css[s] /\ tg'[s] = tg[s],
           \A id \in Ids : clamp'.active[t][id] => clamp'.value[t][id] = uclamp_eff_get(t, id)'
    PROVE  TasksOK'
<1>1. ~Doomed' => ~Doomed
  BY DEF Doomed
<1>2. \A s \in Tasks, id \in Ids : Waits(s, id) => Waits(s, id)'
  BY DEF Waits
<1>3. ASSUME NEW s \in Tasks, NEW id \in Ids, Held(s, id) PROVE Held(s, id)'
  <2>1. CASE s = t
    BY <2>1, FitsNew DEF Held
  <2>2. CASE s # t
    <3>1. clamp'.value[s][id] = clamp.value[s][id] /\ (clamp'.active[s][id] <=> clamp.active[s][id])
      BY <2>2 DEF Others
    <3>2. req'[s] = req[s] /\ user'[s] = user[s] /\ css'[s] = css[s] /\ tg'[s] = tg[s]
      BY <2>2
    <3> QED
      BY <1>2, <1>3, <3>1, <3>2, HeldKept
  <2> QED
    BY <2>1, <2>2
<1> QED
  BY <1>1, <1>3 DEF TasksOK

\* Every step keeps the tasks in line with their groups, or in the way of a walk.
LEMMA TasksStep ==
    ASSUME TypeInv, CountInv, Places, DefaultOK, raced = {}, GroupsOK, TasksOK, AnyStep, Types', raced' = {}
    PROVE  TasksOK'
<1>0. /\ req \in [Tasks -> [Ids -> Nat]] /\ user \in [Tasks -> [Ids -> BOOLEAN]]
      /\ css \in [Tasks -> Groups] /\ tg \in [Tasks -> Groups] /\ group \in [Groups -> States]
      /\ tgEff \in [Groups -> [Ids -> Values]] /\ default \in [Ids -> Values] /\ write \in WriteState
  BY DEF TypeInv, Types
<1>a. Unraced /\ "write" \in Walks /\ "online" \in Walks
  BY DEF Unraced, Walks
<1>1. ASSUME NEW t \in Tasks, Requeue(t), UNCHANGED <<used, life, tgEff, default, walk>>,
             \A s \in Tasks \ {t} : req'[s] = req[s] /\ user'[s] = user[s] /\ css'[s] = css[s] /\ tg'[s] = tg[s]
      PROVE  TasksOK'
  <2>1. Others(t) /\ \A j \in Ids : clamp'.active[t][j] => clamp'.value[t][j] = uclamp_eff_get(t, j)'
    BY <1>1, <1>a, RequeueEffect
  <2> QED
    BY <1>1, <2>1, TasksOne
<1>2. ASSUME NEW t \in Tasks, Enqueue(t) PROVE TasksOK'
  <2>1. UNCHANGED <<req, user, css, tg, tgEff, default, walk>>
    BY <1>2 DEF Enqueue, tgs, sys
  <2>2. Others(t) /\ \A j \in Ids : clamp'.active[t][j] => clamp'.value[t][j] = uclamp_eff_get(t, j)
    BY <1>2, <1>a, EnqueueEffect
  <2>3. \A j \in Ids : uclamp_eff_get(t, j)' = uclamp_eff_get(t, j)
    BY <2>1 DEF uclamp_eff_get, uclamp_tg_restrict
  <2> QED
    BY <2>1, <2>2, <2>3, TasksOne
<1>3. ASSUME NEW t \in Tasks, Dequeue(t) PROVE TasksOK'
  <2>1. UNCHANGED <<req, user, css, tg, tgEff, default, walk>>
    BY <1>3 DEF Dequeue, tgs, sys
  <2>2. Others(t) /\ \A j \in Ids : ~clamp'.active[t][j]
    BY <1>3, <1>a, DequeueEffect
  <2> QED
    BY <2>1, <2>2, TasksOne
<1>4. ASSUME NEW t \in Tasks, NEW p \in Tasks, NEW reset \in BOOLEAN, Fork(t, p, reset) PROVE TasksOK'
  <2>1. /\ req' = [req EXCEPT ![p] = IF reset THEN NoClamps ELSE req[t]]
        /\ user' = [user EXCEPT ![p] = [id \in Ids |-> user[t][id] /\ ~reset]]
        /\ css' = [css EXCEPT ![p] = css[t]] /\ tg' = [tg EXCEPT ![p] = tg[t]]
        /\ UNCHANGED <<tgEff, default, walk>>
    BY <1>4 DEF Fork, tgs, sys
  <2>2. \A s \in Tasks \ {p} : req'[s] = req[s] /\ user'[s] = user[s] /\ css'[s] = css[s] /\ tg'[s] = tg[s]
    BY <1>0, <2>1
  <2>3. Others(p) /\ \A j \in Ids : ~clamp'.active[p][j]
    BY <1>4, <1>a, ForkEffect
  <2> QED
    BY <2>1, <2>2, <2>3, TasksOne
<1>5. ASSUME NEW t \in Tasks, SchedPostFork(t) PROVE TasksOK'
  <2>1. /\ life[t] = "linked" /\ req' = PostFork(t) /\ tg' = [tg EXCEPT ![t] = css[t]]
        /\ UNCHANGED <<user, css, clamp, tgEff, default, walk>>
    BY <1>5 DEF SchedPostFork, tgs, sys
  <2>2. \A s \in Tasks \ {t} : req'[s] = req[s] /\ tg'[s] = tg[s]
    BY <1>0, <2>1 DEF PostFork
  <2>3. \A j \in Ids : ~clamp'.active[t][j]
    BY <2>1, NotCounted
  <2>4. Others(t)
    BY <2>1 DEF Others
  <2> QED
    BY <2>1, <2>2, <2>3, <2>4, TasksOne
<1>6. ASSUME NEW t \in Tasks, SyncRtDefault(t) PROVE TasksOK'
  <2>1. req' = PostFork(t) /\ UNCHANGED <<user, css, tg, clamp, tgEff, default, walk>>
    BY <1>6 DEF SyncRtDefault, tgs, sys
  <2>2. \A s \in Tasks, id \in Ids : user[s][id] => req'[s][id] = req[s][id]
    BY <1>0, <2>1 DEF PostFork, Ids
  <2>3. \A s \in Tasks, id \in Ids : Waits(s, id) => Waits(s, id)'
    BY <2>1 DEF Waits
  <2>4. ~Doomed' => ~Doomed
    BY <2>1 DEF Doomed
  <2>5. ASSUME NEW s \in Tasks, NEW id \in Ids, Held(s, id) PROVE Held(s, id)'
    BY <2>1, <2>2, <2>3, <2>5, HeldKept
  <2> QED
    BY <2>4, <2>5 DEF TasksOK
<1>7. CASE TaskStep
  <2>1. PICK t \in Tasks : \/ Enqueue(t) \/ Dequeue(t) \/ Link(t) \/ SchedPostFork(t) \/ Attach(t) 
                           \/ SetschedulerUclamp(t) \/ SyncRtDefault(t)
                           \/ \E p \in Tasks, reset \in BOOLEAN : Fork(t, p, reset)
    BY <1>7 DEF TaskStep
  <2>2. CASE Link(t)
    BY <2>2, TasksFrame DEF Link, tgs, sys
  <2>3. CASE Attach(t)
    <3>1. /\ tg' = [tg EXCEPT ![t] = css[t]] /\ Requeue(t)
          /\ UNCHANGED <<used, life, req, user, css, tgEff, default, walk>>
      BY <2>3 DEF Attach, tgs, sys
    <3>2. \A s \in Tasks \ {t} : tg'[s] = tg[s]
      BY <1>0, <3>1
    <3> QED
      BY <1>1, <3>1, <3>2
  <2>4. CASE SetschedulerUclamp(t)
    <3>1. /\ req' = [req EXCEPT ![t][attr.id] =
                IF attr.value = None THEN ResetValue(attr.id, rt[t]) ELSE attr.value]
          /\ user' = [user EXCEPT ![t][attr.id] = attr.value # None]
          /\ Requeue(t) /\ UNCHANGED <<used, life, css, tg, tgEff, default, walk>>
      BY <2>4 DEF SetschedulerUclamp, tgs, sys
    <3>2. \A s \in Tasks \ {t} : req'[s] = req[s] /\ user'[s] = user[s]
      BY <1>0, <3>1
    <3> QED
      BY <1>1, <3>1, <3>2
  <2> QED
    BY <1>2, <1>3, <1>4, <1>5, <1>6, <2>1, <2>2, <2>3, <2>4
<1>8. ASSUME NEW w \in Walks, Visit(w) PROVE TasksOK'
  <2>1. \A v \in Walks : walk'[v].at = walk[v].at /\ walk'[v].todo = walk[v].todo
    BY <1>8, VisitEffect
  <2>2. UNCHANGED <<req, user, css, tg, clamp, default, tgEff>>
    BY <1>8 DEF Visit, task, tgs, sys
  <2> QED
    BY <2>1, <2>2, TasksFrame
<1>9. ASSUME NEW w \in Walks, Store(w) PROVE TasksOK'
  <2>1. PICK g : g = walk[w].at
    OBVIOUS
  <2>2. /\ g \in Groups /\ walk[w].todo = {}
        /\ \A h \in Groups \ {g} : tgEff'[h] = tgEff[h]
        /\ tgEff'[g] # tgEff[g] =>
              \A t \in Tasks, id \in Ids : Member(t, g) /\ tgEff'[g][id] # tgEff[g][id] =>
                  <<t, id>> \in walk'[w].todo
    BY <1>9, <2>1, StoreEffect
  <2>3. UNCHANGED <<req, user, css, tg, clamp, default, life>>
    BY <1>9 DEF Store, task, sys
  <2>4. \A v \in Walks \ {w} : walk[v] = Idling
    BY <1>9 DEF Store, Walks
  <2>5. \A v \in Walks : walk[v].todo = {}
    BY <2>2, <2>4 DEF Idling
  <2>6. ~Doomed
    <3>1. \E v \in Walks : v # w
      BY DEF Walks
    <3> QED
      BY <2>4, <3>1 DEF Doomed, Idling
  <2>7. ASSUME NEW t \in Tasks, NEW id \in Ids PROVE Held(t, id)'
    <3>1. Held(t, id)
      BY <2>6 DEF TasksOK
    <3>2. ~Waits(t, id)
      BY <2>5 DEF Waits
    <3>3. CASE tgEff'[tg[t]][id] = tgEff[tg[t]][id]
      BY <2>3, <3>1, <3>2, <3>3, HeldKept
    <3>4. CASE tgEff'[tg[t]][id] # tgEff[tg[t]][id]
      <4>1. tg[t] \in Groups
        BY <1>0
      <4>2. tg[t] = g /\ tgEff'[g] # tgEff[g]
        BY <2>2, <3>4, <4>1
      <4>3. clamp.active[t][id] /\ css[t] = tg[t] => Member(t, g)
        BY <4>2 DEF CountInv, Member
      <4>4. clamp.active[t][id] /\ css[t] = tg[t] => Waits(t, id)'
        BY <2>2, <3>4, <4>2, <4>3 DEF Waits
      <4> QED
        BY <2>3, <4>4 DEF Held
    <3> QED
      BY <3>3, <3>4
  <2> QED
    BY <2>7 DEF TasksOK
<1>10. ASSUME NEW w \in Walks, NEW t \in Tasks, NEW id \in Ids, UpdateActive(w, t, id) PROVE TasksOK'
  <2>1. /\ \A v \in Walks : walk'[v].at = walk[v].at
        /\ \A v \in Walks \ {w} : walk'[v] = walk[v]
        /\ walk'[w].todo = walk[w].todo \ {<<t, id>>}
    BY <1>10, UpdateWalks
  <2>2. UNCHANGED <<req, user, css, tg, default, tgEff>>
    BY <1>10 DEF UpdateActive, task, tgs, sys
  <2>3. /\ \A s \in Tasks, j \in Ids : clamp'.active[s][j] <=> clamp.active[s][j]
        /\ \A s \in Tasks, j \in Ids : s # t \/ j # id => clamp'.value[s][j] = clamp.value[s][j]
        /\ clamp.active[t][id] => clamp'.value[t][id] = uclamp_eff_get(t, id)
    BY <1>10, <1>a, UpdateEffect
  <2>4. uclamp_eff_get(t, id)' = uclamp_eff_get(t, id)
    BY <2>2 DEF uclamp_eff_get, uclamp_tg_restrict
  <2>5. Held(t, id)'
    BY <2>3, <2>4, FitsNew DEF Held
  <2>6. ASSUME NEW s \in Tasks, NEW j \in Ids, s # t \/ j # id, Held(s, j) PROVE Held(s, j)'
    <3>1. <<s, j>> # <<t, id>>
      BY <2>6
    <3>2. Waits(s, j) => Waits(s, j)'
      BY <2>1, <3>1 DEF Waits
    <3> QED
      BY <2>2, <2>3, <2>6, <3>2, HeldKept
  <2>7. ~Doomed' => ~Doomed
    BY <2>1 DEF Doomed
  <2> QED
    BY <2>5, <2>6, <2>7 DEF TasksOK
<1>11. CASE WalkStep
  BY <1>8, <1>9, <1>10, <1>11 DEF WalkStep, Walks
<1>12. CASE CallStep
  <2>1. ASSUME NEW t \in Tasks, SetPolicy(t) PROVE TasksOK'
    <3>1. /\ req' = [req EXCEPT ![t] = [id \in Ids |-> IF user[t][id] THEN req[t][id] ELSE ResetValue(id, ~rt[t])]]
          /\ Requeue(t) /\ UNCHANGED <<used, life, user, css, tg, tgEff, default, walk>>
      BY <2>1 DEF SetPolicy, tgs, sys
    <3>2. \A s \in Tasks \ {t} : req'[s] = req[s]
      BY <1>0, <3>1
    <3> QED
      BY <1>1, <3>1, <3>2
  <2>2. ASSUME NEW t \in Tasks, NEW g \in Groups, CanAttach(t, g) PROVE TasksOK'
    <3>1. /\ css[t] # g /\ css[t] = tg[t] /\ css' = [css EXCEPT ![t] = g]
          /\ UNCHANGED <<req, user, tg, clamp, tgEff, default, walk>>
      BY <2>2 DEF CanAttach, tgs, sys
    <3>2. \A s \in Tasks : css'[s] = tg'[s] => css[s] = tg[s]
      BY <1>0, <3>1
    <3>3. \A s \in Tasks, id \in Ids : Waits(s, id) => Waits(s, id)'
      BY <3>1 DEF Waits
    <3>4. ~Doomed' => ~Doomed
      BY <3>1 DEF Doomed
    <3>5. ASSUME NEW s \in Tasks, NEW id \in Ids, Held(s, id) PROVE Held(s, id)'
      BY <3>1, <3>2, <3>3, <3>5, HeldKept
    <3> QED
      BY <3>4, <3>5 DEF TasksOK
  <2>3. ASSUME NEW g \in Groups, CssAlloc(g) PROVE TasksOK'
    <3>1. /\ group[g] = "none" /\ tgEff' = [tgEff EXCEPT ![g] = tgEff[g - 1]]
          /\ UNCHANGED <<req, user, css, tg, clamp, default, walk>>
      BY <2>3 DEF CssAlloc, task, sys
    <3>2. \A t \in Tasks : tg[t] \in Groups /\ tg[t] # g
      BY <1>0, <3>1 DEF Places
    <3>3. \A t \in Tasks : tgEff'[tg[t]] = tgEff[tg[t]]
      BY <1>0, <3>1, <3>2
    <3> QED
      BY <3>1, <3>3, TasksFrame
  <2>4. CASE \/ \E t \in Tasks, id \in Ids, v \in Requests : UclampValidate(t, id, v)
             \/ \E g \in Groups : CssReleased(g)
             \/ \E g \in Groups, id \in Ids, percent \in Percents : CpuUclampWrite(g, id, percent)
             \/ \E var \in Vars, v \in SysctlValues : SysctlWrite(var, v)
    <3>1. UNCHANGED <<req, user, css, tg, clamp, default, tgEff, walk>>
      BY <2>4 DEF UclampValidate, CssReleased, CpuUclampWrite, SysctlWrite, task, tgs, sys
    <3> QED
      BY <3>1, TasksFrame
  <2> QED
    BY <1>12, <2>1, <2>2, <2>3, <2>4 DEF CallStep, Vars
<1>b. ASSUME NEW w \in Walks, walk[w] = Idling, NEW g \in Groups, walk' = [walk EXCEPT ![w].at = g],
             UNCHANGED <<req, user, css, tg, clamp, default, tgEff>>
      PROVE  TasksOK'
  <2>1. /\ walk'[w].at = g /\ \A v \in Walks \ {w} : walk'[v] = walk[v]
    BY <1>b, BeginEffect
  <2>2. walk[w].todo = {} /\ walk[w].at = None
    BY <1>b DEF Idling
  <2> QED
    BY <1>b, <2>1, <2>2, TasksFrame
<1>13. CASE CpuUclampStore
  <2>1. write.g \in Groups /\ walk["write"] = Idling
    BY <1>0, <1>13, WriteFacts DEF CpuUclampStore, Places
  <2> QED
    BY <1>13, <1>a, <1>b, <2>1 DEF CpuUclampStore, task, sys
<1>14. CASE WriteDone
  BY <1>14, TasksFrame DEF WriteDone, task, tgs, sys
<1>15. ASSUME NEW g \in Groups, CssOnline(g) PROVE TasksOK'
  <2>1. walk["online"] = Idling
    BY <1>15 DEF CssOnline, Places
  <2> QED
    BY <1>15, <1>a, <1>b, <2>1 DEF CssOnline, task, sys
<1>16. CASE SysctlCheck
  <2>1. UNCHANGED <<req, user, css, tg, clamp, tgEff>> /\ write.pc = "check"
    BY <1>16 DEF SysctlCheck, task
  <2>2. CASE default' = default
    <3>1. walk' = walk \/ walk' = [walk EXCEPT !["write"].at = 0]
      BY <1>16 DEF SysctlCheck
    <3>2. walk["write"] = Idling
      BY <2>1 DEF Places
    <3>3. CASE walk' = walk
      BY <2>1, <2>2, <3>3, TasksFrame
    <3> QED
      BY <1>a, <1>b, <2>1, <2>2, <3>1, <3>2, <3>3, Sizes
  <2>3. CASE default' # default
    <3>1. /\ default' = [MIN |-> sysctl["min"], MAX |-> sysctl["max"]]
      BY <1>16, <2>3 DEF SysctlCheck
    <3>2. write.var # "rt"
      <4>1. write.var = "rt" => default["MIN"] = sysctl["min"] /\ default["MAX"] = sysctl["max"]
        BY DEF DefaultOK, Settled
      <4>2. default = [MIN |-> default["MIN"], MAX |-> default["MAX"]]
        BY <1>0 DEF Ids
      <4> QED
        BY <2>3, <3>1, <4>1, <4>2
    <3>3. walk' = [walk EXCEPT !["write"].at = 0] /\ walk["write"] = Idling
      BY <1>16, <2>1, <2>3, <3>2 DEF SysctlCheck, Places
    <3>4. walk'["write"].at = 0 /\ walk'["online"] = walk["online"] /\ 0 # None
      BY <1>a, <3>3, BeginEffect, Sizes
    <3>5. SUFFICES ASSUME ~Doomed' PROVE \A t \in Tasks, id \in Ids : Held(t, id)'
      BY DEF TasksOK
    <3>6. walk["online"].at = None /\ walk["write"].at = None /\ walk["write"].todo = {}
      BY <3>3, <3>4, <3>5 DEF Doomed, Walks, Idling
    <3>7. /\ tgEff[0] = default
          /\ \A g \in Groups, id \in Ids : group[g] = "online" => tgEff[g][id] <= default[id]
      BY <3>6, WithinDefault DEF Walks
    <3>8. ASSUME NEW t \in Tasks, NEW id \in Ids, clamp.active[t][id], css[t] = tg[t],
                 ~Waits(t, id)', ~Ahead(tg[t], id)'
          PROVE  Fits(t, id)'
      <4>1. tg[t] \in Groups /\ group[tg[t]] = "online"
        BY <1>0 DEF Places
      <4>2. PICK e : e = tgEff[tg[t]][id]
        OBVIOUS
      <4>3. e \in Nat /\ default[id] \in Nat /\ default'[id] \in Nat /\ req[t][id] \in Nat
        <5>1. e \in Values /\ default[id] \in Values /\ default'[id] \in Values
          BY <1>0, <4>1, <4>2 DEF Types
        <5> QED
          BY <1>0, <5>1, Sizes DEF Values
      <4>4. e <= default[id]
        BY <3>7, <4>1, <4>2
      <4>5. ~Waits(t, id)
        <5>1. Waits(t, id) => <<t, id>> \in walk["online"].todo
          BY <3>6 DEF Waits, Walks
        <5>2. <<t, id>> \notin walk'["online"].todo
          BY <1>a, <3>8 DEF Waits
        <5> QED
          BY <3>4, <5>1, <5>2
      <4>6. ~Ahead(tg[t], id)
        BY <3>7, <4>2, <4>3, <4>4 DEF Ahead
      <4>7. Fits(t, id)
        <5>1. ~Doomed
          BY <1>a, <3>6 DEF Doomed
        <5> QED
          BY <3>8, <4>5, <4>6, <5>1 DEF TasksOK, Held
      <4>8. PICK v \in Nat : v = clamp.value[t][id]
        <5>1. clamp.value[t][id] \in Values
          BY ShapeFacts DEF CountInv, Sound
        <5> QED
          BY <5>1, Sizes DEF Values
      <4>9. CASE tg[t] = 0
        <5>1. default'[id] = default[id]
          BY <2>1, <3>7, <3>8, <4>9 DEF Ahead
        <5>2. uclamp_eff_get(t, id)' = uclamp_eff_get(t, id)
          BY <2>1, <5>1 DEF uclamp_eff_get, uclamp_tg_restrict
        <5> QED
          BY <2>1, <4>7, <4>9, <5>1, <5>2 DEF Fits
      <4>10. CASE tg[t] # 0
        <5>1. e <= default'[id]
          BY <2>1, <3>8, <4>2, <4>3, <4>10 DEF Ahead
        <5>2. v <= e
          BY <4>2, <4>7, <4>8, <4>10 DEF Fits
        <5>3. PICK r : r = uclamp_tg_restrict(t, id)
          OBVIOUS
        <5>4. r \in Nat /\ r <= e
          BY <4>2, <4>3, <4>10, <5>3 DEF uclamp_tg_restrict
        <5>5. uclamp_tg_restrict(t, id)' = r
          BY <2>1, <5>3 DEF uclamp_tg_restrict
        <5>6. uclamp_eff_get(t, id)' = Least(r, default'[id]) /\ uclamp_eff_get(t, id) = Least(r, default[id])
          BY <5>3, <5>5 DEF uclamp_eff_get
        <5>7. Least(r, default'[id]) = r /\ Least(r, default[id]) = r
          BY <4>3, <4>4, <5>1, <5>4 DEF Least
        <5>8. user[t][id] => v = uclamp_eff_get(t, id)'
          BY <4>7, <4>8, <5>6, <5>7 DEF Fits
        <5>9. v <= default'[id]
          BY <4>3, <5>1, <5>2
        <5> QED
          BY <2>1, <4>2, <4>8, <5>2, <5>8, <5>9 DEF Fits
      <4> QED
        BY <4>9, <4>10
    <3> QED
      BY <2>1, <3>8 DEF Held
  <2> QED
    BY <2>2, <2>3
<1> QED
  BY <1>7, <1>11, <1>12, <1>13, <1>14, <1>15, <1>16 DEF AnyStep
--------------------------------------------------------------------------------
ClampInv == TypeInv /\ CountInv /\ RestrictInv

\* It all holds initially.
LEMMA ClampsInit == ASSUME Init PROVE ClampInv
<1>1. PICK made \in Groups :
        /\ group = [g \in Groups |-> IF g <= made THEN "online" ELSE "none"]
        /\ tgReq = [g \in Groups |-> IF g \in 1..made THEN NoClamps ELSE [id \in Ids |-> SCALE]]
  BY DEF Init
<1>2. /\ used = FALSE /\ calls = 0 /\ raced = {} /\ attr = None /\ write = [pc |-> "none"]
      /\ life = [t \in Tasks |-> IF t = Boot THEN "queued" ELSE "unborn"]
      /\ rt = [t \in Tasks |-> FALSE] /\ req = [t \in Tasks |-> NoClamps]
      /\ user = [t \in Tasks |-> [id \in Ids |-> FALSE]]
      /\ css = [t \in Tasks |-> 0] /\ tg = [t \in Tasks |-> 0]
      /\ tgEff = tgReq /\ sysctl = [v \in Vars |-> SCALE] /\ default = [id \in Ids |-> SCALE]
      /\ walk = [w \in Walks |-> Idling]
  BY DEF Init, Vars, Walks
<1>3. clamp = [value |-> [t \in Tasks |-> [id \in Ids |-> 0]], active |-> user,
                tasks |-> [id \in Ids |-> [b \in Buckets |-> 0]],
                bucket |-> [id \in Ids |-> [b \in Buckets |-> 0]],
                rq |-> NoClamps, idle |-> FALSE, warn |-> FALSE]
  BY DEF Init
<1>4. NoClamps \in [Ids -> Values] /\ 0 \in Values /\ SCALE \in Values /\ 0 \in Groups
      /\ NoClamps \in [Ids -> Nat] /\ 0 \in Nat
  <2>1. Values \subseteq Nat
    BY Sizes DEF Values
  <2> QED
    BY <2>1, NoneType, Sizes DEF Values
<1>5. TypeInv
  <2>1. used \in BOOLEAN /\ calls \in 0..MaxCalls /\ raced \in SUBSET {"idle", "online", "refused"}
    <3>1. used \in BOOLEAN /\ raced \in SUBSET {"idle", "online", "refused"}
      BY <1>2
    <3>2. calls = 0
      BY <1>2
    <3> QED
      BY <3>1, <3>2, Sizes
  <2>2. /\ life \in [Tasks -> Lives] /\ rt \in [Tasks -> BOOLEAN] /\ req \in [Tasks -> [Ids -> Nat]]
        /\ user \in [Tasks -> [Ids -> BOOLEAN]]
    BY <1>2, <1>4 DEF Lives
  <2>3. css \in [Tasks -> Groups] /\ tg \in [Tasks -> Groups] /\ group \in [Groups -> States]
    BY <1>1, <1>2, <1>4 DEF States
  <2>4. tgReq \in [Groups -> [Ids -> Values]]
    BY <1>1, <1>4
  <2>5. sysctl \in [Vars -> Nat] /\ default \in [Ids -> Values]
    BY <1>2, <1>4, Sizes
  <2>6. attr \in {None} \cup [p : Tasks, id : Ids, value : Requests] /\ write \in WriteState
    BY <1>2 DEF WriteState
  <2>7. walk \in [Walks -> WalkState] /\ WalksOK
    BY <1>2, IdlingType DEF WalksOK, Idling
  <2> QED
    BY <1>2, <2>1, <2>2, <2>3, <2>4, <2>5, <2>6, <2>7 DEF TypeInv, Types
<1>6. CountInv
  <2>1. clamp \in Shape
    <3>1. [t \in Tasks |-> [id \in Ids |-> 0]] \in [Tasks -> [Ids -> Values]] /\ user \in [Tasks -> [Ids -> BOOLEAN]]
      BY <1>2, <1>4
    <3>2. /\ [id \in Ids |-> [b \in Buckets |-> 0]] \in [Ids -> [Buckets -> Nat]]
          /\ [id \in Ids |-> [b \in Buckets |-> 0]] \in [Ids -> [Buckets -> Values]]
      BY <1>4
    <3> QED
      BY <1>3, <1>4, <3>1, <3>2 DEF Shape
  <2>2. ~clamp.warn /\ ~clamp.idle
    BY <1>3
  <2>3. \A t \in Tasks, id \in Ids : ~clamp.active[t][id]
    <3>1. clamp.active = user
      BY <1>3
    <3> QED
      BY <1>2, <3>1
  <2>4. \A id \in Ids, b \in Buckets : clamp.tasks[id][b] = 0
    <3>1. clamp.tasks = [id \in Ids |-> [b \in Buckets |-> 0]]
      BY <1>3
    <3> QED
      BY <3>1
  <2>5. \A id \in Ids, b \in Buckets : Cardinality(Holding(clamp, id, b)) = 0
    <3> TAKE id \in Ids, b \in Buckets
    <3>1. Holding(clamp, id, b) = {}
      BY <2>3 DEF Holding
    <3> QED
      BY <3>1, FS_EmptySet
  <2>6. \A id \in Ids : Counts(clamp, id)
    BY <2>3, <2>4, <2>5 DEF Counts
  <2> QED
    BY <2>1, <2>2, <2>3, <2>6 DEF CountInv, Sound, Rests, Ids
<1>7. \A w \in Walks : walk[w] = Idling /\ walk[w].at = None /\ walk[w].eff = None /\ walk[w].todo = {}
  BY <1>2 DEF Idling
<1>8. Places
  <2>1. group[0] = "online"
    BY <1>1, <1>4, Sizes
  <2>2. Ranked
    <3>1. made \in Nat
      BY Sizes
    <3>2. ASSUME NEW g \in Groups, NEW h \in Groups, g < h, group[h] # "none" PROVE group[g] = "online"
      <4>1. h <= made
        BY <1>1, <3>2
      <4>2. g <= made
        BY <3>1, <3>2, <4>1, Sizes
      <4> QED
        BY <1>1, <4>2
    <3> QED
      BY <3>2 DEF Ranked
  <2>3. \A t \in Tasks : css[t] = 0 /\ tg[t] = 0
    BY <1>2
  <2>4. write.pc = "none"
    BY <1>2
  <2>5. "write" \in Walks /\ "online" \in Walks
    BY DEF Walks
  <2> QED
    BY <1>7, <2>1, <2>2, <2>3, <2>4, <2>5 DEF Places
<1>9. DefaultOK
  <2>1. tgReq[0] = [id \in Ids |-> SCALE]
    BY <1>1, <1>4, Sizes
  <2>2. write.pc # "check"
    BY <1>2
  <2> QED
    BY <1>2, <2>1, <2>2, Sizes DEF DefaultOK, Settled, Vars, Ids
<1>10. GroupsOK
  <2>1. ASSUME NEW g \in Groups, group[g] = "online" PROVE Agrees(g)
    <3>1. g \in Nat /\ made \in Nat /\ g <= made
      <4>1. g <= made
        BY <1>1, <2>1
      <4> QED
        BY <4>1, Sizes
    <3>2. tgReq[g] = IF g = 0 THEN [id \in Ids |-> SCALE] ELSE NoClamps
      BY <1>1, <3>1
    <3>3. g # 0 => g - 1 \in Groups /\ (tgReq[g - 1] = [id \in Ids |-> SCALE] \/ tgReq[g - 1] = NoClamps)
      BY <1>1, <3>1, Sizes
    <3>4. PICK p : p = ParentEff(g)
      OBVIOUS
    <3>5. p = [id \in Ids |-> SCALE] \/ (g # 0 /\ p = NoClamps)
      BY <1>2, <2>1, <3>3, <3>4 DEF ParentEff
    <3>6. p["MAX"] = SCALE /\ (p["MIN"] = 0 \/ p["MIN"] = SCALE) /\ (g = 0 => p["MIN"] = SCALE)
      BY <3>5 DEF NoClamps, uclamp_none, Ids
    <3>7. tgReq[g]["MAX"] = SCALE /\ tgReq[g]["MIN"] = IF g = 0 THEN SCALE ELSE 0
      BY <3>2 DEF NoClamps, uclamp_none, Ids
    <3>8. /\ Least(tgReq[g]["MAX"], p["MAX"]) = SCALE
          /\ Least(tgReq[g]["MIN"], p["MIN"]) = tgReq[g]["MIN"]
          /\ Least(tgReq[g]["MIN"], SCALE) = tgReq[g]["MIN"]
      BY <3>6, <3>7, Sizes DEF Least
    <3>9. PICK e \in [Ids -> Values] : e = Effective(g, p)
      BY <1>5, <3>4, EffectiveType, ParentType DEF TypeInv
    <3>10. e["MAX"] = tgReq[g]["MAX"] /\ e["MIN"] = tgReq[g]["MIN"]
      BY <3>7, <3>8, <3>9 DEF Effective, Ids
    <3>11. tgReq[g] \in [Ids -> Values]
      BY <1>5 DEF TypeInv, Types
    <3>12. e = tgReq[g]
      BY <3>9, <3>10, <3>11 DEF Ids
    <3> QED
      BY <1>2, <3>4, <3>9, <3>12 DEF Agrees
  <2> QED
    BY <1>7, <2>1 DEF GroupsOK
<1>11. TasksOK
  <2>1. \A t \in Tasks, id \in Ids : ~clamp.active[t][id]
    <3>1. clamp.active = user
      BY <1>3
    <3> QED
      BY <1>2, <3>1
  <2> QED
    BY <2>1 DEF TasksOK, Held
<1>12. RtOK
  BY <1>2 DEF RtOK
<1> QED
  BY <1>5, <1>6, <1>8, <1>9, <1>10, <1>11, <1>12 DEF ClampInv, RestrictInv

\* The steps of the quotas are steps of the groups too, or leave the clamps.
LEMMA StepsOfBandwidth == ASSUME calls \in 0..MaxCalls, BwNext
    PROVE (AnyStep \/ UNCHANGED StepVars) /\ calls' \in 0..MaxCalls
<1>0. MaxCalls \in Nat /\ MaxWritesV1 \in Nat /\ MaxWritesV2 \in Nat
      /\ MaxWritesV1 <= MaxCalls /\ MaxWritesV2 <= MaxCalls
  <2>1. MaxWritesV1 \in 0..MaxCalls /\ MaxWritesV2 \in 0..MaxCalls
    BY BandwidthAssumption
  <2> QED
    BY <2>1, Sizes
<1>1. CASE about = "clamps" /\ ClampStep
  <2>1. Next
    BY <1>1 DEF ClampStep
  <2>2. calls' \in 0..MaxCalls
    BY <1>0, <2>1 DEF Next
  <2>3. AnyStep
    BY <2>1 DEF Next, AnyStep
  <2> QED
    BY <2>2, <2>3
<1>2. CASE about = "bandwidth" /\ BandwidthStep
  <2>1. CASE /\ calls < (IF unified THEN MaxWritesV2 ELSE MaxWritesV1) /\ calls' = calls + 1
             /\ FileStep
    <3>1. UNCHANGED StepVars
      BY <2>1 DEF FileStep, QuotaWrite, PeriodWrite, MaxWrite, Calls, StepVars
    <3>2. calls' \in 0..MaxCalls
      BY <1>0, <2>1
    <3> QED
      BY <3>1, <3>2
  <2>2. CASE UNCHANGED calls /\ \E g \in Groups : BwCssAlloc(g) \/ BwCssReleased(g)
    <3>1. CallStep
      BY <2>2 DEF BwCssAlloc, BwCssReleased, CallStep
    <3> QED
      BY <2>2, <3>1 DEF AnyStep
  <2>3. CASE UNCHANGED <<calls, bwvars>> /\ (WalkStep \/ \E g \in Groups : CssOnline(g))
    BY <2>3 DEF AnyStep
  <2>4. CASE UNCHANGED vars
    BY <2>4 DEF vars, StepVars
  <2>5. CASE \/ \E w \in Writers : GetOnlineCpus(w) \/ CfsSchedulable(w) \/ SetBandwidth(w) \/ Unlock(w)
                                   \/ \E i \in CPUs : EachCpu(w, i)
             \/ \E g \in Groups : PeriodTimer(g) \/ \E i \in CPUs : Throttle(g, i)
             \/ \E i \in CPUs : Offline(i) \/ Online(i)
    <3>1. UNCHANGED vars
      BY <2>5 DEF GetOnlineCpus, CfsSchedulable, SetBandwidth, Unlock, EachCpu, PeriodTimer, Throttle, Offline, Online
    <3> QED
      BY <2>4, <3>1
  <2> QED
    BY <1>2, <2>1, <2>2, <2>3, <2>5 DEF BandwidthStep
<1> QED
  BY <1>1, <1>2 DEF BwNext

\* No race is ever forgotten.
LEMMA RacesStay == ASSUME AnyStep, raced' = {} PROVE raced = {}
<1>1. CASE TaskStep
  BY <1>1 DEF TaskStep, Enqueue, Dequeue, Link, SchedPostFork, Attach, SetschedulerUclamp, SyncRtDefault, Fork, Read
<1>2. CASE WalkStep
  BY <1>2 DEF WalkStep, Visit, Store, UpdateActive
<1>3. CASE CallStep
  BY <1>3 DEF CallStep, SetPolicy, CanAttach, UclampValidate, CssAlloc, CssReleased, CpuUclampWrite, SysctlWrite, Read
<1>4. CASE CpuUclampStore \/ SysctlCheck \/ WriteDone \/ \E g \in Groups : CssOnline(g)
  BY <1>4 DEF CpuUclampStore, SysctlCheck, WriteDone, CssOnline
<1> QED
  BY <1>1, <1>2, <1>3, <1>4 DEF AnyStep

\* A step of the quotas leaves it,
LEMMA ClampsSame == ASSUME ClampInv, UNCHANGED StepVars, calls' \in 0..MaxCalls PROVE ClampInv'
<1>1. UNCHANGED <<used, life, rt, req, user, css, tg, clamp, group, tgReq, tgEff, sysctl, default, attr,
                  write, walk, raced>>
  BY DEF StepVars, task, tgs, sys
<1>2. TypeInv'
  BY <1>1 DEF ClampInv, TypeInv, Types, WalksOK
<1>3. CountInv'
  BY <1>1 DEF ClampInv, CountInv, Sound, Rests, Counts, Holding
<1>4. Places' /\ DefaultOK'
  BY <1>1 DEF ClampInv, RestrictInv, Places, Ranked, DefaultOK, Settled
<1>5. raced' = {} => GroupsOK'
  BY <1>1, GroupsSame DEF ClampInv, RestrictInv
<1>6. raced' = {} => TasksOK'
  BY <1>1, TasksFrame DEF ClampInv, RestrictInv
<1>7. raced' = {} => RtOK'
  BY <1>1 DEF ClampInv, RestrictInv, RtOK, RtHas
<1> QED
  BY <1>2, <1>3, <1>4, <1>5, <1>6, <1>7 DEF ClampInv, RestrictInv

\* a step that is not behind a race keeps it,
LEMMA ClampsNext == ASSUME ClampInv, raced = {}, BwNext PROVE ClampInv'
<1>1. (AnyStep \/ UNCHANGED StepVars) /\ calls' \in 0..MaxCalls
  BY StepsOfBandwidth DEF ClampInv, TypeInv, Types
<1>2. CASE UNCHANGED StepVars
  BY <1>1, <1>2, ClampsSame
<1>3. CASE AnyStep
  <2>1. TypeInv /\ CountInv /\ Places /\ DefaultOK /\ GroupsOK /\ TasksOK /\ RtOK
    BY DEF ClampInv, RestrictInv
  <2>2. TypeInv' /\ Types'
    BY <1>1, <1>3, <2>1, StepTypes DEF TypeInv
  <2>3. CountInv'
    BY <1>3, <2>1, <2>2, CountedStep
  <2>4. Places' /\ DefaultOK'
    BY <1>3, <2>1, PlacesStep, DefaultStep
  <2>5. raced' = {} => GroupsOK' /\ TasksOK' /\ RtOK'
    BY <1>3, <2>1, <2>2, GroupsStep, TasksStep, RtStep
  <2> QED
    BY <2>2, <2>3, <2>4, <2>5 DEF ClampInv, RestrictInv
<1> QED
  BY <1>1, <1>2, <1>3

\* and so does a step that does nothing.
LEMMA ClampsStutter == ASSUME ClampInv, UNCHANGED bandvars PROVE ClampInv'
<1>1. UNCHANGED StepVars /\ calls' = calls
  BY DEF bandvars, vars, StepVars
<1>2. calls \in 0..MaxCalls
  BY DEF ClampInv, TypeInv, Types
<1> QED
  BY <1>1, <1>2, ClampsSame

\* Until the code has lost one of the three races the runs follow no further, the types, the
\* counters of the runqueue and the clamps of groups and tasks are what ClampInv says.
THEOREM ClampsInvariant == BwSpec => [](Followed => ClampInv)
<1>1. BwInit => ClampInv
  BY ClampsInit DEF BwInit
<1>2. (Followed => ClampInv) /\ [BwNext]_bandvars => (Followed => ClampInv)'
  <2> SUFFICES ASSUME Followed => ClampInv, [BwNext]_bandvars, Followed' PROVE ClampInv'
    OBVIOUS
  <2>1. CASE BwNext
    <3>1. raced' = {}
      BY DEF Followed
    <3>2. raced = {}
      <4>1. CASE UNCHANGED raced
        BY <3>1, <4>1
      <4>2. CASE AnyStep
        BY <3>1, <4>2, RacesStay
      <4>3. AnyStep \/ UNCHANGED raced
        BY ZenonT(30), <2>1 DEF BwNext, ClampStep, Next, BandwidthStep, FileStep, QuotaWrite, PeriodWrite, MaxWrite, Calls,
           BwCssAlloc, BwCssReleased, AnyStep, CallStep, GetOnlineCpus, CfsSchedulable, SetBandwidth, Unlock,
           EachCpu, PeriodTimer, Throttle, Offline, Online, vars
      <4> QED
        BY <4>1, <4>2, <4>3
    <3> QED
      BY <2>1, <3>2, ClampsNext DEF Followed
  <2>2. CASE UNCHANGED bandvars
    <3>1. raced' = raced
      BY <2>2 DEF bandvars, vars
    <3> QED
      BY <2>2, <3>1, ClampsStutter DEF Followed
  <2> QED
    BY <2>1, <2>2
<1> QED
  BY <1>1, <1>2, PTL DEF BwSpec

\* Once a write is over every group is within its parent and every task within its group and
\* the default (cpu_util_update_eff, uclamp_update_active, uclamp_sync_util_min_rt_default),
\* for any number of tasks and groups, unless one of the three races has been lost.
THEOREM RestrictedCorrect == BwSpec => []Restricted
<1>1. (Followed => ClampInv) => Restricted
  BY RestrictedShows DEF Followed, ClampInv, Restricted
<1> QED
  BY <1>1, ClampsInvariant, PTL

\* The behaviours of the runs: nobody follows them beyond a race.
FollowedSpec == BwInit /\ [][Followed /\ BwNext]_bandvars

\* The buckets of the runqueue count exactly the tasks enqueued since the clamps are used
\* (uclamp_rq_inc_id, uclamp_rq_dec_id), also in the state in which a race has just been lost.
THEOREM ClampsCountedCorrect == FollowedSpec => []ClampsCounted
<1>1. BwInit => ClampInv
  BY ClampsInit DEF BwInit
<1>2. ClampInv /\ [Followed /\ BwNext]_bandvars => ClampInv'
  BY ClampsNext, ClampsStutter DEF Followed
<1>3. ClampInv => ClampsCounted
  BY CountedShows DEF ClampInv
<1> QED
  BY <1>1, <1>2, <1>3, PTL DEF FollowedSpec
================================================================================
