--------------------------- MODULE GuardedCallProofs ---------------------------
(***************************************************************************)
(* What holds of GuardedCall for every number of overlapping calls of all  *)
(* kinds: its inductive invariant, and that it implements SpendLedger.     *)
(***************************************************************************)
EXTENDS GuardedCall, SequenceTheorems, TLAPS

(* Everything that can happen to a call.                                   *)
Step(c) ==
    \/ Begin(c) \/ ActionReturns(c) \/ ActionRaises(c) \/ CallStep(c)
    \/ LateCreate(c) \/ WorkerSettles(c)
    \/ HeartbeatGivesUp(c) \/ HeartbeatEnds(c) \/ Expire(c)

-------------------------------------------------------------------------------
(* Lists of open calls.                                                    *)

LEMMA RemoveAtKeeps ==
    ASSUME NEW S, NEW s \in Seq(S), NEW i \in DOMAIN s
    PROVE  /\ RemoveAt(s, i) \in Seq(S) /\ Len(RemoveAt(s, i)) = Len(s) - 1
           /\ \A x \in ToSet(s) : x # s[i] => x \in ToSet(RemoveAt(s, i))
<1> DEFINE a == SubSeq(s, 1, i - 1)
           b == SubSeq(s, i + 1, Len(s))
<1>1. /\ i \in 1..Len(s) /\ Len(s) \in Nat
      /\ a \in Seq(S) /\ Len(a) = i - 1 /\ \A k \in 1..(i - 1) : a[k] = s[k]
      /\ b \in Seq(S) /\ Len(b) = Len(s) - i /\ \A k \in 1..(Len(s) - i) : b[k] = s[i + k]
  OBVIOUS
<1>2. RemoveAt(s, i) = a \o b
  BY DEF RemoveAt
<1> HIDE DEF a, b
<1> DEFINE t == a \o b
<1>3. /\ t \in Seq(S) /\ Len(t) = Len(s) - 1
      /\ \A k \in 1..(Len(s) - 1) : t[k] = IF k <= i - 1 THEN a[k] ELSE b[k - (i - 1)]
  <2>1. /\ t \in Seq(S) /\ Len(t) = Len(a) + Len(b)
        /\ \A k \in 1..(Len(a) + Len(b)) :
              t[k] = IF k <= Len(a) THEN a[k] ELSE b[k - Len(a)]
    BY <1>1, ConcatProperties
  <2>2. Len(a) = i - 1 /\ Len(a) + Len(b) = Len(s) - 1
    BY <1>1
  <2> HIDE DEF t
  <2> QED
    BY <2>1, <2>2
<1> HIDE DEF t
<1>4. ToSet(t) = {t[k] : k \in 1..(Len(s) - 1)} /\ ToSet(s) = {s[k] : k \in 1..Len(s)}
  <2>1. DOMAIN t = 1..(Len(s) - 1) /\ DOMAIN s = 1..Len(s)
    BY <1>3
  <2> QED
    BY <2>1, Zenon DEF ToSet
<1>5. ASSUME NEW j \in 1..Len(s), j < i PROVE s[j] \in ToSet(t)
  <2>1. j \in 1..(Len(s) - 1) /\ j \in 1..(i - 1) /\ j <= i - 1
    BY <1>1, <1>5
  <2> QED
    BY <1>1, <1>3, <1>4, <2>1
<1>6. ASSUME NEW j \in 1..Len(s), j > i PROVE s[j] \in ToSet(t)
  <2> DEFINE k == j - 1
  <2>1. /\ k \in 1..(Len(s) - 1) /\ ~ (k <= i - 1)
        /\ k - (i - 1) \in 1..(Len(s) - i) /\ i + (k - (i - 1)) = j
    BY <1>1, <1>6
  <2> HIDE DEF k
  <2>2. t[k] = s[j]
    BY <1>1, <1>3, <2>1
  <2> QED
    BY <1>4, <2>1, <2>2
<1>7. ASSUME NEW x \in ToSet(s), x # s[i] PROVE x \in ToSet(t)
  <2>1. PICK j \in 1..Len(s) : x = s[j]
    BY <1>4
  <2>2. j # i /\ j \in Nat /\ i \in Nat
    BY <1>1, <1>7, <2>1
  <2>3. j < i \/ j > i
    BY <2>2
  <2> QED
    BY <1>5, <1>6, <2>1, <2>3
<1> QED
  BY <1>2, <1>3, <1>7 DEF t

LEMMA CloseKeeps ==
    ASSUME TypeOK, NEW c \in Call, Close(c)
    PROVE  /\ open' \in Seq(Call) /\ Len(open') = Len(open) - 1
           /\ \A d \in ToSet(open) : d # c => d \in ToSet(open')
  BY RemoveAtKeeps DEF TypeOK, Close

-------------------------------------------------------------------------------
(* Types.                                                                  *)

LEMMA WindUpType ==
    ASSUME TypeOK, NEW c \in Call, WindUp(c)
    PROVE  /\ pc' \in [Call -> {"new", "creating", "running", "settling", "committing",
                                "releasing", "stopping", "over"}]
           /\ beat' \in [Call -> {"none", "alive", "stopping", "dead"}]
           /\ open' \in Seq(Call) /\ context' \in Call \cup {NoCall}
           /\ cut' \subseteq Call
<1>1. CASE c \in Stream
  BY <1>1, CloseKeeps DEF TypeOK, WindUp, Goto, Leave
<1>2. CASE c \notin Stream
  BY <1>2 DEF TypeOK, WindUp, Goto, HeartbeatStopped, inside
<1> QED
  BY <1>1, <1>2

LEMMA TypeStep == ASSUME TypeOK, NEW c \in Call, Step(c) PROVE TypeOK'
<1> USE DEF TypeOK, request, inside
<1>1. CASE Begin(c)
  BY <1>1 DEF Begin, Goto
<1>2. CASE Enter(c)
  BY <1>2 DEF Enter, Create, Goto, Created
<1>3. CASE CreateAmbiguous(c)
  BY <1>3 DEF CreateAmbiguous, Create, Goto
<1>4. CASE CreateRefused(c)
  BY <1>4 DEF CreateRefused, Create, Goto
<1>15. CASE CreateInterrupted(c)
  BY <1>15 DEF CreateInterrupted, Create, Goto
<1>5. CASE LateCreate(c)
  BY <1>5 DEF LateCreate, Created
<1>6. CASE ActionReturns(c) \/ ActionRaises(c)
  BY <1>6 DEF ActionReturns, ActionRaises, Goto, HeartbeatStopped
<1>7. CASE Stopped(c)
  BY <1>7, CloseKeeps DEF Stopped, Goto, Leave
<1>8. CASE StopInterrupted(c)
  BY <1>8, CloseKeeps DEF StopInterrupted, Goto
<1>9. CASE Persist(c)
  BY <1>9 DEF Persist, Goto
<1>10. CASE SettleInterrupted(c) \/ CommitHandedOver(c) \/ CommitInterrupted(c)
  BY <1>10, WindUpType DEF SettleInterrupted, CommitHandedOver, CommitInterrupted
<1>11. CASE CommitSettles(c)
  BY <1>11, WindUpType DEF CommitSettles, Decide
<1>12. CASE Released(c)
  BY <1>12, WindUpType DEF Released
<1>13. CASE WorkerSettles(c)
  BY <1>13 DEF WorkerSettles, Decide
<1>14. CASE HeartbeatGivesUp(c) \/ HeartbeatEnds(c) \/ Expire(c)
  BY <1>14 DEF HeartbeatGivesUp, HeartbeatEnds, Expire
<1> QED
  BY <1>1, <1>2, <1>3, <1>4, <1>5, <1>6, <1>7, <1>8, <1>9, <1>10, <1>11, <1>12,
     <1>13, <1>14, <1>15 DEF Step, CallStep

-------------------------------------------------------------------------------
(* A step of one call leaves the others as they are.                       *)

Untouched(q) ==
    /\ pc'[q] = pc[q] /\ spent'[q] = spent[q]
    /\ disk'[q] = disk[q] /\ hold'[q] = hold[q]

LEMMA WindUpPlaces ==
    ASSUME TypeOK, NEW c \in Call, WindUp(c)
    PROVE  /\ pc'[c] = IF c \in Stream THEN "over" ELSE "stopping"
           /\ \A q \in Call \ {c} : pc'[q] = pc[q]
  BY DEF TypeOK, WindUp, Goto

LEMMA OthersUntouched ==
    ASSUME TypeOK, NEW c \in Call, Step(c)
    PROVE  kind' = kind /\ \A q \in Call \ {c} : Untouched(q)
<1> USE DEF TypeOK, request, inside, Untouched, Goto
<1>1. CASE Begin(c) \/ Enter(c) \/ CreateAmbiguous(c) \/ CreateRefused(c)
  BY <1>1 DEF Begin, Enter, CreateAmbiguous, CreateRefused, Create
<1>2. CASE CreateInterrupted(c)
  BY <1>2 DEF CreateInterrupted, Create
<1>3. CASE LateCreate(c)
  BY <1>3 DEF LateCreate
<1>4. CASE ActionReturns(c) \/ ActionRaises(c)
  BY <1>4 DEF ActionReturns, ActionRaises
<1>5. CASE Stopped(c) \/ StopInterrupted(c) \/ Persist(c)
  BY <1>5 DEF Stopped, StopInterrupted, Persist
<1>6. CASE SettleInterrupted(c) \/ CommitHandedOver(c) \/ CommitInterrupted(c)
  BY <1>6, WindUpPlaces DEF SettleInterrupted, CommitHandedOver, CommitInterrupted
<1>7. CASE CommitSettles(c)
  BY <1>7, WindUpPlaces DEF CommitSettles, Decide
<1>8. CASE Released(c)
  BY <1>8, WindUpPlaces DEF Released
<1>9. CASE WorkerSettles(c)
  BY <1>9 DEF WorkerSettles, Decide
<1>10. CASE HeartbeatGivesUp(c) \/ HeartbeatEnds(c) \/ Expire(c)
  BY <1>10 DEF HeartbeatGivesUp, HeartbeatEnds, Expire
<1> QED
  BY <1>1, <1>2, <1>3, <1>4, <1>5, <1>6, <1>7, <1>8, <1>9, <1>10 DEF Step, CallStep

LEMMA OtherCallOK ==
    ASSUME NEW q \in Call, CallOK(q), kind' = kind, Untouched(q)
    PROVE  CallOK(q)'
  BY DEF CallOK, Settled, Untouched, Async, Stream

-------------------------------------------------------------------------------
(* The call that takes the step.                                           *)

LEMMA OwnCallOK ==
    ASSUME TypeOK, NEW c \in Call, CallOK(c), Step(c)
    PROVE  CallOK(c)'
<1>0. /\ kind' = kind
      /\ (c \in Stream)' <=> c \in Stream
      /\ (c \in Async)' <=> c \in Async
  BY OthersUntouched DEF Stream, Async
<1> USE DEF TypeOK, CallOK, Settled, request, inside, Goto
<1>1. CASE Begin(c)
  BY <1>0, <1>1 DEF Begin
<1>2. CASE Enter(c) \/ LateCreate(c)
  BY <1>0, <1>2 DEF Enter, LateCreate, Create, Created
<1>3. CASE CreateAmbiguous(c)
  BY <1>0, <1>3 DEF CreateAmbiguous, Create
<1>4. CASE CreateRefused(c)
  BY <1>0, <1>4 DEF CreateRefused, Create
<1>5. CASE CreateInterrupted(c)
  BY <1>0, <1>5 DEF CreateInterrupted, Create
<1>6. CASE ActionReturns(c)
  BY <1>0, <1>6 DEF ActionReturns, MayExit
<1>7. CASE ActionRaises(c)
  BY <1>0, <1>7 DEF ActionRaises, MayExit
<1>8. CASE Stopped(c)
  BY <1>0, <1>8 DEF Stopped, HeartbeatAwaited
<1>9. CASE StopInterrupted(c)
  BY <1>0, <1>9 DEF StopInterrupted, SyncInterrupted
<1>10. CASE Persist(c)
  BY <1>0, <1>10 DEF Persist
<1>11. CASE SettleInterrupted(c)
  BY <1>0, <1>11, WindUpPlaces DEF SettleInterrupted, SyncInterrupted
<1>12. CASE CommitSettles(c)
  BY <1>0, <1>12, WindUpPlaces DEF CommitSettles, Decide
<1>13. CASE CommitHandedOver(c)
  BY <1>0, <1>13, WindUpPlaces DEF CommitHandedOver
<1>14. CASE CommitInterrupted(c)
  BY <1>0, <1>14, WindUpPlaces DEF CommitInterrupted
<1>15. CASE Released(c)
  BY <1>0, <1>15, WindUpPlaces DEF Released
<1>16. CASE WorkerSettles(c)
  BY <1>0, <1>16 DEF WorkerSettles, Decide
<1>17. CASE HeartbeatGivesUp(c) \/ HeartbeatEnds(c)
  BY <1>0, <1>17 DEF HeartbeatGivesUp, HeartbeatEnds
<1>18. CASE Expire(c)
  BY <1>0, <1>18 DEF Expire
<1> QED
  BY <1>1, <1>2, <1>3, <1>4, <1>5, <1>6, <1>7, <1>8, <1>9, <1>10, <1>11, <1>12,
     <1>13, <1>14, <1>15, <1>16, <1>17, <1>18 DEF Step, CallStep

-------------------------------------------------------------------------------
(* The context.                                                            *)

(* Calls are entered, left and cut short; nothing else moves the task.     *)
LEMMA InsideSteps ==
    ASSUME NEW c \in Call, Step(c)
    PROVE  UNCHANGED inside \/ Enter(c) \/ Leave(c) \/ StopInterrupted(c)
<1>1. CASE WindUp(c)
  BY <1>1 DEF WindUp
<1>2. CASE Begin(c) \/ CreateAmbiguous(c) \/ CreateRefused(c)
  BY <1>2 DEF Begin, CreateAmbiguous, CreateRefused
<1>3. CASE CreateInterrupted(c)
  BY <1>3 DEF CreateInterrupted
<1>4. CASE ActionReturns(c) \/ ActionRaises(c) \/ Persist(c) \/ LateCreate(c)
  BY <1>4 DEF ActionReturns, ActionRaises, Persist, LateCreate
<1>5. CASE Stopped(c)
  BY <1>5 DEF Stopped
<1>6. CASE WorkerSettles(c) \/ HeartbeatGivesUp(c) \/ HeartbeatEnds(c) \/ Expire(c)
  BY <1>6 DEF WorkerSettles, HeartbeatGivesUp, HeartbeatEnds, Expire
<1> QED
  BY <1>1, <1>2, <1>3, <1>4, <1>5, <1>6
     DEF Step, CallStep, SettleInterrupted, CommitSettles, CommitHandedOver,
         CommitInterrupted, Released

LEMMA ContextStep ==
    ASSUME TypeOK, OwnContextIsOpen, NEW c \in Call, Step(c)
    PROVE  OwnContextIsOpen'
<1>0. kind' = kind
  BY OthersUntouched
<1>1. CASE UNCHANGED inside
  BY <1>0, <1>1 DEF inside, OwnContextIsOpen, Async
<1>2. CASE Enter(c)
  <2>1. context' = c /\ open' = Append(open, c) /\ open \in Seq(Call)
    BY <1>2 DEF Enter, TypeOK
  <2>2. Len(open') \in DOMAIN open' /\ open'[Len(open')] = c
    BY <2>1
  <2> QED
    BY <2>1, <2>2 DEF OwnContextIsOpen, ToSet
<1>3. CASE Leave(c)
  BY <1>3 DEF Leave, OwnContextIsOpen
<1>4. CASE StopInterrupted(c)
  <2>1. /\ context' = context /\ cut' = cut \cup {c} /\ c \notin Async
        /\ \A d \in ToSet(open) : d # c => d \in ToSet(open')
    BY <1>4, CloseKeeps DEF StopInterrupted, SyncInterrupted
  <2>2. Async' = Async
    BY <1>0 DEF Async
  <2> QED
    BY <2>1, <2>2 DEF OwnContextIsOpen
<1> QED
  BY <1>1, <1>2, <1>3, <1>4, InsideSteps

-------------------------------------------------------------------------------
(* The inductive invariant.                                                *)

LEMMA InitInv == Init => CallInv
<1> SUFFICES ASSUME Init PROVE CallInv
  OBVIOUS
<1>1. TypeOK
  BY DEF Init, TypeOK
<1>2. \A c \in Call : CallOK(c)
  BY DEF Init, CallOK, Settled
<1>3. OwnContextIsOpen
  BY DEF Init, OwnContextIsOpen
<1> QED
  BY <1>1, <1>2, <1>3 DEF CallInv

LEMMA NextInv == CallInv /\ [Next]_vars => CallInv'
<1> SUFFICES ASSUME CallInv, [Next]_vars PROVE CallInv'
  OBVIOUS
<1>1. CASE UNCHANGED vars
  BY <1>1 DEF CallInv, TypeOK, CallOK, Settled, OwnContextIsOpen, Stream, Async, vars
<1>2. ASSUME NEW c \in Call, Step(c) PROVE CallInv'
  <2>1. TypeOK'
    BY <1>2, TypeStep DEF CallInv
  <2>2. \A q \in Call : CallOK(q)'
    BY <1>2, OwnCallOK, OtherCallOK, OthersUntouched DEF CallInv
  <2>3. OwnContextIsOpen'
    BY <1>2, ContextStep DEF CallInv
  <2> QED
    BY <2>1, <2>2, <2>3 DEF CallInv
<1> QED
  BY <1>1, <1>2 DEF Next, Step

(* The place of every call agrees with its spend, its record and its hold, *)
(* in every reachable state.                                               *)
THEOREM CallInvariance == Spec => []CallInv
  BY InitInv, NextInv, PTL DEF Spec

(* Every variable keeps its type: a create is sent at most twice.          *)
THEOREM CallTypeCorrect == Spec => []TypeOK
  BY CallInvariance, PTL DEF CallInv

(* On asyncio no cancellation comes between done work and its record.      *)
THEOREM AsyncSpendIsRecorded == Spec => []AsyncSpendReachesDisk
<1>1. CallInv => AsyncSpendReachesDisk
  BY DEF CallInv, CallOK, Settled, AsyncSpendReachesDisk, Async
<1> QED
  BY <1>1, CallInvariance, PTL

(* However calls nest and overlap, the task's context is that of an open   *)
(* call, or of a sync call whose end a KeyboardInterrupt in join did cut   *)
(* short; that no other way out leaves one behind is proved for functions  *)
(* and streams, sync and async alike.                                      *)
THEOREM ContextIsOpen == Spec => []OwnContextIsOpen
  BY CallInvariance, PTL DEF CallInv

-------------------------------------------------------------------------------
(* Heartbeats.                                                             *)

(* A call that has none yet, and one that waits for its own to stop.       *)
BeatOK(c) ==
    /\ pc[c] \in {"new", "creating"} => beat[c] = "none"
    /\ pc[c] = "stopping" => beat[c] # "alive"
    /\ PastHeartbeat(c) => beat[c] # "alive" /\ (c \in Async => beat[c] # "stopping")

BeatInv == \A c \in Call : BeatOK(c)

LEMMA SameKinds ==
    ASSUME kind' = kind
    PROVE  \A c : /\ (c \in Stream)' <=> c \in Stream
                  /\ (c \in Async)' <=> c \in Async
  BY Zenon DEF Stream, Async

(* A call is wound up with its heartbeat told to stop, if it still runs.   *)
LEMMA WindUpBeat ==
    ASSUME TypeOK, NEW c \in Call, WindUp(c), kind' = kind,
           BeatOK(c), pc[c] \in {"settling", "committing", "releasing"}
    PROVE  /\ BeatOK(c)'
           /\ \A q \in Call \ {c} : beat'[q] = beat[q]
<1>0. /\ (c \in Stream)' <=> c \in Stream
      /\ (c \in Async)' <=> c \in Async
  BY SameKinds
<1>1. CASE c \in Stream
  BY <1>0, <1>1, WindUpPlaces DEF TypeOK, WindUp, BeatOK, PastHeartbeat
<1>2. CASE c \notin Stream
  <2>1. pc'[c] = "stopping" /\ beat' = HeartbeatStopped(c)
    BY <1>2, WindUpPlaces DEF WindUp
  <2>2. beat'[c] # "alive" /\ \A q \in Call \ {c} : beat'[q] = beat[q]
    BY <2>1 DEF HeartbeatStopped, TypeOK
  <2> QED
    BY <1>0, <1>2, <2>1, <2>2 DEF BeatOK, PastHeartbeat
<1> QED
  BY <1>1, <1>2

LEMMA OwnBeat ==
    ASSUME TypeOK, NEW c \in Call, BeatOK(c), Step(c)
    PROVE  /\ BeatOK(c)'
           /\ \A q \in Call \ {c} : beat'[q] = beat[q]
<1>0. /\ kind' = kind
      /\ (c \in Stream)' <=> c \in Stream
      /\ (c \in Async)' <=> c \in Async
  BY OthersUntouched, SameKinds
<1> USE DEF TypeOK, BeatOK, PastHeartbeat, request, inside, Goto
<1>1. CASE Begin(c) \/ Enter(c) \/ LateCreate(c)
  BY <1>0, <1>1 DEF Begin, Enter, LateCreate, Create
<1>2. CASE CreateAmbiguous(c) \/ CreateRefused(c) \/ CreateInterrupted(c)
  BY <1>0, <1>2 DEF CreateAmbiguous, CreateRefused, CreateInterrupted, Create
<1>3. CASE ActionReturns(c) \/ ActionRaises(c)
  BY <1>0, <1>3 DEF ActionReturns, ActionRaises, MayExit, HeartbeatStopped
<1>4. CASE Stopped(c)
  BY <1>0, <1>4 DEF Stopped, HeartbeatAwaited
<1>5. CASE StopInterrupted(c)
  BY <1>0, <1>5 DEF StopInterrupted, SyncInterrupted
<1>6. CASE Persist(c) \/ WorkerSettles(c) \/ Expire(c)
  BY <1>0, <1>6 DEF Persist, WorkerSettles, Expire
<1>7. CASE SettleInterrupted(c) \/ CommitSettles(c) \/ CommitHandedOver(c)
  BY <1>0, <1>7, WindUpBeat DEF SettleInterrupted, CommitSettles, CommitHandedOver
<1>8. CASE CommitInterrupted(c) \/ Released(c)
  BY <1>0, <1>8, WindUpBeat DEF CommitInterrupted, Released
<1>9. CASE HeartbeatGivesUp(c) \/ HeartbeatEnds(c)
  BY <1>0, <1>9 DEF HeartbeatGivesUp, HeartbeatEnds
<1> QED
  BY <1>1, <1>2, <1>3, <1>4, <1>5, <1>6, <1>7, <1>8, <1>9 DEF Step, CallStep

(* No heartbeat outlives its call, and none extends what its stream is     *)
(* settling, whatever is interrupted and however many calls overlap.       *)
THEOREM HeartbeatsStop == Spec => []HeartbeatStopsFirst
<1>1. Init => BeatInv
  BY DEF Init, BeatInv, BeatOK, PastHeartbeat
<1>2. TypeOK /\ BeatInv /\ [Next]_vars => BeatInv'
  <2> SUFFICES ASSUME TypeOK, BeatInv, [Next]_vars PROVE BeatInv'
    OBVIOUS
  <2>1. CASE UNCHANGED vars
    BY <2>1, SameKinds DEF vars, BeatInv, BeatOK, PastHeartbeat
  <2>2. ASSUME NEW c \in Call, Step(c) PROVE BeatInv'
    <3>1. ASSUME NEW q \in Call \ {c} PROVE BeatOK(q)'
      <4>1. kind' = kind /\ pc'[q] = pc[q] /\ beat'[q] = beat[q] /\ BeatOK(q)
        BY <2>2, OthersUntouched, OwnBeat DEF BeatInv, Untouched
      <4> QED
        BY <4>1, SameKinds DEF BeatOK, PastHeartbeat
    <3> QED
      BY <2>2, <3>1, OwnBeat DEF BeatInv
  <2> QED
    BY <2>1, <2>2 DEF Next, Step
<1>3. BeatInv => HeartbeatStopsFirst
  BY DEF BeatInv, BeatOK, HeartbeatStopsFirst
<1> QED
  BY <1>1, <1>2, <1>3, CallTypeCorrect, PTL DEF Spec

-------------------------------------------------------------------------------
(* Where the two documented claims that the runs refute do hold.           *)

(* A task that is in one guarded call at a time finds its context in it:   *)
(* it takes nesting or overlap to lose it.                                 *)
THEOREM UnnestedContextFound == Spec /\ [](Len(open) <= 1) => []ContextInsideCall
<1>1. Init => ContextInsideCall
  BY DEF Init, ContextInsideCall
<1>2. TypeOK /\ ContextInsideCall /\ Len(open) <= 1 /\ [Next]_vars => ContextInsideCall'
  <2> SUFFICES ASSUME TypeOK, ContextInsideCall, Len(open) <= 1, [Next]_vars
               PROVE  ContextInsideCall'
    OBVIOUS
  <2>1. CASE UNCHANGED inside
    BY <2>1 DEF inside, ContextInsideCall
  <2>2. ASSUME NEW c \in Call, Enter(c) PROVE ContextInsideCall'
    BY <2>2, GuardedCallAssumption DEF Enter, ContextInsideCall
  <2>3. ASSUME NEW c \in Call, Close(c) PROVE ContextInsideCall'
    <3>1. open' \in Seq(Call) /\ Len(open') = Len(open) - 1 /\ Len(open) \in Nat
      BY <2>3, CloseKeeps DEF TypeOK
    <3>2. open' = << >>
      BY <3>1
    <3> QED
      BY <3>2 DEF ContextInsideCall
  <2>4. UNCHANGED inside \/ \E c \in Call : Enter(c) \/ Close(c)
    <3>1. CASE UNCHANGED vars
      BY <3>1 DEF vars, inside
    <3>2. ASSUME NEW c \in Call, Step(c) PROVE UNCHANGED inside \/ Enter(c) \/ Close(c)
      BY <3>2, InsideSteps DEF Leave, StopInterrupted
    <3> QED
      BY <3>1, <3>2 DEF Next, Step
  <2> QED
    BY <2>1, <2>2, <2>3, <2>4
<1> QED
  BY <1>1, <1>2, CallTypeCorrect, PTL DEF Spec

DoneOK(c) == spent[c] /\ Settled(c) => disk[c] # "none"

LEMMA OwnDone ==
    ASSUME ~ Interrupts, TypeOK, NEW c \in Call, CallOK(c), DoneOK(c), Step(c)
    PROVE  DoneOK(c)'
<1>0. /\ kind' = kind
      /\ (c \in Stream)' <=> c \in Stream
  BY OthersUntouched DEF Stream
<1> USE DEF TypeOK, CallOK, DoneOK, Settled, request, inside, Goto
<1>1. CASE Begin(c) \/ Enter(c) \/ LateCreate(c)
  BY <1>0, <1>1 DEF Begin, Enter, Create, LateCreate
<1>2. CASE CreateAmbiguous(c) \/ CreateRefused(c) \/ CreateInterrupted(c)
  BY <1>0, <1>2 DEF CreateAmbiguous, CreateRefused, CreateInterrupted, Create
<1>3. CASE ActionReturns(c) \/ ActionRaises(c)
  BY <1>0, <1>3 DEF ActionReturns, ActionRaises, MayExit
<1>4. CASE Stopped(c)
  BY <1>0, <1>4 DEF Stopped, HeartbeatAwaited
<1>5. CASE StopInterrupted(c) \/ SettleInterrupted(c)
  BY <1>5 DEF StopInterrupted, SettleInterrupted, SyncInterrupted
<1>6. CASE Persist(c)
  BY <1>0, <1>6 DEF Persist
<1>7. CASE CommitSettles(c)
  BY <1>0, <1>7, WindUpPlaces DEF CommitSettles, Decide
<1>8. CASE CommitHandedOver(c) \/ CommitInterrupted(c)
  BY <1>0, <1>8, WindUpPlaces DEF CommitHandedOver, CommitInterrupted
<1>9. CASE Released(c)
  BY <1>0, <1>9, WindUpPlaces DEF Released
<1>10. CASE WorkerSettles(c)
  BY <1>0, <1>10 DEF WorkerSettles, Decide
<1>11. CASE HeartbeatGivesUp(c) \/ HeartbeatEnds(c) \/ Expire(c)
  BY <1>0, <1>11 DEF HeartbeatGivesUp, HeartbeatEnds, Expire
<1> QED
  BY <1>1, <1>2, <1>3, <1>4, <1>5, <1>6, <1>7, <1>8, <1>9, <1>10, <1>11 DEF Step, CallStep

(* Without interrupts, work that was done is on disk before its call is    *)
(* over, sync or async, function or stream.                                *)
THEOREM UninterruptedSpendReachesDisk ==
    ASSUME ~ Interrupts
    PROVE  Spec => []SpendReachesDisk
<1> DEFINE Done == \A c \in Call : DoneOK(c)
<1>1. Init => Done
  BY DEF Init, DoneOK
<1>2. CallInv /\ Done /\ [Next]_vars => Done'
  <2> SUFFICES ASSUME CallInv, Done, [Next]_vars PROVE Done'
    OBVIOUS
  <2>1. CASE UNCHANGED vars
    BY <2>1 DEF vars, DoneOK, Settled, Stream
  <2>2. ASSUME NEW c \in Call, Step(c) PROVE Done'
    <3>1. DoneOK(c)'
      BY <2>2, OwnDone DEF CallInv
    <3>2. ASSUME NEW q \in Call \ {c} PROVE DoneOK(q)'
      BY <2>2, OthersUntouched DEF CallInv, Untouched, DoneOK, Settled, Stream
    <3> QED
      BY <3>1, <3>2
  <2> QED
    BY <2>1, <2>2 DEF Next, Step
<1>3. Done => SpendReachesDisk
  BY DEF DoneOK, Settled, SpendReachesDisk
<1> QED
  BY <1>1, <1>2, <1>3, CallInvariance, PTL DEF Spec

-------------------------------------------------------------------------------
(* The ledger.                                                             *)

Spends == [c \in Call |-> SpendOf(c)]

Edge ==
    {<<"open", "volatile">>, <<"open", "released">>, <<"volatile", "owed">>,
     <<"volatile", "lost">>, <<"owed", "recorded">>, <<"owed", "refused">>}

(* SpendOf, once CallOK has told what goes with what.                      *)
LEMMA SpendIs ==
    ASSUME NEW c \in Call, TypeOK, CallOK(c)
    PROVE  SpendOf(c) =
              IF hold[c] = "released" THEN "released"
              ELSE IF disk[c] = "charged" THEN "recorded"
              ELSE IF disk[c] = "refused" THEN "refused"
              ELSE IF disk[c] = "recorded" THEN "owed"
              ELSE IF ~ spent[c] THEN "open"
              ELSE IF pc[c] = "over" THEN "lost" ELSE "volatile"
  BY DEF SpendOf, Charged, CallOK, TypeOK

LEMMA SpendWillBe ==
    ASSUME NEW c \in Call, TypeOK', CallOK(c)'
    PROVE  SpendOf(c)' =
              IF hold'[c] = "released" THEN "released"
              ELSE IF disk'[c] = "charged" THEN "recorded"
              ELSE IF disk'[c] = "refused" THEN "refused"
              ELSE IF disk'[c] = "recorded" THEN "owed"
              ELSE IF ~ spent'[c] THEN "open"
              ELSE IF pc'[c] = "over" THEN "lost" ELSE "volatile"
  BY DEF SpendOf, Charged, CallOK, TypeOK

LEMMA OtherSpendSame ==
    ASSUME NEW q \in Call, Untouched(q)
    PROVE  SpendOf(q)' = SpendOf(q)
  BY DEF SpendOf, Charged, Untouched

LEMMA OneMove ==
    ASSUME NEW c \in Call,
           <<SpendOf(c), SpendOf(c)'>> \in Edge \/ SpendOf(c)' = SpendOf(c),
           \A q \in Call : q # c => SpendOf(q)' = SpendOf(q)
    PROVE  [Ledger!LedgerNext]_Spends
<1>1. CASE SpendOf(c)' = SpendOf(c)
  BY <1>1 DEF Spends
<1>2. CASE <<SpendOf(c), SpendOf(c)'>> \in Edge
  <2>1. Spends' = [Spends EXCEPT ![c] = SpendOf(c)'] /\ Spends[c] = SpendOf(c)
    BY DEF Spends
  <2>2. \/ Ledger!Spend(c) \/ Ledger!GiveBack(c) \/ Ledger!Journal(c)
        \/ Ledger!Record(c) \/ Ledger!Refuse(c)
        \/ SpendOf(c) = "volatile" /\ SpendOf(c)' = "lost"
    BY <1>2, <2>1 DEF Edge, Spends, Ledger!Spend, Ledger!GiveBack, Ledger!Journal,
       Ledger!Record, Ledger!Refuse, Ledger!Move
  <2>3. CASE SpendOf(c) = "volatile" /\ SpendOf(c)' = "lost"
    <3>1. Ledger!Lose({c})
      BY <2>1, <2>3 DEF Ledger!Lose, Spends
    <3> QED
      BY <3>1 DEF Ledger!LedgerNext
  <2> QED
    BY <2>2, <2>3 DEF Ledger!LedgerNext
<1> QED
  BY <1>1, <1>2

LEMMA OwnMove ==
    ASSUME TypeOK, NEW c \in Call, CallOK(c), Step(c)
    PROVE  <<SpendOf(c), SpendOf(c)'>> \in Edge \/ SpendOf(c)' = SpendOf(c)
<1>0. TypeOK' /\ CallOK(c)'
  BY TypeStep, OwnCallOK
<1>1. CASE Persist(c)
  BY <1>0, <1>1, SpendIs, SpendWillBe DEF Persist, Goto, TypeOK, CallOK, Settled, Edge
<1>2. CASE ActionReturns(c)
  BY <1>0, <1>2, SpendIs, SpendWillBe DEF ActionReturns, MayExit, Goto, TypeOK, CallOK,
     Settled, Edge
<1>3. CASE Released(c)
  BY <1>0, <1>3, SpendIs, SpendWillBe, WindUpPlaces DEF Released, TypeOK, CallOK, Settled, Edge
<1>4. CASE CommitSettles(c) \/ WorkerSettles(c)
  <2>1. disk[c] = "recorded" /\ Decide(c)
    BY <1>4 DEF CommitSettles, WorkerSettles, CallOK
  <2>2. hold[c] # "released"
    BY <1>4, <2>1 DEF CommitSettles, WorkerSettles, CallOK
  <2>3. disk'[c] \in {"charged", "refused"} /\ hold'[c] # "released"
    BY <2>1, <2>2 DEF Decide, TypeOK
  <2> QED
    BY <1>0, <2>1, <2>2, <2>3, SpendIs, SpendWillBe DEF Edge
<1>5. ASSUME UNCHANGED <<spent, disk>>, hold'[c] = "released" <=> hold[c] = "released",
             pc'[c] = pc[c] \/ pc[c] # "over"
      PROVE  <<SpendOf(c), SpendOf(c)'>> \in Edge \/ SpendOf(c)' = SpendOf(c)
  BY <1>0, <1>5, SpendIs, SpendWillBe DEF Edge
<1>6. CASE Begin(c) \/ Enter(c) \/ CreateAmbiguous(c) \/ CreateRefused(c) \/ LateCreate(c)
  BY <1>5, <1>6 DEF Begin, Enter, CreateAmbiguous, CreateRefused, LateCreate, Create, Created,
     TypeOK
<1>7. CASE CreateInterrupted(c)
  BY <1>5, <1>7 DEF CreateInterrupted
<1>8. CASE ActionRaises(c) \/ Stopped(c) \/ StopInterrupted(c)
  BY <1>5, <1>8 DEF ActionRaises, MayExit, Stopped, HeartbeatAwaited, StopInterrupted
<1>9. CASE SettleInterrupted(c) \/ CommitHandedOver(c) \/ CommitInterrupted(c)
  BY <1>5, <1>9 DEF SettleInterrupted, CommitHandedOver, CommitInterrupted
<1>10. CASE HeartbeatGivesUp(c) \/ HeartbeatEnds(c) \/ Expire(c)
  BY <1>5, <1>10 DEF HeartbeatGivesUp, HeartbeatEnds, Expire, TypeOK
<1> QED
  BY <1>1, <1>2, <1>3, <1>4, <1>6, <1>7, <1>8, <1>9, <1>10 DEF Step, CallStep

LEMMA StepRefines ==
    CallInv /\ [Next]_vars => [Ledger!LedgerNext]_[c \in Call |-> SpendOf(c)]
<1> SUFFICES ASSUME CallInv, [Next]_vars PROVE [Ledger!LedgerNext]_Spends
  BY DEF Spends
<1>1. CASE UNCHANGED vars
  BY <1>1 DEF vars, Spends, SpendOf, Charged
<1>2. ASSUME NEW c \in Call, Step(c) PROVE [Ledger!LedgerNext]_Spends
  <2>1. \A q \in Call : q # c => SpendOf(q)' = SpendOf(q)
    BY <1>2, OthersUntouched, OtherSpendSame DEF CallInv
  <2> QED
    BY <1>2, <2>1, OwnMove, OneMove DEF CallInv
<1> QED
  BY <1>1, <1>2 DEF Next, Step

(* Whatever interrupts them and whenever, guarded calls of all kinds move  *)
(* spend only along the ledger's edges: done work is never given back, and *)
(* a record is left only by an answer of the server.                       *)
THEOREM GuardedCallImplementsLedger == Spec => LedgerSafety
<1>1. Init => Ledger!LedgerInit
  BY DEF Init, Ledger!LedgerInit, SpendOf, Charged
<1> QED
  BY <1>1, StepRefines, CallInvariance, PTL DEF Spec, LedgerSafety, Ledger!LedgerSpec
===============================================================================
