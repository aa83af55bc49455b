----------------------- MODULE TerminalProviderProofs -----------------------
(***************************************************************************)
(* Theorems about TerminalProvider, for every value of its constants: the  *)
(* types; of any window, that the reservations of initialize() are always  *)
(* released and the mapping is saved; of a window that was wired once and  *)
(* whose ptys VS Code does not reconnect, that no two terminals share a    *)
(* session, no kill hits one in use, what is shown is saved and openSlots  *)
(* is what is in use.                                                      *)
(***************************************************************************)
EXTENDS TerminalProvider, SequenceTheorems, Recursion

USE ConstantsAssumption

(* Helpers of the model. *)

\* A nonempty set of slots has a least one, and First chooses it.
LEMMA FirstIsLeast ==
    ASSUME NEW S \in SUBSET Slot, S # {}
    PROVE  First(S) \in S /\ \A x \in S : First(S) <= x
<1>1. S \subseteq Nat
  BY DEF Slot
<1>2. PICK s \in S : \A x \in S : s <= x
  BY <1>1, Least
<1>3. QED
  BY <1>2 DEF First

\* `planning` is that of some run, or the resolved promise of none.
LEMMA PlanningType == Planning \in 0..MaxPass
<1>1. CASE \E p \in Pass : Started(p)
  <2> DEFINE Back == {n \in Nat : n < MaxPass /\ Started(MaxPass - n)}
  <2>1. Back # {}
    <3>1. PICK p \in Pass : Started(p)
      BY <1>1
    <3>2. MaxPass - p \in Back
      <4>1. MaxPass - (MaxPass - p) = p
        BY DEF Pass
      <4>2. QED
        BY <3>1, <4>1 DEF Pass
    <3>3. QED
      BY <3>2
  <2>2. PICK n \in Back : \A m \in Back : n <= m
    BY <2>1, Least
  <2>3. \A q \in Pass : Started(q) => q <= MaxPass - n
    <3> SUFFICES ASSUME NEW q \in Pass, Started(q), ~(q <= MaxPass - n) PROVE FALSE
      OBVIOUS
    <3>1. MaxPass - (MaxPass - q) = q
      BY DEF Pass
    <3>2. MaxPass - q \in Back
      BY <3>1 DEF Pass
    <3>3. MaxPass - q < n
      BY DEF Pass
    <3>4. QED
      BY <2>2, <3>2, <3>3
  <2>4. MaxPass - n \in Pass /\ Started(MaxPass - n)
    BY DEF Pass
  <2>5. QED
    BY <1>1, <2>3, <2>4 DEF Planning, Pass
<1>2. CASE ~ \E p \in Pass : Started(p)
  BY <1>2 DEF Planning
<1>3. QED
  BY <1>1, <1>2

\* What the head and the tail of the queue and of the write chain are.
LEMMA QueueHeadTail ==
    \A q \in Seq(Entry) : q # <<>> => Head(q) \in Entry /\ Tail(q) \in Seq(Entry)
BY HeadTailProperties

LEMMA ChainHeadTail ==
    \A q \in Seq(Requests \cup (0..MaxPass)) :
        q # <<>> => Tail(q) \in Seq(Requests \cup (0..MaxPass))
BY HeadTailProperties

\* Queued slots are slots.
LEMMA SlotsType == \A q \in Seq(Entry) : Slots(q) \subseteq Slot
<1>1. \A q \in Seq(Entry) : \A i \in 1..Len(q) : q[i] \in Entry
  BY ElementOfSeq
<1>2. QED
  BY <1>1 DEF Slots, Entry

LEMMA ChainAppend ==
    \A q \in Seq(Requests \cup (0..MaxPass)), who \in Requests \cup (0..MaxPass) :
        Append(q, who) \in Seq(Requests \cup (0..MaxPass))
OBVIOUS

LEMMA NobodyWaits == 0 \in 0..MaxPass
BY DEF ConstantsAssumption

LEMMA EnqueueType ==
    ASSUME LocalTypeOK, NEW s \in Slot, NEW takeOver \in BOOLEAN, NEW revivable \in BOOLEAN,
           Enqueue(s, takeOver, revivable)
    PROVE  pendingRestores' \in Seq(Entry)
<1>1. [slot |-> s, takeOver |-> takeOver, revivable |-> revivable] \in Entry
  BY DEF Entry
<1>2. QED
  BY <1>1 DEF LocalTypeOK, Enqueue

\* A slot chosen among the free ones is a slot.
LEMMA FreeType ==
    ASSUME NEW open, NEW attached, Free(open, attached) # {}
    PROVE  First(Free(open, attached)) \in Free(open, attached) /\ Free(open, attached) \subseteq Slot
<1>1. Free(open, attached) \in SUBSET Slot
  BY DEF Free
<1>2. QED
  BY <1>1, FirstIsLeast

\* Opening a client leaves the window and the server well shaped.
LEMMA LaunchType ==
    ASSUME OutsideTypeOK, NEW t \in Tabs, NEW s \in Slot, NEW takeOver, Launch(t, s, takeOver)
    PROVE  /\ tab' \in [Tabs -> TabState]
           /\ session' \subseteq Slot
           /\ foreign' \subseteq session'
           /\ parked' \subseteq session'
<1>1. Exits({s}) \in [Tabs -> TabState]
  BY DEF OutsideTypeOK, Exits, TabState, Ending
<1>2. [st |-> "born", slot |-> s, ending |-> "no"] \in TabState
  BY DEF TabState, Ending
<1>3. tab' \in [Tabs -> TabState]
  BY <1>1, <1>2 DEF OutsideTypeOK, Launch
<1>4. QED
  BY <1>3 DEF OutsideTypeOK, Launch

\* The records the calls and tabs are reset to have the right shape.
LEMMA IdleTypes ==
    /\ IdlePass \in PassState
    /\ IdleRequest \in RequestState
    /\ NoTab \in TabState
<1>1. 0 \in Slot
  BY DEF Slot
<1>2. IdlePass \in PassState
  BY DEF IdlePass, PassState, PassPc, RemoteSlotState
<1>3. QED
  BY <1>1, <1>2 DEF IdleRequest, RequestState, RequestPc, NoTab, TabState, Ending

\* A run that moves on, other than to await has-session, keeps its shape.
LEMMA PassGoesTo ==
    ASSUME PassTypeOK, NEW p \in Pass, NEW c \in PassPc \ {"probe"},
           pass' = [pass EXCEPT ![p].pc = c]
    PROVE  PassTypeOK'
<1>1. [pass[p] EXCEPT !.pc = c] \in PassState /\ [pass[p] EXCEPT !.pc = c].pc = c
  BY DEF PassTypeOK, PassState
<1>2. QED
  BY <1>1 DEF PassTypeOK

\* As PassGoesTo, for a run that changes more than its place.
LEMMA PassBecomes ==
    ASSUME PassTypeOK, NEW p \in Pass, NEW rec \in PassState, rec.pc # "probe",
           pass' = [pass EXCEPT ![p] = rec]
    PROVE  PassTypeOK'
BY DEF PassTypeOK

\* A request that changes its record for another keeps the shape of both.
LEMMA RequestBecomes ==
    ASSUME CallTypeOK, NEW r \in Requests, NEW rec \in RequestState,
           request' = [request EXCEPT ![r] = rec], UNCHANGED kills
    PROVE  CallTypeOK'
BY DEF CallTypeOK

------------------------------------------------------------------------------
(* Planning, the revive window and the drain. *)

LEMMA InitializeType ==
    ASSUME TypeOK, NEW p \in Pass, Initialize(p)
    PROVE  TypeOK'
<1>1. LocalTypeOK'
  BY EmptySeq DEF TypeOK, LocalTypeOK, Initialize, OutsideTypeOK, AdoptRevivedTerminals,
     Unclaimed, Shown, TabState
<1>2. PassTypeOK'
  <2>1. "list" \in PassPc \ {"probe"} /\ pass' = [pass EXCEPT ![p].pc = "list"]
    BY DEF Initialize, PassPc
  <2>2. QED
    BY <2>1, PassGoesTo DEF TypeOK
<1>3. CallTypeOK' /\ OutsideTypeOK'
  BY DEF TypeOK, CallTypeOK, Initialize, OutsideTypeOK, remote
<1>4. QED
  BY <1>1, <1>2, <1>3 DEF TypeOK

LEMMA ListSessionsType ==
    ASSUME TypeOK, NEW p \in Pass, ListSessions(p)
    PROVE  TypeOK'
<1>1. LocalTypeOK'
  BY DEF TypeOK, LocalTypeOK, ListSessions, OutsideTypeOK
<1>2. PassTypeOK'
  <2>1. [s \in Slot |-> Seen(s)] \in [Slot -> RemoteSlotState]
    BY DEF Seen, RemoteSlotState
  <2>2. pass[p] \in PassState /\ mapping \subseteq Slot /\ session \subseteq Slot
    BY DEF TypeOK, PassTypeOK, LocalTypeOK, OutsideTypeOK
  <2>3. [pass[p] EXCEPT !.pc = "decide", !.todo = mapping \cup session,
                        !.seen = [s \in Slot |-> Seen(s)]] \in PassState
    BY <2>1, <2>2 DEF PassState, PassPc
  <2>4. [pass[p] EXCEPT !.pc = "decide", !.todo = mapping] \in PassState
    BY <2>2 DEF PassState, PassPc
  <2>5. PICK rec \in PassState : pass' = [pass EXCEPT ![p] = rec] /\ rec.pc = "decide"
    <3>1. [pass[p] EXCEPT !.pc = "decide", !.todo = mapping \cup session,
                          !.seen = [s \in Slot |-> Seen(s)]].pc = "decide"
      BY <2>2 DEF PassState
    <3>2. [pass[p] EXCEPT !.pc = "decide", !.todo = mapping].pc = "decide"
      BY <2>2 DEF PassState
    <3>3. QED
      BY <2>3, <2>4, <3>1, <3>2 DEF ListSessions
  <2>6. QED
    BY <2>5 DEF TypeOK, PassTypeOK
<1>3. CallTypeOK' /\ OutsideTypeOK'
  BY DEF TypeOK, CallTypeOK, ListSessions, OutsideTypeOK, remote
<1>4. QED
  BY <1>1, <1>2, <1>3 DEF TypeOK

LEMMA ResolveSlotType ==
    ASSUME TypeOK, NEW p \in Pass, ResolveSlot(p)
    PROVE  TypeOK'
<1>1. LocalTypeOK'
  <2>1. First(pass[p].todo) \in Slot
    BY FirstIsLeast DEF TypeOK, PassTypeOK, PassState, ResolveSlot
  <2>2. pendingRestores' \in Seq(Entry)
    BY <2>1, EnqueueType DEF TypeOK, LocalTypeOK, ResolveSlot
  <2>3. mapping' \subseteq Slot
    BY <2>1 DEF TypeOK, LocalTypeOK, ResolveSlot
  <2>4. QED
    BY <2>2, <2>3 DEF TypeOK, LocalTypeOK, ResolveSlot
<1>2. PassTypeOK'
  <2>1. pass[p].pc = "decide" /\ pass[p].todo # {}
    BY DEF ResolveSlot
  <2>2. \/ pass' = [pass EXCEPT ![p].todo = @ \ {First(pass[p].todo)}]
        \/ pass' = [pass EXCEPT ![p].pc = "probe"]
    BY DEF ResolveSlot
  <2>3. CASE pass' = [pass EXCEPT ![p].todo = @ \ {First(pass[p].todo)}]
    <3>1. [pass[p] EXCEPT !.todo = @ \ {First(pass[p].todo)}] \in PassState
      BY DEF TypeOK, PassTypeOK, PassState
    <3>2. QED
      BY <2>1, <2>3, <3>1 DEF TypeOK, PassTypeOK
  <2>4. CASE pass' = [pass EXCEPT ![p].pc = "probe"]
    <3>1. [pass[p] EXCEPT !.pc = "probe"] \in PassState
      BY DEF TypeOK, PassTypeOK, PassState, PassPc
    <3>2. [pass[p] EXCEPT !.pc = "probe"].todo = pass[p].todo
      BY DEF TypeOK, PassTypeOK, PassState
    <3>3. QED
      BY <2>1, <2>4, <3>1, <3>2 DEF TypeOK, PassTypeOK
  <2>5. QED
    BY <2>2, <2>3, <2>4
<1>3. CallTypeOK' /\ OutsideTypeOK'
  BY DEF TypeOK, CallTypeOK, ResolveSlot, OutsideTypeOK, remote
<1>4. QED
  BY <1>1, <1>2, <1>3 DEF TypeOK

LEMMA HasSessionType ==
    ASSUME TypeOK, NEW p \in Pass, HasSession(p)
    PROVE  TypeOK'
<1>1. LocalTypeOK'
  <2>1. First(pass[p].todo) \in Slot
    <3>1. pass[p].todo \in SUBSET Slot /\ pass[p].todo # {}
      BY DEF TypeOK, PassTypeOK, PassState, HasSession
    <3>2. QED
      BY <3>1, FirstIsLeast
  <2>2. pendingRestores' \in Seq(Entry)
    BY <2>1, EnqueueType DEF TypeOK, LocalTypeOK, HasSession
  <2>3. QED
    BY <2>2 DEF TypeOK, LocalTypeOK, HasSession
<1>2. PassTypeOK'
  <2> DEFINE rec == [pass[p] EXCEPT !.pc = "decide", !.todo = @ \ {First(pass[p].todo)}]
  <2>1. rec \in PassState /\ rec.pc # "probe"
    BY DEF TypeOK, PassTypeOK, PassState, PassPc
  <2>2. pass' = [pass EXCEPT ![p] = rec]
    BY DEF HasSession
  <2> HIDE DEF rec
  <2>3. QED
    BY <2>1, <2>2, PassBecomes DEF TypeOK
<1>3. CallTypeOK' /\ OutsideTypeOK'
  BY DEF TypeOK, CallTypeOK, HasSession, OutsideTypeOK, remote
<1>4. QED
  BY <1>1, <1>2, <1>3 DEF TypeOK

LEMMA FinishPlanType ==
    ASSUME TypeOK, NEW p \in Pass, FinishPlan(p)
    PROVE  TypeOK'
<1>1. LocalTypeOK'
  BY SlotsType DEF TypeOK, LocalTypeOK, FinishPlan, Persist, Pass
<1>2. PassTypeOK'
  BY IdleTypes DEF TypeOK, PassTypeOK, FinishPlan, PassState, PassPc
<1>3. CallTypeOK' /\ OutsideTypeOK'
  BY DEF TypeOK, CallTypeOK, FinishPlan, OutsideTypeOK, remote
<1>4. QED
  BY <1>1, <1>2, <1>3 DEF TypeOK

LEMMA PlanSavedType ==
    ASSUME TypeOK, NEW p \in Pass, PlanSaved(p)
    PROVE  TypeOK'
<1>1. LocalTypeOK'
  BY ChainHeadTail DEF TypeOK, LocalTypeOK, PlanSaved, Write
<1>2. PassTypeOK'
  <2> DEFINE waits == \E i \in 1..Len(pendingRestores) : pendingRestores[i].revivable
  <2>1. waits \in BOOLEAN
    OBVIOUS
  <2> DEFINE rec == [pass[p] EXCEPT !.pc = IF p = 1 THEN "grace" ELSE "flush", !.revivable = waits]
  <2>2. pass' = [pass EXCEPT ![p] = rec]
    BY DEF PlanSaved
  <2> HIDE DEF waits
  <2>3. rec \in PassState /\ rec.pc # "probe"
    BY <2>1 DEF TypeOK, PassTypeOK, PassState, PassPc
  <2> HIDE DEF rec
  <2>4. QED
    BY <2>2, <2>3 DEF TypeOK, PassTypeOK
<1>3. OutsideTypeOK'
  BY DEF TypeOK, OutsideTypeOK, PlanSaved, LocalTypeOK, remote
<1>4. CallTypeOK'
  BY DEF TypeOK, CallTypeOK, PlanSaved
<1>5. QED
  BY <1>1, <1>2, <1>3, <1>4 DEF TypeOK

LEMMA PlanRejectedType ==
    ASSUME TypeOK, NEW p \in Pass, PlanRejected(p)
    PROVE  TypeOK'
<1>1. LocalTypeOK'
  BY ChainHeadTail DEF TypeOK, LocalTypeOK, PlanRejected, Write
<1>2. PassTypeOK'
  <2>1. "done" \in PassPc \ {"probe"} /\ pass' = [pass EXCEPT ![p].pc = "done"]
    BY DEF PlanRejected, PassPc
  <2>2. QED
    BY <2>1, PassGoesTo DEF TypeOK
<1>3. CallTypeOK' /\ OutsideTypeOK'
  BY DEF TypeOK, CallTypeOK, PlanRejected, OutsideTypeOK, remote
<1>4. QED
  BY <1>1, <1>2, <1>3 DEF TypeOK

LEMMA GraceOverType ==
    ASSUME TypeOK, NEW p \in Pass, GraceOver(p)
    PROVE  TypeOK'
<1>1. PassTypeOK'
  <2> DEFINE c == IF pass[p].revivable THEN "watch" ELSE "flush"
  <2>1. c \in PassPc \ {"probe"} /\ pass' = [pass EXCEPT ![p].pc = c]
    BY DEF GraceOver, PassPc
  <2> HIDE DEF c
  <2>2. QED
    BY <2>1, PassGoesTo DEF TypeOK
<1>2. LocalTypeOK' /\ CallTypeOK' /\ OutsideTypeOK'
  BY DEF TypeOK, LocalTypeOK, GraceOver, local, CallTypeOK, OutsideTypeOK, remote
<1>3. QED
  BY <1>1, <1>2 DEF TypeOK

LEMMA PollWindowType ==
    ASSUME TypeOK, NEW p \in Pass, PollWindow(p)
    PROVE  TypeOK'
<1>1. LocalTypeOK'
  BY DEF TypeOK, LocalTypeOK, PollWindow, OutsideTypeOK, AdoptRevivedTerminals, Unclaimed, Shown,
     TabState
<1>2. PassTypeOK'
  <2> DEFINE c == IF Outstanding(openSlots') = {} THEN "flush" ELSE "watch"
  <2>1. c \in PassPc \ {"probe"} /\ pass' = [pass EXCEPT ![p].pc = c]
    BY DEF PollWindow, PassPc
  <2> HIDE DEF c
  <2>2. QED
    BY <2>1, PassGoesTo DEF TypeOK
<1>3. CallTypeOK' /\ OutsideTypeOK'
  BY DEF TypeOK, CallTypeOK, PollWindow, OutsideTypeOK, remote
<1>4. QED
  BY <1>1, <1>2, <1>3 DEF TypeOK

LEMMA StopWaitingType ==
    ASSUME TypeOK, NEW p \in Pass, StopWaiting(p)
    PROVE  TypeOK'
<1>1. LocalTypeOK'
  BY DEF TypeOK, LocalTypeOK, StopWaiting, OutsideTypeOK, AdoptRevivedTerminals, Unclaimed,
     Shown, TabState
<1>2. PassTypeOK'
  <2>1. "flush" \in PassPc \ {"probe"} /\ pass' = [pass EXCEPT ![p].pc = "flush"]
    BY DEF StopWaiting, PassPc
  <2>2. QED
    BY <2>1, PassGoesTo DEF TypeOK
<1>3. CallTypeOK' /\ OutsideTypeOK'
  BY DEF TypeOK, CallTypeOK, StopWaiting, OutsideTypeOK, remote
<1>4. QED
  BY <1>1, <1>2, <1>3 DEF TypeOK

LEMMA TakeQueueType ==
    ASSUME TypeOK, NEW p \in Pass, TakeQueue(p)
    PROVE  TypeOK'
<1>1. LocalTypeOK'
  BY EmptySeq DEF TypeOK, LocalTypeOK, TakeQueue, OutsideTypeOK, AdoptRevivedTerminals,
     Unclaimed, Shown, TabState
<1>2. PassTypeOK'
  <2> DEFINE rec == [pass[p] EXCEPT !.pc = "drain", !.rest = pendingRestores]
  <2>1. rec \in PassState /\ rec.pc # "probe"
    BY DEF TypeOK, LocalTypeOK, PassTypeOK, PassState, PassPc
  <2>2. pass' = [pass EXCEPT ![p] = rec]
    BY DEF TakeQueue
  <2> HIDE DEF rec
  <2>3. QED
    BY <2>1, <2>2, PassBecomes DEF TypeOK
<1>3. CallTypeOK' /\ OutsideTypeOK'
  BY DEF TypeOK, CallTypeOK, TakeQueue, OutsideTypeOK, remote
<1>4. QED
  BY <1>1, <1>2, <1>3 DEF TypeOK

LEMMA ReopenType ==
    ASSUME TypeOK, NEW p \in Pass, Reopen(p)
    PROVE  TypeOK'
<1>1. LocalTypeOK'
  BY QueueHeadTail DEF TypeOK, LocalTypeOK, Reopen, PassTypeOK, PassState, Entry
<1>2. PassTypeOK'
  <2> DEFINE rec == [pass[p] EXCEPT !.rest = Tail(@)]
  <2>1. pass[p] \in PassState /\ pass[p].pc = "drain" /\ Tail(pass[p].rest) \in Seq(Entry)
    BY QueueHeadTail DEF TypeOK, PassTypeOK, Reopen, PassState
  <2>2. rec \in PassState /\ rec.pc # "probe"
    BY <2>1 DEF PassState
  <2>3. pass' = [pass EXCEPT ![p] = rec]
    BY DEF Reopen
  <2> HIDE DEF rec
  <2>4. QED
    BY <2>2, <2>3, PassBecomes DEF TypeOK
<1>3. OutsideTypeOK'
  <2>1. Head(pass[p].rest) \in Entry
    BY QueueHeadTail DEF TypeOK, PassTypeOK, PassState, Reopen
  <2>2. Head(pass[p].rest).slot \in Slot
    BY <2>1 DEF Entry
  <2>3. CASE UNCHANGED <<tab, remote>>
    BY <2>3 DEF TypeOK, OutsideTypeOK, Reopen, remote
  <2>4. CASE \E t \in FreeTabs : Launch(t, Head(pass[p].rest).slot, Head(pass[p].rest).takeOver)
    BY <2>2, <2>4, LaunchType DEF TypeOK, OutsideTypeOK, Reopen, FreeTabs
  <2>5. QED
    BY <2>3, <2>4 DEF Reopen
<1>4. CallTypeOK'
  BY DEF TypeOK, CallTypeOK, Reopen
<1>5. QED
  BY <1>1, <1>2, <1>3, <1>4 DEF TypeOK

LEMMA FinishDrainType ==
    ASSUME TypeOK, NEW p \in Pass, FinishDrain(p)
    PROVE  TypeOK'
<1>1. LocalTypeOK'
  BY ChainAppend, NobodyWaits DEF TypeOK, LocalTypeOK, FinishDrain, Persist
<1>2. PassTypeOK'
  BY IdleTypes DEF TypeOK, PassTypeOK, FinishDrain, PassState, PassPc
<1>3. CallTypeOK' /\ OutsideTypeOK'
  BY DEF TypeOK, CallTypeOK, FinishDrain, OutsideTypeOK, remote
<1>4. QED
  BY <1>1, <1>2, <1>3 DEF TypeOK

LEMMA BackgroundSavedType ==
    ASSUME TypeOK, BackgroundSaved
    PROVE  TypeOK'
<1>1. LocalTypeOK'
  BY ChainHeadTail DEF TypeOK, LocalTypeOK, BackgroundSaved, Write
<1>2. OutsideTypeOK'
  BY DEF TypeOK, OutsideTypeOK, BackgroundSaved, LocalTypeOK, remote
<1>3. PassTypeOK' /\ CallTypeOK'
  BY DEF TypeOK, PassTypeOK, BackgroundSaved, CallTypeOK
<1>4. QED
  BY <1>1, <1>2, <1>3 DEF TypeOK

------------------------------------------------------------------------------
(* Profile requests. *)

LEMMA AskProfileType ==
    ASSUME TypeOK, NEW r \in Requests, AskProfile(r)
    PROVE  TypeOK'
<1>1. CallTypeOK'
  <2>1. request[r] \in RequestState
    BY DEF TypeOK, CallTypeOK
  <2>2. [[request[r] EXCEPT !.pc = "gate"] EXCEPT !.gate = Planning] \in RequestState
    BY <2>1, PlanningType DEF RequestState, RequestPc
  <2>3. request' = [request EXCEPT ![r] = [[@ EXCEPT !.pc = "gate"] EXCEPT !.gate = Planning]]
    BY DEF AskProfile, TypeOK, CallTypeOK
  <2>4. QED
    BY <2>2, <2>3 DEF TypeOK, CallTypeOK, AskProfile
<1>2. LocalTypeOK' /\ PassTypeOK' /\ OutsideTypeOK'
  BY DEF TypeOK, LocalTypeOK, AskProfile, local, PassTypeOK, OutsideTypeOK, remote
<1>3. QED
  BY <1>1, <1>2 DEF TypeOK

LEMMA ClaimPendingType ==
    ASSUME TypeOK, NEW r \in Requests, ClaimPending(r)
    PROVE  TypeOK'
<1>1. LocalTypeOK'
  <2>1. Head(pendingRestores) \in Entry /\ Tail(pendingRestores) \in Seq(Entry)
    BY QueueHeadTail DEF TypeOK, LocalTypeOK, ClaimPending
  <2>2. Head(pendingRestores).slot \in Slot
    BY <2>1 DEF Entry
  <2>3. QED
    BY <2>1, <2>2, ChainAppend DEF TypeOK, LocalTypeOK, ClaimPending, Persist
<1>2. CallTypeOK'
  <2> DEFINE e == Head(pendingRestores)
             rec == [request[r] EXCEPT !.pc = "save", !.slot = e.slot, !.takeOver = e.takeOver]
  <2>1. e \in Entry
    BY QueueHeadTail DEF TypeOK, LocalTypeOK, ClaimPending
  <2> HIDE DEF e
  <2>2. e.slot \in Slot /\ e.takeOver \in BOOLEAN
    BY <2>1 DEF Entry
  <2>3. request[r] \in RequestState
    BY DEF TypeOK, CallTypeOK
  <2>4. rec \in RequestState
    BY <2>2, <2>3 DEF RequestState, RequestPc
  <2>5. request' = [request EXCEPT ![r] = rec] /\ UNCHANGED kills
    BY DEF ClaimPending, e
  <2> HIDE DEF rec
  <2>6. QED
    BY <2>4, <2>5, RequestBecomes DEF TypeOK
<1>3. PassTypeOK' /\ OutsideTypeOK'
  BY DEF TypeOK, PassTypeOK, ClaimPending, OutsideTypeOK, remote
<1>4. QED
  BY <1>1, <1>2, <1>3 DEF TypeOK

LEMMA StartNewType ==
    ASSUME TypeOK, NEW r \in Requests, StartNew(r)
    PROVE  TypeOK'
<1>1. CallTypeOK'
  <2> DEFINE rec == [request[r] EXCEPT !.pc = "probe1"]
  <2>1. request[r] \in RequestState
    BY DEF TypeOK, CallTypeOK
  <2>2. rec \in RequestState
    BY <2>1 DEF RequestState, RequestPc
  <2>3. request' = [request EXCEPT ![r] = rec] /\ UNCHANGED kills
    BY DEF StartNew
  <2> HIDE DEF rec
  <2>4. QED
    BY <2>2, <2>3, RequestBecomes DEF TypeOK
<1>2. LocalTypeOK' /\ PassTypeOK' /\ OutsideTypeOK'
  BY DEF TypeOK, LocalTypeOK, StartNew, local, PassTypeOK, OutsideTypeOK, remote
<1>3. QED
  BY <1>1, <1>2 DEF TypeOK

LEMMA ChooseSlotType ==
    ASSUME TypeOK, NEW r \in Requests, ChooseSlot(r)
    PROVE  TypeOK'
<1>1. LocalTypeOK'
  <2> DEFINE free == Free(openSlots, attachedRemoteSlots')
  <2>1. attachedRemoteSlots' \subseteq Slot
    BY DEF TypeOK, LocalTypeOK, OutsideTypeOK, ChooseSlot, RefreshRemote
  <2>2. openSlots' \subseteq Slot
    <3>1. free \in SUBSET Slot /\ free # {} /\ openSlots' = openSlots \cup {First(free)}
      BY DEF ChooseSlot, Free
    <3> HIDE DEF free
    <3>2. First(free) \in Slot
      BY <3>1, FirstIsLeast
    <3>3. QED
      BY <3>1, <3>2 DEF TypeOK, LocalTypeOK
  <2>3. QED
    BY <2>1, <2>2 DEF TypeOK, LocalTypeOK, ChooseSlot
<1>2. CallTypeOK'
  <2> DEFINE slot == First(Free(openSlots, attachedRemoteSlots'))
             rec == [request[r] EXCEPT !.pc = "probe2", !.slot = slot]
  <2>1. slot \in Slot
    BY FreeType DEF ChooseSlot
  <2>2. request' = [request EXCEPT ![r] = rec] /\ UNCHANGED kills
    BY DEF ChooseSlot
  <2> HIDE DEF slot
  <2>3. rec \in RequestState
    <3>1. request[r] \in RequestState
      BY DEF TypeOK, CallTypeOK
    <3>2. QED
      BY <2>1, <3>1 DEF RequestState, RequestPc
  <2> HIDE DEF rec
  <2>4. QED
    BY <2>2, <2>3, RequestBecomes DEF TypeOK
<1>3. PassTypeOK' /\ OutsideTypeOK'
  BY DEF TypeOK, PassTypeOK, ChooseSlot, OutsideTypeOK, remote
<1>4. QED
  BY <1>1, <1>2, <1>3 DEF TypeOK

LEMMA ConfirmSlotType ==
    ASSUME TypeOK, NEW r \in Requests, ConfirmSlot(r)
    PROVE  TypeOK'
<1>1. LocalTypeOK'
  <2> DEFINE old == request[r].slot
             slot == IF old \in attachedRemoteSlots'
                       THEN First(Free(openSlots \ {old}, attachedRemoteSlots')) ELSE old
  <2>1. slot \in Slot
    BY FreeType DEF TypeOK, CallTypeOK, RequestState, ConfirmSlot
  <2>2. openSlots' = Reassign(old, slot) /\ mapping' = mapping \cup {slot}
    BY DEF ConfirmSlot
  <2>3. attachedRemoteSlots' \subseteq Slot
    BY DEF TypeOK, LocalTypeOK, OutsideTypeOK, ConfirmSlot, RefreshRemote
  <2> HIDE DEF slot
  <2>4. QED
    BY <2>1, <2>2, <2>3, ChainAppend DEF TypeOK, LocalTypeOK, ConfirmSlot, Reassign, Persist
<1>2. CallTypeOK'
  <2> DEFINE old == request[r].slot
             slot == IF old \in attachedRemoteSlots'
                       THEN First(Free(openSlots \ {old}, attachedRemoteSlots')) ELSE old
  <2>1. slot \in Slot
    BY FreeType DEF TypeOK, CallTypeOK, RequestState, ConfirmSlot
  <2>2. request' = [request EXCEPT ![r] = [@ EXCEPT !.pc = "save", !.slot = slot]]
    BY DEF ConfirmSlot
  <2> HIDE DEF slot
  <2>3. [request[r] EXCEPT !.pc = "save", !.slot = slot] \in RequestState
    <3>1. request[r] \in RequestState
      BY DEF TypeOK, CallTypeOK
    <3>2. QED
      BY <2>1, <3>1 DEF RequestState, RequestPc
  <2>4. QED
    BY <2>2, <2>3 DEF TypeOK, CallTypeOK, ConfirmSlot
<1>3. PassTypeOK' /\ OutsideTypeOK'
  BY DEF TypeOK, PassTypeOK, ConfirmSlot, OutsideTypeOK, remote
<1>4. QED
  BY <1>1, <1>2, <1>3 DEF TypeOK

LEMMA ProfileSavedType ==
    ASSUME TypeOK, NEW r \in Requests, ProfileSaved(r)
    PROVE  TypeOK'
<1>1. LocalTypeOK'
  BY ChainHeadTail DEF TypeOK, LocalTypeOK, ProfileSaved, Write
<1>2. CallTypeOK'
  BY DEF TypeOK, CallTypeOK, ProfileSaved, RequestState, RequestPc
<1>3. OutsideTypeOK'
  BY DEF TypeOK, OutsideTypeOK, ProfileSaved, LocalTypeOK, remote
<1>4. PassTypeOK'
  BY DEF TypeOK, PassTypeOK, ProfileSaved
<1>5. QED
  BY <1>1, <1>2, <1>3, <1>4 DEF TypeOK

LEMMA ProfileRejectedType ==
    ASSUME TypeOK, NEW r \in Requests, ProfileRejected(r)
    PROVE  TypeOK'
<1>1. LocalTypeOK'
  BY ChainHeadTail DEF TypeOK, LocalTypeOK, ProfileRejected, Write
<1>2. CallTypeOK'
  BY DEF TypeOK, CallTypeOK, ProfileRejected, RequestState, RequestPc
<1>3. PassTypeOK' /\ OutsideTypeOK'
  BY DEF TypeOK, PassTypeOK, ProfileRejected, OutsideTypeOK, remote
<1>4. QED
  BY <1>1, <1>2, <1>3 DEF TypeOK

LEMMA SpawnTabType ==
    ASSUME TypeOK, NEW r \in Requests, SpawnTab(r)
    PROVE  TypeOK'
<1>1. CallTypeOK'
  <2>1. [IdleRequest EXCEPT !.pc = "done"] \in RequestState
    BY IdleTypes DEF RequestState, RequestPc
  <2>2. QED
    BY <2>1 DEF TypeOK, CallTypeOK, SpawnTab
<1>2. OutsideTypeOK'
  <2>1. request[r].slot \in Slot
    BY DEF TypeOK, CallTypeOK, RequestState
  <2>2. QED
    BY <2>1, LaunchType DEF TypeOK, OutsideTypeOK, SpawnTab, FreeTabs
<1>3. LocalTypeOK' /\ PassTypeOK'
  BY DEF TypeOK, LocalTypeOK, SpawnTab, local, PassTypeOK
<1>4. QED
  BY <1>1, <1>2, <1>3 DEF TypeOK

------------------------------------------------------------------------------
(* The window and the remote. *)

LEMMA ReconnectPtyType ==
    ASSUME TypeOK, NEW s \in Slot, ReconnectPty(s)
    PROVE  TypeOK'
<1>1. OutsideTypeOK'
  <2>1. [st |-> "born", slot |-> s, ending |-> "no"] \in TabState
    BY DEF TabState, Ending
  <2>2. QED
    BY <2>1 DEF TypeOK, OutsideTypeOK, ReconnectPty, FreeTabs
<1>2. LocalTypeOK' /\ PassTypeOK' /\ CallTypeOK'
  BY DEF TypeOK, LocalTypeOK, ReconnectPty, local, PassTypeOK, CallTypeOK
<1>3. QED
  BY <1>1, <1>2 DEF TypeOK

LEMMA TabOpenedType ==
    ASSUME TypeOK, NEW t \in Tabs, TabOpened(t)
    PROVE  TypeOK'
<1>1. LocalTypeOK'
  BY DEF TypeOK, LocalTypeOK, TabOpened, OutsideTypeOK, TabState
<1>2. OutsideTypeOK'
  BY DEF TypeOK, OutsideTypeOK, TabOpened, TabState, Ending, remote
<1>3. PassTypeOK' /\ CallTypeOK'
  BY DEF TypeOK, PassTypeOK, TabOpened, CallTypeOK
<1>4. QED
  BY <1>1, <1>2, <1>3 DEF TypeOK

LEMMA UserClosesType ==
    ASSUME TypeOK, NEW t \in Tabs, UserCloses(t)
    PROVE  TypeOK'
<1>1. OutsideTypeOK'
  BY DEF TypeOK, OutsideTypeOK, UserCloses, TabState, Ending, remote
<1>2. LocalTypeOK' /\ PassTypeOK' /\ CallTypeOK'
  BY DEF TypeOK, LocalTypeOK, UserCloses, local, PassTypeOK, CallTypeOK
<1>3. QED
  BY <1>1, <1>2 DEF TypeOK

LEMMA TabClosedType ==
    ASSUME TypeOK, NEW t \in Tabs, TabClosed(t)
    PROVE  TypeOK'
<1>1. LocalTypeOK'
  <2>1. tab[t].slot \in Slot
    BY DEF TypeOK, OutsideTypeOK, TabState
  <2>2. persistChain' \in Seq(Requests \cup (0..MaxPass))
    BY ChainAppend, NobodyWaits DEF TypeOK, LocalTypeOK, TabClosed, Persist
  <2>3. killingSlots' \subseteq Slot
    BY <2>1 DEF TypeOK, LocalTypeOK, TabClosed
  <2>4. mapping' \subseteq Slot /\ openSlots' \subseteq Slot
    BY DEF TypeOK, LocalTypeOK, TabClosed
  <2>5. QED
    BY <2>2, <2>3, <2>4 DEF TypeOK, LocalTypeOK, TabClosed
<1>2. CallTypeOK'
  BY DEF TypeOK, CallTypeOK, TabClosed, OutsideTypeOK, TabState
<1>3. OutsideTypeOK'
  <2>1. [NoTab EXCEPT !.st = "gone"] \in TabState
    BY IdleTypes DEF TabState
  <2>2. QED
    BY <2>1 DEF TypeOK, OutsideTypeOK, TabClosed, remote
<1>4. PassTypeOK'
  BY DEF TypeOK, PassTypeOK, TabClosed
<1>5. QED
  BY <1>1, <1>2, <1>3, <1>4 DEF TypeOK

LEMMA KillSettlesType ==
    ASSUME TypeOK, NEW s \in Slot, KillSettles(s)
    PROVE  TypeOK'
<1>1. LocalTypeOK'
  BY DEF TypeOK, LocalTypeOK, KillSettles
<1>2. CallTypeOK'
  BY DEF TypeOK, CallTypeOK, KillSettles
<1>3. OutsideTypeOK'
  BY DEF TypeOK, OutsideTypeOK, KillSettles, Exits, TabState, Ending
<1>4. PassTypeOK'
  BY DEF TypeOK, PassTypeOK, KillSettles
<1>5. QED
  BY <1>1, <1>2, <1>3, <1>4 DEF TypeOK

LEMMA ProcessExitsType ==
    ASSUME TypeOK, NEW s \in Slot, ProcessExits(s)
    PROVE  TypeOK'
<1>1. OutsideTypeOK'
  BY DEF TypeOK, OutsideTypeOK, ProcessExits, Exits, TabState, Ending
<1>2. LocalTypeOK' /\ PassTypeOK' /\ CallTypeOK'
  BY DEF TypeOK, LocalTypeOK, ProcessExits, local, PassTypeOK, CallTypeOK
<1>3. QED
  BY <1>1, <1>2 DEF TypeOK

LEMMA ForeignAttachesType ==
    ASSUME TypeOK, NEW s \in Slot, ForeignAttaches(s)
    PROVE  TypeOK'
<1>1. OutsideTypeOK'
  BY DEF TypeOK, OutsideTypeOK, ForeignAttaches, Exits, TabState, Ending
<1>2. LocalTypeOK' /\ PassTypeOK' /\ CallTypeOK'
  BY DEF TypeOK, LocalTypeOK, ForeignAttaches, local, PassTypeOK, CallTypeOK
<1>3. QED
  BY <1>1, <1>2 DEF TypeOK

LEMMA ForeignDetachesType ==
    ASSUME TypeOK, NEW s \in Slot, ForeignDetaches(s)
    PROVE  TypeOK'
<1>1. OutsideTypeOK'
  BY DEF TypeOK, OutsideTypeOK, ForeignDetaches
<1>2. LocalTypeOK' /\ PassTypeOK' /\ CallTypeOK'
  BY DEF TypeOK, LocalTypeOK, ForeignDetaches, local, PassTypeOK, CallTypeOK
<1>3. QED
  BY <1>1, <1>2 DEF TypeOK

------------------------------------------------------------------------------

\* Every reachable state has the shape TypeOK gives it: no slot, entry, waiter,
\* call or tab is ever malformed, and a run that awaits has-session has a slot
\* left to resolve.
THEOREM TypeCorrect == Spec => []TypeOK
<1>1. Init => TypeOK
  <2> SUFFICES ASSUME Init PROVE TypeOK
    OBVIOUS
  <2>1. LocalTypeOK
    BY EmptySeq DEF Init, LocalTypeOK, ConstantsAssumption
  <2>2. PassTypeOK
    BY IdleTypes DEF Init, PassTypeOK, IdlePass
  <2>3. CallTypeOK
    BY IdleTypes DEF Init, CallTypeOK
  <2>4. OutsideTypeOK
    BY IdleTypes DEF Init, OutsideTypeOK, ConstantsAssumption
  <2>5. QED
    BY <2>1, <2>2, <2>3, <2>4 DEF TypeOK
<1>2. TypeOK /\ [Next]_vars => TypeOK'
  <2> SUFFICES ASSUME TypeOK, [Next]_vars PROVE TypeOK'
    OBVIOUS
  <2>1. ASSUME NEW p \in Pass,
                Initialize(p) \/ ListSessions(p) \/ ResolveSlot(p) \/ HasSession(p) \/
                FinishPlan(p) \/ PlanSaved(p) \/ PlanRejected(p) \/ GraceOver(p) \/
                PollWindow(p) \/ StopWaiting(p) \/ TakeQueue(p) \/ Reopen(p) \/ FinishDrain(p)
         PROVE  TypeOK'
    BY <2>1, InitializeType, ListSessionsType, ResolveSlotType, HasSessionType, FinishPlanType,
       PlanSavedType, PlanRejectedType, GraceOverType, PollWindowType, StopWaitingType,
       TakeQueueType, ReopenType, FinishDrainType
  <2>2. ASSUME NEW r \in Requests,
                AskProfile(r) \/ ClaimPending(r) \/ StartNew(r) \/ ChooseSlot(r) \/
                ConfirmSlot(r) \/ ProfileSaved(r) \/ ProfileRejected(r) \/ SpawnTab(r)
         PROVE  TypeOK'
    BY <2>2, AskProfileType, ClaimPendingType, StartNewType, ChooseSlotType, ConfirmSlotType,
       ProfileSavedType, ProfileRejectedType, SpawnTabType
  <2>3. ASSUME NEW t \in Tabs,
                TabOpened(t) \/ UserCloses(t) \/ TabClosed(t)
         PROVE  TypeOK'
    BY <2>3, TabOpenedType, UserClosesType, TabClosedType
  <2>4. ASSUME NEW s \in Slot,
                ReconnectPty(s) \/ KillSettles(s) \/ ProcessExits(s) \/ ForeignAttaches(s) \/
                ForeignDetaches(s)
         PROVE  TypeOK'
    BY <2>4, ReconnectPtyType, KillSettlesType, ProcessExitsType, ForeignAttachesType,
       ForeignDetachesType
  <2>5. CASE BackgroundSaved
    BY <2>5, BackgroundSavedType
  <2>6. CASE UNCHANGED vars
    BY <2>6 DEF TypeOK, LocalTypeOK, PassTypeOK, CallTypeOK, OutsideTypeOK, vars, local, remote
  <2>7. QED
    BY <2>1, <2>2, <2>3, <2>4, <2>5, <2>6 DEF Next, Provider, Answer
<1>3. QED
  BY <1>1, <1>2, PTL DEF Spec

------------------------------------------------------------------------------

(* What initialize() reserves and queues, for any number of overlapping runs. *)

Ended(p) == pass[p].pc \in {"idle", "done"}
Filling(p) == pass[p].pc \in {"decide", "probe", "save", "grace", "watch", "flush"}

\* While anything is reserved some run, or none yet, still has to end; while
\* anything is queued some run still has to take the queue.
Reserving ==
    /\ Started(1) /\ (\A p \in Pass : Ended(p)) => reservedSlots = {}
    /\ "write" \notin Faults => pendingRestores = <<>> \/ \E p \in Pass : Filling(p)

LEMMA OneIsAPass == 1 \in Pass
BY ConstantsAssumption DEF Pass, ConstantsAssumption

\* A run that moves on without ending: it still has the queue to take, or takes
\* it now, or (the drain) has taken it and leaves what is queued since alone.
LEMMA ReservingGoesOn ==
    ASSUME TypeOK, Reserving, NEW p \in Pass, NEW rec \in PassState,
           pass' = [pass EXCEPT ![p] = rec],
           rec.pc \notin {"idle", "done"},
           \/ rec.pc \in {"decide", "probe", "save", "grace", "watch", "flush"}
           \/ pendingRestores' = <<>>
           \/ pass[p].pc = "drain" /\ pendingRestores' = pendingRestores
    PROVE  Reserving'
<1>1. pass'[p] = rec /\ \A q \in Pass : q # p => pass'[q] = pass[q]
  BY DEF TypeOK, PassTypeOK
<1>2. ~ Ended(p)'
  BY <1>1 DEF Ended
<1>3. "write" \notin Faults => pendingRestores' = <<>> \/ \E q \in Pass : Filling(q)'
  BY <1>1 DEF Reserving, Filling
<1>4. QED
  BY <1>2, <1>3 DEF Reserving

\* A run that ends releases what is reserved.
LEMMA ReservingEnds ==
    ASSUME TypeOK, Reserving, NEW p \in Pass, NEW rec \in PassState,
           pass' = [pass EXCEPT ![p] = rec], reservedSlots' = {}, UNCHANGED pendingRestores,
           pass[p].pc = "drain" \/ "write" \in Faults
    PROVE  Reserving'
<1>1. \A q \in Pass : q # p => pass'[q] = pass[q]
  BY DEF TypeOK, PassTypeOK
<1>2. \A q \in Pass : "write" \notin Faults /\ Filling(q) => Filling(q)'
  BY <1>1 DEF Filling
<1>3. QED
  BY <1>2 DEF Reserving

\* Every other step leaves the runs alone and reserves and queues no more.
LEMMA ReservingStays ==
    ASSUME Reserving, UNCHANGED pass, reservedSlots' \subseteq reservedSlots,
           pendingRestores = <<>> => pendingRestores' = <<>>
    PROVE  Reserving'
BY DEF Reserving, Started, Ended, Filling

LEMMA ReservingInv == Spec => []Reserving
<1>1. Init => Reserving
  BY OneIsAPass DEF Init, Reserving, Started, IdlePass
<1>2. TypeOK /\ Reserving /\ [Next]_vars => Reserving'
  <2> SUFFICES ASSUME TypeOK, Reserving, [Next]_vars PROVE Reserving'
    OBVIOUS
  <2> DEFINE to(p, c) == [pass[p] EXCEPT !.pc = c]
  <2>0. \A p \in Pass, c \in PassPc : to(p, c) \in PassState /\ to(p, c).pc = c
    BY DEF TypeOK, PassTypeOK, PassState
  <2>1. ASSUME NEW p \in Pass, Initialize(p) PROVE Reserving'
    <3>1. pass' = [pass EXCEPT ![p] = to(p, "list")]
      BY <2>1 DEF Initialize
    <3> HIDE DEF to
    <3>2. QED
      BY <2>0, <2>1, <3>1, ReservingGoesOn DEF Initialize, PassPc
  <2>2. ASSUME NEW p \in Pass, ListSessions(p) PROVE Reserving'
    <3>1. PICK rec \in PassState : pass' = [pass EXCEPT ![p] = rec] /\ rec.pc = "decide"
      <4>1. pass'[p] \in PassState /\ pass' = [pass EXCEPT ![p] = pass'[p]]
        BY <2>2, ListSessionsType DEF TypeOK, PassTypeOK, ListSessions
      <4>2. pass'[p].pc = "decide"
        <5> DEFINE now == [s \in Slot |-> Seen(s)]
        <5>1. \/ pass'[p] = [pass[p] EXCEPT !.pc = "decide", !.todo = mapping \cup session, !.seen = now]
              \/ pass'[p] = [pass[p] EXCEPT !.pc = "decide", !.todo = mapping]
          BY <2>2 DEF ListSessions, TypeOK, PassTypeOK
        <5> HIDE DEF now
        <5>2. QED
          BY <5>1 DEF TypeOK, PassTypeOK, PassState
      <4>3. QED
        BY <4>1, <4>2
    <3>2. QED
      BY <3>1, ReservingGoesOn
  <2>3. ASSUME NEW p \in Pass, ResolveSlot(p) PROVE Reserving'
    <3>1. pass'[p] \in PassState /\ pass' = [pass EXCEPT ![p] = pass'[p]]
      BY <2>3, ResolveSlotType DEF TypeOK, PassTypeOK, ResolveSlot
    <3>2. pass'[p].pc \in {"decide", "probe"}
      <4>1. pass[p] \in PassState /\ pass[p].pc = "decide"
        BY <2>3 DEF ResolveSlot, TypeOK, PassTypeOK
      <4>2. \/ pass' = [pass EXCEPT ![p].todo = @ \ {First(pass[p].todo)}]
            \/ pass' = [pass EXCEPT ![p].pc = "probe"]
        BY <2>3 DEF ResolveSlot
      <4>3. QED
        BY <4>1, <4>2 DEF TypeOK, PassTypeOK, PassState
    <3>3. QED
      BY <3>1, <3>2, ReservingGoesOn
  <2>4. ASSUME NEW p \in Pass, HasSession(p) PROVE Reserving'
    <3>1. pass'[p] \in PassState /\ pass' = [pass EXCEPT ![p] = pass'[p]]
      BY <2>4, HasSessionType DEF TypeOK, PassTypeOK, HasSession
    <3>2. pass'[p].pc = "decide"
      BY <2>4 DEF HasSession, TypeOK, PassTypeOK, PassState
    <3>3. QED
      BY <3>1, <3>2, ReservingGoesOn
  <2>5. ASSUME NEW p \in Pass, FinishPlan(p) PROVE Reserving'
    <3>1. pass'[p] \in PassState /\ pass' = [pass EXCEPT ![p] = pass'[p]]
      BY <2>5, FinishPlanType DEF TypeOK, PassTypeOK, FinishPlan
    <3>2. pass'[p].pc = "save"
      BY <2>5 DEF FinishPlan, TypeOK, PassTypeOK, IdlePass
    <3>3. QED
      BY <3>1, <3>2, ReservingGoesOn
  <2>6. ASSUME NEW p \in Pass, PlanSaved(p) PROVE Reserving'
    <3>1. pass'[p] \in PassState /\ pass' = [pass EXCEPT ![p] = pass'[p]]
      BY <2>6, PlanSavedType DEF TypeOK, PassTypeOK, PlanSaved
    <3>2. pass'[p].pc \in {"grace", "flush"}
      <4> DEFINE waits == \E i \in 1..Len(pendingRestores) : pendingRestores[i].revivable
      <4>1. pass'[p] = [pass[p] EXCEPT !.pc = IF p = 1 THEN "grace" ELSE "flush", !.revivable = waits]
        BY <2>6 DEF PlanSaved, TypeOK, PassTypeOK
      <4> HIDE DEF waits
      <4>2. QED
        BY <4>1 DEF TypeOK, PassTypeOK, PassState
    <3>3. QED
      BY <3>1, <3>2, ReservingGoesOn
  <2>7. ASSUME NEW p \in Pass, PlanRejected(p) PROVE Reserving'
    <3>1. pass' = [pass EXCEPT ![p] = to(p, "done")]
      BY <2>7 DEF PlanRejected
    <3> HIDE DEF to
    <3>2. QED
      BY <2>0, <2>7, <3>1, ReservingEnds DEF PlanRejected, PassPc
  <2>8. ASSUME NEW p \in Pass, GraceOver(p) PROVE Reserving'
    <3>1. pass' = [pass EXCEPT ![p] = to(p, "watch")] \/ pass' = [pass EXCEPT ![p] = to(p, "flush")]
      BY <2>8 DEF GraceOver
    <3> HIDE DEF to
    <3>2. QED
      BY <2>0, <3>1, ReservingGoesOn DEF PassPc
  <2>9. ASSUME NEW p \in Pass, PollWindow(p) PROVE Reserving'
    <3>1. pass' = [pass EXCEPT ![p] = to(p, "watch")] \/ pass' = [pass EXCEPT ![p] = to(p, "flush")]
      BY <2>9 DEF PollWindow
    <3> HIDE DEF to
    <3>2. QED
      BY <2>0, <3>1, ReservingGoesOn DEF PassPc
  <2>10. ASSUME NEW p \in Pass, StopWaiting(p) PROVE Reserving'
    <3>1. pass' = [pass EXCEPT ![p] = to(p, "flush")]
      BY <2>10 DEF StopWaiting
    <3> HIDE DEF to
    <3>2. QED
      BY <2>0, <3>1, ReservingGoesOn DEF PassPc
  <2>11. ASSUME NEW p \in Pass, TakeQueue(p) PROVE Reserving'
    <3>1. pass'[p] \in PassState /\ pass' = [pass EXCEPT ![p] = pass'[p]]
      BY <2>11, TakeQueueType DEF TypeOK, PassTypeOK, TakeQueue
    <3>2. pass'[p].pc = "drain" /\ pendingRestores' = <<>>
      BY <2>11 DEF TakeQueue, TypeOK, PassTypeOK, PassState
    <3>3. QED
      BY <3>1, <3>2, ReservingGoesOn
  <2>12. ASSUME NEW p \in Pass, Reopen(p) PROVE Reserving'
    <3>1. pass'[p] \in PassState /\ pass' = [pass EXCEPT ![p] = pass'[p]]
      BY <2>12, ReopenType DEF TypeOK, PassTypeOK, Reopen
    <3>2. pass'[p].pc = "drain" /\ pass[p].pc = "drain" /\ UNCHANGED pendingRestores
      BY <2>12 DEF Reopen, TypeOK, PassTypeOK, PassState
    <3>3. QED
      BY <3>1, <3>2, ReservingGoesOn
  <2>13. ASSUME NEW p \in Pass, FinishDrain(p) PROVE Reserving'
    <3>1. pass'[p] \in PassState /\ pass' = [pass EXCEPT ![p] = pass'[p]]
      BY <2>13, FinishDrainType DEF TypeOK, PassTypeOK, FinishDrain
    <3>2. QED
      BY <2>13, <3>1, ReservingEnds DEF FinishDrain
  <2>14. ASSUME NEW r \in Requests, AskProfile(r) \/ Answer(r) \/ SpawnTab(r) PROVE Reserving'
    <3>1. UNCHANGED pass /\ reservedSlots' \subseteq reservedSlots
      BY <2>14 DEF AskProfile, Answer, ClaimPending, StartNew, ChooseSlot, ConfirmSlot,
         ProfileSaved, ProfileRejected, SpawnTab, local
    <3>2. pendingRestores = <<>> => pendingRestores' = <<>>
      BY <2>14 DEF AskProfile, Answer, ClaimPending, StartNew, ChooseSlot, ConfirmSlot,
         ProfileSaved, ProfileRejected, SpawnTab, local
    <3>3. QED
      BY <3>1, <3>2, ReservingStays
  <2>15. ASSUME NEW t \in Tabs, TabOpened(t) \/ UserCloses(t) \/ TabClosed(t) PROVE Reserving'
    <3>1. UNCHANGED <<pass, reservedSlots, pendingRestores>>
      BY <2>15 DEF TabOpened, UserCloses, TabClosed, local
    <3>2. QED
      BY <3>1, ReservingStays
  <2>16. ASSUME NEW s \in Slot,
                \/ ReconnectPty(s) \/ KillSettles(s) \/ ProcessExits(s)
                \/ ForeignAttaches(s) \/ ForeignDetaches(s)
         PROVE  Reserving'
    <3>1. UNCHANGED <<pass, reservedSlots, pendingRestores>>
      BY <2>16 DEF ReconnectPty, KillSettles, ProcessExits, ForeignAttaches, ForeignDetaches, local
    <3>2. QED
      BY <3>1, ReservingStays
  <2>17. CASE BackgroundSaved
    BY <2>17, ReservingStays DEF BackgroundSaved
  <2>18. CASE UNCHANGED vars
    BY <2>18, ReservingStays DEF vars, local
  <2> HIDE DEF to
  <2>19. QED
    BY <2>1, <2>2, <2>3, <2>4, <2>5, <2>6, <2>7, <2>8, <2>9, <2>10, <2>11, <2>12, <2>13, <2>14,
       <2>15, <2>16, <2>17, <2>18 DEF Next, Provider
<1>3. QED
  BY <1>1, <1>2, TypeCorrect, PTL DEF Spec

\* When every run of initialize() has ended nothing is left reserved, and (no
\* write being refused) nothing is left queued, however the runs of reconnects
\* overlap: provideTerminalProfile never mistakes a leftover for the session
\* VS Code is reviving (terminalProvider.ts:316-320).
THEOREM ReservationsHold == Spec => []ReservationsReleased
<1>1. Reserving => ReservationsReleased
  BY DEF Reserving, ReservationsReleased, Ended, Filling
<1>2. QED
  BY <1>1, ReservingInv, PTL

------------------------------------------------------------------------------
(* The inductive invariant of a window wired once. *)

\* A request whose write was refused keeps its slot from everybody.
Holds(r) == request[r].pc \in {"probe2", "save", "granted", "failed"}

\* Whoever uses a slot has it in openSlots, and uses it alone.
ClaimsApart ==
    /\ \A r \in Requests : Holds(r) => request[r].slot \in openSlots
    /\ \A t \in Shown : tab[t].slot \in openSlots
    /\ \A q, r \in Requests : Holds(q) /\ Holds(r) /\ request[q].slot = request[r].slot => q = r
    /\ \A t, u \in Shown : tab[t].slot = tab[u].slot => t = u
    /\ \A r \in Requests, t \in Shown : Holds(r) => request[r].slot # tab[t].slot

\* Queued slots are distinct, and neither in use nor being killed.
Apart(queue) ==
    /\ \A i \in 1..Len(queue) : queue[i].slot \notin openSlots /\ kills[queue[i].slot] = 0
    /\ \A i, j \in 1..Len(queue) : queue[i].slot = queue[j].slot => i = j

\* The queue is apart from what is open, from what is left to resolve and from
\* what the drain holds, and a request that looks for a new slot saw it empty.
QueueApart ==
    /\ Apart(pendingRestores)
    /\ pass[1].pc = "list" => pendingRestores = <<>>
    /\ pass[1].pc \in {"decide", "probe"} => Slots(pendingRestores) \cap pass[1].todo = {}
    /\ pass[1].pc = "drain" => Apart(pass[1].rest) /\ pendingRestores = <<>>
    /\ \A r \in Requests : request[r].pc \in {"probe1", "probe2"} => pendingRestores = <<>>

\* Until the plan has settled the gate lets no request through, so nothing is
\* open and nothing is being killed.
GateShut ==
    /\ pass[1].pc \in {"idle", "list", "decide", "probe", "save"}
         => /\ openSlots = {}
            /\ \A r \in Requests : request[r].pc \in {"idle", "gate"}
            /\ Shown = {}
            /\ \A s \in Slot : kills[s] = 0
    /\ \A r \in Requests : request[r].pc = "gate" => request[r].gate = 1
    /\ parked = {}

\* A slot has at most one kill in flight, is held for it, and is not in use.
KillsApart ==
    \A s \in Slot : kills[s] > 0 => kills[s] = 1 /\ s \in killingSlots /\ s \notin openSlots

OneWindow == ClaimsApart /\ QueueApart /\ GateShut /\ KillsApart

\* A step that shows no new tab, takes none away and moves none to another slot.
Steady ==
    \A t \in Tabs : /\ tab'[t].slot = tab[t].slot
                    /\ tab'[t].st \in {"born", "open"} <=> tab[t].st \in {"born", "open"}

LEMMA SteadyShown == Steady => Shown' = Shown
BY DEF Steady, Shown

LEMMA ExitsSteady ==
    ASSUME OutsideTypeOK, NEW S
    PROVE  \A t \in Tabs : Exits(S)[t].slot = tab[t].slot /\ Exits(S)[t].st = tab[t].st
BY DEF OutsideTypeOK, Exits, TabState

\* What ends a client, or happens to another machine's, disturbs no claim.
LEMMA Quiet ==
    ASSUME OneWindow, Steady,
           UNCHANGED <<openSlots, killingSlots, pendingRestores, pass, request, kills, parked>>
    PROVE  OneWindow'
<1>1. Shown' = Shown
  BY SteadyShown
<1>2. ClaimsApart'
  BY <1>1 DEF OneWindow, ClaimsApart, Holds, Steady, Shown
<1>3. QueueApart'
  BY DEF OneWindow, QueueApart, Apart, Slots
<1>4. GateShut'
  BY <1>1 DEF OneWindow, GateShut
<1>5. KillsApart'
  BY DEF OneWindow, KillsApart
<1>6. QED
  BY <1>2, <1>3, <1>4, <1>5 DEF OneWindow

\* With every tab's slot in openSlots there is nothing to adopt.
LEMMA NothingToAdopt ==
    ASSUME ClaimsApart, AdoptRevivedTerminals
    PROVE  UNCHANGED <<openSlots, mapping, terminalSlots>>
<1>1. Unclaimed = {}
  BY DEF ClaimsApart, Unclaimed
<1>2. QED
  BY <1>1 DEF AdoptRevivedTerminals

\* The queue without its head, and with a new slot at its end.
LEMMA ApartTail ==
    ASSUME NEW q \in Seq(Entry), q # <<>>, Apart(q)
    PROVE  /\ Apart(Tail(q))
           /\ Head(q).slot \notin openSlots /\ kills[Head(q).slot] = 0
           /\ \A i \in 1..Len(Tail(q)) : Tail(q)[i].slot # Head(q).slot
<1>1. Len(Tail(q)) = Len(q) - 1 /\ Len(q) \in Nat \ {0} /\ Head(q) = q[1]
  OBVIOUS
<1>2. \A i \in 1..Len(Tail(q)) : Tail(q)[i] = q[i + 1] /\ i + 1 \in 1..Len(q) /\ i + 1 # 1
  BY <1>1
<1>3. QED
  BY <1>1, <1>2 DEF Apart

LEMMA ApartAppend ==
    ASSUME NEW q \in Seq(Entry), Apart(q), NEW e \in Entry,
           e.slot \notin openSlots, kills[e.slot] = 0, e.slot \notin Slots(q)
    PROVE  Apart(Append(q, e)) /\ Slots(Append(q, e)) = Slots(q) \cup {e.slot}
<1>1. /\ Len(Append(q, e)) = Len(q) + 1 /\ Len(q) \in Nat
      /\ Append(q, e)[Len(q) + 1] = e
      /\ \A i \in 1..Len(q) : Append(q, e)[i] = q[i]
  OBVIOUS
<1>2. Slots(Append(q, e)) = Slots(q) \cup {e.slot}
  BY <1>1 DEF Slots
<1>3. \A i \in 1..Len(q) : q[i].slot # e.slot
  BY DEF Slots
<1>4. \A i, j \in 1..(Len(q) + 1) :
        Append(q, e)[i].slot = Append(q, e)[j].slot => i = j
  BY <1>1, <1>3 DEF Apart
<1>5. \A i \in 1..(Len(q) + 1) :
        Append(q, e)[i].slot \notin openSlots /\ kills[Append(q, e)[i].slot] = 0
  BY <1>1 DEF Apart
<1>6. QED
  BY <1>1, <1>2, <1>4, <1>5 DEF Apart

------------------------------------------------------------------------------
(* Each action keeps OneWindow: planning and the drain. *)

\* A run that moves to another place, neither resolving nor draining, with the
\* queue as it was, and past the gate only if it leaves it shut behind it.
LEMMA PlaceChange ==
    ASSUME TypeOK, OneWindow, 1 \in Pass, NEW rec \in PassState,
           pass' = [pass EXCEPT ![1] = rec],
           UNCHANGED <<openSlots, killingSlots, pendingRestores, request, kills, tab, parked>>,
           rec.pc \notin {"idle", "list", "decide", "probe", "drain"},
           rec.pc = "save" => pass[1].pc \in {"decide", "save"}
    PROVE  OneWindow'
<1>1. pass'[1] = rec
  BY DEF TypeOK, PassTypeOK
<1>2. ClaimsApart'
  BY DEF OneWindow, ClaimsApart, Holds, Shown
<1>3. QueueApart'
  BY <1>1 DEF OneWindow, QueueApart, Apart
<1>4. GateShut'
  BY <1>1 DEF OneWindow, GateShut, Shown
<1>5. KillsApart'
  BY DEF OneWindow, KillsApart
<1>6. QED
  BY <1>2, <1>3, <1>4, <1>5 DEF OneWindow

LEMMA InitializeKeeps ==
    ASSUME TypeOK, OneWindow, 1 \in Pass, Initialize(1)
    PROVE  OneWindow'
<1>1. UNCHANGED openSlots
  BY NothingToAdopt DEF OneWindow, Initialize
<1>2. pass'[1].pc = "list" /\ pass[1].pc = "idle" /\ pendingRestores' = <<>>
  BY DEF Initialize, TypeOK, PassTypeOK, PassState
<1>3. ClaimsApart'
  BY <1>1 DEF Initialize, OneWindow, ClaimsApart, Holds, Shown
<1>4. QueueApart'
  BY <1>2 DEF Initialize, OneWindow, QueueApart, Apart, Slots
<1>5. GateShut'
  BY <1>1, <1>2 DEF Initialize, OneWindow, GateShut, Shown, remote
<1>6. KillsApart'
  BY <1>1 DEF Initialize, OneWindow, KillsApart
<1>7. QED
  BY <1>3, <1>4, <1>5, <1>6 DEF OneWindow

LEMMA ListSessionsKeeps ==
    ASSUME TypeOK, OneWindow, 1 \in Pass, ListSessions(1)
    PROVE  OneWindow'
<1>1. pass'[1].pc = "decide" /\ pass[1].pc = "list"
  <2> DEFINE now == [s \in Slot |-> Seen(s)]
  <2>1. \/ pass'[1] = [pass[1] EXCEPT !.pc = "decide", !.todo = mapping \cup session, !.seen = now]
        \/ pass'[1] = [pass[1] EXCEPT !.pc = "decide", !.todo = mapping]
    BY DEF ListSessions, TypeOK, PassTypeOK
  <2> HIDE DEF now
  <2>2. pass'[1].pc = "decide"
    <3>1. pass[1] \in PassState
      BY DEF TypeOK, PassTypeOK
    <3>2. QED
      BY <2>1, <3>1 DEF PassState
  <2>3. QED
    BY <2>2 DEF ListSessions
<1>2. UNCHANGED <<openSlots, killingSlots, pendingRestores, request, kills, tab, parked>>
  BY DEF ListSessions, remote
<1>3. ClaimsApart'
  BY <1>2 DEF OneWindow, ClaimsApart, Holds, Shown
<1>4. QueueApart'
  BY <1>1, <1>2 DEF OneWindow, QueueApart, Apart, Slots
<1>5. GateShut'
  BY <1>1, <1>2 DEF OneWindow, GateShut, Shown
<1>6. KillsApart'
  BY <1>2 DEF OneWindow, KillsApart
<1>7. QED
  BY <1>3, <1>4, <1>5, <1>6 DEF OneWindow

\* The run resolves the slot s it is at, queueing it or not, or waits to.
LEMMA Resolving ==
    ASSUME TypeOK, OneWindow, 1 \in Pass, pass[1].pc \in {"decide", "probe"},
           NEW s \in pass[1].todo, s \in Slot, NEW takeOver \in BOOLEAN, NEW revivable \in BOOLEAN,
           pass'[1].pc \in {"decide", "probe"},
           UNCHANGED <<openSlots, killingSlots, request, kills, tab, parked>>,
           \/ UNCHANGED pendingRestores /\ pass'[1].todo \subseteq pass[1].todo
           \/ Enqueue(s, takeOver, revivable) /\ pass'[1].todo = pass[1].todo \ {s}
    PROVE  OneWindow'
<1>1. ClaimsApart'
  BY DEF OneWindow, ClaimsApart, Holds, Shown
<1>2. Apart(pendingRestores)' /\ (Slots(pendingRestores) \cap pass[1].todo = {})'
  <2>1. CASE UNCHANGED pendingRestores /\ pass'[1].todo \subseteq pass[1].todo
    BY <2>1 DEF OneWindow, QueueApart, Apart
  <2>2. CASE Enqueue(s, takeOver, revivable) /\ pass'[1].todo = pass[1].todo \ {s}
    <3> DEFINE e == [slot |-> s, takeOver |-> takeOver, revivable |-> revivable]
    <3>1. e \in Entry /\ e.slot = s
      BY DEF Entry
    <3>2. pendingRestores' = Append(pendingRestores, e)
      BY <2>2 DEF Enqueue
    <3>3. s \notin openSlots /\ kills[s] = 0 /\ s \notin Slots(pendingRestores)
      BY DEF OneWindow, GateShut, QueueApart
    <3>4. pendingRestores \in Seq(Entry) /\ Apart(pendingRestores)
      BY DEF TypeOK, LocalTypeOK, OneWindow, QueueApart
    <3> HIDE DEF e
    <3>5. /\ Apart(pendingRestores')
          /\ Slots(pendingRestores') = Slots(pendingRestores) \cup {s}
      BY <3>1, <3>2, <3>3, <3>4, ApartAppend
    <3>6. Apart(pendingRestores)'
      BY <3>5 DEF Apart
    <3>7. QED
      BY <2>2, <3>5, <3>6 DEF OneWindow, QueueApart
  <2>3. QED
    BY <2>1, <2>2
<1>3. QueueApart'
  BY <1>2 DEF OneWindow, QueueApart, GateShut
<1>4. GateShut'
  BY DEF OneWindow, GateShut, Shown
<1>5. KillsApart'
  BY DEF OneWindow, KillsApart
<1>6. QED
  BY <1>1, <1>3, <1>4, <1>5 DEF OneWindow

LEMMA ResolveSlotKeeps ==
    ASSUME TypeOK, OneWindow, 1 \in Pass, ResolveSlot(1)
    PROVE  OneWindow'
<1> DEFINE s == First(pass[1].todo)
<1>1. s \in pass[1].todo /\ s \in Slot
  <2>1. pass[1].todo \in SUBSET Slot /\ pass[1].todo # {}
    BY DEF TypeOK, PassTypeOK, PassState, ResolveSlot
  <2>2. QED
    BY <2>1, FirstIsLeast
<1>2. \/ UNCHANGED pendingRestores /\ pass' = [pass EXCEPT ![1].todo = @ \ {s}]
      \/ Enqueue(s, FALSE, FALSE) /\ pass' = [pass EXCEPT ![1].todo = @ \ {s}]
      \/ UNCHANGED pendingRestores /\ pass' = [pass EXCEPT ![1].pc = "probe"]
  BY DEF ResolveSlot
<1> HIDE DEF s
<1>3. pass[1] \in PassState /\ pass[1].pc = "decide"
  BY DEF TypeOK, PassTypeOK, ResolveSlot
<1>4. /\ pass'[1].pc \in {"decide", "probe"}
      /\ \/ UNCHANGED pendingRestores /\ pass'[1].todo \subseteq pass[1].todo
         \/ Enqueue(s, FALSE, FALSE) /\ pass'[1].todo = pass[1].todo \ {s}
  <2>1. pass[1].todo \ {s} \subseteq pass[1].todo
    OBVIOUS
  <2>2. \/ pass'[1] = [pass[1] EXCEPT !.todo = @ \ {s}]
        \/ pass'[1] = [pass[1] EXCEPT !.pc = "probe"]
    BY <1>2 DEF TypeOK, PassTypeOK
  <2>3. \/ pass'[1].pc = "decide" /\ pass'[1].todo = pass[1].todo \ {s}
        \/ pass'[1].pc = "probe" /\ pass'[1].todo = pass[1].todo
    BY <1>3, <2>2 DEF PassState
  <2>4. CASE UNCHANGED pendingRestores
    BY <2>1, <2>3, <2>4
  <2>5. CASE Enqueue(s, FALSE, FALSE) /\ pass' = [pass EXCEPT ![1].todo = @ \ {s}]
    <3>1. pass'[1] = [pass[1] EXCEPT !.todo = @ \ {s}]
      BY <2>5 DEF TypeOK, PassTypeOK
    <3>2. pass'[1].pc = "decide" /\ pass'[1].todo = pass[1].todo \ {s}
      BY <1>3, <3>1 DEF PassState
    <3>3. QED
      BY <2>5, <3>2
  <2>6. QED
    BY <1>2, <2>4, <2>5
<1>5. UNCHANGED <<openSlots, killingSlots, request, kills, tab, parked>>
  BY DEF ResolveSlot, remote
<1>6. QED
  BY <1>1, <1>3, <1>4, <1>5, Resolving

LEMMA HasSessionKeeps ==
    ASSUME TypeOK, OneWindow, 1 \in Pass, HasSession(1)
    PROVE  OneWindow'
<1> DEFINE s == First(pass[1].todo)
           evict == pass[1].seen[s] = "attached"
<1>1. s \in pass[1].todo /\ s \in Slot /\ evict \in BOOLEAN
  <2>1. pass[1].todo \in SUBSET Slot /\ pass[1].todo # {}
    BY DEF TypeOK, PassTypeOK, PassState, HasSession
  <2>2. QED
    BY <2>1, FirstIsLeast
<1>2. /\ pass' = [pass EXCEPT ![1].pc = "decide", ![1].todo = @ \ {s}]
      /\ UNCHANGED pendingRestores \/ Enqueue(s, evict, TRUE)
  BY DEF HasSession
<1> HIDE DEF s, evict
<1>3. pass[1] \in PassState /\ pass[1].pc = "probe"
  BY DEF TypeOK, PassTypeOK, HasSession
<1>4. pass'[1].pc = "decide" /\ pass'[1].todo = pass[1].todo \ {s}
  BY <1>2, <1>3 DEF TypeOK, PassTypeOK, PassState
<1>5. UNCHANGED <<openSlots, killingSlots, request, kills, tab, parked>>
  BY DEF HasSession, remote
<1>6. QED
  BY <1>1, <1>2, <1>3, <1>4, <1>5, Resolving

\* The run ends its plan, learns its fate, waits, or ends.
LEMMA PlaceKeeps ==
    ASSUME TypeOK, OneWindow, 1 \in Pass,
           \/ FinishPlan(1) \/ PlanSaved(1) \/ PlanRejected(1) \/ GraceOver(1)
           \/ PollWindow(1) \/ StopWaiting(1) \/ FinishDrain(1)
    PROVE  OneWindow'
<1>1. UNCHANGED openSlots
  BY NothingToAdopt DEF OneWindow, FinishPlan, PlanSaved, PlanRejected, GraceOver, PollWindow,
     StopWaiting, FinishDrain, local
<1>2. UNCHANGED <<killingSlots, pendingRestores, request, kills, tab, parked>>
  BY DEF FinishPlan, PlanSaved, PlanRejected, GraceOver, PollWindow, StopWaiting, FinishDrain,
     local, remote
<1>3. pass'[1] \in PassState /\ pass' = [pass EXCEPT ![1] = pass'[1]]
  <2>1. TypeOK'
    BY FinishPlanType, PlanSavedType, PlanRejectedType, GraceOverType, PollWindowType,
       StopWaitingType, FinishDrainType
  <2>2. pass' = [pass EXCEPT ![1] = pass'[1]]
    BY DEF TypeOK, PassTypeOK, FinishPlan, PlanSaved, PlanRejected, GraceOver, PollWindow,
       StopWaiting, FinishDrain
  <2>3. QED
    BY <2>1, <2>2 DEF TypeOK, PassTypeOK
<1>4. \/ pass'[1].pc = "save" /\ pass[1].pc = "decide"
      \/ pass'[1].pc \in {"grace", "watch", "flush", "done"}
  <2>1. pass \in [Pass -> PassState]
    BY DEF TypeOK, PassTypeOK
  <2>2. CASE FinishPlan(1)
    BY <2>1, <2>2 DEF FinishPlan, IdlePass
  <2>3. CASE PlanSaved(1)
    <3> DEFINE waits == \E i \in 1..Len(pendingRestores) : pendingRestores[i].revivable
    <3>1. pass'[1] = [pass[1] EXCEPT !.pc = "grace", !.revivable = waits]
      BY <2>1, <2>3 DEF PlanSaved
    <3> HIDE DEF waits
    <3>2. QED
      BY <2>1, <3>1 DEF PassState
  <2>4. CASE PlanRejected(1)
    BY <2>1, <2>4 DEF PlanRejected, PassState
  <2>5. CASE GraceOver(1) \/ PollWindow(1) \/ StopWaiting(1)
    <3>1. \E c \in {"watch", "flush"} : pass' = [pass EXCEPT ![1].pc = c]
      BY <2>5 DEF GraceOver, PollWindow, StopWaiting
    <3>2. QED
      BY <2>1, <3>1 DEF PassState
  <2>6. CASE FinishDrain(1)
    BY <2>1, <2>6 DEF FinishDrain, IdlePass
  <2>7. QED
    BY <2>2, <2>3, <2>4, <2>5, <2>6
<1>5. QED
  BY <1>1, <1>2, <1>3, <1>4, PlaceChange

LEMMA TakeQueueKeeps ==
    ASSUME TypeOK, OneWindow, 1 \in Pass, TakeQueue(1)
    PROVE  OneWindow'
<1>1. UNCHANGED openSlots
  BY NothingToAdopt DEF OneWindow, TakeQueue
<1>2. /\ pass'[1].pc = "drain" /\ pass'[1].rest = pendingRestores /\ pass[1].pc = "flush"
      /\ pendingRestores' = <<>>
  BY DEF TakeQueue, TypeOK, PassTypeOK, PassState
<1>3. ClaimsApart'
  BY <1>1 DEF TakeQueue, OneWindow, ClaimsApart, Holds, Shown
<1>4. QueueApart'
  <2>1. Apart(pass[1].rest)'
    <3>1. Apart(pendingRestores) /\ UNCHANGED kills
      BY DEF TakeQueue, OneWindow, QueueApart
    <3>2. QED
      BY <1>1, <1>2, <3>1 DEF Apart
  <2>2. Apart(pendingRestores)'
    BY <1>2 DEF Apart
  <2>3. QED
    BY <1>2, <2>1, <2>2 DEF QueueApart
<1>5. GateShut'
  BY <1>1, <1>2 DEF TakeQueue, OneWindow, GateShut, Shown, remote
<1>6. KillsApart'
  BY <1>1 DEF TakeQueue, OneWindow, KillsApart
<1>7. QED
  BY <1>3, <1>4, <1>5, <1>6 DEF OneWindow

\* A terminal that starts shows its slot and moves no other tab.
LEMMA LaunchShows ==
    ASSUME OutsideTypeOK, NEW t \in FreeTabs, NEW s \in Slot, NEW takeOver, Launch(t, s, takeOver)
    PROVE  /\ Shown' = Shown \cup {t}
           /\ t \notin Shown
           /\ tab'[t].slot = s
           /\ \A u \in Shown : tab'[u].slot = tab[u].slot
           /\ parked = {} => parked' = {}
<1>1. \A u \in Tabs : Exits({s})[u].slot = tab[u].slot /\ Exits({s})[u].st = tab[u].st
  BY ExitsSteady
<1> DEFINE base == IF takeOver THEN Exits({s}) ELSE tab
           new == [st |-> "born", slot |-> s, ending |-> "no"]
<1>2. /\ t \in Tabs /\ tab[t].st = "none"
      /\ \A u \in Tabs : base[u].slot = tab[u].slot /\ base[u].st = tab[u].st
      /\ base = [u \in Tabs |-> base[u]]
  BY <1>1 DEF FreeTabs, OutsideTypeOK, Exits
<1>3. tab' = [base EXCEPT ![t] = new] /\ new.st = "born" /\ new.slot = s
  BY DEF Launch
<1> HIDE DEF base, new
<1>4. tab'[t] = new /\ \A u \in Tabs : u # t => tab'[u] = base[u]
  BY <1>2, <1>3
<1>5. parked = {} => parked' = {}
  BY DEF Launch
<1>6. Shown' = Shown \cup {t} /\ t \notin Shown
  BY <1>2, <1>3, <1>4 DEF Shown
<1>7. QED
  BY <1>2, <1>3, <1>4, <1>5, <1>6 DEF Shown

LEMMA ReopenKeeps ==
    ASSUME TypeOK, OneWindow, 1 \in Pass, Reopen(1)
    PROVE  OneWindow'
<1> DEFINE e == Head(pass[1].rest)
           rest == Tail(pass[1].rest)
<1>1. pass[1].rest \in Seq(Entry) /\ pass[1].rest # <<>> /\ Apart(pass[1].rest)
  BY DEF TypeOK, PassTypeOK, PassState, Reopen, OneWindow, QueueApart
<1>2. /\ Apart(rest) /\ e.slot \notin openSlots /\ kills[e.slot] = 0
      /\ \A i \in 1..Len(rest) : rest[i].slot # e.slot
  BY <1>1, ApartTail
<1>3. e \in Entry /\ e.slot \in Slot
  BY <1>1, QueueHeadTail DEF Entry
<1>4. pass'[1].pc = "drain" /\ pass[1].pc = "drain" /\ pass'[1].rest = rest
  BY DEF Reopen, TypeOK, PassTypeOK, PassState
<1>5. UNCHANGED <<killingSlots, pendingRestores, request, kills>>
  BY DEF Reopen
<1>6. \/ UNCHANGED <<openSlots, tab, remote>>
      \/ /\ openSlots' = openSlots \cup {e.slot}
         /\ \E t \in FreeTabs : Launch(t, e.slot, e.takeOver)
  BY DEF Reopen
<1> HIDE DEF e, rest
<1>7. CASE UNCHANGED <<openSlots, tab, remote>>
  <2>1. ClaimsApart'
    BY <1>5, <1>7 DEF OneWindow, ClaimsApart, Holds, Shown
  <2>2. QueueApart'
    BY <1>2, <1>4, <1>5, <1>7 DEF OneWindow, QueueApart, Apart
  <2>3. GateShut'
    BY <1>4, <1>5, <1>7 DEF OneWindow, GateShut, Shown, remote
  <2>4. KillsApart'
    BY <1>5, <1>7 DEF OneWindow, KillsApart
  <2>5. QED
    BY <2>1, <2>2, <2>3, <2>4 DEF OneWindow
<1>8. CASE /\ openSlots' = openSlots \cup {e.slot}
           /\ \E t \in FreeTabs : Launch(t, e.slot, e.takeOver)
  <2>1. PICK t \in FreeTabs : Launch(t, e.slot, e.takeOver)
    BY <1>8
  <2>2. /\ Shown' = Shown \cup {t}
        /\ t \notin Shown
        /\ tab'[t].slot = e.slot
        /\ \A u \in Shown : tab'[u].slot = tab[u].slot
        /\ parked = {} => parked' = {}
    BY <1>3, <2>1, LaunchShows DEF TypeOK
  <2>3. ClaimsApart'
    BY <1>2, <1>5, <1>8, <2>2 DEF OneWindow, ClaimsApart, Holds
  <2>4. QueueApart'
    BY <1>2, <1>4, <1>5, <1>8 DEF OneWindow, QueueApart, Apart
  <2>5. GateShut'
    BY <1>4, <1>5, <2>2 DEF OneWindow, GateShut
  <2>6. KillsApart'
    BY <1>2, <1>3, <1>5, <1>8 DEF OneWindow, KillsApart
  <2>7. QED
    BY <2>3, <2>4, <2>5, <2>6 DEF OneWindow
<1>9. QED
  BY <1>6, <1>7, <1>8

------------------------------------------------------------------------------
(* Each action keeps OneWindow: requests. *)

\* Request r takes slot s, which nobody uses and no kill is on its way to.
LEMMA Claims ==
    ASSUME TypeOK, OneWindow, NEW r \in Requests, ~ Holds(r), NEW s \in Slot,
           s \notin openSlots, kills[s] = 0, openSlots' = openSlots \cup {s},
           Holds(r)', request'[r].slot = s, \A q \in Requests \ {r} : request'[q] = request[q],
           UNCHANGED <<killingSlots, kills, tab>>
    PROVE  ClaimsApart' /\ KillsApart'
<1>1. Shown' = Shown
  BY DEF Shown
<1>2. \A q \in Requests \ {r} : Holds(q)' = Holds(q)
  BY DEF Holds
<1>3. ClaimsApart'
  BY <1>1, <1>2 DEF OneWindow, ClaimsApart
<1>4. KillsApart'
  BY DEF OneWindow, KillsApart
<1>5. QED
  BY <1>3, <1>4

LEMMA AskProfileKeeps ==
    ASSUME TypeOK, OneWindow, Pass = {1}, NEW r \in Requests, AskProfile(r)
    PROVE  OneWindow'
<1>1. Planning = 1
  BY DEF AskProfile, Planning
<1>2. /\ request'[r].pc = "gate" /\ request'[r].gate = 1
      /\ \A q \in Requests \ {r} : request'[q] = request[q]
      /\ request[r].pc = "idle"
  BY <1>1 DEF AskProfile, TypeOK, CallTypeOK, RequestState
<1>3. UNCHANGED <<openSlots, killingSlots, pendingRestores, pass, kills, tab, parked>>
  BY DEF AskProfile, local, remote
<1>4. Shown' = Shown
  BY <1>3 DEF Shown
<1>5. ClaimsApart'
  BY <1>2, <1>3, <1>4 DEF OneWindow, ClaimsApart, Holds
<1>6. QueueApart'
  BY <1>2, <1>3 DEF OneWindow, QueueApart, Apart, Slots
<1>7. GateShut'
  BY <1>2, <1>3, <1>4 DEF OneWindow, GateShut
<1>8. KillsApart'
  BY <1>3 DEF OneWindow, KillsApart
<1>9. QED
  BY <1>5, <1>6, <1>7, <1>8 DEF OneWindow

\* A request past its gate found the plan settled, and between two callbacks
\* the drain is not under way.
LEMMA GateOpen ==
    ASSUME OneWindow, Pass = {1}, NEW r \in Requests, Idle,
           \/ request[r].pc = "gate" /\ Planned(request[r].gate)
           \/ request[r].pc \notin {"idle", "gate"}
    PROVE  pass[1].pc \notin {"idle", "list", "decide", "probe", "save", "drain"}
BY DEF OneWindow, GateShut, Planned, Idle

LEMMA ClaimPendingKeeps ==
    ASSUME TypeOK, OneWindow, Pass = {1}, NEW r \in Requests, ClaimPending(r)
    PROVE  OneWindow'
<1> DEFINE e == Head(pendingRestores)
<1>1. pendingRestores \in Seq(Entry) /\ pendingRestores # <<>> /\ Apart(pendingRestores)
  BY DEF TypeOK, LocalTypeOK, ClaimPending, OneWindow, QueueApart
<1>2. /\ Apart(Tail(pendingRestores)) /\ e.slot \notin openSlots /\ kills[e.slot] = 0
      /\ \A i \in 1..Len(Tail(pendingRestores)) : Tail(pendingRestores)[i].slot # e.slot
  BY <1>1, ApartTail
<1>3. e \in Entry /\ e.slot \in Slot
  BY <1>1, QueueHeadTail DEF Entry
<1>4. /\ pendingRestores' = Tail(pendingRestores)
      /\ openSlots' = openSlots \cup {e.slot}
      /\ request' = [request EXCEPT ![r] = [@ EXCEPT !.pc = "save", !.slot = e.slot,
                                                   !.takeOver = e.takeOver]]
      /\ UNCHANGED <<killingSlots, pass, kills, tab, parked>>
  BY DEF ClaimPending, remote
<1> HIDE DEF e
<1>5. /\ request'[r].pc = "save" /\ request'[r].slot = e.slot
      /\ \A q \in Requests \ {r} : request'[q] = request[q]
  BY <1>4 DEF TypeOK, CallTypeOK, RequestState
<1>6. request[r].pc = "gate"
  BY DEF ClaimPending
<1>7. pass[1].pc \notin {"idle", "list", "decide", "probe", "save", "drain"}
  BY GateOpen DEF ClaimPending
<1>8. ClaimsApart' /\ KillsApart'
  BY <1>2, <1>3, <1>4, <1>5, <1>6, Claims DEF Holds
<1>9. QueueApart'
  <2>1. Apart(pendingRestores)'
    BY <1>2, <1>4 DEF Apart
  <2>2. \A q \in Requests : request[q].pc \notin {"probe1", "probe2"}
    BY <1>1 DEF OneWindow, QueueApart
  <2>3. QED
    BY <1>4, <1>5, <1>7, <2>1, <2>2 DEF QueueApart
<1>10. GateShut'
  BY <1>4, <1>5, <1>7 DEF OneWindow, GateShut
<1>11. QED
  BY <1>8, <1>9, <1>10 DEF OneWindow

LEMMA StartNewKeeps ==
    ASSUME TypeOK, OneWindow, Pass = {1}, NEW r \in Requests, StartNew(r)
    PROVE  OneWindow'
<1>1. /\ request'[r].pc = "probe1" /\ request[r].pc = "gate" /\ pendingRestores = <<>>
      /\ \A q \in Requests \ {r} : request'[q] = request[q]
  BY DEF StartNew, TypeOK, CallTypeOK, RequestState
<1>2. UNCHANGED <<openSlots, killingSlots, pendingRestores, pass, kills, tab, parked>>
  BY DEF StartNew, local, remote
<1>3. pass[1].pc \notin {"idle", "list", "decide", "probe", "save", "drain"}
  BY GateOpen DEF StartNew
<1>4. Shown' = Shown
  BY <1>2 DEF Shown
<1>5. ClaimsApart'
  BY <1>1, <1>2, <1>4 DEF OneWindow, ClaimsApart, Holds
<1>6. QueueApart'
  BY <1>1, <1>2, <1>3 DEF OneWindow, QueueApart, Apart
<1>7. GateShut'
  BY <1>1, <1>2, <1>3 DEF OneWindow, GateShut
<1>8. KillsApart'
  BY <1>2 DEF OneWindow, KillsApart
<1>9. QED
  BY <1>5, <1>6, <1>7, <1>8 DEF OneWindow

\* A slot no kill holds has no kill in flight.
LEMMA FreeIsNotKilled ==
    ASSUME OneWindow, CallTypeOK, NEW open, NEW attached, NEW s \in Free(open, attached)
    PROVE  s \in Slot /\ kills[s] = 0 /\ s \notin open /\ s \notin attached
<1>1. s \in Slot /\ s \notin killingSlots /\ s \notin open /\ s \notin attached
  BY DEF Free
<1>2. kills[s] \in Nat /\ ~ (kills[s] > 0)
  BY <1>1 DEF OneWindow, KillsApart, CallTypeOK
<1>3. QED
  BY <1>1, <1>2

LEMMA ChooseSlotKeeps ==
    ASSUME TypeOK, OneWindow, Pass = {1}, NEW r \in Requests, ChooseSlot(r)
    PROVE  OneWindow'
<1> DEFINE free == Free(openSlots, attachedRemoteSlots')
           s == First(free)
<1>1. s \in Slot /\ kills[s] = 0 /\ s \notin openSlots
  <2>1. s \in free
    BY FreeType DEF ChooseSlot
  <2>2. QED
    BY <2>1, FreeIsNotKilled DEF TypeOK
<1>2. /\ openSlots' = openSlots \cup {s}
      /\ request' = [request EXCEPT ![r].pc = "probe2", ![r].slot = s]
      /\ UNCHANGED <<killingSlots, pendingRestores, pass, kills, tab, parked>>
      /\ request[r].pc = "probe1"
  BY DEF ChooseSlot, remote
<1> HIDE DEF s, free
<1>3. /\ request'[r].pc = "probe2" /\ request'[r].slot = s
      /\ \A q \in Requests \ {r} : request'[q] = request[q]
  BY <1>2 DEF TypeOK, CallTypeOK, RequestState
<1>4. pass[1].pc \notin {"idle", "list", "decide", "probe", "save", "drain"}
  BY <1>2, GateOpen DEF ChooseSlot
<1>5. ClaimsApart' /\ KillsApart'
  BY <1>1, <1>2, <1>3, Claims DEF Holds
<1>6. QueueApart'
  <2>1. pendingRestores = <<>>
    BY <1>2 DEF OneWindow, QueueApart
  <2>2. QED
    BY <1>2, <1>3, <1>4, <2>1 DEF QueueApart, Apart
<1>7. GateShut'
  <2>1. pass'[1].pc \notin {"idle", "list", "decide", "probe", "save"} /\ parked' = parked
    BY <1>2, <1>4
  <2>2. \A q \in Requests : request'[q].pc = "gate" => request'[q].gate = request[q].gate
                                                       /\ request[q].pc = "gate"
    BY <1>3
  <2>3. GateShut
    BY DEF OneWindow
  <2>4. QED
    BY <2>1, <2>2, <2>3 DEF GateShut
<1>8. QED
  BY <1>5, <1>6, <1>7 DEF OneWindow

LEMMA ConfirmSlotKeeps ==
    ASSUME TypeOK, OneWindow, Pass = {1}, NEW r \in Requests, ConfirmSlot(r)
    PROVE  OneWindow'
<1> DEFINE old == request[r].slot
           free == Free(openSlots \ {old}, attachedRemoteSlots')
           new == IF old \in attachedRemoteSlots' THEN First(free) ELSE old
<1>1. request[r].pc = "probe2" /\ old \in openSlots /\ old \in Slot
  BY DEF ConfirmSlot, OneWindow, ClaimsApart, Holds, TypeOK, CallTypeOK, RequestState
<1>2. new \in Slot /\ kills[new] = 0 /\ new \notin openSlots \ {old}
  <2>1. CASE old \in attachedRemoteSlots'
    <3>1. new \in free
      BY <2>1, FreeType DEF ConfirmSlot
    <3>2. QED
      BY <3>1, FreeIsNotKilled DEF TypeOK
  <2>2. CASE old \notin attachedRemoteSlots'
    <3>1. kills[old] \in Nat /\ ~ (kills[old] > 0)
      BY <1>1 DEF OneWindow, KillsApart, TypeOK, CallTypeOK
    <3>2. QED
      BY <1>1, <2>2, <3>1
  <2>3. QED
    BY <2>1, <2>2
<1>3. /\ openSlots' = (openSlots \ {old}) \cup {new}
      /\ request' = [request EXCEPT ![r] = [@ EXCEPT !.pc = "save", !.slot = new]]
      /\ UNCHANGED <<killingSlots, pendingRestores, pass, kills, tab, parked>>
  BY DEF ConfirmSlot, Reassign, remote
<1> HIDE DEF new, free
<1>4. /\ request'[r].pc = "save" /\ request'[r].slot = new
      /\ \A q \in Requests \ {r} : request'[q] = request[q]
  BY <1>3 DEF TypeOK, CallTypeOK, RequestState
<1>5. pass[1].pc \notin {"idle", "list", "decide", "probe", "save", "drain"}
  BY <1>1, GateOpen DEF ConfirmSlot
<1>6. Shown' = Shown
  BY <1>3 DEF Shown
<1>7. \A q \in Requests \ {r} : Holds(q)' = Holds(q)
  BY <1>4 DEF Holds
<1>8. /\ \A q \in Requests \ {r} : Holds(q) => request[q].slot \in openSlots \ {old}
      /\ \A t \in Shown : tab[t].slot \in openSlots \ {old}
  BY <1>1 DEF OneWindow, ClaimsApart, Holds
<1>9. ClaimsApart'
  BY <1>2, <1>3, <1>4, <1>6, <1>7, <1>8 DEF OneWindow, ClaimsApart
<1>10. QueueApart'
  <2>1. pendingRestores = <<>>
    BY <1>1 DEF OneWindow, QueueApart
  <2>2. QED
    BY <1>3, <1>4, <1>5, <2>1 DEF QueueApart, Apart
<1>11. GateShut'
  BY <1>3, <1>4, <1>5 DEF OneWindow, GateShut
<1>12. KillsApart'
  BY <1>2, <1>3 DEF OneWindow, KillsApart
<1>13. QED
  BY <1>9, <1>10, <1>11, <1>12 DEF OneWindow

\* The write of a request lands or is refused: it holds its slot, or no more.
LEMMA ProfileKeeps ==
    ASSUME TypeOK, OneWindow, Pass = {1}, NEW r \in Requests,
           ProfileSaved(r) \/ ProfileRejected(r)
    PROVE  OneWindow'
<1>1. /\ request[r].pc = "save"
      /\ request'[r].pc \in {"granted", "failed"} /\ request'[r].slot = request[r].slot
      /\ \A q \in Requests \ {r} : request'[q] = request[q]
  BY DEF ProfileSaved, ProfileRejected, TypeOK, CallTypeOK, RequestState
<1>2. UNCHANGED <<openSlots, killingSlots, pendingRestores, pass, kills, tab, parked>>
  BY DEF ProfileSaved, ProfileRejected, remote
<1>3. pass[1].pc \notin {"idle", "list", "decide", "probe", "save", "drain"}
  BY <1>1, GateOpen DEF ProfileSaved, ProfileRejected
<1>4. Shown' = Shown
  BY <1>2 DEF Shown
<1>5. /\ \A q \in Requests : Holds(q)' => Holds(q)
      /\ \A q \in Requests : request'[q].slot = request[q].slot
  BY <1>1 DEF Holds
<1>6. ClaimsApart'
  BY <1>2, <1>4, <1>5 DEF OneWindow, ClaimsApart
<1>7. QueueApart'
  BY <1>1, <1>2, <1>3 DEF OneWindow, QueueApart, Apart
<1>8. GateShut'
  BY <1>1, <1>2, <1>3 DEF OneWindow, GateShut
<1>9. KillsApart'
  BY <1>2 DEF OneWindow, KillsApart
<1>10. QED
  BY <1>6, <1>7, <1>8, <1>9 DEF OneWindow

LEMMA SpawnTabKeeps ==
    ASSUME TypeOK, OneWindow, Pass = {1}, NEW r \in Requests, SpawnTab(r)
    PROVE  OneWindow'
<1> DEFINE s == request[r].slot
<1>1. s \in Slot /\ s \in openSlots /\ request[r].pc = "granted" /\ Holds(r)
  BY DEF SpawnTab, TypeOK, CallTypeOK, RequestState, OneWindow, ClaimsApart, Holds
<1>2. PICK t \in FreeTabs : Launch(t, s, request[r].takeOver)
  BY DEF SpawnTab
<1>3. /\ Shown' = Shown \cup {t} /\ t \notin Shown /\ tab'[t].slot = s
      /\ \A u \in Shown : tab'[u].slot = tab[u].slot
      /\ parked = {} => parked' = {}
  BY <1>1, <1>2, LaunchShows DEF TypeOK
<1>4. /\ request'[r].pc = "done" /\ \A q \in Requests \ {r} : request'[q] = request[q]
      /\ UNCHANGED <<openSlots, killingSlots, pendingRestores, pass, kills>>
  BY DEF SpawnTab, TypeOK, CallTypeOK, IdleRequest, local
<1>5. pass[1].pc \notin {"idle", "list", "decide", "probe", "save", "drain"}
  BY <1>1, GateOpen DEF SpawnTab
<1> HIDE DEF s
<1>6. /\ ~ Holds(r)' /\ \A q \in Requests \ {r} : Holds(q)' = Holds(q)
      /\ \A q \in Requests \ {r} : Holds(q) => request[q].slot # s
      /\ \A u \in Shown : tab[u].slot # s
  BY <1>1, <1>4 DEF Holds, OneWindow, ClaimsApart, s
<1>7. ClaimsApart'
  BY <1>1, <1>3, <1>4, <1>6 DEF OneWindow, ClaimsApart
<1>8. QueueApart'
  BY <1>4, <1>5 DEF OneWindow, QueueApart, Apart
<1>9. GateShut'
  BY <1>3, <1>4, <1>5 DEF OneWindow, GateShut
<1>10. KillsApart'
  BY <1>4 DEF OneWindow, KillsApart
<1>11. QED
  BY <1>7, <1>8, <1>9, <1>10 DEF OneWindow

------------------------------------------------------------------------------
(* Each action keeps OneWindow: the window and the remote. *)

LEMMA TabOpenedKeeps ==
    ASSUME TypeOK, OneWindow, NEW t \in Tabs, TabOpened(t)
    PROVE  OneWindow'
<1>1. tab[t].st = "born" /\ tab[t].slot \in openSlots
  BY DEF TabOpened, OneWindow, ClaimsApart, Shown
<1>2. UNCHANGED openSlots
  BY <1>1 DEF TabOpened
<1>3. Steady
  <2>1. tab'[t].st = "open" /\ tab'[t].slot = tab[t].slot
    BY DEF TabOpened, TypeOK, OutsideTypeOK, TabState
  <2>2. \A u \in Tabs \ {t} : tab'[u] = tab[u]
    BY DEF TabOpened, TypeOK, OutsideTypeOK
  <2>3. QED
    BY <1>1, <2>1, <2>2 DEF Steady
<1>4. UNCHANGED <<killingSlots, pendingRestores, pass, request, kills, parked>>
  BY DEF TabOpened, remote
<1>5. QED
  BY <1>2, <1>3, <1>4, Quiet

\* A tab's client, or any client of a session, comes or goes.
LEMMA ClientsKeep ==
    ASSUME TypeOK, OneWindow,
           \/ \E t \in Tabs : UserCloses(t)
           \/ \E s \in Slot : ProcessExits(s) \/ ForeignAttaches(s) \/ ForeignDetaches(s)
    PROVE  OneWindow'
<1>1. Steady
  <2>1. ASSUME NEW t \in Tabs, UserCloses(t) PROVE Steady
    BY <2>1 DEF UserCloses, Steady, TypeOK, OutsideTypeOK, TabState
  <2>2. ASSUME NEW s \in Slot, tab' = Exits({s}) PROVE Steady
    BY <2>2, ExitsSteady DEF Steady, TypeOK
  <2>3. ASSUME UNCHANGED tab PROVE Steady
    BY <2>3 DEF Steady
  <2>4. QED
    BY <2>1, <2>2, <2>3 DEF ProcessExits, ForeignAttaches, ForeignDetaches
<1>2. UNCHANGED parked
  BY DEF UserCloses, ProcessExits, ForeignAttaches, ForeignDetaches, remote, OneWindow, GateShut
<1>3. UNCHANGED <<openSlots, killingSlots, pendingRestores, pass, request, kills>>
  BY DEF UserCloses, ProcessExits, ForeignAttaches, ForeignDetaches, local
<1>4. QED
  BY <1>1, <1>2, <1>3, Quiet

LEMMA TabClosedKeeps ==
    ASSUME TypeOK, OneWindow, Pass = {1}, NEW t \in Tabs, TabClosed(t)
    PROVE  OneWindow'
<1> DEFINE s == tab[t].slot
<1>1. t \in Shown /\ s \in Slot /\ s \in openSlots
  BY DEF TabClosed, TypeOK, OutsideTypeOK, TabState, OneWindow, ClaimsApart, Shown
<1>2. /\ Shown' = Shown \ {t}
      /\ \A u \in Shown \ {t} : tab'[u] = tab[u] /\ tab[u].slot # s
  BY DEF TabClosed, TypeOK, OutsideTypeOK, NoTab, Shown, OneWindow, ClaimsApart
<1>3. UNCHANGED <<pendingRestores, pass, request, parked>>
  BY DEF TabClosed, remote
<1>4. \/ UNCHANGED <<openSlots, killingSlots, kills>>
      \/ openSlots' = openSlots \ {s} /\ UNCHANGED <<killingSlots, kills>>
      \/ /\ openSlots' = openSlots \ {s}
         /\ killingSlots' = killingSlots \cup {s}
         /\ kills' = [kills EXCEPT ![s] = @ + 1]
  BY DEF TabClosed
<1>5. kills[s] = 0
  <2>1. kills[s] \in Nat /\ ~ (kills[s] > 0)
    BY <1>1 DEF OneWindow, KillsApart, TypeOK, CallTypeOK
  <2>2. QED
    BY <2>1
<1>6. \A r \in Requests : Holds(r) => request[r].slot # s
  BY <1>1 DEF OneWindow, ClaimsApart
<1> HIDE DEF s
<1>7. /\ openSlots' \subseteq openSlots /\ openSlots \ {s} \subseteq openSlots'
      /\ \A x \in Slot : x # s => kills'[x] = kills[x]
  BY <1>4 DEF TypeOK, CallTypeOK
<1>8. ClaimsApart'
  BY <1>2, <1>3, <1>6, <1>7 DEF OneWindow, ClaimsApart, Holds
<1>9. pass[1].pc \notin {"idle", "list", "decide", "probe", "save", "drain"}
  BY <1>1 DEF TabClosed, Idle, OneWindow, GateShut
<1>10. QueueApart'
  <2>1. \A i \in 1..Len(pendingRestores) : pendingRestores[i].slot \in Slot \ {s}
    <3>1. \A i \in 1..Len(pendingRestores) : pendingRestores[i] \in Entry
      BY ElementOfSeq DEF TypeOK, LocalTypeOK
    <3>2. QED
      BY <1>1, <3>1 DEF OneWindow, QueueApart, Apart, Entry
  <2>2. Apart(pendingRestores)'
    BY <1>3, <1>7, <2>1 DEF OneWindow, QueueApart, Apart
  <2>3. QED
    BY <1>3, <1>9, <2>2 DEF OneWindow, QueueApart
<1>11. GateShut'
  BY <1>3, <1>9 DEF OneWindow, GateShut
<1>12. KillsApart'
  BY <1>1, <1>4, <1>5 DEF OneWindow, KillsApart, TypeOK, CallTypeOK
<1>13. QED
  BY <1>8, <1>10, <1>11, <1>12 DEF OneWindow

LEMMA KillSettlesKeeps ==
    ASSUME TypeOK, OneWindow, Pass = {1}, NEW s \in Slot, KillSettles(s)
    PROVE  OneWindow'
<1>1. kills[s] = 1 /\ s \notin openSlots
  BY DEF KillSettles, OneWindow, KillsApart
<1>2. /\ kills' = [kills EXCEPT ![s] = 0] /\ killingSlots' = killingSlots \ {s}
      /\ UNCHANGED <<openSlots, pendingRestores, pass, request>>
  BY <1>1 DEF KillSettles, TypeOK, CallTypeOK
<1>3. Shown' = Shown /\ \A t \in Shown : tab'[t].slot = tab[t].slot
  <2>1. Steady
    BY ExitsSteady DEF KillSettles, Steady, TypeOK
  <2>2. QED
    BY <2>1, SteadyShown DEF Steady, Shown
<1>4. parked' = {}
  BY DEF KillSettles, OneWindow, GateShut
<1>5. \A x \in Slot : kills'[x] = IF x = s THEN 0 ELSE kills[x]
  BY <1>2 DEF TypeOK, CallTypeOK
<1>6. ClaimsApart'
  BY <1>2, <1>3 DEF OneWindow, ClaimsApart, Holds
<1>7. pass[1].pc \notin {"idle", "list", "decide", "probe", "save", "drain"}
  BY <1>1 DEF KillSettles, Idle, OneWindow, GateShut
<1>8. QueueApart'
  <2>1. \A i \in 1..Len(pendingRestores) : pendingRestores[i].slot \in Slot
    <3>1. \A i \in 1..Len(pendingRestores) : pendingRestores[i] \in Entry
      BY ElementOfSeq DEF TypeOK, LocalTypeOK
    <3>2. QED
      BY <3>1 DEF Entry
  <2>2. Apart(pendingRestores)'
    BY <1>2, <1>5, <2>1 DEF OneWindow, QueueApart, Apart
  <2>3. QED
    BY <1>2, <1>7, <2>2 DEF OneWindow, QueueApart
<1>9. GateShut'
  BY <1>2, <1>4, <1>7 DEF OneWindow, GateShut
<1>10. KillsApart'
  BY <1>2, <1>5 DEF OneWindow, KillsApart
<1>11. QED
  BY <1>6, <1>8, <1>9, <1>10 DEF OneWindow

------------------------------------------------------------------------------

LEMMA OneWindowInv ==
    ASSUME MaxPass = 1, PtyReconnect = FALSE
    PROVE  Spec => []OneWindow
<1>1. Pass = {1}
  BY DEF Pass
<1>2. Init => OneWindow
  BY <1>1 DEF Init, OneWindow, ClaimsApart, QueueApart, GateShut, KillsApart, Apart, Holds, Shown,
     IdlePass, IdleRequest, NoTab
<1>3. TypeOK /\ OneWindow /\ [Next]_vars => OneWindow'
  <2> SUFFICES ASSUME TypeOK, OneWindow, [Next]_vars PROVE OneWindow'
    OBVIOUS
  <2>1. ASSUME Initialize(1) \/ PollWindow(1) \/ Provider(1) PROVE OneWindow'
    BY <1>1, <2>1, InitializeKeeps, ListSessionsKeeps, ResolveSlotKeeps, HasSessionKeeps,
       PlaceKeeps, TakeQueueKeeps, ReopenKeeps DEF Provider
  <2>2. ASSUME NEW r \in Requests, AskProfile(r) \/ Answer(r) \/ SpawnTab(r) PROVE OneWindow'
    BY <1>1, <2>2, AskProfileKeeps, ClaimPendingKeeps, StartNewKeeps, ChooseSlotKeeps,
       ConfirmSlotKeeps, ProfileKeeps, SpawnTabKeeps DEF Answer
  <2>3. ASSUME NEW t \in Tabs, TabOpened(t) \/ UserCloses(t) \/ TabClosed(t) PROVE OneWindow'
    BY <1>1, <2>3, TabOpenedKeeps, ClientsKeep, TabClosedKeeps
  <2>4. ASSUME NEW s \in Slot,
               \/ ReconnectPty(s) \/ KillSettles(s) \/ ProcessExits(s)
               \/ ForeignAttaches(s) \/ ForeignDetaches(s)
        PROVE  OneWindow'
    <3>1. ~ ReconnectPty(s)
      BY DEF ReconnectPty, OneWindow, GateShut
    <3>2. QED
      BY <1>1, <2>4, <3>1, KillSettlesKeeps, ClientsKeep
  <2>5. CASE BackgroundSaved
    BY <2>5, Quiet DEF BackgroundSaved, Steady, remote
  <2>6. CASE UNCHANGED vars
    BY <2>6, Quiet DEF vars, local, remote, Steady
  <2>7. QED
    BY <1>1, <2>1, <2>2, <2>3, <2>4, <2>5, <2>6 DEF Next
<1>4. QED
  BY <1>2, <1>3, TypeCorrect, PTL DEF Spec

\* In a window wired once, with no pty reconnected, no two terminals share a
\* session, whatever the requests, closes, kills and other machines do and whatever
\* fails.  Both premises are needed: the runs Duplicate and RefreshKill are what
\* happens without the one or the other.
THEOREM OneWindowSafe ==
    ASSUME MaxPass = 1, PtyReconnect = FALSE
    PROVE  Spec => []OneTabPerSession
<1>1. OneWindow => OneTabPerSession
  BY DEF OneWindow, ClaimsApart, OneTabPerSession, Holding, Showing, Holds, Connected
<1>2. QED
  BY <1>1, OneWindowInv, PTL

\* Nor does a kill in such a window hit a session that is on screen or about to be:
\* the slot a tab gave up is given to nobody while its kill is on the way.
THEOREM KillsHitNoTab ==
    ASSUME MaxPass = 1, PtyReconnect = FALSE
    PROVE  Spec => []KillTargetsNoTab
<1>1. OneWindow => KillTargetsNoTab
  BY DEF OneWindow, ClaimsApart, KillsApart, KillTargetsNoTab, Holding, Showing, Holds, Connected
<1>2. QED
  BY <1>1, OneWindowInv, PTL

------------------------------------------------------------------------------
(* Writes: what the mapping holds is saved, and what is shown is in it. *)

\* The write at the head of the chain takes the mapping as it is; a mapping that
\* changed since has a write behind it, or a run that will ask for one.
THEOREM MappingSaved == Spec => []MappingPersisted
<1>1. Init => MappingPersisted
  BY DEF Init, MappingPersisted
<1>2. TypeOK /\ MappingPersisted /\ [Next]_vars => MappingPersisted'
  <2> SUFFICES ASSUME TypeOK, MappingPersisted, [Next]_vars, "write" \notin Faults
               PROVE  \/ stored' = mapping' \/ persistChain' # <<>>
                      \/ \E p \in Pass : pass'[p].pc \notin {"idle", "done"}
    BY DEF MappingPersisted
  <2>1. persistChain \in Seq(Requests \cup (0..MaxPass)) /\ pass \in [Pass -> PassState]
    BY DEF TypeOK, LocalTypeOK, PassTypeOK
  <2>2. ASSUME NEW who \in Requests \cup (0..MaxPass), Persist(who) PROVE persistChain' # <<>>
    BY <2>1, <2>2 DEF Persist
  <2>3. ASSUME UNCHANGED <<mapping, stored, persistChain, pass>>
        PROVE  \/ stored' = mapping' \/ persistChain' # <<>>
               \/ \E p \in Pass : pass'[p].pc \notin {"idle", "done"}
    BY <2>3 DEF MappingPersisted
  <2>4. ASSUME NEW p \in Pass, NEW pc \in {"list", "decide", "probe", "grace", "watch", "flush", "drain"},
               pass'[p].pc = pc
        PROVE  \E q \in Pass : pass'[q].pc \notin {"idle", "done"}
    BY <2>4
  <2>5. ASSUME NEW p \in Pass, Initialize(p) PROVE pass'[p].pc = "list"
    BY <2>1, <2>5 DEF Initialize, PassState
  <2>6. ASSUME NEW p \in Pass, ListSessions(p) PROVE pass'[p].pc = "decide"
    <3> DEFINE now == [s \in Slot |-> Seen(s)]
    <3>1. \/ pass'[p] = [pass[p] EXCEPT !.pc = "decide", !.todo = mapping \cup session, !.seen = now]
          \/ pass'[p] = [pass[p] EXCEPT !.pc = "decide", !.todo = mapping]
      BY <2>1, <2>6 DEF ListSessions
    <3> HIDE DEF now
    <3>2. QED
      BY <2>1, <3>1 DEF PassState
  <2>7. ASSUME NEW p \in Pass, ResolveSlot(p) PROVE pass'[p].pc \in {"decide", "probe"}
    <3>1. \/ pass' = [pass EXCEPT ![p].todo = @ \ {First(pass[p].todo)}]
          \/ pass' = [pass EXCEPT ![p].pc = "probe"]
      BY <2>7 DEF ResolveSlot
    <3> DEFINE rest == pass[p].todo \ {First(pass[p].todo)}
    <3>2. pass'[p] = [pass[p] EXCEPT !.todo = rest] \/ pass'[p] = [pass[p] EXCEPT !.pc = "probe"]
      BY <2>1, <3>1
    <3> HIDE DEF rest
    <3>3. pass[p].pc = "decide" /\ pass[p] \in PassState
      BY <2>1, <2>7 DEF ResolveSlot
    <3>4. QED
      BY <3>2, <3>3 DEF PassState
  <2>8. ASSUME NEW p \in Pass, HasSession(p) PROVE pass'[p].pc = "decide"
    <3> DEFINE rest == pass[p].todo \ {First(pass[p].todo)}
    <3>1. pass'[p] = [pass[p] EXCEPT !.pc = "decide", !.todo = rest]
      BY <2>1, <2>8 DEF HasSession
    <3> HIDE DEF rest
    <3>2. QED
      BY <2>1, <3>1 DEF PassState
  <2>9. ASSUME NEW p \in Pass, GraceOver(p) \/ PollWindow(p) \/ StopWaiting(p)
        PROVE  pass'[p].pc \in {"watch", "flush"}
    <3>1. \E c \in {"watch", "flush"} : pass' = [pass EXCEPT ![p].pc = c]
      BY <2>9 DEF GraceOver, PollWindow, StopWaiting
    <3>2. QED
      BY <2>1, <3>1 DEF PassState
  <2>10. ASSUME NEW p \in Pass, TakeQueue(p) PROVE pass'[p].pc = "drain"
    BY <2>1, <2>10 DEF TakeQueue, PassState
  <2>11. ASSUME NEW p \in Pass, Initialize(p) \/ PollWindow(p) \/ Provider(p)
         PROVE  \/ stored' = mapping' \/ persistChain' # <<>>
                \/ \E q \in Pass : pass'[q].pc \notin {"idle", "done"}
    <3>1. CASE FinishPlan(p) \/ FinishDrain(p)
      <4>1. \E who \in {0, p} : Persist(who) /\ who \in 0..MaxPass
        BY <3>1, NobodyWaits DEF FinishPlan, FinishDrain, Pass
      <4>2. QED
        BY <2>2, <4>1
    <3>2. CASE PlanSaved(p)
      BY <3>2 DEF PlanSaved
    <3>3. CASE PlanRejected(p)
      BY <3>3 DEF PlanRejected
    <3>4. CASE Reopen(p)
      <4>1. pass'[p] = [pass[p] EXCEPT !.rest = Tail(pass[p].rest)] /\ pass[p].pc = "drain"
        BY <2>1, <3>4 DEF Reopen
      <4>2. QED
        BY <2>1, <2>4, <4>1 DEF PassState
    <3>5. QED
      BY <2>4, <2>5, <2>6, <2>7, <2>8, <2>9, <2>10, <2>11, <3>1, <3>2, <3>3, <3>4 DEF Provider
  <2>12. ASSUME NEW r \in Requests, AskProfile(r) \/ Answer(r) \/ SpawnTab(r)
         PROVE  \/ stored' = mapping' \/ persistChain' # <<>>
                \/ \E q \in Pass : pass'[q].pc \notin {"idle", "done"}
    <3>1. CASE ClaimPending(r) \/ ConfirmSlot(r)
      BY <2>2, <3>1 DEF ClaimPending, ConfirmSlot
    <3>2. CASE ProfileSaved(r)
      BY <3>2 DEF ProfileSaved
    <3>3. CASE ProfileRejected(r)
      BY <3>3 DEF ProfileRejected
    <3>4. CASE AskProfile(r) \/ StartNew(r) \/ ChooseSlot(r) \/ SpawnTab(r)
      BY <2>3, <3>4 DEF AskProfile, StartNew, ChooseSlot, SpawnTab, local
    <3>5. QED
      BY <2>12, <3>1, <3>2, <3>3, <3>4 DEF Answer
  <2>13. ASSUME NEW t \in Tabs, TabOpened(t) \/ UserCloses(t) \/ TabClosed(t)
         PROVE  \/ stored' = mapping' \/ persistChain' # <<>>
                \/ \E q \in Pass : pass'[q].pc \notin {"idle", "done"}
    <3>1. CASE UNCHANGED <<mapping, stored, persistChain, pass>>
      BY <2>3, <3>1
    <3>2. CASE Persist(0)
      BY <2>2, <3>2, NobodyWaits
    <3>3. QED
      BY <2>13, <3>1, <3>2 DEF TabOpened, UserCloses, TabClosed, local
  <2>14. ASSUME NEW s \in Slot,
                \/ ReconnectPty(s) \/ KillSettles(s) \/ ProcessExits(s)
                \/ ForeignAttaches(s) \/ ForeignDetaches(s)
         PROVE  UNCHANGED <<mapping, stored, persistChain, pass>>
    BY <2>14 DEF ReconnectPty, KillSettles, ProcessExits, ForeignAttaches, ForeignDetaches, local
  <2>15. CASE BackgroundSaved
    BY <2>15 DEF BackgroundSaved
  <2>16. CASE UNCHANGED vars
    BY <2>3, <2>16 DEF vars, local
  <2>17. QED
    BY <2>3, <2>11, <2>12, <2>13, <2>14, <2>15, <2>16 DEF Next
<1>3. QED
  BY <1>1, <1>2, TypeCorrect, PTL DEF Spec

------------------------------------------------------------------------------
(* A window wired once: what is shown is saved, and what is open is used. *)

\* What is shown, about to be shown or queued is mapped, and stored as well once
\* its write has landed.
Backed ==
    /\ \A t \in Shown : tab[t].slot \in mapping \cap stored
    /\ \A r \in Requests : request[r].pc \in {"save", "granted"} => request[r].slot \in mapping
    /\ \A r \in Requests : request[r].pc = "granted" => request[r].slot \in stored
    /\ Slots(pendingRestores) \subseteq mapping
    /\ pass[1].pc \in {"grace", "watch", "flush"} => Slots(pendingRestores) \subseteq stored
    /\ pass[1].pc = "drain" => Slots(pass[1].rest) \subseteq mapping \cap stored
    /\ pass[1].pc = "probe" => First(pass[1].todo) \in mapping

\* The provider knows every tab the window has told it of, and has discarded none.
Recorded ==
    /\ terminalSlots = {t \in Tabs : tab[t].st = "open"}
    /\ discardedDuplicates = {}

\* A slot in openSlots is a request's or a tab's.
Accounted ==
    \A s \in openSlots : \/ \E r \in Requests : Holds(r) /\ request[r].slot = s
                         \/ \E t \in Shown : tab[t].slot = s

\* A step that starts no terminal, grants no request, queues nothing and unmaps
\* nothing, whatever it writes.
LEMMA BackedStays ==
    ASSUME Backed, UNCHANGED <<pass, pendingRestores>>,
           \A t \in Shown' : t \in Shown /\ tab'[t].slot = tab[t].slot,
           \A r \in Requests : request'[r].pc \in {"save", "granted"} => request'[r] = request[r],
           mapping \subseteq mapping', stored' = stored \/ stored' = mapping
    PROVE  Backed'
<1>1. /\ Slots(pendingRestores)' = Slots(pendingRestores)
      /\ Slots(pass[1].rest)' = Slots(pass[1].rest)
      /\ First(pass[1].todo)' = First(pass[1].todo)
  BY DEF Slots, First
<1>2. \A t \in Shown' : tab'[t].slot \in mapping' \cap stored'
  BY DEF Backed
<1>3. \A r \in Requests : request'[r].pc \in {"save", "granted"} => request'[r].slot \in mapping'
  BY DEF Backed
<1>4. \A r \in Requests : request'[r].pc = "granted" => request'[r].slot \in stored'
  BY DEF Backed
<1>5. QED
  BY <1>1, <1>2, <1>3, <1>4 DEF Backed

\* A run that goes on to another place, where the queue must be stored only if
\* it was before or has just been.
LEMMA BackedMoves ==
    ASSUME Backed, UNCHANGED <<mapping, request, tab>>,
           Slots(pendingRestores)' \subseteq Slots(pendingRestores),
           pass'[1].pc \notin {"drain", "probe"},
           \/ stored' = mapping
           \/ /\ stored' = stored
              /\ \/ pass'[1].pc \notin {"grace", "watch", "flush"}
                 \/ pass[1].pc \in {"grace", "watch", "flush"}
    PROVE  Backed'
<1>1. Shown' = Shown
  BY DEF Shown
<1>2. \A t \in Shown' : tab'[t].slot \in mapping' \cap stored'
  BY <1>1 DEF Backed
<1>3. \A r \in Requests : request'[r].pc = "granted" => request'[r].slot \in stored'
  BY DEF Backed
<1>4. QED
  BY <1>2, <1>3 DEF Backed

LEMMA EmptyQueue == Slots(<<>>) = {}
BY DEF Slots

LEMMA SlotsOfTail ==
    ASSUME NEW q \in Seq(Entry), q # <<>>
    PROVE  Head(q).slot \in Slots(q) /\ Slots(Tail(q)) \subseteq Slots(q)
<1>1. /\ Len(Tail(q)) = Len(q) - 1 /\ Len(q) \in Nat \ {0} /\ Head(q) = q[1]
      /\ \A i \in 1..Len(Tail(q)) : Tail(q)[i] = q[i + 1] /\ i + 1 \in 1..Len(q)
  OBVIOUS
<1>2. QED
  BY <1>1 DEF Slots

LEMMA SlotsOfAppend ==
    ASSUME NEW q \in Seq(Entry), NEW e
    PROVE  Slots(Append(q, e)) = Slots(q) \cup {e.slot}
<1>1. /\ Len(Append(q, e)) = Len(q) + 1 /\ Len(q) \in Nat
      /\ Append(q, e)[Len(q) + 1] = e
      /\ \A i \in 1..Len(q) : Append(q, e)[i] = q[i]
  OBVIOUS
<1>2. QED
  BY <1>1 DEF Slots

LEMMA PassKeepsBacked ==
    ASSUME TypeOK, OneWindow, Backed, 1 \in Pass,
           \/ Initialize(1) \/ ListSessions(1) \/ FinishPlan(1) \/ PlanSaved(1) \/ PlanRejected(1)
           \/ GraceOver(1) \/ PollWindow(1) \/ StopWaiting(1) \/ FinishDrain(1)
    PROVE  Backed'
<1>1. pass \in [Pass -> PassState] /\ ClaimsApart
  BY DEF TypeOK, PassTypeOK, OneWindow
<1>2. UNCHANGED <<request, tab>>
  BY DEF Initialize, ListSessions, FinishPlan, PlanSaved, PlanRejected, GraceOver, PollWindow,
     StopWaiting, FinishDrain
<1>3. UNCHANGED mapping
  BY <1>1, NothingToAdopt DEF Initialize, ListSessions, FinishPlan, PlanSaved, PlanRejected,
     GraceOver, PollWindow, StopWaiting, FinishDrain, local
<1>4. Slots(pendingRestores)' \subseteq Slots(pendingRestores)
  <2>1. pendingRestores' = <<>> \/ pendingRestores' = pendingRestores
    BY DEF Initialize, ListSessions, FinishPlan, PlanSaved, PlanRejected, GraceOver, PollWindow,
       StopWaiting, FinishDrain, local
  <2>2. QED
    BY <2>1, EmptyQueue DEF Slots
<1>5. CASE Initialize(1)
  <2>1. pass'[1].pc = "list" /\ UNCHANGED stored
    BY <1>1, <1>5 DEF Initialize, PassState
  <2>2. QED
    BY <1>2, <1>3, <1>4, <2>1, BackedMoves
<1>6. CASE ListSessions(1)
  <2> DEFINE now == [s \in Slot |-> Seen(s)]
  <2>1. \/ pass'[1] = [pass[1] EXCEPT !.pc = "decide", !.todo = mapping \cup session, !.seen = now]
        \/ pass'[1] = [pass[1] EXCEPT !.pc = "decide", !.todo = mapping]
    BY <1>1, <1>6 DEF ListSessions
  <2> HIDE DEF now
  <2>2. pass'[1].pc = "decide"
    <3>1. pass[1] \in PassState
      BY <1>1
    <3>2. QED
      BY <2>1, <3>1 DEF PassState
  <2>3. UNCHANGED stored
    BY <1>6 DEF ListSessions
  <2>4. QED
    BY <1>2, <1>3, <1>4, <2>2, <2>3, BackedMoves
<1>7. CASE FinishPlan(1) \/ FinishDrain(1)
  <2>1. pass'[1].pc \in {"save", "done"} /\ UNCHANGED stored
    BY <1>1, <1>7 DEF FinishPlan, FinishDrain, IdlePass
  <2>2. QED
    BY <1>2, <1>3, <1>4, <2>1, BackedMoves
<1>8. CASE PlanSaved(1)
  <2> DEFINE waits == \E i \in 1..Len(pendingRestores) : pendingRestores[i].revivable
  <2>1. pass'[1] = [pass[1] EXCEPT !.pc = "grace", !.revivable = waits] /\ stored' = mapping
    BY <1>1, <1>8 DEF PlanSaved
  <2> HIDE DEF waits
  <2>2. pass'[1].pc = "grace"
    BY <1>1, <2>1 DEF PassState
  <2>3. QED
    BY <1>2, <1>3, <1>4, <2>1, <2>2, BackedMoves
<1>9. CASE PlanRejected(1)
  <2>1. pass'[1].pc = "done" /\ UNCHANGED stored
    BY <1>1, <1>9 DEF PlanRejected, PassState
  <2>2. QED
    BY <1>2, <1>3, <1>4, <2>1, BackedMoves
<1>10. CASE GraceOver(1) \/ PollWindow(1) \/ StopWaiting(1)
  <2>1. \E c \in {"watch", "flush"} : pass' = [pass EXCEPT ![1].pc = c]
    BY <1>10 DEF GraceOver, PollWindow, StopWaiting
  <2>2. pass'[1].pc \in {"watch", "flush"}
    BY <1>1, <2>1 DEF PassState
  <2>3. pass[1].pc \in {"grace", "watch"} /\ UNCHANGED stored
    BY <1>10 DEF GraceOver, PollWindow, StopWaiting
  <2>4. QED
    BY <1>2, <1>3, <1>4, <2>2, <2>3, BackedMoves
<1>11. QED
  BY <1>5, <1>6, <1>7, <1>8, <1>9, <1>10

\* Resolving one slot queues it only once it is mapped, and before anything is
\* shown or granted.
LEMMA ResolvingKeepsBacked ==
    ASSUME TypeOK, OneWindow, Backed, 1 \in Pass, ResolveSlot(1) \/ HasSession(1)
    PROVE  Backed'
<1> DEFINE s == First(pass[1].todo)
<1>1. pass \in [Pass -> PassState] /\ pendingRestores \in Seq(Entry)
  BY DEF TypeOK, PassTypeOK, LocalTypeOK
<1>2. Shown' = {} /\ \A r \in Requests : request'[r].pc \in {"idle", "gate"}
  <2>1. Shown = {} /\ \A r \in Requests : request[r].pc \in {"idle", "gate"}
    BY DEF OneWindow, GateShut, ResolveSlot, HasSession
  <2>2. QED
    BY <2>1 DEF ResolveSlot, HasSession, Shown
<1>3. CASE ResolveSlot(1)
  <2> DEFINE action == DecideSlotAction(s \in mapping, s \in openSlots, pass[1].seen[s])
  <2>1. \/ /\ action = "skip"
           /\ pass' = [pass EXCEPT ![1].todo = @ \ {s}]
           /\ UNCHANGED <<mapping, pendingRestores>>
        \/ /\ action = "adopt"
           /\ mapping' = mapping \cup {s}
           /\ Enqueue(s, FALSE, FALSE)
           /\ pass' = [pass EXCEPT ![1].todo = @ \ {s}]
        \/ /\ action \in {"restore", "restore-takeover"}
           /\ pass' = [pass EXCEPT ![1].pc = "probe"]
           /\ UNCHANGED <<mapping, pendingRestores>>
    BY <1>3 DEF ResolveSlot
  <2>2. action \in {"restore", "restore-takeover"} => s \in mapping
    BY DEF DecideSlotAction
  <2> HIDE DEF action
  <2>3. pass[1].pc = "decide" /\ UNCHANGED stored
    BY <1>3 DEF ResolveSlot
  <2>4. CASE pass' = [pass EXCEPT ![1].todo = @ \ {s}] /\ UNCHANGED <<mapping, pendingRestores>>
    <3>1. pass'[1].pc = "decide"
      BY <1>1, <2>3, <2>4 DEF PassState
    <3>2. Slots(pendingRestores)' = Slots(pendingRestores)
      BY <2>4 DEF Slots
    <3>3. QED
      BY <1>2, <2>4, <3>1, <3>2 DEF Backed
  <2>5. CASE /\ mapping' = mapping \cup {s}
             /\ Enqueue(s, FALSE, FALSE)
             /\ pass' = [pass EXCEPT ![1].todo = @ \ {s}]
    <3>1. pass'[1].pc = "decide"
      BY <1>1, <2>3, <2>5 DEF PassState
    <3>2. Slots(pendingRestores') = Slots(pendingRestores) \cup {s}
      BY <1>1, <2>5, SlotsOfAppend DEF Enqueue
    <3>3. Slots(pendingRestores)' = Slots(pendingRestores')
      BY DEF Slots
    <3>4. QED
      BY <1>2, <2>5, <3>1, <3>2, <3>3 DEF Backed
  <2>6. CASE /\ action \in {"restore", "restore-takeover"}
             /\ pass' = [pass EXCEPT ![1].pc = "probe"]
             /\ UNCHANGED <<mapping, pendingRestores>>
    <3>1. pass'[1].pc = "probe" /\ pass'[1].todo = pass[1].todo
      BY <1>1, <2>6 DEF PassState
    <3>2. First(pass[1].todo)' = s
      BY <3>1 DEF First
    <3>3. Slots(pendingRestores)' = Slots(pendingRestores)
      BY <2>6 DEF Slots
    <3>4. QED
      BY <1>2, <2>2, <2>6, <3>1, <3>2, <3>3 DEF Backed
  <2>7. QED
    BY <2>1, <2>4, <2>5, <2>6
<1>4. CASE HasSession(1)
  <2>1. s \in pass[1].todo /\ s \in mapping /\ pass[1].pc = "probe"
    <3>1. pass[1].todo \in SUBSET Slot /\ pass[1].todo # {}
      BY <1>4 DEF TypeOK, PassTypeOK, PassState, HasSession
    <3>2. QED
      BY <1>4, <3>1, FirstIsLeast DEF HasSession, Backed
  <2>2. pass'[1].pc = "decide"
    BY <1>1, <1>4 DEF HasSession, PassState
  <2>3. \/ UNCHANGED mapping /\ (UNCHANGED pendingRestores \/ \E b \in BOOLEAN : Enqueue(s, b, TRUE))
        \/ mapping' = mapping \ {s} /\ UNCHANGED pendingRestores
    BY <1>4 DEF HasSession
  <2>4. UNCHANGED pendingRestores => Slots(pendingRestores)' = Slots(pendingRestores)
    BY DEF Slots
  <2>5. s \notin Slots(pendingRestores)
    BY <2>1 DEF OneWindow, QueueApart
  <2>6. (\E b \in BOOLEAN : Enqueue(s, b, TRUE))
            => Slots(pendingRestores)' = Slots(pendingRestores) \cup {s}
    <3>1. ASSUME NEW b \in BOOLEAN, Enqueue(s, b, TRUE)
          PROVE  Slots(pendingRestores') = Slots(pendingRestores) \cup {s}
      BY <1>1, <3>1, SlotsOfAppend DEF Enqueue
    <3>2. Slots(pendingRestores)' = Slots(pendingRestores')
      BY DEF Slots
    <3>3. QED
      BY <3>1, <3>2
  <2>7. Slots(pendingRestores)' \subseteq mapping'
    <3>1. Slots(pendingRestores) \subseteq mapping
      BY DEF Backed
    <3> DEFINE queued == \E b \in BOOLEAN : Enqueue(s, b, TRUE)
    <3>2. \/ UNCHANGED mapping /\ (UNCHANGED pendingRestores \/ queued)
          \/ mapping' = mapping \ {s} /\ UNCHANGED pendingRestores
      BY <2>3
    <3>3. queued => Slots(pendingRestores)' = Slots(pendingRestores) \cup {s}
      BY <2>6
    <3> HIDE DEF s, queued
    <3>4. QED
      BY <2>1, <2>4, <2>5, <3>1, <3>2, <3>3
  <2>8. QED
    BY <1>2, <2>2, <2>7 DEF Backed
<1>5. QED
  BY <1>3, <1>4

LEMMA DrainKeepsBacked ==
    ASSUME TypeOK, Backed, OneWindow, 1 \in Pass, TakeQueue(1) \/ Reopen(1)
    PROVE  Backed'
<1>1. pass \in [Pass -> PassState]
  BY DEF TypeOK, PassTypeOK
<1>2. UNCHANGED <<request, stored>> /\ (UNCHANGED mapping)
  BY NothingToAdopt DEF OneWindow, TakeQueue, Reopen
<1>3. CASE TakeQueue(1)
  <2>1. /\ pass'[1].pc = "drain" /\ pass'[1].rest = pendingRestores /\ pass[1].pc = "flush"
        /\ pendingRestores' = <<>> /\ UNCHANGED tab
    BY <1>1, <1>3 DEF TakeQueue, PassState
  <2>2. /\ Slots(pass[1].rest)' = Slots(pendingRestores)
        /\ Slots(pendingRestores)' = {}
        /\ Shown' = Shown
    BY <2>1, EmptyQueue DEF Slots, Shown
  <2>3. QED
    BY <1>2, <2>1, <2>2 DEF Backed
<1>4. CASE Reopen(1)
  <2> DEFINE e == Head(pass[1].rest)
  <2>1. /\ pass'[1].pc = "drain" /\ pass'[1].rest = Tail(pass[1].rest) /\ pass[1].pc = "drain"
        /\ UNCHANGED pendingRestores
    BY <1>1, <1>4 DEF Reopen, PassState
  <2>2. pass[1].rest \in Seq(Entry) /\ pass[1].rest # <<>>
    BY <1>1, <1>4 DEF Reopen, PassState
  <2>3. e.slot \in Slots(pass[1].rest) /\ Slots(Tail(pass[1].rest)) \subseteq Slots(pass[1].rest)
    BY <2>2, SlotsOfTail
  <2>4. e \in Entry /\ e.slot \in Slot
    BY <2>2, QueueHeadTail DEF Entry
  <2>5. \/ UNCHANGED tab
        \/ \E t \in FreeTabs : Launch(t, e.slot, e.takeOver)
    BY <1>4 DEF Reopen
  <2> HIDE DEF e
  <2>6. \A t \in Shown' : \/ t \in Shown /\ tab'[t].slot = tab[t].slot
                          \/ tab'[t].slot = e.slot
    <3>1. CASE UNCHANGED tab
      BY <3>1 DEF Shown
    <3>2. ASSUME NEW t \in FreeTabs, Launch(t, e.slot, e.takeOver)
          PROVE  /\ Shown' = Shown \cup {t} /\ tab'[t].slot = e.slot
                 /\ \A u \in Shown : tab'[u].slot = tab[u].slot
      BY <2>4, <3>2, LaunchShows DEF TypeOK
    <3>3. QED
      BY <2>5, <3>1, <3>2
  <2>7. /\ Slots(pendingRestores)' = Slots(pendingRestores)
        /\ Slots(pass[1].rest)' = Slots(Tail(pass[1].rest))
    BY <2>1 DEF Slots
  <2>8. Slots(pass[1].rest) \subseteq mapping \cap stored
    BY <2>1 DEF Backed
  <2>9. \A t \in Shown' : tab'[t].slot \in mapping \cap stored
    BY <2>3, <2>6, <2>8 DEF Backed
  <2>10. QED
    BY <1>2, <2>1, <2>3, <2>7, <2>8, <2>9 DEF Backed
<1>5. QED
  BY <1>3, <1>4

LEMMA RequestKeepsBacked ==
    ASSUME TypeOK, OneWindow, Backed, Pass = {1}, NEW r \in Requests,
           AskProfile(r) \/ Answer(r) \/ SpawnTab(r)
    PROVE  Backed'
<1>1. request \in [Requests -> RequestState] /\ pendingRestores \in Seq(Entry)
  BY DEF TypeOK, CallTypeOK, LocalTypeOK
<1>2. UNCHANGED pass
  BY DEF AskProfile, Answer, ClaimPending, StartNew, ChooseSlot, ConfirmSlot, ProfileSaved,
     ProfileRejected, SpawnTab, local
<1>3. \A q \in Requests : q # r => request'[q] = request[q]
  BY <1>1 DEF AskProfile, Answer, ClaimPending, StartNew, ChooseSlot, ConfirmSlot, ProfileSaved,
     ProfileRejected, SpawnTab
<1>4. CASE AskProfile(r) \/ StartNew(r) \/ ChooseSlot(r) \/ ProfileRejected(r)
  <2>1. request'[r].pc \in {"gate", "probe1", "probe2", "failed"}
    BY <1>1, <1>4 DEF AskProfile, StartNew, ChooseSlot, ProfileRejected, RequestState
  <2>2. UNCHANGED <<mapping, stored, pendingRestores, tab>>
    BY <1>4 DEF AskProfile, StartNew, ChooseSlot, ProfileRejected, local
  <2>3. QED
    BY <1>2, <1>3, <2>1, <2>2, BackedStays DEF Shown
<1>5. CASE ClaimPending(r)
  <2> DEFINE e == Head(pendingRestores)
  <2>1. /\ pendingRestores # <<>> /\ pendingRestores' = Tail(pendingRestores)
        /\ mapping' = mapping \cup {e.slot}
        /\ request' = [request EXCEPT ![r] = [@ EXCEPT !.pc = "save", !.slot = e.slot,
                                                     !.takeOver = e.takeOver]]
        /\ UNCHANGED <<stored, tab>>
    BY <1>5 DEF ClaimPending
  <2>2. Slots(Tail(pendingRestores)) \subseteq Slots(pendingRestores)
    BY <1>1, <2>1, SlotsOfTail
  <2> HIDE DEF e
  <2>3. request'[r].pc = "save" /\ request'[r].slot = e.slot
    BY <1>1, <2>1 DEF RequestState
  <2>4. /\ Slots(pendingRestores)' = Slots(Tail(pendingRestores))
        /\ Slots(pass[1].rest)' = Slots(pass[1].rest)
        /\ First(pass[1].todo)' = First(pass[1].todo)
        /\ Shown' = Shown
    BY <1>2, <2>1 DEF Slots, First, Shown
  <2>5. QED
    BY <1>2, <1>3, <2>1, <2>2, <2>3, <2>4 DEF Backed
<1>6. CASE ConfirmSlot(r)
  <2>1. PICK new : /\ mapping' = mapping \cup {new}
                   /\ request' = [request EXCEPT ![r] = [@ EXCEPT !.pc = "save", !.slot = new]]
    BY <1>6 DEF ConfirmSlot
  <2>2. request'[r].pc = "save" /\ request'[r].slot = new
    BY <1>1, <2>1 DEF RequestState
  <2>3. UNCHANGED <<stored, tab, pendingRestores>>
    BY <1>6 DEF ConfirmSlot
  <2>4. /\ Slots(pendingRestores)' = Slots(pendingRestores)
        /\ Slots(pass[1].rest)' = Slots(pass[1].rest)
        /\ First(pass[1].todo)' = First(pass[1].todo)
        /\ Shown' = Shown
    BY <1>2, <2>3 DEF Slots, First, Shown
  <2>5. QED
    BY <1>2, <1>3, <2>1, <2>2, <2>3, <2>4 DEF Backed
<1>7. CASE ProfileSaved(r)
  <2>1. /\ request[r].pc = "save" /\ request'[r].pc = "granted" /\ request'[r].slot = request[r].slot
        /\ stored' = mapping /\ UNCHANGED <<mapping, tab, pendingRestores>>
    BY <1>1, <1>7 DEF ProfileSaved, RequestState
  <2>2. /\ Slots(pendingRestores)' = Slots(pendingRestores)
        /\ Slots(pass[1].rest)' = Slots(pass[1].rest)
        /\ First(pass[1].todo)' = First(pass[1].todo)
        /\ Shown' = Shown
    BY <1>2, <2>1 DEF Slots, First, Shown
  <2>3. \A q \in Requests : request'[q].pc \in {"save", "granted"} => request'[q].slot \in mapping
    BY <1>3, <2>1 DEF Backed
  <2>4. QED
    BY <1>2, <2>1, <2>2, <2>3 DEF Backed
<1>8. CASE SpawnTab(r)
  <2> DEFINE s == request[r].slot
  <2>1. /\ request[r].pc = "granted" /\ request'[r].pc = "done"
        /\ UNCHANGED <<mapping, stored, pendingRestores>>
    BY <1>1, <1>8 DEF SpawnTab, IdleRequest, local
  <2>2. s \in Slot /\ s \in mapping \cap stored
    BY <1>1, <2>1 DEF RequestState, Backed
  <2>3. PICK t \in FreeTabs : Launch(t, s, request[r].takeOver)
    BY <1>8 DEF SpawnTab
  <2>4. /\ Shown' = Shown \cup {t} /\ tab'[t].slot = s
        /\ \A u \in Shown : tab'[u].slot = tab[u].slot
    BY <2>2, <2>3, LaunchShows DEF TypeOK
  <2>5. /\ Slots(pendingRestores)' = Slots(pendingRestores)
        /\ Slots(pass[1].rest)' = Slots(pass[1].rest)
        /\ First(pass[1].todo)' = First(pass[1].todo)
    BY <1>2, <2>1 DEF Slots, First
  <2> HIDE DEF s
  <2>6. \A u \in Shown' : tab'[u].slot \in mapping \cap stored
    BY <2>2, <2>4 DEF Backed
  <2>7. \A q \in Requests : /\ request'[q].pc \in {"save", "granted"} => request'[q].slot \in mapping
                            /\ request'[q].pc = "granted" => request'[q].slot \in stored
    BY <1>3, <2>1 DEF Backed
  <2>8. QED
    BY <1>2, <2>1, <2>5, <2>6, <2>7 DEF Backed
<1>9. QED
  BY <1>4, <1>5, <1>6, <1>7, <1>8 DEF Answer

\* A closed tab takes its slot from the mapping; whoever else needs a slot to be
\* mapped has another one.
LEMMA TabClosedKeepsBacked ==
    ASSUME TypeOK, OneWindow, Backed, Pass = {1}, NEW t \in Tabs, TabClosed(t)
    PROVE  Backed'
<1> DEFINE s == tab[t].slot
<1>1. t \in Shown /\ s \in Slot /\ s \in openSlots
  BY DEF TabClosed, TypeOK, OutsideTypeOK, TabState, OneWindow, ClaimsApart, Shown
<1>2. /\ Shown' = Shown \ {t}
      /\ \A u \in Shown \ {t} : tab'[u] = tab[u] /\ tab[u].slot # s
  BY DEF TabClosed, TypeOK, OutsideTypeOK, NoTab, Shown, OneWindow, ClaimsApart
<1>3. UNCHANGED <<pendingRestores, pass, request, stored>> /\ mapping \ {s} \subseteq mapping'
  BY DEF TabClosed
<1>4. \A r \in Requests : request[r].pc \in {"save", "granted"} => request[r].slot # s
  BY <1>1 DEF OneWindow, ClaimsApart, Holds
<1>5. s \notin Slots(pendingRestores)
  BY <1>1 DEF OneWindow, QueueApart, Apart, Slots
<1>6. pass[1].pc \notin {"drain", "probe"}
  BY <1>1 DEF TabClosed, Idle, OneWindow, GateShut
<1>7. Slots(pendingRestores)' = Slots(pendingRestores)
  BY <1>3 DEF Slots
<1> HIDE DEF s
<1>8. \A u \in Shown' : tab'[u].slot \in mapping' \cap stored'
  BY <1>2, <1>3 DEF Backed
<1>9. Slots(pendingRestores)' \subseteq mapping'
  BY <1>3, <1>5, <1>7 DEF Backed
<1>10. QED
  BY <1>3, <1>4, <1>6, <1>7, <1>8, <1>9 DEF Backed

LEMMA OutsideKeepsBacked ==
    ASSUME TypeOK, OneWindow, Backed,
           \/ \E t \in Tabs : TabOpened(t) \/ UserCloses(t)
           \/ \E s \in Slot : KillSettles(s) \/ ProcessExits(s)
           \/ \E s \in Slot : ForeignAttaches(s) \/ ForeignDetaches(s)
           \/ BackgroundSaved
           \/ UNCHANGED vars
    PROVE  Backed'
<1>1. Steady
  <2>1. ASSUME NEW t \in Tabs, TabOpened(t) \/ UserCloses(t) PROVE Steady
    <3>1. tab'[t].st = "open" /\ tab[t].st \in {"born", "open"} /\ tab'[t].slot = tab[t].slot
      BY <2>1 DEF TabOpened, UserCloses, TypeOK, OutsideTypeOK, TabState
    <3>2. \A u \in Tabs : u # t => tab'[u] = tab[u]
      BY <2>1 DEF TabOpened, UserCloses, TypeOK, OutsideTypeOK
    <3>3. QED
      BY <3>1, <3>2 DEF Steady
  <2>2. ASSUME NEW s \in Slot, tab' = Exits({s}) PROVE Steady
    BY <2>2, ExitsSteady DEF Steady, TypeOK
  <2>3. ASSUME UNCHANGED tab PROVE Steady
    BY <2>3 DEF Steady
  <2>4. QED
    BY <2>1, <2>2, <2>3 DEF KillSettles, ProcessExits, ForeignAttaches, ForeignDetaches,
       BackgroundSaved, vars
<1>2. UNCHANGED <<pass, pendingRestores, request, mapping>> /\ (stored' = stored \/ stored' = mapping)
  BY DEF TabOpened, UserCloses, KillSettles, ProcessExits, ForeignAttaches, ForeignDetaches,
     BackgroundSaved, vars, local
<1>3. \A t \in Shown' : t \in Shown /\ tab'[t].slot = tab[t].slot
  BY <1>1, SteadyShown DEF Steady, Shown
<1>4. QED
  BY <1>2, <1>3, BackedStays

LEMMA BackedInv ==
    ASSUME MaxPass = 1, PtyReconnect = FALSE
    PROVE  Spec => []Backed
<1>1. Pass = {1}
  BY DEF Pass
<1>2. Init => Backed
  BY <1>1, EmptyQueue DEF Init, Backed, Shown, IdlePass, IdleRequest, NoTab
<1>3. TypeOK /\ OneWindow /\ Backed /\ [Next]_vars => Backed'
  <2> SUFFICES ASSUME TypeOK, OneWindow, Backed, [Next]_vars PROVE Backed'
    OBVIOUS
  <2>1. ASSUME Initialize(1) \/ PollWindow(1) \/ Provider(1) PROVE Backed'
    BY <1>1, <2>1, PassKeepsBacked, ResolvingKeepsBacked, DrainKeepsBacked DEF Provider
  <2>2. ASSUME NEW s \in Slot PROVE ~ ReconnectPty(s)
    BY DEF ReconnectPty, OneWindow, GateShut
  <2>3. QED
    BY <1>1, <2>1, <2>2, RequestKeepsBacked, TabClosedKeepsBacked, OutsideKeepsBacked DEF Next
<1>4. QED
  BY <1>2, <1>3, TypeCorrect, OneWindowInv, PTL DEF Spec

\* In a window wired once, with no pty reconnected, every session on screen or
\* about to be is in workspaceState, whatever writes fail or land late: the next
\* window finds it (terminalProvider.ts:570 and 601, the mapping is saved before
\* the profile is returned).
THEOREM WriteAheadHolds ==
    ASSUME MaxPass = 1, PtyReconnect = FALSE
    PROVE  Spec => []WriteAhead
<1>1. Backed => WriteAhead
  BY DEF Backed, WriteAhead, Holding, Showing, Connected
<1>2. QED
  BY <1>1, BackedInv, PTL

------------------------------------------------------------------------------
(* Every slot in openSlots is somebody's. *)

Exact == Recorded /\ Accounted

\* A step that opens no slot, takes none from a request and only moves tabs on.
LEMMA ExactStays ==
    ASSUME Exact, Steady, UNCHANGED <<openSlots, terminalSlots, discardedDuplicates>>,
           \A t \in Tabs : tab'[t].st = "open" <=> tab[t].st = "open",
           \A r \in Requests : Holds(r) => Holds(r)' /\ request'[r].slot = request[r].slot
    PROVE  Exact'
<1>1. Shown' = Shown
  BY SteadyShown
<1>2. Recorded'
  BY DEF Exact, Recorded
<1>3. Accounted'
  BY <1>1 DEF Exact, Accounted, Steady, Shown
<1>4. QED
  BY <1>2, <1>3 DEF Exact

LEMMA PassKeepsExact ==
    ASSUME TypeOK, OneWindow, Exact, 1 \in Pass,
           Initialize(1) \/ PollWindow(1) \/ Provider(1), ~ Reopen(1)
    PROVE  Exact'
<1>1. UNCHANGED <<openSlots, terminalSlots, discardedDuplicates, tab, request>>
  BY NothingToAdopt DEF OneWindow, Provider, Initialize, ListSessions, ResolveSlot, HasSession,
     FinishPlan, PlanSaved, PlanRejected, GraceOver, PollWindow, StopWaiting, TakeQueue,
     FinishDrain, local
<1>2. QED
  BY <1>1, ExactStays DEF Steady, Holds

\* A terminal that starts is not open yet, and shows the slot it was started for.
LEMMA LaunchBears ==
    ASSUME OutsideTypeOK, NEW t \in FreeTabs, NEW s \in Slot, NEW takeOver, Launch(t, s, takeOver)
    PROVE  \A u \in Tabs : tab'[u].st = "open" <=> tab[u].st = "open"
<1>1. \A u \in Tabs : Exits({s})[u].st = tab[u].st
  BY ExitsSteady
<1> DEFINE base == IF takeOver THEN Exits({s}) ELSE tab
           new == [st |-> "born", slot |-> s, ending |-> "no"]
<1>2. /\ t \in Tabs /\ tab[t].st = "none"
      /\ \A u \in Tabs : base[u].st = tab[u].st
      /\ base = [u \in Tabs |-> base[u]]
  BY <1>1 DEF FreeTabs, OutsideTypeOK, Exits
<1>3. tab' = [base EXCEPT ![t] = new] /\ new.st = "born"
  BY DEF Launch
<1> HIDE DEF base, new
<1>4. tab'[t] = new /\ \A u \in Tabs : u # t => tab'[u] = base[u]
  BY <1>2, <1>3
<1>5. QED
  BY <1>2, <1>3, <1>4

LEMMA ReopenKeepsExact ==
    ASSUME TypeOK, Exact, 1 \in Pass, Reopen(1)
    PROVE  Exact'
<1> DEFINE e == Head(pass[1].rest)
<1>1. e \in Entry /\ e.slot \in Slot
  <2>1. pass[1].rest \in Seq(Entry) /\ pass[1].rest # <<>>
    BY DEF Reopen, TypeOK, PassTypeOK, PassState
  <2>2. QED
    BY <2>1, QueueHeadTail DEF Entry
<1>2. \/ UNCHANGED <<openSlots, tab>>
      \/ openSlots' = openSlots \cup {e.slot} /\ \E t \in FreeTabs : Launch(t, e.slot, e.takeOver)
  BY DEF Reopen
<1>3. UNCHANGED <<request, terminalSlots, discardedDuplicates>>
  BY DEF Reopen
<1> HIDE DEF e
<1>4. CASE UNCHANGED <<openSlots, tab>>
  BY <1>3, <1>4, ExactStays DEF Steady, Holds
<1>5. CASE openSlots' = openSlots \cup {e.slot} /\ \E t \in FreeTabs : Launch(t, e.slot, e.takeOver)
  <2>1. PICK t \in FreeTabs : Launch(t, e.slot, e.takeOver)
    BY <1>5
  <2>2. /\ Shown' = Shown \cup {t} /\ tab'[t].slot = e.slot
        /\ \A u \in Shown : tab'[u].slot = tab[u].slot
    BY <1>1, <2>1, LaunchShows DEF TypeOK
  <2>3. \A u \in Tabs : tab'[u].st = "open" <=> tab[u].st = "open"
    BY <1>1, <2>1, LaunchBears DEF TypeOK
  <2>4. Recorded'
    BY <1>3, <2>3 DEF Exact, Recorded
  <2>5. Accounted'
    BY <1>3, <1>5, <2>2 DEF Exact, Accounted, Holds
  <2>6. QED
    BY <2>4, <2>5 DEF Exact
<1>6. QED
  BY <1>2, <1>4, <1>5

LEMMA RequestKeepsExact ==
    ASSUME TypeOK, OneWindow, Exact, NEW r \in Requests, AskProfile(r) \/ Answer(r) \/ SpawnTab(r)
    PROVE  Exact'
<1>1. request \in [Requests -> RequestState] /\ pendingRestores \in Seq(Entry)
  BY DEF TypeOK, CallTypeOK, LocalTypeOK
<1>2. UNCHANGED <<terminalSlots, discardedDuplicates>>
  BY DEF AskProfile, Answer, ClaimPending, StartNew, ChooseSlot, ConfirmSlot, ProfileSaved,
     ProfileRejected, SpawnTab, local
<1>3. \A q \in Requests : q # r => request'[q] = request[q]
  BY <1>1 DEF AskProfile, Answer, ClaimPending, StartNew, ChooseSlot, ConfirmSlot, ProfileSaved,
     ProfileRejected, SpawnTab
<1>4. CASE AskProfile(r) \/ StartNew(r)
  <2>1. ~ Holds(r) /\ UNCHANGED <<openSlots, tab>>
    BY <1>4 DEF AskProfile, StartNew, Holds, local
  <2>2. QED
    BY <1>2, <1>3, <2>1, ExactStays DEF Steady, Holds
<1>5. CASE ProfileSaved(r) \/ ProfileRejected(r)
  <2>1. /\ request'[r].pc \in {"granted", "failed"} /\ request'[r].slot = request[r].slot
        /\ UNCHANGED <<openSlots, tab>>
    BY <1>1, <1>5 DEF ProfileSaved, ProfileRejected, RequestState
  <2>2. QED
    BY <1>2, <1>3, <2>1, ExactStays DEF Steady, Holds
<1>6. ASSUME NEW s, openSlots' = openSlots \cup {s}, ~ Holds(r),
             request'[r].pc \in {"save", "probe2"}, request'[r].slot = s, UNCHANGED tab
      PROVE  Exact'
  <2>1. Holds(r)' /\ \A q \in Requests : Holds(q) => Holds(q)' /\ request'[q].slot = request[q].slot
    BY <1>3, <1>6 DEF Holds
  <2>2. Accounted'
    BY <1>6, <2>1 DEF Exact, Accounted, Shown
  <2>3. QED
    BY <1>2, <1>6, <2>2 DEF Exact, Recorded
<1>7. CASE ClaimPending(r)
  <2> DEFINE e == Head(pendingRestores)
  <2>1. /\ openSlots' = openSlots \cup {e.slot} /\ request[r].pc = "gate" /\ UNCHANGED tab
        /\ request' = [request EXCEPT ![r] = [@ EXCEPT !.pc = "save", !.slot = e.slot,
                                                     !.takeOver = e.takeOver]]
    BY <1>7 DEF ClaimPending
  <2> HIDE DEF e
  <2>2. request'[r].pc = "save" /\ request'[r].slot = e.slot /\ ~ Holds(r)
    BY <1>1, <2>1 DEF RequestState, Holds
  <2>3. QED
    BY <1>6, <2>1, <2>2
<1>8. CASE ChooseSlot(r)
  <2> DEFINE s == First(Free(openSlots, attachedRemoteSlots'))
  <2>1. /\ openSlots' = openSlots \cup {s} /\ request[r].pc = "probe1" /\ UNCHANGED tab
        /\ request' = [request EXCEPT ![r].pc = "probe2", ![r].slot = s]
    BY <1>8 DEF ChooseSlot
  <2> HIDE DEF s
  <2>2. request'[r].pc = "probe2" /\ request'[r].slot = s /\ ~ Holds(r)
    BY <1>1, <2>1 DEF RequestState, Holds
  <2>3. QED
    BY <1>6, <2>1, <2>2
<1>9. CASE ConfirmSlot(r)
  <2> DEFINE old == request[r].slot
             new == IF old \in attachedRemoteSlots'
                      THEN First(Free(openSlots \ {old}, attachedRemoteSlots')) ELSE old
  <2>1. /\ openSlots' = (openSlots \ {old}) \cup {new} /\ request[r].pc = "probe2" /\ UNCHANGED tab
        /\ request' = [request EXCEPT ![r] = [@ EXCEPT !.pc = "save", !.slot = new]]
    BY <1>9 DEF ConfirmSlot, Reassign
  <2> HIDE DEF new
  <2>2. request'[r].pc = "save" /\ request'[r].slot = new
    BY <1>1, <2>1 DEF RequestState
  <2>3. Holds(r)' /\ \A q \in Requests : q # r => Holds(q)' = Holds(q)
    BY <1>3, <2>2 DEF Holds
  <2>4. \A s \in openSlots : s # old =>
            \/ \E q \in Requests : q # r /\ Holds(q) /\ request[q].slot = s
            \/ \E t \in Shown : tab[t].slot = s
    BY DEF Exact, Accounted
  <2>5. Accounted'
    BY <1>3, <2>1, <2>2, <2>3, <2>4 DEF Accounted, Shown
  <2>6. QED
    BY <1>2, <2>1, <2>5 DEF Exact, Recorded
<1>10. CASE SpawnTab(r)
  <2> DEFINE s == request[r].slot
  <2>1. /\ request[r].pc = "granted" /\ request'[r].pc = "done" /\ UNCHANGED openSlots
        /\ s \in Slot
    BY <1>1, <1>10 DEF SpawnTab, IdleRequest, RequestState, local
  <2>2. PICK t \in FreeTabs : Launch(t, s, request[r].takeOver)
    BY <1>10 DEF SpawnTab
  <2>3. /\ Shown' = Shown \cup {t} /\ tab'[t].slot = s
        /\ \A u \in Shown : tab'[u].slot = tab[u].slot
    BY <2>1, <2>2, LaunchShows DEF TypeOK
  <2>4. \A u \in Tabs : tab'[u].st = "open" <=> tab[u].st = "open"
    BY <2>1, <2>2, LaunchBears DEF TypeOK
  <2>5. Recorded'
    BY <1>2, <2>4 DEF Exact, Recorded
  <2>6. \A x \in openSlots : \/ x = s
                             \/ \E q \in Requests : q # r /\ Holds(q) /\ request[q].slot = x
                             \/ \E u \in Shown : tab[u].slot = x
    BY DEF Exact, Accounted
  <2>7. \A q \in Requests : q # r => Holds(q)' = Holds(q)
    BY <1>3 DEF Holds
  <2>8. Accounted'
    BY <1>3, <2>1, <2>3, <2>6, <2>7 DEF Accounted
  <2>9. QED
    BY <2>5, <2>8 DEF Exact
<1>11. QED
  BY <1>4, <1>5, <1>7, <1>8, <1>9, <1>10 DEF Answer

\* The window tells of a tab: no other has its slot, so it is recorded.
LEMMA TabOpenedKeepsExact ==
    ASSUME TypeOK, OneWindow, Exact, NEW t \in Tabs, TabOpened(t)
    PROVE  Exact'
<1>1. tab[t].st = "born" /\ t \in Shown
  BY DEF TabOpened, Shown
<1>2. t \notin terminalSlots /\ ~ \E h \in terminalSlots : tab[h].slot = tab[t].slot
  BY <1>1 DEF Exact, Recorded, OneWindow, ClaimsApart, Shown
<1>3. /\ tab' = [tab EXCEPT ![t].st = "open"]
      /\ terminalSlots' = terminalSlots \cup {t}
      /\ UNCHANGED <<discardedDuplicates, request>>
      /\ openSlots' = openSlots \cup {tab[t].slot}
  BY <1>2 DEF TabOpened
<1>4. UNCHANGED openSlots
  BY <1>1, <1>3 DEF OneWindow, ClaimsApart
<1>5. /\ tab'[t].st = "open" /\ tab'[t].slot = tab[t].slot
      /\ \A u \in Tabs : u # t => tab'[u] = tab[u]
  BY <1>3 DEF TypeOK, OutsideTypeOK, TabState
<1>6. Steady
  BY <1>1, <1>5 DEF Steady
<1>7. Shown' = Shown
  BY <1>6, SteadyShown
<1>8. Recorded'
  BY <1>3, <1>5 DEF Exact, Recorded
<1>9. Accounted'
  BY <1>3, <1>4, <1>6, <1>7 DEF Exact, Accounted, Holds, Steady, Shown
<1>10. QED
  BY <1>8, <1>9 DEF Exact

LEMMA TabClosedKeepsExact ==
    ASSUME TypeOK, OneWindow, Exact, NEW t \in Tabs, TabClosed(t)
    PROVE  Exact'
<1> DEFINE s == tab[t].slot
<1>1. t \in Shown /\ t \in terminalSlots /\ t \notin discardedDuplicates
  BY DEF TabClosed, Exact, Recorded, Shown
<1>2. /\ openSlots' = openSlots \ {s} /\ terminalSlots' = terminalSlots \ {t}
      /\ discardedDuplicates' = discardedDuplicates \ {t} /\ UNCHANGED request
  BY <1>1 DEF TabClosed
<1>3. tab'[t].st = "gone" /\ \A u \in Tabs : u # t => tab'[u] = tab[u]
  BY DEF TabClosed, TypeOK, OutsideTypeOK, NoTab
<1>4. Shown' = Shown \ {t}
  BY <1>3 DEF Shown
<1> HIDE DEF s
<1>5. Recorded'
  BY <1>2, <1>3 DEF Exact, Recorded
<1>6. \A x \in openSlots : x # s => \/ \E r \in Requests : Holds(r) /\ request[r].slot = x
                                    \/ \E u \in Shown : u # t /\ tab[u].slot = x
  BY DEF Exact, Accounted, s
<1>7. Accounted'
  BY <1>2, <1>3, <1>4, <1>6 DEF Accounted, Holds, Shown
<1>8. QED
  BY <1>5, <1>7 DEF Exact

LEMMA OutsideKeepsExact ==
    ASSUME TypeOK, Exact,
           \/ \E t \in Tabs : UserCloses(t)
           \/ \E s \in Slot : KillSettles(s) \/ ProcessExits(s)
           \/ \E s \in Slot : ForeignAttaches(s) \/ ForeignDetaches(s)
           \/ BackgroundSaved
           \/ UNCHANGED vars
    PROVE  Exact'
<1>1. \A u \in Tabs : tab'[u].slot = tab[u].slot /\ tab'[u].st = tab[u].st
  <2>1. ASSUME NEW t \in Tabs, UserCloses(t)
        PROVE  \A u \in Tabs : tab'[u].slot = tab[u].slot /\ tab'[u].st = tab[u].st
    BY <2>1 DEF UserCloses, TypeOK, OutsideTypeOK, TabState
  <2>2. ASSUME NEW s \in Slot, tab' = Exits({s})
        PROVE  \A u \in Tabs : tab'[u].slot = tab[u].slot /\ tab'[u].st = tab[u].st
    BY <2>2, ExitsSteady DEF TypeOK
  <2>3. QED
    BY <2>1, <2>2 DEF KillSettles, ProcessExits, ForeignAttaches, ForeignDetaches,
       BackgroundSaved, vars
<1>2. UNCHANGED <<openSlots, terminalSlots, discardedDuplicates, request>>
  BY DEF UserCloses, KillSettles, ProcessExits, ForeignAttaches, ForeignDetaches,
     BackgroundSaved, vars, local
<1>3. QED
  BY <1>1, <1>2, ExactStays DEF Steady, Holds

LEMMA ExactInv ==
    ASSUME MaxPass = 1, PtyReconnect = FALSE
    PROVE  Spec => []Exact
<1>1. Pass = {1}
  BY DEF Pass
<1>2. Init => Exact
  BY DEF Init, Exact, Recorded, Accounted, NoTab
<1>3. TypeOK /\ OneWindow /\ Exact /\ [Next]_vars => Exact'
  <2> SUFFICES ASSUME TypeOK, OneWindow, Exact, [Next]_vars PROVE Exact'
    OBVIOUS
  <2>1. ASSUME Initialize(1) \/ PollWindow(1) \/ Provider(1) PROVE Exact'
    BY <1>1, <2>1, PassKeepsExact, ReopenKeepsExact
  <2>2. ASSUME NEW s \in Slot PROVE ~ ReconnectPty(s)
    BY DEF ReconnectPty, OneWindow, GateShut
  <2>3. QED
    BY <1>1, <2>1, <2>2, RequestKeepsExact, TabOpenedKeepsExact, TabClosedKeepsExact,
       OutsideKeepsExact DEF Next
<1>4. QED
  BY <1>2, <1>3, TypeCorrect, OneWindowInv, PTL DEF Spec

\* In such a window openSlots is exactly what is in use: no slot leaks, and none
\* in use looks free, in whatever order tabs open and close while requests probe
\* and confirm (terminalProvider.ts:588-600).  A refused write keeps its slot.
THEOREM OpenSlotsHold ==
    ASSUME MaxPass = 1, PtyReconnect = FALSE
    PROVE  Spec => []OpenSlotsExact
<1>1. TypeOK /\ OneWindow /\ Exact => OpenSlotsExact
  <2> SUFFICES ASSUME TypeOK, OneWindow, Exact
               PROVE  openSlots = {s \in Slot : Holding(s) # {}}
                                    \cup {tab[t].slot : t \in Shown}
                                    \cup {request[r].slot : r \in {q \in Requests : request[q].pc = "failed"}}
    BY DEF OpenSlotsExact
  <2>1. openSlots \subseteq Slot /\ \A r \in Requests : request[r].slot \in Slot
    BY DEF TypeOK, LocalTypeOK, CallTypeOK, RequestState
  <2>2. ASSUME NEW s \in Slot
        PROVE  Holding(s) # {} \/ (\E r \in Requests : request[r].pc = "failed" /\ request[r].slot = s)
                 <=> \E r \in Requests : Holds(r) /\ request[r].slot = s
    BY DEF Holding, Holds
  <2>3. ASSUME NEW s \in Slot
        PROVE  s \in openSlots <=> \/ \E r \in Requests : Holds(r) /\ request[r].slot = s
                                  \/ \E t \in Shown : tab[t].slot = s
    BY DEF OneWindow, ClaimsApart, Exact, Accounted
  <2>4. \A t \in Shown : tab[t].slot \in Slot
    BY <2>1 DEF OneWindow, ClaimsApart
  <2>5. QED
    BY <2>1, <2>2, <2>3, <2>4
<1>2. QED
  BY <1>1, ExactInv, OneWindowInv, TypeCorrect, PTL

------------------------------------------------------------------------------
(* The window implements SessionOwner. *)

Given(r) == request[r].pc \in {"probe2", "save", "granted"}

\* What SessionOwner sees of a slot.
LEMMA Seeing ==
    ASSUME NEW s \in Slot
    PROVE  /\ Holders[s] = {r \in Requests : Given(r) /\ request[r].slot = s}
           /\ Viewers[s] = {t \in Shown : tab[t].slot = s}
           /\ s \in Killed <=> kills[s] > 0
           /\ Holders'[s] = {r \in Requests : Given(r)' /\ request'[r].slot = s}
           /\ Viewers'[s] = {t \in Shown' : tab'[t].slot = s}
           /\ s \in Killed' <=> kills'[s] > 0
BY DEF Holders, Viewers, Killed, Holding, Given

LEMMA Shapes ==
    /\ Holders = [s \in Slot |-> Holders[s]] /\ Holders' = [s \in Slot |-> Holders'[s]]
    /\ Viewers = [s \in Slot |-> Viewers[s]] /\ Viewers' = [s \in Slot |-> Viewers'[s]]
BY DEF Holders, Viewers

\* A slot outside openSlots with no kill on its way is free.
LEMMA FreeOfUsers ==
    ASSUME TypeOK, OneWindow, NEW s \in Slot, s \notin openSlots, kills[s] = 0
    PROVE  Owner!Free(s)
<1>1. \A r \in Requests : Given(r) => request[r].slot # s
  BY DEF OneWindow, ClaimsApart, Holds, Given
<1>2. \A t \in Shown : tab[t].slot # s
  BY DEF OneWindow, ClaimsApart
<1>3. QED
  BY <1>1, <1>2, Seeing DEF Owner!Free

\* A request that has a slot is alone with it.
LEMMA AloneWithSlot ==
    ASSUME TypeOK, OneWindow, NEW r \in Requests, Given(r)
    PROVE  /\ request[r].slot \in Slot
           /\ Holders[request[r].slot] = {r}
           /\ Viewers[request[r].slot] = {}
           /\ request[r].slot \notin Killed
<1>1. request[r].slot \in Slot
  BY DEF TypeOK, CallTypeOK, RequestState
<1>2. \A q \in Requests : Given(q) /\ request[q].slot = request[r].slot => q = r
  BY DEF OneWindow, ClaimsApart, Holds, Given
<1>3. /\ \A t \in Shown : tab[t].slot # request[r].slot
      /\ request[r].slot \in openSlots
  BY DEF OneWindow, ClaimsApart, Holds, Given
<1>4. ~ (kills[request[r].slot] > 0)
  BY <1>1, <1>3 DEF OneWindow, KillsApart
<1>5. QED
  BY <1>1, <1>2, <1>3, <1>4, Seeing

\* A step that moves no tab and no slot between requests at most saves.
LEMMA UsersStay ==
    ASSUME TypeOK', Backed', Steady, UNCHANGED kills,
           \A r \in Requests : /\ Given(r)' <=> Given(r)
                               /\ Given(r) => request'[r].slot = request[r].slot
    PROVE  Owner!Save
<1>1. Shown' = Shown
  BY SteadyShown
<1>2. ASSUME NEW s \in Slot PROVE Holders'[s] = Holders[s] /\ Viewers'[s] = Viewers[s]
  <2>1. {t \in Shown' : tab'[t].slot = s} = {t \in Shown : tab[t].slot = s}
    BY <1>1 DEF Steady, Shown
  <2>2. {r \in Requests : Given(r)' /\ request'[r].slot = s}
        = {r \in Requests : Given(r) /\ request[r].slot = s}
    OBVIOUS
  <2>3. Holders'[s] = Holders[s]
    BY <2>2, Seeing
  <2>4. Viewers'[s] = Viewers[s]
    BY <2>1, Seeing
  <2>5. QED
    BY <2>3, <2>4
<1>3. UNCHANGED <<Holders, Viewers, Killed>>
  <2>1. Holders' = Holders /\ Viewers' = Viewers
    BY <1>2, Shapes
  <2>2. Killed' = Killed
    BY DEF Killed
  <2>3. QED
    BY <2>1, <2>2
<1>4. stored' \subseteq Slot
  BY DEF TypeOK, OutsideTypeOK
<1>5. ASSUME NEW s \in Slot, Viewers[s] # {} PROVE s \in stored'
  <2>1. PICK t \in Shown' : tab'[t].slot = s
    BY <1>2, <1>5, Seeing
  <2>2. QED
    BY <2>1 DEF Backed
<1>6. QED
  BY <1>3, <1>4, <1>5 DEF Owner!Save

\* A request r and nobody else is given slot s, of which no one else is a holder.
LEMMA HoldsAlone ==
    ASSUME NEW r \in Requests, NEW s \in Slot, Holders[s] \subseteq {r},
           \A q \in Requests \ {r} : Given(q)' <=> Given(q),
           \A q \in Requests \ {r} : request'[q] = request[q],
           Given(r)', request'[r].slot = s
    PROVE  /\ Holders'[s] = {r}
           /\ \A x \in Slot \ {s} : Holders'[x] = Holders[x] \ {r}
<1>1. ASSUME NEW x \in Slot, NEW q \in Requests
      PROVE  q \in Holders'[x] <=> IF q = r THEN x = s ELSE q \in Holders[x]
  BY Seeing
<1>2. \A x \in Slot : Holders[x] \subseteq Requests /\ Holders'[x] \subseteq Requests
  BY Seeing
<1>3. \A q \in Requests : q \in Holders'[s] <=> q = r
  BY <1>1
<1>4. Holders'[s] = {r}
  BY <1>2, <1>3
<1>5. ASSUME NEW x \in Slot \ {s} PROVE Holders'[x] = Holders[x] \ {r}
  <2>1. \A q \in Requests : q \in Holders'[x] <=> q \in Holders[x] \ {r}
    BY <1>1
  <2>2. QED
    BY <1>2, <2>1
<1>6. QED
  BY <1>4, <1>5

\* A request loses its slot and gets no other.
LEMMA HoldsNoMore ==
    ASSUME TypeOK, OneWindow, NEW r \in Requests, Given(r), ~ Given(r)',
           \A q \in Requests \ {r} : request'[q] = request[q]
    PROVE  Holders' = [Holders EXCEPT ![request[r].slot] = {}]
<1>1. ASSUME NEW x \in Slot, NEW q \in Requests
      PROVE  q \in Holders'[x] <=> q # r /\ q \in Holders[x]
  BY Seeing DEF Given
<1>2. \A x \in Slot : Holders[x] \subseteq Requests /\ Holders'[x] \subseteq Requests
  BY Seeing
<1>3. request[r].slot \in Slot /\ Holders[request[r].slot] = {r}
  BY AloneWithSlot
<1>4. \A x \in Slot : x # request[r].slot => r \notin Holders[x]
  BY Seeing
<1>5. ASSUME NEW x \in Slot
      PROVE  Holders'[x] = IF x = request[r].slot THEN {} ELSE Holders[x]
  <2>1. \A q \in Requests : q \in Holders'[x] <=> q # r /\ q \in Holders[x]
    BY <1>1
  <2>2. QED
    BY <1>2, <1>3, <1>4, <2>1
<1>6. QED
  BY <1>3, <1>5, Shapes

\* No tab comes, goes or moves: the same slots are on screen.
LEMMA SameViewers ==
    ASSUME Steady
    PROVE  Viewers' = Viewers
<1>1. Shown' = Shown
  BY SteadyShown
<1>2. ASSUME NEW s \in Slot PROVE Viewers'[s] = Viewers[s]
  <2>1. {t \in Shown' : tab'[t].slot = s} = {t \in Shown : tab[t].slot = s}
    BY <1>1 DEF Steady, Shown
  <2>2. QED
    BY <2>1, Seeing
<1>3. QED
  BY <1>2, Shapes

\* A request is given a slot nobody uses.
LEMMA GivesSlot ==
    ASSUME TypeOK, OneWindow, NEW r \in Requests, ~ Given(r),
           NEW s \in Slot, s \notin openSlots, kills[s] = 0,
           UNCHANGED <<tab, kills, stored>>,
           Given(r)', request'[r].slot = s, \A q \in Requests \ {r} : request'[q] = request[q]
    PROVE  Owner!Claim(s)
<1>1. Owner!Free(s)
  BY FreeOfUsers
<1>2. \A q \in Requests \ {r} : Given(q)' <=> Given(q)
  BY DEF Given
<1>3. Holders[s] = {}
  BY <1>1 DEF Owner!Free
<1>4. /\ Holders'[s] = {r}
      /\ \A x \in Slot \ {s} : Holders'[x] = Holders[x] \ {r}
  BY <1>2, <1>3, HoldsAlone
<1>5. \A x \in Slot : r \notin Holders[x]
  BY Seeing
<1>6. \A x \in Slot : Holders'[x] = IF x = s THEN {r} ELSE Holders[x]
  <2>1. \A x \in Slot : Holders[x] \ {r} = Holders[x]
    BY <1>5
  <2>2. QED
    BY <1>4, <2>1
<1>7. Holders' = [Holders EXCEPT ![s] = {r}]
  BY <1>6, Shapes
<1>8. UNCHANGED <<Viewers, Killed, stored>>
  <2>1. Viewers' = Viewers
    BY SameViewers DEF Steady
  <2>2. QED
    BY <2>1 DEF Killed
<1>9. QED
  BY <1>1, <1>7, <1>8 DEF Owner!Claim

------------------------------------------------------------------------------
(* Each action is a step of SessionOwner. *)

\* Planning, the revive window and the end of the drain use no session.
LEMMA PassSaves ==
    ASSUME TypeOK, TypeOK', Backed',
           \E p \in Pass : \/ Initialize(p) \/ PollWindow(p) \/ ListSessions(p) \/ ResolveSlot(p)
                           \/ HasSession(p) \/ FinishPlan(p) \/ PlanSaved(p) \/ PlanRejected(p)
                           \/ GraceOver(p) \/ StopWaiting(p) \/ TakeQueue(p) \/ FinishDrain(p)
    PROVE  Owner!Save
<1>1. UNCHANGED <<request, kills, tab>>
  BY DEF Initialize, PollWindow, ListSessions, ResolveSlot, HasSession, FinishPlan, PlanSaved,
     PlanRejected, GraceOver, StopWaiting, TakeQueue, FinishDrain
<1>2. QED
  BY <1>1, UsersStay DEF Steady, Given

\* Nor does a request that waits, probes or is saved.
LEMMA WaitingSaves ==
    ASSUME TypeOK, TypeOK', Backed', NEW r \in Requests,
           AskProfile(r) \/ StartNew(r) \/ ProfileSaved(r)
    PROVE  Owner!Save
<1>1. /\ Given(r)' <=> Given(r)
      /\ Given(r) => request'[r].slot = request[r].slot
      /\ \A q \in Requests \ {r} : request'[q] = request[q]
  BY DEF AskProfile, StartNew, ProfileSaved, TypeOK, CallTypeOK, RequestState, Given
<1>2. UNCHANGED <<kills, tab>>
  BY DEF AskProfile, StartNew, ProfileSaved
<1>3. \A q \in Requests : /\ Given(q)' <=> Given(q)
                          /\ Given(q) => request'[q].slot = request[q].slot
  BY <1>1 DEF Given
<1>4. QED
  BY <1>2, <1>3, UsersStay DEF Steady

\* What ends a client, tells of a tab or happens elsewhere leaves every tab its slot.
LEMMA OutsideSaves ==
    ASSUME TypeOK, TypeOK', Backed',
           \/ \E t \in Tabs : TabOpened(t) \/ UserCloses(t)
           \/ \E s \in Slot : ProcessExits(s) \/ ForeignAttaches(s) \/ ForeignDetaches(s)
           \/ BackgroundSaved
           \/ UNCHANGED vars
    PROVE  Owner!Save
<1>1. Steady
  <2>1. ASSUME NEW t \in Tabs, TabOpened(t) \/ UserCloses(t) PROVE Steady
    <3>1. tab'[t].st = "open" /\ tab[t].st \in {"born", "open"} /\ tab'[t].slot = tab[t].slot
      BY <2>1 DEF TabOpened, UserCloses, TypeOK, OutsideTypeOK, TabState
    <3>2. \A u \in Tabs : u # t => tab'[u] = tab[u]
      BY <2>1 DEF TabOpened, UserCloses, TypeOK, OutsideTypeOK
    <3>3. QED
      BY <3>1, <3>2 DEF Steady
  <2>2. ASSUME NEW s \in Slot, tab' = Exits({s}) PROVE Steady
    BY <2>2, ExitsSteady DEF Steady, TypeOK
  <2>3. ASSUME UNCHANGED tab PROVE Steady
    BY <2>3 DEF Steady
  <2>4. QED
    BY <2>1, <2>2, <2>3 DEF ProcessExits, ForeignAttaches, ForeignDetaches, BackgroundSaved, vars
<1>2. UNCHANGED <<request, kills>>
  BY DEF TabOpened, UserCloses, ProcessExits, ForeignAttaches, ForeignDetaches, BackgroundSaved,
     vars
<1>3. QED
  BY <1>1, <1>2, UsersStay DEF Given

LEMMA ClaimPendingClaims ==
    ASSUME TypeOK, OneWindow, NEW r \in Requests, ClaimPending(r)
    PROVE  \E s \in Slot : Owner!Claim(s)
<1> DEFINE e == Head(pendingRestores)
<1>1. pendingRestores \in Seq(Entry) /\ pendingRestores # <<>> /\ Apart(pendingRestores)
  BY DEF TypeOK, LocalTypeOK, ClaimPending, OneWindow, QueueApart
<1>2. e.slot \notin openSlots /\ kills[e.slot] = 0 /\ e.slot \in Slot
  BY <1>1, ApartTail, QueueHeadTail DEF Entry
<1>3. /\ request' = [request EXCEPT ![r] = [@ EXCEPT !.pc = "save", !.slot = e.slot,
                                                   !.takeOver = e.takeOver]]
      /\ UNCHANGED <<stored, kills, tab>>
      /\ request[r].pc = "gate"
  BY DEF ClaimPending
<1> HIDE DEF e
<1>4. /\ request'[r].pc = "save" /\ request'[r].slot = e.slot
      /\ \A q \in Requests \ {r} : request'[q] = request[q]
  BY <1>3 DEF TypeOK, CallTypeOK, RequestState
<1>5. Owner!Claim(e.slot)
  BY <1>2, <1>3, <1>4, GivesSlot DEF Given
<1>6. QED
  BY <1>2, <1>5

LEMMA ChooseSlotClaims ==
    ASSUME TypeOK, OneWindow, NEW r \in Requests, ChooseSlot(r)
    PROVE  \E s \in Slot : Owner!Claim(s)
<1> DEFINE free == Free(openSlots, attachedRemoteSlots')
           s == First(free)
<1>1. s \in Slot /\ kills[s] = 0 /\ s \notin openSlots
  <2>1. s \in free
    BY FreeType DEF ChooseSlot
  <2>2. QED
    BY <2>1, FreeIsNotKilled DEF TypeOK
<1>2. /\ request' = [request EXCEPT ![r].pc = "probe2", ![r].slot = s]
      /\ UNCHANGED <<stored, kills, tab>>
      /\ request[r].pc = "probe1"
  BY DEF ChooseSlot
<1> HIDE DEF s, free
<1>3. /\ request'[r].pc = "probe2" /\ request'[r].slot = s
      /\ \A q \in Requests \ {r} : request'[q] = request[q]
  BY <1>2 DEF TypeOK, CallTypeOK, RequestState
<1>4. Owner!Claim(s)
  BY <1>1, <1>2, <1>3, GivesSlot DEF Given
<1>5. QED
  BY <1>1, <1>4

\* The second probe leaves the slot as it is, or swaps it for a free one.
LEMMA ConfirmSlotSwaps ==
    ASSUME TypeOK, TypeOK', OneWindow, Backed', NEW r \in Requests, ConfirmSlot(r)
    PROVE  Owner!Save \/ \E s, new \in Slot : Owner!Swap(s, new)
<1> DEFINE old == request[r].slot
           free == Free(openSlots \ {old}, attachedRemoteSlots')
           new == IF old \in attachedRemoteSlots' THEN First(free) ELSE old
<1>1. Given(r) /\ old \in openSlots /\ old \in Slot
  BY DEF ConfirmSlot, OneWindow, ClaimsApart, Holds, TypeOK, CallTypeOK, RequestState, Given
<1>2. new = old \/ (new \in Slot /\ kills[new] = 0 /\ new \notin openSlots \ {old})
  <2>1. CASE old \in attachedRemoteSlots'
    <3>1. new \in free
      BY <2>1, FreeType DEF ConfirmSlot
    <3>2. QED
      BY <3>1, FreeIsNotKilled DEF TypeOK
  <2>2. QED
    BY <2>1
<1>3. /\ request' = [request EXCEPT ![r] = [@ EXCEPT !.pc = "save", !.slot = new]]
      /\ UNCHANGED <<stored, kills, tab>>
  BY DEF ConfirmSlot
<1> HIDE DEF new, free
<1>4. /\ request'[r].pc = "save" /\ request'[r].slot = new
      /\ \A q \in Requests \ {r} : request'[q] = request[q]
  BY <1>3 DEF TypeOK, CallTypeOK, RequestState
<1>5. Given(r)' /\ \A q \in Requests \ {r} : Given(q)' <=> Given(q)
  BY <1>4 DEF Given
<1>6. CASE new = old
  <2>1. \A q \in Requests : /\ Given(q)' <=> Given(q)
                            /\ Given(q) => request'[q].slot = request[q].slot
    BY <1>1, <1>4, <1>5, <1>6
  <2>2. QED
    BY <1>3, <2>1, UsersStay DEF Steady
<1>7. CASE new # old
  <2>1. new \in Slot /\ kills[new] = 0 /\ new \notin openSlots
    BY <1>2, <1>7
  <2>2. Owner!Free(new)
    BY <2>1, FreeOfUsers
  <2>3. Holders[old] = {r}
    BY <1>1, AloneWithSlot
  <2>4. /\ Holders'[new] = {r}
        /\ \A x \in Slot \ {new} : Holders'[x] = Holders[x] \ {r}
    BY <1>4, <1>5, <2>1, <2>2, HoldsAlone DEF Owner!Free
  <2>5. \A x \in Slot \ {old} : Holders[x] \ {r} = Holders[x]
    BY Seeing
  <2>6. \A x \in Slot : Holders'[x] = IF x = new THEN {r} ELSE IF x = old THEN {} ELSE Holders[x]
    BY <1>7, <2>3, <2>4, <2>5
  <2>7. Holders' = [Holders EXCEPT ![old] = {}, ![new] = Holders[old]]
    BY <1>1, <1>7, <2>1, <2>3, <2>6, Shapes
  <2>8. UNCHANGED <<Viewers, Killed, stored>>
    <3>1. Viewers' = Viewers
      BY <1>3, SameViewers DEF Steady
    <3>2. QED
      BY <1>3, <3>1 DEF Killed
  <2>9. Owner!Swap(old, new)
    BY <2>2, <2>3, <2>7, <2>8 DEF Owner!Swap
  <2>10. QED
    BY <1>1, <2>1, <2>9
<1>8. QED
  BY <1>6, <1>7

LEMMA ProfileRejectedGivesUp ==
    ASSUME TypeOK, OneWindow, NEW r \in Requests, ProfileRejected(r)
    PROVE  \E s \in Slot : Owner!GiveUp(s)
<1>1. /\ Given(r) /\ ~ Given(r)'
      /\ \A q \in Requests \ {r} : request'[q] = request[q]
      /\ UNCHANGED <<stored, kills, tab>>
  BY DEF ProfileRejected, TypeOK, CallTypeOK, RequestState, Given
<1>2. request[r].slot \in Slot /\ Holders[request[r].slot] = {r}
  BY <1>1, AloneWithSlot
<1>3. Holders' = [Holders EXCEPT ![request[r].slot] = {}]
  BY <1>1, HoldsNoMore
<1>4. UNCHANGED <<Viewers, Killed, stored>>
  <2>1. Viewers' = Viewers
    BY <1>1, SameViewers DEF Steady
  <2>2. QED
    BY <1>1, <2>1 DEF Killed
<1>5. Owner!GiveUp(request[r].slot)
  BY <1>2, <1>3, <1>4 DEF Owner!GiveUp
<1>6. QED
  BY <1>2, <1>5

\* A terminal that starts is the only one to show its slot.
LEMMA ShowsAlone ==
    ASSUME TypeOK, NEW s \in Slot, NEW t \in FreeTabs, NEW takeOver, Launch(t, s, takeOver),
           Viewers[s] = {}
    PROVE  t \in Tabs /\ Viewers' = [Viewers EXCEPT ![s] = {t}]
<1>1. /\ Shown' = Shown \cup {t} /\ t \notin Shown /\ tab'[t].slot = s
      /\ \A u \in Shown : tab'[u].slot = tab[u].slot
  BY LaunchShows DEF TypeOK
<1>2. ASSUME NEW x \in Slot, NEW u
      PROVE  u \in Viewers'[x] <=> (u = t /\ x = s) \/ u \in Viewers[x]
  BY <1>1, Seeing
<1>3. ASSUME NEW x \in Slot PROVE Viewers'[x] = IF x = s THEN {t} ELSE Viewers[x]
  <2>1. CASE x = s
    BY <1>2, <2>1
  <2>2. CASE x # s
    BY <1>2, <2>2
  <2>3. QED
    BY <2>1, <2>2
<1>4. QED
  BY <1>3, Shapes DEF FreeTabs

LEMMA SpawnTabOpens ==
    ASSUME TypeOK, OneWindow, Backed, NEW r \in Requests, SpawnTab(r)
    PROVE  \E s \in Slot : Owner!Open(s)
<1> DEFINE s == request[r].slot
<1>1. /\ request[r].pc = "granted" /\ request'[r].pc = "done"
      /\ \A q \in Requests \ {r} : request'[q] = request[q]
      /\ UNCHANGED <<stored, kills>>
  BY DEF SpawnTab, TypeOK, CallTypeOK, IdleRequest
<1>2. Given(r) /\ ~ Given(r)'
  BY <1>1 DEF Given
<1>3. s \in Slot /\ Holders[s] = {r} /\ Viewers[s] = {}
  BY <1>2, AloneWithSlot
<1>4. s \in stored
  BY <1>1 DEF Backed
<1>5. PICK t \in FreeTabs : Launch(t, s, request[r].takeOver)
  BY DEF SpawnTab
<1>6. Holders' = [Holders EXCEPT ![s] = {}]
  BY <1>1, <1>2, HoldsNoMore
<1>7. t \in Tabs /\ Viewers' = [Viewers EXCEPT ![s] = {t}]
  BY <1>3, <1>5, ShowsAlone
<1>8. UNCHANGED <<Killed, stored>>
  BY <1>1 DEF Killed
<1> HIDE DEF s
<1>9. Owner!Open(s)
  BY <1>3, <1>4, <1>6, <1>7, <1>8 DEF Owner!Open
<1>10. QED
  BY <1>3, <1>9

LEMMA ReopenRestores ==
    ASSUME TypeOK, TypeOK', OneWindow, Backed, Backed', 1 \in Pass, Reopen(1)
    PROVE  Owner!Save \/ \E s \in Slot : Owner!Restore(s)
<1> DEFINE e == Head(pass[1].rest)
<1>1. /\ pass[1].rest \in Seq(Entry) /\ pass[1].rest # <<>> /\ Apart(pass[1].rest)
      /\ Slots(pass[1].rest) \subseteq stored
  BY DEF TypeOK, PassTypeOK, PassState, Reopen, OneWindow, QueueApart, Backed
<1>2. e.slot \notin openSlots /\ kills[e.slot] = 0 /\ e.slot \in Slot /\ e.slot \in stored
  BY <1>1, ApartTail, QueueHeadTail, SlotsOfTail DEF Entry
<1>3. UNCHANGED <<request, kills, stored>>
  BY DEF Reopen
<1>4. \/ UNCHANGED tab
      \/ \E t \in FreeTabs : Launch(t, e.slot, e.takeOver)
  BY DEF Reopen
<1> HIDE DEF e
<1>5. CASE UNCHANGED tab
  BY <1>3, <1>5, UsersStay DEF Steady, Given
<1>6. CASE \E t \in FreeTabs : Launch(t, e.slot, e.takeOver)
  <2>1. Owner!Free(e.slot)
    BY <1>2, FreeOfUsers
  <2>2. PICK t \in FreeTabs : Launch(t, e.slot, e.takeOver)
    BY <1>6
  <2>3. t \in Tabs /\ Viewers' = [Viewers EXCEPT ![e.slot] = {t}]
    BY <1>2, <2>1, <2>2, ShowsAlone DEF Owner!Free
  <2>4. UNCHANGED <<Holders, Killed, stored>>
    BY <1>3 DEF Holders, Holding, Killed
  <2>5. Owner!Restore(e.slot)
    BY <1>2, <2>1, <2>3, <2>4 DEF Owner!Restore
  <2>6. QED
    BY <1>2, <2>5
<1>7. QED
  BY <1>4, <1>5, <1>6

\* The provider's close event: the tab is gone, and its session is killed or not.
LEMMA TabClosedLoses ==
    ASSUME TypeOK, OneWindow, NEW t \in Tabs, TabClosed(t)
    PROVE  \E s \in Slot : Owner!Lose(s) \/ Owner!Close(s)
<1> DEFINE s == tab[t].slot
<1>1. t \in Shown /\ s \in Slot /\ s \in openSlots
  BY DEF TabClosed, TypeOK, OutsideTypeOK, TabState, OneWindow, ClaimsApart, Shown
<1>2. /\ Shown' = Shown \ {t}
      /\ \A u \in Shown \ {t} : tab'[u] = tab[u] /\ tab[u].slot # s
  BY DEF TabClosed, TypeOK, OutsideTypeOK, NoTab, Shown, OneWindow, ClaimsApart
<1>3. UNCHANGED <<request, stored>>
  BY DEF TabClosed
<1>4. UNCHANGED kills \/ kills' = [kills EXCEPT ![s] = @ + 1]
  BY DEF TabClosed
<1>5. \A r \in Requests : Given(r) => request[r].slot # s
  BY <1>1 DEF OneWindow, ClaimsApart, Holds, Given
<1> HIDE DEF s
<1>6. Viewers[s] = {t} /\ Holders[s] = {}
  <2>1. tab[t].slot = s
    BY DEF s
  <2>2. QED
    BY <1>1, <1>2, <1>5, <2>1, Seeing
<1>7. ASSUME NEW x \in Slot PROVE Viewers'[x] = IF x = s THEN {} ELSE Viewers[x]
  <2>1. \A u : u \in Viewers'[x] <=> u # t /\ u \in Viewers[x]
    BY <1>2, Seeing
  <2>2. x # s => t \notin Viewers[x]
    BY Seeing DEF s
  <2>3. QED
    BY <1>6, <2>1, <2>2
<1>8. Viewers' = [Viewers EXCEPT ![s] = {}]
  BY <1>1, <1>7, Shapes
<1>9. UNCHANGED <<Holders, stored>>
  BY <1>3 DEF Holders, Holding
<1>10. CASE UNCHANGED kills
  <2>1. UNCHANGED Killed
    BY <1>10 DEF Killed
  <2>2. Owner!Lose(s)
    BY <1>6, <1>8, <1>9, <2>1 DEF Owner!Lose
  <2>3. QED
    BY <1>1, <2>2
<1>11. CASE kills' = [kills EXCEPT ![s] = @ + 1]
  <2>1. kills \in [Slot -> Nat]
    BY DEF TypeOK, CallTypeOK
  <2>2. \A x \in Slot : kills'[x] > 0 <=> x = s \/ kills[x] > 0
    BY <1>1, <1>11, <2>1
  <2>3. Killed' = Killed \cup {s}
    BY <1>1, <2>2 DEF Killed
  <2>4. Owner!Close(s)
    BY <1>6, <1>8, <1>9, <2>3 DEF Owner!Close
  <2>5. QED
    BY <1>1, <2>4
<1>12. QED
  BY <1>4, <1>10, <1>11

LEMMA KillSettlesSettles ==
    ASSUME TypeOK, OneWindow, NEW s \in Slot, KillSettles(s)
    PROVE  Owner!Settle(s)
<1>1. kills[s] = 1
  BY DEF KillSettles, OneWindow, KillsApart
<1>2. kills' = [kills EXCEPT ![s] = 0] /\ UNCHANGED <<request, stored>>
  BY <1>1 DEF KillSettles
<1>3. kills \in [Slot -> Nat]
  BY DEF TypeOK, CallTypeOK
<1>4. s \in Killed /\ Killed' = Killed \ {s}
  <2>1. \A x \in Slot : kills'[x] > 0 <=> x # s /\ kills[x] > 0
    BY <1>2, <1>3
  <2>2. QED
    BY <1>1, <2>1 DEF Killed
<1>5. Viewers' = Viewers
  <2>1. Steady
    BY ExitsSteady DEF KillSettles, Steady, TypeOK
  <2>2. QED
    BY <2>1, SameViewers
<1>6. Holders' = Holders
  BY <1>2 DEF Holders, Holding
<1>7. QED
  BY <1>2, <1>4, <1>5, <1>6 DEF Owner!Settle

LEMMA StepOfOwner ==
    ASSUME Pass = {1}, TypeOK, TypeOK', OneWindow, Backed, Backed', [Next]_vars
    PROVE  Owner!Next
<1>1. ASSUME Initialize(1) \/ PollWindow(1) \/ Provider(1) PROVE Owner!Next
  <2>1. CASE Reopen(1)
    BY <1>1, <2>1, ReopenRestores DEF Owner!Next
  <2>2. CASE ~ Reopen(1)
    BY <1>1, <2>2, PassSaves DEF Provider, Owner!Next
  <2>3. QED
    BY <2>1, <2>2
<1>2. ASSUME NEW r \in Requests, AskProfile(r) \/ Answer(r) \/ SpawnTab(r) PROVE Owner!Next
  BY <1>2, WaitingSaves, ClaimPendingClaims, ChooseSlotClaims, ConfirmSlotSwaps,
     ProfileRejectedGivesUp, SpawnTabOpens DEF Answer, Owner!Next
<1>3. ASSUME NEW t \in Tabs, TabOpened(t) \/ UserCloses(t) \/ TabClosed(t) PROVE Owner!Next
  BY <1>3, OutsideSaves, TabClosedLoses DEF Owner!Next
<1>4. ASSUME NEW s \in Slot,
             \/ ReconnectPty(s) \/ KillSettles(s) \/ ProcessExits(s)
             \/ ForeignAttaches(s) \/ ForeignDetaches(s)
      PROVE  Owner!Next
  <2>1. ~ ReconnectPty(s)
    BY DEF ReconnectPty, OneWindow, GateShut
  <2>2. QED
    BY <1>4, <2>1, OutsideSaves, KillSettlesSettles DEF Owner!Next
<1>5. ASSUME BackgroundSaved \/ UNCHANGED vars PROVE Owner!Next
  BY <1>5, OutsideSaves DEF Owner!Next
<1>6. QED
  BY <1>1, <1>2, <1>3, <1>4, <1>5 DEF Next

\* A window wired once, with no pty reconnected, does to its sessions only what
\* SessionOwner allows: a session passes from nobody to a request to a tab, is on
\* screen only once the next window would find it, is killed only when its tab is
\* closed, and is given out again only when that kill is over (terminalProvider.ts:
\* 412-415, 570 and 634-640 together).
THEOREM Implements ==
    ASSUME MaxPass = 1, PtyReconnect = FALSE
    PROVE  Spec => KeepsOwnership
<1>1. Pass = {1}
  BY DEF Pass
<1>2. Init => Owner!Init
  <2> SUFFICES ASSUME Init PROVE Owner!Init
    OBVIOUS
  <2>1. /\ \A r \in Requests : ~ Given(r)
        /\ Shown = {}
        /\ \A s \in Slot : kills[s] = 0
    BY DEF Init, Given, IdleRequest, Shown, NoTab
  <2>2. \A s \in Slot : Holders[s] = {} /\ Viewers[s] = {} /\ s \notin Killed
    BY <2>1, Seeing
  <2>3. Killed = {} /\ stored \subseteq Slot
    BY <2>1, ConstantsAssumption DEF Killed, Init
  <2>4. QED
    BY <2>2, <2>3, Shapes DEF Owner!Init
<1>3. /\ TypeOK /\ TypeOK' /\ OneWindow /\ Backed /\ Backed' /\ [Next]_vars
      => [Owner!Next]_(Owner!vars)
  BY <1>1, StepOfOwner
<1>4. QED
  BY <1>2, <1>3, TypeCorrect, OneWindowInv, BackedInv, PTL DEF Spec, KeepsOwnership, Owner!Spec

=============================================================================
