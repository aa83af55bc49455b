-------------------------- MODULE TmuxLayerProofs --------------------------
(***************************************************************************)
(* For any number of windows, sessions and runs of the reaper, and however *)
(* often wiring fails or windows reload: a layer that stands has its own   *)
(* listeners and the profile id, wiring in which nothing fails is kept,    *)
(* the user's default survives, and no kill decided from a listing ends a  *)
(* session it must not.                                                    *)
(*                                                                         *)
(* The three parts of the state are proved apart: what is said of one      *)
(* needs no fact about another.                                            *)
(***************************************************************************)
EXTENDS TmuxLayer, TLAPS

USE TmuxLayerAssumption

------------------------------------------------------------------------------
(* The wiring. *)

WiringInv == WiringTypeOK /\ LayerIsWhole

\* A window starts without a layer and without listeners.
LEMMA InitWiring == Init => WiringInv
BY DEF Init, WiringInv, WiringTypeOK, LayerIsWhole, Fallback, Nobody, NoLayer

\* Every step keeps the wiring whole.
LEMMA StepWiring == WiringInv /\ [Next]_vars => WiringInv'
<1> SUFFICES ASSUME WiringInv, [Next]_vars PROVE WiringInv'
  OBVIOUS
<1> USE DEF WiringInv, WiringTypeOK, LayerIsWhole
<1>1. ASSUME UNCHANGED wiring PROVE WiringInv'
  BY <1>1 DEF wiring
<1>2. ASSUME NEW w \in Windows, NEW reaps \in BOOLEAN, NEW setDefault \in BOOLEAN,
             Wire(w, reaps, setDefault)
      PROVE  WiringInv'
  <2> DEFINE p == made[w] + 1
  <2>1. /\ layer[w].provider = 0 /\ listening[w] = {}
        /\ p \in 1..MaxMade
        /\ made' = [made EXCEPT ![w] = p]
    BY <1>2 DEF Wire
  <2>2. CASE /\ profile' = [profile EXCEPT ![w] = p]
             /\ listening' = [listening EXCEPT ![w] = @ \cup {p}]
             /\ layer' = [layer EXCEPT ![w] = [provider |-> p, reaps |-> reaps]]
    BY <2>1, <2>2 DEF Nobody
  <2>3. ASSUME NEW held \in {Nobody, p}, GiveUp(w, p, held) PROVE WiringInv'
    BY <2>1, <2>3 DEF GiveUp, RolledBack, Nobody
  <2>4. QED
    BY <1>2, <2>2, <2>3 DEF Wire, Use
<1>3. ASSUME NEW w \in Windows, Reload(w) PROVE WiringInv'
  BY <1>3 DEF Reload, Fallback, Nobody, NoLayer
<1>4. ASSUME NEW w \in Windows, ResolveSucceeded(w) PROVE WiringInv'
  BY <1>1, <1>2, <1>4 DEF ResolveSucceeded, Refresh, Skip
<1>5. ASSUME Around PROVE WiringInv'
  BY <1>1, <1>5 DEF Around, UserChooses, Open, Detach, Dies, Ages
<1>6. CASE UNCHANGED vars
  BY <1>1, <1>6 DEF vars
<1>7. QED
  BY <1>1, <1>3, <1>4, <1>5, <1>6 DEF Next, Land, KillCommand, List, Kill

------------------------------------------------------------------------------
(* The settings. *)

\* Every update in flight is what the rule decides for the settings it is over.
Decided ==
    \A w \in Windows : \A i \in DOMAIN writing[w] :
        \E wired \in BOOLEAN :
            writing[w][i].do = DecideDefaultProfile(writing[w][i].over, wired)

Update == [do: {"set", "clear"}, over: Settings]

SettingInv == SettingTypeOK /\ Decided

\* No update is in flight when a window starts.
LEMMA InitSetting == Init => SettingInv
BY DEF Init, SettingInv, SettingTypeOK, Decided

\* Every step keeps to the rule.
LEMMA StepSetting == SettingInv /\ [Next]_vars => SettingInv'
<1> SUFFICES ASSUME SettingInv, [Next]_vars PROVE SettingInv'
  OBVIOUS
<1> USE DEF SettingInv, SettingTypeOK, Decided
<1>1. ASSUME UNCHANGED <<setting, writing>> PROVE SettingInv'
  BY <1>1
<1>2. ASSUME NEW w \in Windows, NEW wired \in BOOLEAN, NEW setDefault \in BOOLEAN,
             Reconcile(w, wired, setDefault), UNCHANGED setting
      PROVE  SettingInv'
  <2> DEFINE action == DecideDefaultProfile(setting, wired)
             e == [do |-> action, over |-> setting]
  <2>1. CASE UNCHANGED writing
    BY <1>1, <1>2, <2>1
  <2>2. CASE writing' = [writing EXCEPT ![w] = Append(@, e)] /\ action # "none"
    <3>1. action \in {"set", "clear"}
      BY <2>2 DEF DecideDefaultProfile
    <3>2. SettingTypeOK'
      <4>1. e \in Update
        BY <3>1 DEF Update
      <4>2. Append(writing[w], e) \in Seq(Update)
        <5>1. writing[w] \in Seq(Update)
          BY DEF Update
        <5>2. QED
          BY <4>1, <5>1
      <4>3. QED
        BY <1>2, <2>2, <4>2 DEF Update
    <3>3. ASSUME NEW v \in Windows, NEW i \in DOMAIN writing'[v]
          PROVE  \/ i \in DOMAIN writing[v] /\ writing'[v][i] = writing[v][i]
                 \/ writing'[v][i] = e
      <4>1. CASE v = w
        BY <2>2, <3>3, <4>1
      <4>2. CASE v # w
        BY <2>2, <3>3, <4>2
      <4>3. QED
        BY <4>1, <4>2
    <3>4. Decided'
      BY <3>3
    <3>5. QED
      BY <3>2, <3>4
  <2>3. QED
    BY <1>2, <2>1, <2>2 DEF Reconcile
<1>3. ASSUME NEW w \in Windows, Land(w) PROVE SettingInv'
  <2>1. writing' = [writing EXCEPT ![w] = Tail(@)] /\ writing[w] # <<>>
    BY <1>3 DEF Land
  <2>2. setting' \in Settings
    BY <1>3 DEF Land, Settings
  <2>3. SettingTypeOK'
    <3>1. Tail(writing[w]) \in Seq(Update)
      <4>1. writing[w] \in Seq(Update)
        BY DEF Update
      <4>2. QED
        BY <2>1, <4>1
    <3>2. QED
      BY <2>1, <2>2, <3>1 DEF Update
  <2>4. ASSUME NEW v \in Windows, NEW i \in DOMAIN writing'[v]
        PROVE  \E k \in DOMAIN writing[v] : writing'[v][i] = writing[v][k]
    <3>1. CASE v = w
      BY <2>1, <2>4, <3>1
    <3>2. CASE v # w
      BY <2>1, <2>4, <3>2
    <3>3. QED
      BY <3>1, <3>2
  <2>5. Decided'
    <3>1. SUFFICES ASSUME NEW v \in Windows, NEW i \in DOMAIN writing'[v]
                   PROVE  \E wired \in BOOLEAN :
                            writing'[v][i].do = DecideDefaultProfile(writing'[v][i].over, wired)
      BY DEF DecideDefaultProfile
    <3>2. PICK k \in DOMAIN writing[v] : writing'[v][i] = writing[v][k]
      BY <2>4
    <3>3. QED
      BY <3>2
  <2>6. QED
    BY <2>3, <2>5
<1>4. ASSUME NEW w \in Windows, Reload(w) PROVE SettingInv'
  <2>1. writing' = [writing EXCEPT ![w] = <<>>] /\ UNCHANGED setting
    BY <1>4 DEF Reload
  <2>2. SettingTypeOK'
    <3>1. <<>> \in Seq(Update)
      OBVIOUS
    <3>2. QED
      BY <2>1, <3>1 DEF Update
  <2>3. ASSUME NEW v \in Windows, NEW i \in DOMAIN writing'[v]
        PROVE  i \in DOMAIN writing[v] /\ writing'[v][i] = writing[v][i]
    BY <2>1, <2>3
  <2>4. Decided'
    <3>1. SUFFICES ASSUME NEW v \in Windows, NEW i \in DOMAIN writing'[v]
                   PROVE  \E wired \in BOOLEAN :
                            writing'[v][i].do = DecideDefaultProfile(writing'[v][i].over, wired)
      BY DEF DecideDefaultProfile
    <3>2. i \in DOMAIN writing[v] /\ writing'[v][i] = writing[v][i]
      BY <2>3
    <3>3. QED
      BY <3>2
  <2>5. QED
    BY <2>2, <2>4
<1>5. ASSUME NEW w \in Windows, ResolveSucceeded(w) PROVE SettingInv'
  <2>1. CASE Refresh(w)
    BY <1>1, <2>1 DEF Refresh
  <2>2. CASE Skip(w)
    BY <1>1, <1>2, <2>2 DEF Skip
  <2>3. ASSUME NEW reaps \in BOOLEAN, NEW setDefault \in BOOLEAN, Wire(w, reaps, setDefault)
        PROVE  SettingInv'
    BY <1>1, <1>2, <2>3 DEF Wire, GiveUp
  <2>4. QED
    BY <1>5, <2>1, <2>2, <2>3 DEF ResolveSucceeded
<1>6. ASSUME NEW scope \in UserScopes, NEW value \in {"unset", "users", "ours"},
             UserChooses(scope, value)
      PROVE  SettingInv'
  <2>1. setting' \in Settings
    BY <1>6 DEF UserChooses, Settings
  <2>2. QED
    BY <1>6, <2>1 DEF UserChooses
<1>7. ASSUME Around PROVE SettingInv'
  BY <1>1, <1>6, <1>7 DEF Around, Open, Detach, Dies, Ages
<1>8. CASE UNCHANGED vars
  BY <1>1, <1>8 DEF vars
<1>9. QED
  BY <1>1, <1>3, <1>4, <1>5, <1>7, <1>8 DEF Next, KillCommand, List, Kill

------------------------------------------------------------------------------
(* The reaper and the sessions. *)

\* What is still true of the sessions a run has listed: a namesake created since
\* has a higher number, and a corpse does not come back to life.
Listed ==
    \A j \in Jobs : \A d \in job[j].doomed :
        /\ job[j].kind = "reap" =>
             /\ d[1] \in Own \cup Sibling
             /\ d[2] <= session[d[1]].gen
             /\ d[2] = session[d[1]].gen => session[d[1]].st # "live"
        /\ job[j].kind = "kill" => d[1] \in Own

RemoteInv == RemoteTypeOK /\ Listed

\* No run is under way at the start.
LEMMA InitRemote == Init => RemoteInv
<1> SUFFICES ASSUME Init PROVE RemoteInv
  OBVIOUS
<1>1. PICK left \in Left :
        session = [n \in Names |-> [st |-> left[n], by |-> {}, gen |-> 0,
                                    old |-> left[n] # "none"]]
  BY DEF Init
<1>2. left \in [Names -> {"none", "live", "corpse"}]
  BY <1>1
<1>3. QED
  BY <1>1, <1>2 DEF Init, RemoteInv, RemoteTypeOK, Listed, NoJob

Session == [st: {"none", "live", "corpse"}, by: SUBSET Windows, gen: 0..MaxGen, old: BOOLEAN]

\* A session whose client goes, and one that ends.
LEMMA Changed ==
    ASSUME NEW s \in Session, NEW w \in Windows
    PROVE  /\ [s EXCEPT !.by = @ \ {w}] \in Session
           /\ [s EXCEPT !.by = @ \ {w}].st = s.st
           /\ [s EXCEPT !.by = @ \ {w}].gen = s.gen
           /\ s.gen \in Nat
<1>1. s.by \ {w} \in SUBSET Windows
  BY DEF Session
<1>2. [s EXCEPT !.by = s.by \ {w}] \in Session
  BY <1>1 DEF Session
<1>3. QED
  BY <1>2 DEF Session

LEMMA Ended ==
    ASSUME NEW s \in Session
    PROVE  /\ [s EXCEPT !.st = "none", !.by = {}, !.old = FALSE] \in Session
           /\ [s EXCEPT !.st = "none", !.by = {}, !.old = FALSE].st = "none"
           /\ [s EXCEPT !.st = "none", !.by = {}, !.old = FALSE].gen = s.gen
           /\ s.gen \in Nat
<1>1. [s EXCEPT !.st = "none"] \in Session
  BY DEF Session
<1>2. [[s EXCEPT !.st = "none"] EXCEPT !.by = {}] \in Session
  BY <1>1 DEF Session
<1>3. [s EXCEPT !.st = "none", !.by = {}, !.old = FALSE] \in Session
  BY <1>2 DEF Session
<1>4. QED
  BY <1>3 DEF Session

\* The mishaps left stay in their bounds.
LEMMA FewerMishaps ==
    ASSUME RemoteTypeOK, Mishap \/ UNCHANGED mishaps
    PROVE  mishaps' \in 0..MaxMishaps
BY DEF RemoteTypeOK, Mishap

\* A step that leaves the runs alone, or starts one, and keeps the corpses dead.
LEMMA KeepsListed ==
    ASSUME RemoteInv, RemoteTypeOK',
           \A j \in Jobs : /\ job'[j].doomed \subseteq job[j].doomed
                           /\ job'[j].doomed # {} => job'[j].kind = job[j].kind,
           \A n \in Names : /\ session'[n].gen >= session[n].gen
                            /\ session[n].st # "live" /\ session'[n].gen = session[n].gen
                                 => session'[n].st # "live"
    PROVE  Listed'
<1> SUFFICES ASSUME NEW j \in Jobs, NEW d \in job'[j].doomed
             PROVE  /\ job'[j].kind = "reap" =>
                         /\ d[1] \in Own \cup Sibling
                         /\ d[2] <= session'[d[1]].gen
                         /\ d[2] = session'[d[1]].gen => session'[d[1]].st # "live"
                    /\ job'[j].kind = "kill" => d[1] \in Own
  BY DEF Listed
<1>1. d \in job[j].doomed /\ job'[j].kind = job[j].kind
  OBVIOUS
<1>2. /\ d[1] \in Names /\ d[2] \in Nat
      /\ session[d[1]].gen \in Nat /\ session'[d[1]].gen \in Nat
  BY <1>1 DEF RemoteInv, RemoteTypeOK
<1>3. QED
  BY <1>1, <1>2 DEF RemoteInv, Listed

\* Every step keeps what the runs have listed.
LEMMA StepRemote == RemoteInv /\ [Next]_vars => RemoteInv'
<1> SUFFICES ASSUME RemoteInv, [Next]_vars PROVE RemoteInv'
  OBVIOUS
<1> USE DEF RemoteTypeOK
<1> RemoteTypeOK
  BY DEF RemoteInv
<1>1. ASSUME UNCHANGED <<job, session>>, mishaps' \in 0..MaxMishaps PROVE RemoteInv'
  BY <1>1 DEF RemoteInv, Listed
<1>2. ASSUME NEW j \in Jobs, job[j].pc = "idle", NEW k \in {"reap", "kill"},
             NEW w \in Windows, mishaps' \in 0..MaxMishaps, UNCHANGED session,
             job' = [job EXCEPT ![j] = [kind |-> k, of |-> {w}, pc |-> "list", doomed |-> {}]]
      PROVE  RemoteInv'
  <2>1. RemoteTypeOK'
    BY <1>2
  <2>2. QED
    BY <1>2, <2>1, KeepsListed DEF RemoteInv
<1>3. ASSUME NEW w \in Windows, NEW reaps \in BOOLEAN, ReapIf(w, reaps), UNCHANGED session,
             mishaps' \in 0..MaxMishaps
      PROVE  RemoteInv'
  BY <1>1, <1>2, <1>3 DEF ReapIf, Reap
<1>4. ASSUME NEW w \in Windows, ResolveSucceeded(w) PROVE RemoteInv'
  <2>1. CASE Refresh(w)
    <3>1. ReapIf(w, TRUE) \/ ReapIf(w, FALSE)
      BY <2>1 DEF Refresh, ReapIf
    <3>2. QED
      BY <1>3, <2>1, <3>1 DEF Refresh
  <2>2. CASE Skip(w)
    <3>1. UNCHANGED <<job, session>>
      BY <2>2 DEF Skip
    <3>2. mishaps' \in 0..MaxMishaps
      BY <2>2, FewerMishaps DEF Skip
    <3>3. QED
      BY <1>1, <3>1, <3>2
  <2>3. ASSUME NEW reaps \in BOOLEAN, NEW setDefault \in BOOLEAN, Wire(w, reaps, setDefault)
        PROVE  RemoteInv'
    <3>1. mishaps' \in 0..MaxMishaps
      BY <2>3, FewerMishaps DEF Wire
    <3>2. UNCHANGED session
      BY <2>3 DEF Wire
    <3>3. ReapIf(w, reaps) \/ UNCHANGED job
      BY <2>3 DEF Wire, GiveUp
    <3>4. QED
      BY <1>1, <1>3, <3>1, <3>2, <3>3
  <2>4. QED
    BY <1>4, <2>1, <2>2, <2>3 DEF ResolveSucceeded
<1>5. ASSUME NEW w \in Windows, Land(w) PROVE RemoteInv'
  BY <1>1, <1>5 DEF Land, Mishap
<1>6. ASSUME NEW w \in Windows, Reload(w) PROVE RemoteInv'
  <2>1. mishaps' \in 0..MaxMishaps
    BY <1>6, FewerMishaps DEF Reload
  <2>2. /\ job' \in [Jobs -> [kind: {"none", "reap", "kill"}, of: SUBSET Windows,
                              pc: {"idle", "list", "kill"}, doomed: SUBSET (Names \X (0..MaxGen))]]
        /\ \A j \in Jobs : job'[j] = NoJob \/ job'[j] = job[j]
    BY <1>6 DEF Reload, NoJob
  <2>3. \A n \in Names : session'[n] = [session[n] EXCEPT !.by = @ \ {w}]
    BY <1>6 DEF Reload
  <2>4. \A n \in Names : session[n] \in Session
    BY DEF Session
  <2>5. \A n \in Names : /\ session'[n] \in Session
                         /\ session'[n].gen = session[n].gen /\ session'[n].st = session[n].st
    <3>1. TAKE n \in Names
    <3>2. session'[n] = [session[n] EXCEPT !.by = @ \ {w}] /\ session[n] \in Session
      BY <2>3, <2>4
    <3>3. QED
      BY <3>2, Changed
  <2>6. session' = [n \in Names |-> session'[n]]
    BY <1>6 DEF Reload
  <2>7. session' \in [Names -> Session]
    BY <2>5, <2>6
  <2>8. RemoteTypeOK'
    BY <2>1, <2>2, <2>7 DEF NoJob, Session
  <2>9. \A n \in Names : session[n].gen \in Nat
    OBVIOUS
  <2>10. QED
    BY <2>2, <2>5, <2>8, <2>9, KeepsListed DEF RemoteInv, NoJob
<1>7. ASSUME NEW w \in Windows, KillCommand(w) PROVE RemoteInv'
  BY <1>2, <1>7 DEF KillCommand
<1>8. ASSUME NEW j \in Jobs, List(j) PROVE RemoteInv'
  <2> DEFINE doomed == {n \in Names : IF job[j].kind = "reap" THEN ShouldReap(n) ELSE ToKill(n)}
             listed == {<<n, session[n].gen>> : n \in doomed}
  <2>1. UNCHANGED session /\ mishaps' \in 0..MaxMishaps
    BY <1>8 DEF List, Mishap
  <2>2. CASE job' = [job EXCEPT ![j] = NoJob]
    <3>1. RemoteTypeOK'
      BY <2>1, <2>2 DEF NoJob
    <3>2. QED
      BY <2>1, <2>2, <3>1, KeepsListed DEF RemoteInv, NoJob
  <2>3. CASE /\ doomed # {}
             /\ job' = [job EXCEPT ![j] = [@ EXCEPT !.pc = "kill", !.doomed = listed]]
    <3>1. listed # {} /\ listed \in SUBSET (Names \X (0..MaxGen))
      <4>1. PICK n \in Names : n \in doomed
        BY <2>3
      <4>2. <<n, session[n].gen>> \in listed
        BY <4>1
      <4>3. \A m \in Names : session[m].gen \in 0..MaxGen
        OBVIOUS
      <4>4. \A m \in doomed : <<m, session[m].gen>> \in Names \X (0..MaxGen)
        BY <4>3
      <4>5. doomed \subseteq Names
        OBVIOUS
      <4>6. listed \subseteq Names \X (0..MaxGen)
        BY <4>4
      <4>7. QED
        BY <4>2, <4>6
    <3>2. RemoteTypeOK'
      <4> HIDE DEF listed
      <4>1. job' \in [Jobs -> [kind: {"none", "reap", "kill"}, of: SUBSET Windows,
                              pc: {"idle", "list", "kill"}, doomed: SUBSET (Names \X (0..MaxGen))]]
        <5>1. [job[j] EXCEPT !.pc = "kill", !.doomed = listed] \in
                [kind: {"none", "reap", "kill"}, of: SUBSET Windows,
                 pc: {"idle", "list", "kill"}, doomed: SUBSET (Names \X (0..MaxGen))]
          <6>1. job[j] \in [kind: {"none", "reap", "kill"}, of: SUBSET Windows,
                            pc: {"idle", "list", "kill"}, doomed: SUBSET (Names \X (0..MaxGen))]
            OBVIOUS
          <6> HIDE DEF RemoteTypeOK
          <6>2. QED
            BY <3>1, <6>1
        <5>2. QED
          BY <2>3, <5>1
      <4>2. \A i \in Jobs : job'[i].pc = "kill" <=> job'[i].doomed # {}
        BY <2>3, <3>1
      <4>3. QED
        BY <2>1, <4>1, <4>2
    <3>3. ASSUME NEW i \in Jobs, NEW d \in job'[i].doomed
          PROVE  /\ job'[i].kind = "reap" =>
                      /\ d[1] \in Own \cup Sibling
                      /\ d[2] <= session'[d[1]].gen
                      /\ d[2] = session'[d[1]].gen => session'[d[1]].st # "live"
                 /\ job'[i].kind = "kill" => d[1] \in Own
      <4>1. CASE i = j
        <5>1. job'[i].doomed = listed /\ job'[i].kind = job[j].kind
          BY <2>3, <4>1
        <5>2. PICK n \in doomed : d = <<n, session[n].gen>>
          BY <3>3, <5>1
        <5>3. n \in Names /\ session[n].gen \in Nat
          BY <5>2
        <5>4. QED
          BY <2>1, <5>1, <5>2, <5>3 DEF ShouldReap, ToKill
      <4>2. CASE i # j
        BY <2>1, <2>3, <3>3, <4>2 DEF RemoteInv, Listed
      <4>3. QED
        BY <4>1, <4>2
    <3>4. Listed'
      BY <3>3 DEF Listed
    <3>5. QED
      BY <3>2, <3>4 DEF RemoteInv
  <2>4. QED
    BY <1>8, <2>2, <2>3 DEF List
<1>9. ASSUME NEW j \in Jobs, Kill(j) PROVE RemoteInv'
  <2>1. PICK d \in job[j].doomed, sent \in BOOLEAN :
          /\ job' = [job EXCEPT ![j] = AfterKill(j, d, sent)]
          /\ IF sent
               THEN /\ session' = [session EXCEPT ![d[1]] =
                                      [@ EXCEPT !.st = "none", !.by = {}, !.old = FALSE]]
                    /\ UNCHANGED mishaps
               ELSE Mishap /\ UNCHANGED session
    BY <1>9 DEF Kill
  <2>2. d[1] \in Names /\ job[j].pc = "kill"
    BY <1>9, <2>1 DEF Kill
  <2>3. job' \in [Jobs -> [kind: {"none", "reap", "kill"}, of: SUBSET Windows,
                           pc: {"idle", "list", "kill"}, doomed: SUBSET (Names \X (0..MaxGen))]]
    BY <2>1, <2>2 DEF AfterKill, NoJob
  <2>4. /\ \A i \in Jobs : job'[i].pc = "kill" <=> job'[i].doomed # {}
        /\ \A i \in Jobs : /\ job'[i].doomed \subseteq job[i].doomed
                           /\ job'[i].doomed # {} => job'[i].kind = job[i].kind
    BY <2>1, <2>2 DEF AfterKill, NoJob
  <2>5. mishaps' \in 0..MaxMishaps
    BY <2>1, FewerMishaps
  <2>6. session[d[1]] \in Session /\ session \in [Names -> Session]
    BY <2>2 DEF Session
  <2>7. \/ UNCHANGED session
        \/ \E ended \in Session :
              /\ session' = [session EXCEPT ![d[1]] = ended]
              /\ ended.st = "none" /\ ended.gen = session[d[1]].gen
    BY <2>1, <2>6, Ended
  <2>8. session' \in [Names -> Session]
    BY <2>6, <2>7
  <2>9. RemoteTypeOK'
    BY <2>3, <2>4, <2>5, <2>8 DEF Session
  <2>10. \A n \in Names : /\ session'[n].gen = session[n].gen
                          /\ session'[n].st \in {session[n].st, "none"}
    BY <2>2, <2>6, <2>7
  <2>11. \A n \in Names : session[n].gen \in Nat
    OBVIOUS
  <2>12. QED
    BY <2>4, <2>9, <2>10, <2>11, KeepsListed DEF RemoteInv
<1>10. ASSUME NEW w \in Windows, NEW n \in Own, Open(w, n) PROVE RemoteInv'
  <2>1. n \in Names /\ session[n].gen \in 0..MaxGen
    BY DEF Names
  <2>2. CASE session' = [session EXCEPT ![n].by = @ \cup {w}]
    <3>1. RemoteTypeOK'
      BY <1>10, <2>1, <2>2 DEF Open
    <3>2. QED
      BY <1>10, <2>1, <2>2, <3>1, KeepsListed DEF RemoteInv, Open
  <2>3. CASE /\ session[n].gen < MaxGen
             /\ session' = [session EXCEPT ![n] = [st |-> "live", by |-> {w}, old |-> FALSE,
                                                   gen |-> session[n].gen + 1]]
    <3>1. RemoteTypeOK'
      BY <1>10, <2>1, <2>3 DEF Open
    <3>2. QED
      BY <1>10, <2>1, <2>3, <3>1, KeepsListed DEF RemoteInv, Open
  <2>4. QED
    BY <1>10, <2>2, <2>3 DEF Open
<1>11. ASSUME NEW w \in Windows, NEW n \in Own, Detach(w, n) PROVE RemoteInv'
  <2>1. RemoteTypeOK'
    BY <1>11 DEF Detach, Names
  <2>2. QED
    BY <1>11, <2>1, KeepsListed DEF RemoteInv, Detach, Names
<1>12. ASSUME NEW n \in Own, Dies(n) \/ Ages(n) PROVE RemoteInv'
  <2>1. n \in Names /\ UNCHANGED <<job, mishaps>>
    BY <1>12 DEF Names, Dies, Ages
  <2>2. \/ session' = [session EXCEPT ![n].st = "corpse"] /\ session[n].st = "live"
        \/ session' = [session EXCEPT ![n] = [@ EXCEPT !.st = "none", !.by = {}, !.old = FALSE]]
        \/ session' = [session EXCEPT ![n].old = TRUE]
    BY <1>12 DEF Dies, Ages
  <2>3. session[n] \in Session /\ session \in [Names -> Session]
    BY <2>1 DEF Session
  <2>4. PICK s \in Session :
          /\ session' = [session EXCEPT ![n] = s]
          /\ s.gen = session[n].gen
          /\ session[n].st # "live" => s.st # "live"
    <3>1. [session[n] EXCEPT !.st = "corpse"] \in Session
      BY <2>3 DEF Session
    <3>2. [session[n] EXCEPT !.old = TRUE] \in Session
      BY <2>3 DEF Session
    <3>3. /\ [session[n] EXCEPT !.st = "corpse"].gen = session[n].gen
          /\ [session[n] EXCEPT !.old = TRUE].gen = session[n].gen
          /\ [session[n] EXCEPT !.old = TRUE].st = session[n].st
      BY <2>3 DEF Session
    <3>4. QED
      BY <2>2, <2>3, <3>1, <3>2, <3>3, Ended
  <2>5. session' \in [Names -> Session]
    BY <2>3, <2>4
  <2>6. RemoteTypeOK'
    BY <2>1, <2>5 DEF Session
  <2>7. \A m \in Names : /\ session'[m].gen = session[m].gen /\ session[m].gen \in Nat
                         /\ session[m].st # "live" => session'[m].st # "live"
    <3>1. \A m \in Names : session[m].gen \in Nat
      OBVIOUS
    <3>2. QED
      BY <2>1, <2>3, <2>4, <3>1
  <2>8. QED
    BY <2>1, <2>6, <2>7, KeepsListed DEF RemoteInv
<1>13. ASSUME Around PROVE RemoteInv'
  BY <1>1, <1>10, <1>11, <1>12, <1>13 DEF Around, UserChooses
<1>14. CASE UNCHANGED vars
  BY <1>1, <1>14 DEF vars
<1>15. QED
  BY <1>4, <1>5, <1>6, <1>7, <1>8, <1>9, <1>13, <1>14 DEF Next

------------------------------------------------------------------------------
(* What follows for every behaviour. *)

\* The shape of every variable: profile, layer, settings, sessions and runs keep
\* to their types through wiring, reloads and reaping.
THEOREM TypeCorrect == Spec => []TypeOK
<1>1. Init => WiringInv /\ SettingInv /\ RemoteInv
  BY InitWiring, InitSetting, InitRemote
<1>2. WiringInv /\ SettingInv /\ RemoteInv => TypeOK
  BY DEF WiringInv, SettingInv, RemoteInv, TypeOK
<1>3. QED
  BY <1>1, <1>2, StepWiring, StepSetting, StepRemote, PTL DEF Spec

\* However often wireTmuxTerminalLayer throws and is retried, a layer that stands
\* has one pair of listeners and the profile id, and without one nothing listens.
THEOREM LayerWhole == Spec => []LayerIsWhole
<1>1. WiringInv => LayerIsWhole
  BY DEF WiringInv
<1>2. QED
  BY <1>1, InitWiring, StepWiring, PTL DEF Spec

\* Wiring that meets no exception stands, whoever held the profile id before:
\* dispose-then-register never finds the id taken.
THEOREM WiringStands == Spec => WiringSucceeds
<1>1. ASSUME WiringInv, RemoteInv, [Next]_vars
      PROVE  [\A w \in Windows : made'[w] > made[w] /\ mishaps' = mishaps
                                   => layer'[w].provider = made'[w]]_vars
  <2>1. SUFFICES ASSUME NEW w \in Windows, made'[w] > made[w], mishaps' = mishaps
                 PROVE  layer'[w].provider = made'[w]
    OBVIOUS
  <2>2. /\ made \in [Windows -> 0..MaxMade]
        /\ layer \in [Windows -> [provider: 0..MaxMade, reaps: BOOLEAN]]
    BY <1>1 DEF WiringInv, WiringTypeOK
  <2>3. ~(made' = made)
    BY <2>1, <2>2
  <2>4. mishaps \in Nat /\ ~Mishap
    BY <1>1, <2>1 DEF RemoteInv, RemoteTypeOK, Mishap
  <2>5. ~UNCHANGED wiring
    BY <2>3 DEF wiring
  <2>6. PICK v \in Windows : ResolveSucceeded(v)
    BY <1>1, <2>4, <2>5 DEF Next, vars, Land, Reload, KillCommand, List, Kill, Around,
       UserChooses, Open, Detach, Dies, Ages
  <2>7. PICK reaps \in BOOLEAN, setDefault \in BOOLEAN : Wire(v, reaps, setDefault)
    BY <2>5, <2>6 DEF ResolveSucceeded, Refresh, Skip
  <2>8. /\ made' = [made EXCEPT ![v] = made[v] + 1]
        /\ layer' = [layer EXCEPT ![v] = [provider |-> made[v] + 1, reaps |-> reaps]]
    BY <2>4, <2>7 DEF Wire, Use
  <2>9. v = w
    BY <2>1, <2>2, <2>8
  <2>10. QED
    BY <2>2, <2>8, <2>9
<1>2. QED
  BY <1>1, InitWiring, StepWiring, InitRemote, StepRemote, PTL DEF Spec, WiringSucceeds

\* An update that meets the settings it was decided on leaves the user's default
\* in effect, in whatever scope the user chose it.
THEOREM DefaultKept == Spec => UserDefaultKept
<1>1. ASSUME SettingInv, [Next]_vars
      PROVE  [\A w \in Windows :
                ( /\ writing[w] # <<>>
                  /\ writing'[w] = Tail(writing[w])
                  /\ Head(writing[w]).over = setting
                  /\ Effective(setting) = "users" ) => Effective(setting') = "users"]_vars
  <2>1. SUFFICES ASSUME NEW w \in Windows, writing[w] # <<>>, writing'[w] = Tail(writing[w]),
                        Head(writing[w]).over = setting, Effective(setting) = "users",
                        setting' # setting
                 PROVE  Effective(setting') = "users"
    OBVIOUS
  <2>2. setting \in Settings /\ writing[w] \in Seq(Update) /\ writing \in [Windows -> Seq(Update)]
    BY <1>1 DEF SettingInv, SettingTypeOK, Update
  <2>3. writing' # writing
    BY <2>1, <2>2
  <2>4. PICK v \in Windows : Land(v)
    BY <1>1, <2>1, <2>3 DEF Next, vars, ResolveSucceeded, Refresh, Skip, Wire, Reload,
       KillCommand, List, Kill, Around, UserChooses, Open, Detach, Dies, Ages
  <2>5. v = w
    BY <2>1, <2>2, <2>4 DEF Land
  <2>6. setting' = [setting EXCEPT !.workspace =
                       IF Head(writing[w]).do = "set" THEN "ours" ELSE "unset"]
    BY <2>1, <2>4, <2>5 DEF Land
  <2>7. 1 \in DOMAIN writing[w] /\ Head(writing[w]) = writing[w][1]
    BY <2>1, <2>2
  <2>8. PICK wired \in BOOLEAN : Head(writing[w]).do = DecideDefaultProfile(setting, wired)
    BY <1>1, <2>1, <2>7 DEF SettingInv, Decided
  <2>9. setting.folder = "users"
    <3>1. Head(writing[w]).do \in {"set", "clear"}
      <4>1. writing[w][1] \in Update
        BY <2>2, <2>7
      <4>2. QED
        BY <2>7, <4>1 DEF Update
    <3>2. CASE {setting.global, setting.workspace, setting.folder} = {"unset"}
      <4>1. setting.global = "unset" /\ setting.workspace = "unset" /\ setting.folder = "unset"
        BY <3>2
      <4>2. QED
        BY <2>1, <4>1 DEF Effective
    <3>3. CASE setting.workspace = "ours"
      BY <2>1, <2>2, <3>3 DEF Effective, Settings
    <3>4. QED
      BY <2>8, <3>1, <3>2, <3>3 DEF DecideDefaultProfile
  <2>10. setting'.folder = "users"
    BY <2>2, <2>6, <2>9 DEF Settings
  <2>11. QED
    BY <2>10 DEF Effective
<1>2. QED
  BY <1>1, InitSetting, StepSetting, PTL DEF Spec, UserDefaultKept

\* No kill of reap() ends a session with a live pane or one of the user's own,
\* however old the listing is by then; only a namesake created since can be hit
\* (sessionReaper.ts:78-94).
THEOREM KillsKeepToTheList == Spec => ReaperSparesLive
<1>1. RemoteInv => \A j \in Jobs : \A d \in job[j].doomed :
                     job[j].kind = "reap" /\ Hits(j, d)
                       => session[d[1]].st = "corpse" /\ d[1] \notin Foreign
  <2> SUFFICES ASSUME RemoteInv, NEW j \in Jobs, NEW d \in job[j].doomed,
                      job[j].kind = "reap", Hits(j, d)
               PROVE  session[d[1]].st = "corpse" /\ d[1] \notin Foreign
    OBVIOUS
  <2>1. d[1] \in Names /\ session[d[1]].st \in {"none", "live", "corpse"}
    BY DEF RemoteInv, RemoteTypeOK
  <2>2. QED
    BY <2>1 DEF RemoteInv, Listed, Hits
<1>2. QED
  BY <1>1, InitRemote, StepRemote, PTL DEF Spec, ReaperSparesLive

\* Nor does a kill of the command end a session of another workspace or one of the
\* user's own.
THEOREM CommandStaysHome == Spec => CommandKeepsToWorkspace
<1>1. RemoteInv => \A j \in Jobs : \A d \in job[j].doomed :
                     job[j].kind = "kill" /\ Hits(j, d) => d[1] \in Own
  BY DEF RemoteInv, Listed, Hits
<1>2. QED
  BY <1>1, InitRemote, StepRemote, PTL DEF Spec, CommandKeepsToWorkspace

=============================================================================
