--------------------------- MODULE WiretraceProofs ---------------------------
(***************************************************************************)
(* Theorems of Wiretrace, for any number of requests and sites.            *)
(***************************************************************************)
EXTENDS Wiretrace, TLAPS

(* The scripts.                                                            *)

\* The handlers there are.
LEMMA ScriptNames ==
  DOMAIN Script = {"start", "callback00", "callback02", "visit", "login"}
BY DEF Script

\* No script is longer than six calls.
LEMMA ScriptLen == \A kind \in DOMAIN Script : Len(Script[kind]) \in 1..6
BY ScriptNames DEF Script

\* The scripts, one by one.
LEMMA EachScript ==
  /\ Script["start"] = <<"front", "notes", "front">>
  /\ Script["callback00"] = <<"front", "token", "jwks", "claims", "find", "write">>
  /\ Script["callback02"] = <<"front", "token", "jwks", "find", "claims", "write">>
  /\ Script["visit"] = <<"front">>
  /\ Script["login"] = <<"front", "notes", "once", "notes", "write">>
BY DEF Script

\* Writing the file is the last call of the scripts that do, and only a login of
\* chapter 03 goes through traceOnce, at its third call.
LEMMA CallsInPlace ==
  \A kind \in DOMAIN Script : \A k \in 1..Len(Script[kind]) :
    /\ Script[kind][k] = "write" => k = Len(Script[kind])
    /\ Script[kind][k] = "once" => kind = "login" /\ k = 3
<1> SUFFICES ASSUME NEW kind \in DOMAIN Script, NEW k \in 1..Len(Script[kind])
             PROVE  /\ Script[kind][k] = "write" => k = Len(Script[kind])
                    /\ Script[kind][k] = "once" => kind = "login" /\ k = 3
  OBVIOUS
<1>1. CASE kind = "start"
  <2>1. Len(Script["start"]) = 3
    BY EachScript
  <2>2. k \in 1..3
    BY <1>1, <2>1
  <2> QED
    BY <1>1, <2>1, <2>2, EachScript
<1>2. CASE kind = "callback00"
  <2>1. Len(Script["callback00"]) = 6
    BY EachScript
  <2>2. k \in 1..6
    BY <1>2, <2>1
  <2> QED
    BY <1>2, <2>1, <2>2, EachScript
<1>3. CASE kind = "callback02"
  <2>1. Len(Script["callback02"]) = 6
    BY EachScript
  <2>2. k \in 1..6
    BY <1>3, <2>1
  <2> QED
    BY <1>3, <2>1, <2>2, EachScript
<1>4. CASE kind = "visit"
  <2>1. Len(Script["visit"]) = 1
    BY EachScript
  <2>2. k \in 1..1
    BY <1>4, <2>1
  <2> QED
    BY <1>4, <2>1, <2>2, EachScript
<1>5. CASE kind = "login"
  <2>1. Len(Script["login"]) = 5
    BY EachScript
  <2>2. k \in 1..5
    BY <1>5, <2>1
  <2> QED
    BY <1>5, <2>1, <2>2, EachScript
<1> QED
  BY <1>1, <1>2, <1>3, <1>4, <1>5, ScriptNames

\* The only script of chapter 03 that writes is that of a login, at its end.
LEMMA LoginWrites ==
  /\ Kinds["ch03"] = {"visit", "login"}
  /\ Len(Script["login"]) = 5
  /\ \A k \in 1..6 :
       /\ ~(k <= Len(Script["visit"]) /\ Script["visit"][k] = "write")
       /\ k <= Len(Script["login"]) /\ Script["login"][k] = "write" => k = 5
BY DEF Script, Kinds

\* Every chapter runs handlers that have a script.
LEMMA KindsAreScripts == \A c \in DOMAIN Kinds : Kinds[c] \subseteq DOMAIN Script
BY ScriptNames DEF Kinds

-----------------------------------------------------------------------------
(* Types, and where a handler can be.                                      *)

\* A handler is at one of the calls of its script, which is one of its chapter;
\* it writes at the call that does, and a login is of a site.
InScript == \A h \in Handlers :
  /\ hs[h].step \in 1..Len(Script[hs[h].kind])
  /\ hs[h].phase = "idle" => hs[h].step = 1
  /\ hs[h].phase # "idle" => hs[h].kind \in Kinds[chapter]
  /\ hs[h].kind = "login" => hs[h].app \in Apps
  /\ Writing(h) => Op(h) = "write"
  /\ hs[h].phase = "wire" => Op(h) \in Exchanges /\ <<h, hs[h].step>> \in sent

\* What a step makes of the handler that takes it.
Moved(h, r) ==
  /\ hs' = [hs EXCEPT ![h] = r]
  /\ r \in Handler
  /\ hs[h].phase # "idle"
  /\ r.kind = hs[h].kind
  /\ r.app = hs[h].app
  /\ r.step <= Len(Script[r.kind])
  /\ r.phase # "idle"
  /\ \/ r.step = hs[h].step
     \/ r.step = hs[h].step + 1 /\ r.phase = "run"
  /\ r.phase \in {"hold", "open"} => Op(h) = "write" /\ r.step = hs[h].step
  /\ r.phase = "wire" => Op(h) \in Exchanges /\ r.step = hs[h].step /\ <<h, r.step>> \in sent'

\* A handler past a call: at the next one, or done after the last.
LEMMA PastOf ==
  ASSUME NEW r \in Handler, r.step \in 1..Len(Script[r.kind])
  PROVE  /\ Past(r) \in Handler
         /\ Past(r).kind = r.kind /\ Past(r).app = r.app
         /\ Past(r).n = r.n /\ Past(r).f = r.f
         /\ IF r.step = Len(Script[r.kind])
              THEN Past(r).step = r.step /\ Past(r).phase = "done"
              ELSE Past(r).step = r.step + 1 /\ Past(r).phase = "run"
         /\ Past(r).step <= Len(Script[r.kind])
<1>1. Len(Script[r.kind]) \in 1..6 /\ r.step \in 1..6
  BY ScriptLen DEF Handler
<1>2. CASE r.step = Len(Script[r.kind])
  BY <1>1, <1>2 DEF Past, Handler
<1>3. CASE r.step # Len(Script[r.kind])
  <2>0. \A m \in 1..6 : \A k \in 1..m : k # m => k + 1 \in 1..6 /\ k + 1 <= m
    OBVIOUS
  <2>1. r.step + 1 \in 1..6 /\ r.step + 1 <= Len(Script[r.kind])
    BY <1>1, <1>3, <2>0
  <2>2. Past(r) = [r EXCEPT !.step = r.step + 1, !.phase = "run"]
    BY <1>3 DEF Past
  <2> QED
    BY <1>1, <1>3, <2>1, <2>2 DEF Handler
<1> QED
  BY <1>2, <1>3

\* Each step replaces the record of one handler in one of these ways.
LEMMA StepMoves ==
  ASSUME TypeOK, InScript, NEW h \in Handlers, Steps(h)
  PROVE  \E r : Moved(h, r)
<1>0. /\ hs \in [Handlers -> Handler]
      /\ hs[h] \in Handler
      /\ hs[h].step \in 1..Len(Script[hs[h].kind])
      /\ hs[h].step \in 1..6
      /\ Len(Script[hs[h].kind]) \in 1..6
  BY ScriptLen DEF TypeOK, InScript, Handler
<1>1. ASSUME Advance(h), hs[h].phase # "idle"
      PROVE  Moved(h, Past(hs[h]))
  BY <1>0, <1>1, PastOf DEF Advance, Moved
<1>2. ASSUME NEW p \in {"done", "failed", "wire"}, hs' = [hs EXCEPT ![h].phase = p],
             hs[h].phase # "idle", p = "wire" => Op(h) \in Exchanges /\ <<h, hs[h].step>> \in sent'
      PROVE  Moved(h, [hs[h] EXCEPT !.phase = p])
  <2> DEFINE r == [hs[h] EXCEPT !.phase = p]
  <2>1. r \in Handler /\ r.kind = hs[h].kind /\ r.app = hs[h].app /\ r.step = hs[h].step
        /\ r.phase = p
    BY <1>0 DEF Handler
  <2>2. hs' = [hs EXCEPT ![h] = r]
    BY <1>0, <1>2
  <2>3. r.step <= Len(Script[r.kind])
    BY <1>0, <2>1
  <2> HIDE DEF r
  <2>4. Moved(h, r)
    BY <1>2, <2>1, <2>2, <2>3 DEF Moved
  <2> QED
    BY <2>4 DEF r
<1>3. CASE Add(h) \/ Find(h) \/ Skip(h) \/ WriteOut(h)
  <2>1. Advance(h) /\ hs[h].phase # "idle"
    BY <1>3 DEF Add, Find, Skip, WriteOut, Runs
  <2> QED
    BY <1>1, <2>1
<1>4. CASE GiveUp(h)
  BY <1>2, <1>4 DEF GiveUp, Fail
<1>5. CASE Send(h)
  BY <1>2, <1>5 DEF Send, Runs
<1>6. CASE Receive(h)
  <2>1. Advance(h) \/ hs' = [hs EXCEPT ![h].phase = "failed"]
    BY <1>6 DEF Receive, Fail
  <2>2. hs[h].phase # "idle"
    BY <1>6 DEF Receive
  <2> QED
    BY <1>1, <1>2, <2>1, <2>2
<1>7. CASE EnterOnce(h)
  <2>1. Advance(h) \/ hs' = [hs EXCEPT ![h].phase = "done"]
    BY <1>7 DEF EnterOnce
  <2>2. hs[h].phase # "idle"
    BY <1>7 DEF EnterOnce, Runs
  <2> QED
    BY <1>1, <1>2, <2>1, <2>2
<1>8. CASE Snapshot(h)
  <2>1. Len(items) \in Nat /\ Len(findings) \in Nat
    BY DEF TypeOK
  <2> DEFINE r == [hs[h] EXCEPT !.phase = "hold", !.n = Len(items), !.f = Len(findings)]
  <2>2. r \in Handler /\ r.kind = hs[h].kind /\ r.app = hs[h].app /\ r.step = hs[h].step
        /\ r.phase = "hold"
    BY <1>0, <2>1 DEF Handler
  <2>3. hs' = [hs EXCEPT ![h] = r] /\ hs[h].phase = "run" /\ Op(h) = "write"
    BY <1>0, <1>8 DEF Snapshot, Runs
  <2>4. r.step <= Len(Script[r.kind])
    BY <1>0, <2>2
  <2> HIDE DEF r
  <2>5. Moved(h, r)
    BY <2>2, <2>3, <2>4 DEF Moved
  <2> QED
    BY <2>5
<1>9. CASE Truncate(h)
  <2>1. Op(h) = "write"
    BY <1>9 DEF Truncate, InScript, Writing
  <2> DEFINE r == [hs[h] EXCEPT !.phase = "open"]
  <2>2. r \in Handler /\ r.kind = hs[h].kind /\ r.app = hs[h].app /\ r.step = hs[h].step
        /\ r.phase = "open"
    BY <1>0 DEF Handler
  <2>3. hs' = [hs EXCEPT ![h] = r] /\ hs[h].phase = "hold"
    BY <1>0, <1>9 DEF Truncate
  <2>4. r.step <= Len(Script[r.kind])
    BY <1>0, <2>2
  <2> HIDE DEF r
  <2>5. Moved(h, r)
    BY <2>1, <2>2, <2>3, <2>4 DEF Moved
  <2> QED
    BY <2>5
<1>10. CASE OpenFails(h)
  <2>1. Advance(h) \/ hs' = [hs EXCEPT ![h].phase = "failed"]
    BY <1>10 DEF OpenFails, Fail
  <2>2. hs[h].phase # "idle"
    BY <1>10 DEF OpenFails
  <2> QED
    BY <1>1, <1>2, <2>1, <2>2
<1> QED
  BY <1>3, <1>4, <1>5, <1>6, <1>7, <1>8, <1>9, <1>10 DEF Steps

\* A request that comes in.
Arrives(h) == \E kind \in DOMAIN Script, app \in Apps \cup {NoApp} : Arrive(h, kind, app)

\* Every step keeps the types.
LEMMA TypesAtStep ==
  ASSUME TypeOK, InScript, NEW h \in Handlers, Arrives(h) \/ Steps(h)
  PROVE  TypeOK'
<1>1. hs' \in [Handlers -> Handler]
  <2>1. CASE Arrives(h)
    <3>1. PICK kind \in DOMAIN Script, app \in Apps \cup {NoApp} : Arrive(h, kind, app)
      BY <2>1 DEF Arrives
    <3>2. hs[h] \in Handler
      BY DEF TypeOK
    <3>3. [hs[h] EXCEPT !.kind = kind, !.app = app, !.phase = "run"] \in Handler
      BY <3>2 DEF Handler
    <3> QED
      BY <3>1, <3>3 DEF Arrive, TypeOK
  <2>2. CASE Steps(h)
    BY <2>2, StepMoves DEF Moved, TypeOK
  <2> QED
    BY <2>1, <2>2
<1>0. hs[h].step \in 1..6
  BY DEF TypeOK, Handler
<1>2. chapter' \in DOMAIN Kinds
  BY DEF Arrives, Arrive, Steps, Add, Find, Skip, GiveUp, Send, Receive, EnterOnce,
         Snapshot, Truncate, WriteOut, OpenFails, TypeOK
<1>3. items' \in Seq([by : Handlers, step : 1..6])
  <2>1. items' = items \/ Record(h)
    BY DEF Arrives, Arrive, Steps, Add, Find, Skip, GiveUp, Send, Receive, EnterOnce,
           Snapshot, Truncate, WriteOut, OpenFails
  <2>2. [by |-> h, step |-> hs[h].step] \in [by : Handlers, step : 1..6]
    BY <1>0
  <2> DEFINE T == [by : Handlers, step : 1..6]
             e == [by |-> h, step |-> hs[h].step]
  <2>3. items \in Seq(T) /\ e \in T /\ (items' = items \/ items' = Append(items, e))
    BY <2>1, <2>2 DEF Record, TypeOK
  <2> HIDE DEF T, e
  <2>4. items' \in Seq(T)
    BY <2>3
  <2> QED
    BY <2>4 DEF T
<1>4. findings' \in Seq(Handlers)
  <2>1. findings' = findings \/ findings' = Append(findings, h)
    BY DEF Arrives, Arrive, Steps, Add, Find, Skip, GiveUp, Send, Receive, EnterOnce,
           Snapshot, Truncate, WriteOut, OpenFails
  <2> QED
    BY <2>1 DEF TypeOK
<1>5. once' \in [Apps -> Handlers \cup {NoHandler, Spent}]
  <2>1. \/ once' = once
        \/ once' = [once EXCEPT ![hs[h].app] = h]
        \/ LeaveOnce(h)
    BY DEF Arrives, Arrive, Steps, Add, Find, Skip, GiveUp, Send, Receive, EnterOnce,
           Snapshot, Truncate, WriteOut, OpenFails
  <2> QED
    BY <2>1 DEF LeaveOnce, TypeOK
<1>6. file' \in File
  <2>1. CASE file' = file
    BY <2>1 DEF TypeOK
  <2>2. CASE Truncate(h)
    BY <2>2 DEF Truncate, File
  <2>3. CASE WriteOut(h)
    <3>1. hs[h].n \in Nat /\ hs[h].f \in Nat /\ file.size \in Nat
      BY DEF TypeOK, Handler, File
    <3> QED
      BY <2>3, <3>1 DEF WriteOut, File
  <2> QED
    BY <2>1, <2>2, <2>3
    DEF Arrives, Arrive, Steps, Add, Find, Skip, GiveUp, Send, Receive, EnterOnce,
        Snapshot, OpenFails
<1>7. sent' \subseteq Handlers \X (1..6) /\ lost' \subseteq sent'
  <2>1. CASE Send(h)
    <3>1. <<h, hs[h].step>> \in Handlers \X (1..6)
      BY <1>0
    <3> QED
      BY <2>1, <3>1 DEF Send, TypeOK
  <2>2. CASE Receive(h)
    <3>1. sent' = sent /\ (lost' = lost \/ lost' = lost \cup {<<h, hs[h].step>>})
      BY <2>2 DEF Receive
    <3>2. <<h, hs[h].step>> \in sent
      BY <2>2 DEF Receive, InScript
    <3> QED
      BY <3>1, <3>2 DEF TypeOK
  <2> QED
    BY <2>1, <2>2
    DEF Arrives, Arrive, Steps, Add, Find, Skip, GiveUp, EnterOnce,
        Snapshot, Truncate, WriteOut, OpenFails, TypeOK
<1>8. wrote' \subseteq Handlers
  BY DEF Arrives, Arrive, Steps, Add, Find, Skip, GiveUp, Send, Receive, EnterOnce,
         Snapshot, Truncate, WriteOut, OpenFails, TypeOK
<1>9. overlapped' \subseteq Handlers
  BY DEF Arrives, Arrive, Steps, Add, Find, Skip, GiveUp, Send, Receive, EnterOnce,
         Snapshot, Truncate, WriteOut, OpenFails, TypeOK
<1> QED
  BY <1>1, <1>2, <1>3, <1>4, <1>5, <1>6, <1>7, <1>8, <1>9 DEF TypeOK

\* No handler leaves its script.
LEMMA InScriptAtStep ==
  ASSUME TypeOK, InScript, NEW h \in Handlers, Arrives(h) \/ Steps(h)
  PROVE  InScript'
<1>0. chapter' = chapter /\ hs \in [Handlers -> Handler]
  BY DEF Arrives, Arrive, Steps, Add, Find, Skip, GiveUp, Send, Receive, EnterOnce,
         Snapshot, Truncate, WriteOut, OpenFails, TypeOK
<1>1. CASE Arrives(h)
  <2>1. PICK kind \in DOMAIN Script, app \in Apps \cup {NoApp} : Arrive(h, kind, app)
    BY <1>1 DEF Arrives
  <2>2. hs[h].step = 1 /\ 1 \in 1..Len(Script[kind])
    <3>1. hs[h].step = 1
      BY <2>1 DEF Arrive, InScript
    <3>2. Len(Script[kind]) \in 1..6
      BY <2>1, ScriptLen
    <3>3. \A m \in 1..6 : 1 \in 1..m
      OBVIOUS
    <3> QED
      BY <3>1, <3>2, <3>3
  <2> DEFINE r == [hs[h] EXCEPT !.kind = kind, !.app = app, !.phase = "run"]
  <2>3. hs' = [hs EXCEPT ![h] = r] /\ kind \in Kinds[chapter] /\ (kind = "login" <=> app # NoApp)
    BY <2>1 DEF Arrive
  <2>4. r.kind = kind /\ r.app = app /\ r.phase = "run" /\ r.step = 1
    BY <1>0, <2>2 DEF Handler
  <2> HIDE DEF r
  <2> QED
    BY <1>0, <2>1, <2>2, <2>3, <2>4 DEF InScript, Writing, Op, Arrive
<1>2. CASE Steps(h)
  <2>1. PICK r : Moved(h, r)
    BY <1>2, StepMoves
  <2>2. r.step \in 1..Len(Script[r.kind])
    <3>1. hs[h].step \in 1..6 /\ r.step \in 1..6
      BY <1>0, <2>1 DEF Moved, Handler
    <3>2. r.kind \in DOMAIN Script
      BY <2>1 DEF Moved, Handler
    <3> QED
      BY <2>1, <3>1, <3>2, ScriptLen DEF Moved
  <2>3. sent \subseteq sent'
    BY <1>2 DEF Steps, Add, Find, Skip, GiveUp, Send, Receive, EnterOnce,
                Snapshot, Truncate, WriteOut, OpenFails
  <2> QED
    BY <1>0, <2>1, <2>2, <2>3 DEF InScript, Moved, Writing, Op
<1> QED
  BY <1>1, <1>2

\* Types and scripts hold at first.
LEMMA InScriptInit == Init => TypeOK /\ InScript
<1> SUFFICES ASSUME Init PROVE TypeOK /\ InScript
  OBVIOUS
<1>1. [kind |-> "start", app |-> NoApp, step |-> 1, phase |-> "idle", n |-> 0, f |-> 0]
        \in Handler
  BY ScriptNames DEF Handler
<1>2. TypeOK
  BY <1>1 DEF Init, TypeOK, File
<1>3. 1 \in 1..Len(Script["start"])
  BY EachScript
<1>4. ASSUME NEW h \in Handlers
      PROVE  hs[h].kind = "start" /\ hs[h].step = 1 /\ hs[h].phase = "idle"
  BY DEF Init
<1> QED
  BY <1>2, <1>3, <1>4 DEF InScript, Writing

-----------------------------------------------------------------------------
(* traceOnce.                                                              *)

\* A login that has gone into traceOnce and not come out of it has its site's.
HoldsOnce == \A h \in Handlers :
  hs[h].kind = "login" /\ hs[h].step \in 4..5 /\ hs[h].phase \in {"run", "hold", "open"}
    => once[hs[h].app] = h

\* Every step keeps whoever is in traceOnce at a step inside it.
LEMMA HoldsOnceAtStep ==
  ASSUME TypeOK, InScript, HoldsOnce, NEW h \in Handlers, Arrives(h) \/ Steps(h)
  PROVE  HoldsOnce'
<1> SUFFICES ASSUME NEW k \in Handlers, hs'[k].kind = "login", hs'[k].step \in 4..5,
                    hs'[k].phase \in {"run", "hold", "open"}
             PROVE  once'[hs'[k].app] = k
  BY DEF HoldsOnce
<1>0. /\ hs \in [Handlers -> Handler]
      /\ once \in [Apps -> Handlers \cup {NoHandler, Spent}]
      /\ k \in Nat /\ h \in Nat
      /\ \A j \in Handlers : hs[j].kind = "login" => hs[j].app \in Apps
      /\ \A j \in Handlers : hs[j].step \in 1..6
  <2>1. \A j \in Handlers : hs[j].step \in 1..6
    BY DEF TypeOK, Handler
  <2>2. k \in Nat /\ h \in Nat
    BY RecorderAssumption DEF Handlers
  <2>3. \A j \in Handlers : hs[j].kind = "login" => hs[j].app \in Apps
    BY DEF InScript
  <2> QED
    BY <2>1, <2>2, <2>3 DEF TypeOK
<1>00. /\ hs[h] \in Handler
       /\ hs[h].step \in 1..Len(Script[hs[h].kind])
  BY <1>0 DEF InScript
<1>1. CASE k # h
  <2>1. hs'[k] = hs[k]
    BY <1>0, <1>1 DEF Arrives, Arrive, Steps, Add, Find, Skip, GiveUp, Send, Receive, EnterOnce,
       Snapshot, Truncate, WriteOut, OpenFails, Advance, Fail
  <2>2. once[hs[k].app] = k /\ hs[k].app \in Apps
    BY <1>0, <2>1 DEF HoldsOnce
  <2>3. CASE EnterOnce(h)
    <3>1. \/ once' = once
          \/ once[hs[h].app] = NoHandler /\ once' = [once EXCEPT ![hs[h].app] = h]
      BY <2>3 DEF EnterOnce
    <3> QED
      BY <1>0, <2>1, <2>2, <3>1, RecorderAssumption
  <2>4. CASE WriteOut(h) \/ OpenFails(h)
    BY <1>0, <1>1, <2>1, <2>2, <2>4 DEF WriteOut, OpenFails, LeaveOnce
  <2>5. CASE UNCHANGED once
    BY <2>1, <2>2, <2>5
  <2> QED
    BY <2>3, <2>4, <2>5 DEF Arrives, Arrive, Steps, Add, Find, Skip, GiveUp, Send, Receive,
       Snapshot, Truncate
<1>2. CASE k = h
  <2>1. CASE Arrives(h)
    <3>1. hs'[h].step = 1
      <4>1. PICK kind \in DOMAIN Script, app \in Apps \cup {NoApp} : Arrive(h, kind, app)
        BY <2>1 DEF Arrives
      <4>2. hs[h].step = 1
        BY <4>1 DEF Arrive, InScript
      <4> QED
        BY <1>0, <1>00, <4>1, <4>2 DEF Arrive, Handler
    <3> QED
      BY <1>2, <3>1
  <2>2. CASE Add(h)
    <3>1. Advance(h) /\ hs[h].phase = "run" /\ Op(h) # "once" /\ once' = once
      BY <2>2 DEF Add, Runs, Adds
    <3>2. hs'[h] = Past(hs[h])
      BY <1>0, <3>1 DEF Advance
    <3>3. /\ hs[h].kind = "login" /\ hs'[h].app = hs[h].app
          /\ hs'[h].step = hs[h].step + 1
      <4>1. hs'[h].phase # "done"
        BY <1>2
      <4> QED
        BY <1>00, <1>2, <3>2, <4>1, PastOf
    <3>4. hs[h].step # 3
      BY <3>1, <3>3, EachScript DEF Op
    <3>5. hs[h].step \in 4..5
      BY <1>0, <1>2, <3>3, <3>4
    <3> QED
      BY <1>2, <3>1, <3>3, <3>5 DEF HoldsOnce
  <2>3. CASE Find(h) \/ Skip(h) \/ Send(h)
    <3>1. Op(h) \in {"find", "jwks", "token"} /\ hs'[h].kind = hs[h].kind
      <4>1. Op(h) \in {"find", "jwks", "token"}
        BY <2>3 DEF Find, Skip, Send, Runs, Optional, Exchanges
      <4>2. hs'[h].kind = hs[h].kind
        BY <1>0, <2>3, StepMoves DEF Steps, Moved
      <4> QED
        BY <4>1, <4>2
    <3>2. hs[h].step \in {1, 2, 3, 4, 5}
      <4>1. Len(Script["login"]) = 5
        BY EachScript
      <4>2. hs[h].kind = "login"
        BY <1>2, <3>1
      <4>3. hs[h].step \in 1..5
        BY <1>00, <4>1, <4>2
      <4> QED
        BY <4>3
    <3> QED
      BY <1>2, <3>1, <3>2, EachScript DEF Op
  <2>4. CASE GiveUp(h)
    BY <1>0, <1>2, <2>4 DEF GiveUp, Fail
  <2>5. CASE Receive(h)
    <3>1. Op(h) \in {"jwks", "token"} /\ hs'[h].kind = hs[h].kind
      <4>1. Op(h) \in {"jwks", "token"}
        BY <2>5 DEF Receive, InScript, Exchanges
      <4>2. hs'[h].kind = hs[h].kind
        BY <1>0, <2>5, StepMoves DEF Steps, Moved
      <4> QED
        BY <4>1, <4>2
    <3>2. hs[h].step \in {1, 2, 3, 4, 5}
      <4>1. Len(Script["login"]) = 5
        BY EachScript
      <4>2. hs[h].kind = "login"
        BY <1>2, <3>1
      <4>3. hs[h].step \in 1..5
        BY <1>00, <4>1, <4>2
      <4> QED
        BY <4>3
    <3> QED
      BY <1>2, <3>1, <3>2, EachScript DEF Op
  <2>6. CASE EnterOnce(h)
    <3>1. CASE Advance(h) /\ once' = [once EXCEPT ![hs[h].app] = h]
      <4>1. hs'[h] = Past(hs[h])
        BY <1>0, <3>1 DEF Advance
      <4>2. hs[h].kind = "login" /\ hs'[h].app = hs[h].app
        BY <1>00, <1>2, <4>1, PastOf
      <4> QED
        BY <1>0, <1>2, <3>1, <4>2
    <3>2. CASE hs' = [hs EXCEPT ![h].phase = "done"]
      BY <1>0, <1>2, <3>2
    <3> QED
      BY <2>6, <3>1, <3>2 DEF EnterOnce
  <2>7. CASE Snapshot(h) \/ Truncate(h)
    <3>1. /\ hs'[h].kind = hs[h].kind /\ hs'[h].app = hs[h].app /\ hs'[h].step = hs[h].step
          /\ hs[h].phase \in {"run", "hold"} /\ once' = once
      BY <1>0, <2>7 DEF Snapshot, Truncate, Runs, Handler
    <3> QED
      BY <1>2, <3>1 DEF HoldsOnce
  <2>8. CASE WriteOut(h) \/ OpenFails(h)
    <3>1. Advance(h) \/ Fail(h)
      BY <2>8 DEF WriteOut, OpenFails
    <3>2. Op(h) = "write" /\ hs[h].kind \in DOMAIN Script
          /\ hs[h].step \in 1..Len(Script[hs[h].kind])
      BY <1>0, <2>8 DEF WriteOut, OpenFails, InScript, Writing, Handler
    <3>3. hs[h].step = Len(Script[hs[h].kind])
      BY <3>2, CallsInPlace DEF Op
    <3>4. hs'[h].phase \in {"done", "failed"}
      <4>1. hs'[h] = Past(hs[h]) \/ hs'[h].phase = "failed"
        BY <1>0, <1>00, <3>1 DEF Advance, Fail, Handler
      <4> QED
        BY <1>00, <3>3, <4>1, PastOf
    <3> QED
      BY <1>2, <3>4
  <2> QED
    BY <2>1, <2>2, <2>3, <2>4, <2>5, <2>6, <2>7, <2>8 DEF Steps
<1> QED
  BY <1>1, <1>2

\* A login waits in traceOnce only for one of its own site that is inside, with
\* notes to add or the file to write, and so waits for nobody itself.
Inside(h) ==
  hs[h].kind = "login" /\ hs[h].step \in 4..5 /\ hs[h].phase \in {"run", "hold", "open"}
LoginsWaitForAWriter ==
  \A h \in Handlers :
    Runs(h, {"once"}) /\ once[hs[h].app] \notin {NoHandler, Spent}
      => \E k \in Handlers : once[hs[h].app] = k /\ hs[k].app = hs[h].app /\ Inside(k)

\* And the other way round: whose traceOnce is taken, it is by a login of that
\* site that is inside.
HeldInside == \A k \in Handlers, a \in Apps : once[a] = k => hs[k].app = a /\ Inside(k)

\* Every step keeps traceOnce with a login of its own site.
LEMMA HeldInsideAtStep ==
  ASSUME TypeOK, InScript, HeldInside, NEW h \in Handlers, Arrives(h) \/ Steps(h)
  PROVE  HeldInside'
<1> SUFFICES ASSUME NEW k \in Handlers, NEW a \in Apps, once'[a] = k
             PROVE  /\ hs'[k].app = a /\ hs'[k].kind = "login" /\ hs'[k].step \in 4..5
                    /\ hs'[k].phase \in {"run", "hold", "open"}
  BY DEF HeldInside, Inside
<1>0. /\ hs \in [Handlers -> Handler] /\ hs[h] \in Handler
      /\ once \in [Apps -> Handlers \cup {NoHandler, Spent}]
      /\ k # Spent /\ h # Spent
      /\ hs[h].step \in 1..Len(Script[hs[h].kind])
  <2>1. k \in Nat /\ h \in Nat
    BY RecorderAssumption DEF Handlers
  <2>2. hs[h].step \in 1..Len(Script[hs[h].kind])
    BY DEF InScript
  <2> QED
    BY <2>1, <2>2, RecorderAssumption DEF TypeOK
<1>1. ASSUME once[a] = k
      PROVE  /\ hs[k].app = a /\ hs[k].kind = "login" /\ hs[k].step \in 4..5
             /\ hs[k].phase \in {"run", "hold", "open"}
  BY <1>1 DEF HeldInside, Inside
<1>2. CASE k # h
  <2>1. hs'[k] = hs[k]
    BY <1>0, <1>2 DEF Arrives, Arrive, Steps, Add, Find, Skip, GiveUp, Send, Receive, EnterOnce,
       Snapshot, Truncate, WriteOut, OpenFails, Advance, Fail
  <2>2. once[a] = k
    <3>1. CASE EnterOnce(h)
      <4>1. once' = once \/ once' = [once EXCEPT ![hs[h].app] = h]
        BY <3>1 DEF EnterOnce
      <4> QED
        BY <1>0, <1>2, <4>1
    <3>2. CASE WriteOut(h) \/ OpenFails(h)
      BY <1>0, <3>2 DEF WriteOut, OpenFails, LeaveOnce
    <3>3. CASE once' = once
      BY <3>3
    <3> QED
      BY <3>1, <3>2, <3>3 DEF Arrives, Arrive, Steps, Add, Find, Skip, GiveUp, Send, Receive,
         Snapshot, Truncate
  <2> QED
    BY <1>1, <2>1, <2>2
<1>3. CASE k = h
  <2>1. CASE EnterOnce(h)
    <3>1. hs[h].phase = "run" /\ hs[h].kind = "login" /\ hs[h].step = 3
      BY <1>0, <2>1, CallsInPlace DEF EnterOnce, Runs, Op, Handler
    <3>2. once[a] # h
      BY <1>1, <1>3, <3>1
    <3>3. once' = [once EXCEPT ![hs[h].app] = h] /\ Advance(h) /\ a = hs[h].app
      <4>1. \/ once' = [once EXCEPT ![hs[h].app] = h] /\ Advance(h)
            \/ once' = once
        BY <2>1 DEF EnterOnce
      <4> QED
        BY <1>0, <1>3, <3>2, <4>1
    <3>4. hs'[h] = Past(hs[h])
      BY <1>0, <3>3 DEF Advance
    <3>5. Len(Script[hs[h].kind]) = 5
      BY <3>1, LoginWrites
    <3>6. hs[h].step # Len(Script[hs[h].kind])
      BY <3>1, <3>5
    <3>7. /\ Past(hs[h]).kind = hs[h].kind /\ Past(hs[h]).app = hs[h].app
          /\ Past(hs[h]).step = hs[h].step + 1 /\ Past(hs[h]).phase = "run"
      BY <1>0, <3>6, PastOf
    <3> QED
      BY <1>3, <3>1, <3>3, <3>4, <3>7
  <2>2. CASE WriteOut(h) \/ OpenFails(h)
    BY <1>0, <1>3, <2>2 DEF WriteOut, OpenFails, LeaveOnce
  <2>3. CASE Add(h) \/ Find(h) \/ Skip(h) \/ GiveUp(h) \/ Send(h) \/ Receive(h)
               \/ Snapshot(h) \/ Truncate(h) \/ Arrives(h)
    <3>1. once' = once
      BY <2>3 DEF Add, Find, Skip, GiveUp, Send, Receive, Snapshot, Truncate, Arrives, Arrive
    <3>2. /\ hs[h].app = a /\ hs[h].kind = "login" /\ hs[h].step \in 4..5
          /\ hs[h].phase \in {"run", "hold", "open"}
      BY <1>1, <1>3, <3>1
    <3>3. /\ Op(h) \in {"notes", "write"} /\ (Op(h) = "notes" => hs[h].step = 4)
          /\ Len(Script[hs[h].kind]) = 5
      <4>1. Script["login"][4] = "notes" /\ Script["login"][5] = "write"
        BY EachScript
      <4> QED
        BY <3>2, <4>1, LoginWrites DEF Op
    <3>4. CASE Add(h)
      <4>1. Op(h) = "notes" /\ Advance(h)
        BY <3>3, <3>4 DEF Add, Runs, Adds
      <4>2. hs'[h] = Past(hs[h])
        BY <1>0, <4>1 DEF Advance
      <4>3. hs[h].step = 4 /\ hs[h].step # Len(Script[hs[h].kind])
        BY <3>3, <4>1
      <4>4. /\ Past(hs[h]).kind = hs[h].kind /\ Past(hs[h]).app = hs[h].app
            /\ Past(hs[h]).step = hs[h].step + 1 /\ Past(hs[h]).phase = "run"
        BY <1>0, <4>3, PastOf
      <4> QED
        BY <1>3, <3>2, <4>2, <4>3, <4>4
    <3>5. CASE Snapshot(h)
      <4>1. hs' = [hs EXCEPT ![h].phase = "hold", ![h].n = Len(items), ![h].f = Len(findings)]
        BY <3>5 DEF Snapshot
      <4>2. hs'[h] = [hs[h] EXCEPT !.phase = "hold", !.n = Len(items), !.f = Len(findings)]
        BY <1>0, <4>1
      <4>3. hs'[h].app = hs[h].app /\ hs'[h].kind = hs[h].kind /\ hs'[h].step = hs[h].step
            /\ hs'[h].phase = "hold"
        BY <1>0, <4>2 DEF Handler
      <4> QED
        BY <1>3, <3>2, <4>3
    <3>6. CASE Truncate(h)
      <4>1. hs'[h] = [hs[h] EXCEPT !.phase = "open"]
        BY <1>0, <3>6 DEF Truncate
      <4>2. hs'[h].app = hs[h].app /\ hs'[h].kind = hs[h].kind /\ hs'[h].step = hs[h].step
            /\ hs'[h].phase = "open"
        BY <1>0, <4>1 DEF Handler
      <4> QED
        BY <1>3, <3>2, <4>2
    <3>7. CASE Find(h) \/ Skip(h) \/ GiveUp(h) \/ Send(h) \/ Receive(h) \/ Arrives(h)
      BY <3>2, <3>3, <3>7 DEF Find, Skip, GiveUp, Send, Receive, Arrives, Arrive, Runs,
         Optional, Exchanges
    <3> QED
      BY <2>3, <3>4, <3>5, <3>6, <3>7
  <2> QED
    BY <2>1, <2>2, <2>3 DEF Steps
<1> QED
  BY <1>2, <1>3

-----------------------------------------------------------------------------
(* Getting on.                                                             *)

\* How far a handler has come: every call, and the parts of those that have some.
Reached(r) ==
  CASE r.phase = "idle"               -> 0
    [] r.phase \in {"done", "failed"} -> 24
    [] OTHER -> 4 * (r.step - 1)
                  + (CASE r.phase = "run" -> 1 [] r.phase = "open" -> 3 [] OTHER -> 2)

\* Whatever happens is one handler getting on, and none is set back: no retry,
\* no loop, no second turn in traceOnce.  A request makes 24 steps at most.
EveryStepCounts ==
  [][\E h \in Handlers : /\ Reached(hs'[h]) > Reached(hs[h]) /\ Reached(hs'[h]) <= 24
                         /\ \A k \in Handlers \ {h} : hs'[k] = hs[k]]_vars

\* Where a handler stands by its phase and step.
LEMMA ReachedIs ==
  ASSUME NEW r \in Handler
  PROVE  /\ r.phase = "idle" => Reached(r) = 0
         /\ r.phase \in {"done", "failed"} => Reached(r) = 24
         /\ r.phase = "run" => Reached(r) = 4 * (r.step - 1) + 1
         /\ r.phase \in {"wire", "hold"} => Reached(r) = 4 * (r.step - 1) + 2
         /\ r.phase = "open" => Reached(r) = 4 * (r.step - 1) + 3
BY DEF Reached, Handler

\* Numbers, out of reach of records.
LEMMA PlaceInCall ==
  \A k \in 1..6 : \A x, y :
    /\ x \in {4 * (k - 1) + 1, 4 * (k - 1) + 2, 4 * (k - 1) + 3} => x \in 1..23
    /\ x \in 1..23 /\ y = 24 => y \in x + 1..24
    /\ x \in {4 * (k - 1) + 1, 4 * (k - 1) + 2, 4 * (k - 1) + 3} /\ k # 6 /\ y = 4 * k + 1
         => y \in x + 1..24
OBVIOUS

\* A handler past a call, or done for, is further than before.
LEMMA PastIsFurther ==
  ASSUME NEW r \in Handler, r.step \in 1..Len(Script[r.kind]),
         r.phase \in {"run", "wire", "hold", "open"}
  PROVE  /\ Reached(r) \in 1..23
         /\ Reached(Past(r)) \in Reached(r) + 1..24
<1>1. r.step \in 1..6
  BY DEF Handler
<1>2. Reached(r) \in {4 * (r.step - 1) + 1, 4 * (r.step - 1) + 2, 4 * (r.step - 1) + 3}
  BY ReachedIs
<1>3. Reached(r) \in 1..23
  BY <1>1, <1>2, PlaceInCall
<1>5. CASE r.step = Len(Script[r.kind])
  <2>1. Reached(Past(r)) = 24
    <3>1. Past(r) \in Handler /\ Past(r).phase = "done"
      BY <1>5, PastOf
    <3> QED
      BY <3>1, ReachedIs
  <2> QED
    BY <1>1, <1>3, <2>1, PlaceInCall
<1>6. CASE r.step # Len(Script[r.kind])
  <2>1. Past(r) \in Handler /\ Past(r).step = r.step + 1 /\ Past(r).phase = "run"
    BY <1>6, PastOf
  <2>2. r.step + 1 \in 1..6 /\ r.step # 6
    BY <1>1, <2>1 DEF Handler
  <2>3. Reached(Past(r)) = 4 * (r.step + 1 - 1) + 1
    BY <2>1, ReachedIs
  <2>4. Reached(Past(r)) = 4 * r.step + 1
    BY <1>1, <2>3
  <2> QED
    BY <1>1, <1>2, <1>3, <2>2, <2>4, PlaceInCall
<1> QED
  BY <1>5, <1>6

\* A handler gets on from r to q.
GetsOn(r, q) == Reached(q) > Reached(r) /\ Reached(q) <= 24

\* Getting on, in numbers.
LEMMA FurtherOn ==
  ASSUME NEW r, NEW q, Reached(r) \in 0..23, Reached(q) \in Reached(r) + 1..24
  PROVE  GetsOn(r, q)
<1> DEFINE x == Reached(r)
           y == Reached(q)
<1>1. x \in 0..23 /\ y \in x + 1..24
  OBVIOUS
<1> HIDE DEF x, y
<1>2. y > x /\ y <= 24
  BY <1>1
<1> QED
  BY <1>2 DEF x, y, GetsOn

\* A step of a handler takes it further, and leaves the others where they are.
LEMMA StepCounts ==
  ASSUME TypeOK, InScript, NEW h \in Handlers, Arrives(h) \/ Steps(h)
  PROVE  GetsOn(hs[h], hs'[h]) /\ \A k \in Handlers \ {h} : hs'[k] = hs[k]
<1>0. /\ hs \in [Handlers -> Handler] /\ hs[h] \in Handler
      /\ hs[h].step \in 1..Len(Script[hs[h].kind]) /\ hs[h].step \in 1..6
  BY DEF TypeOK, InScript, Handler
<1>1. \A k \in Handlers \ {h} : hs'[k] = hs[k]
  BY <1>0 DEF Arrives, Arrive, Steps, Add, Find, Skip, GiveUp, Send, Receive, EnterOnce,
     Snapshot, Truncate, WriteOut, OpenFails, Advance, Fail
<1> SUFFICES GetsOn(hs[h], hs'[h])
  BY <1>1
<1>2. ASSUME hs[h].phase \in {"run", "wire", "hold", "open"}
      PROVE  Reached(hs[h]) \in 1..23
  BY <1>0, <1>2, PastIsFurther
<1>3. ASSUME Advance(h), hs[h].phase \in {"run", "wire", "hold", "open"}
      PROVE  GetsOn(hs[h], hs'[h])
  <2>1. hs'[h] = Past(hs[h])
    BY <1>0, <1>3 DEF Advance
  <2>2. Reached(Past(hs[h])) \in Reached(hs[h]) + 1..24 /\ Reached(hs[h]) \in 1..23
    BY <1>0, <1>3, PastIsFurther
  <2>3. Reached(hs[h]) \in 0..23
    BY <2>2
  <2>4. GetsOn(hs[h], Past(hs[h]))
    BY <2>2, <2>3, FurtherOn
  <2> QED
    BY <2>1, <2>4
<1>4. ASSUME NEW p \in {"done", "failed"}, hs' = [hs EXCEPT ![h].phase = p],
             hs[h].phase \in {"run", "wire", "hold", "open"}
      PROVE  GetsOn(hs[h], hs'[h])
  <2>1. hs'[h] = [hs[h] EXCEPT !.phase = p]
    BY <1>0, <1>4
  <2>2. hs'[h] \in Handler /\ hs'[h].phase = p
    BY <1>0, <2>1 DEF Handler
  <2>3. Reached(hs'[h]) = 24
    BY <2>2, ReachedIs
  <2>4. \A x \in 1..23 : x \in 0..23 /\ 24 \in x + 1..24
    OBVIOUS
  <2>5. Reached(hs[h]) \in 0..23 /\ Reached(hs'[h]) \in Reached(hs[h]) + 1..24
    BY <1>2, <1>4, <2>3, <2>4
  <2> QED
    BY <2>5, FurtherOn
\* The steps within a call.
<1>5. ASSUME NEW q \in Handler, hs'[h] = q, q.step = hs[h].step,
             \/ hs[h].phase = "run" /\ q.phase \in {"wire", "hold"}
             \/ hs[h].phase = "hold" /\ q.phase = "open"
      PROVE  GetsOn(hs[h], hs'[h])
  <2>1. \/ /\ Reached(hs[h]) = 4 * (hs[h].step - 1) + 1
           /\ Reached(q) = 4 * (hs[h].step - 1) + 2
        \/ /\ Reached(hs[h]) = 4 * (hs[h].step - 1) + 2
           /\ Reached(q) = 4 * (hs[h].step - 1) + 3
    <3>1. CASE hs[h].phase = "run"
      <4>1. Reached(hs[h]) = 4 * (hs[h].step - 1) + 1
        BY <1>0, <3>1, ReachedIs
      <4>2. Reached(q) = 4 * (hs[h].step - 1) + 2
        BY <1>5, <3>1, ReachedIs
      <4> QED
        BY <4>1, <4>2
    <3>2. CASE hs[h].phase = "hold"
      <4>1. Reached(hs[h]) = 4 * (hs[h].step - 1) + 2
        BY <1>0, <3>2, ReachedIs
      <4>2. Reached(q) = 4 * (hs[h].step - 1) + 3
        BY <1>5, <3>2, ReachedIs
      <4> QED
        BY <4>1, <4>2
    <3> QED
      BY <1>5, <3>1, <3>2
  <2> DEFINE k == hs[h].step
             x == Reached(hs[h])
             y == Reached(q)
  <2>2. /\ k \in 1..6
        /\ \/ x = 4 * (k - 1) + 1 /\ y = 4 * (k - 1) + 2
           \/ x = 4 * (k - 1) + 2 /\ y = 4 * (k - 1) + 3
    BY <1>0, <2>1
  <2> HIDE DEF k, x, y
  <2>3. x \in 0..23 /\ y \in x + 1..24
    BY <2>2
  <2>4. GetsOn(hs[h], q)
    BY <2>3, FurtherOn DEF x, y
  <2> QED
    BY <1>5, <2>4
<1>6. CASE Add(h) \/ Find(h) \/ Skip(h) \/ WriteOut(h)
  <2>1. Advance(h) /\ hs[h].phase \in {"run", "open"}
    BY <1>6 DEF Add, Find, Skip, WriteOut, Runs
  <2> QED
    BY <1>3, <2>1
<1>7. CASE GiveUp(h)
  <2>1. hs' = [hs EXCEPT ![h].phase = "failed"] /\ hs[h].phase = "run"
    BY <1>7 DEF GiveUp, Fail
  <2> QED
    BY <1>4, <2>1
<1>8. CASE Receive(h) \/ OpenFails(h)
  <2>1. /\ hs[h].phase \in {"wire", "hold"}
        /\ Advance(h) \/ hs' = [hs EXCEPT ![h].phase = "failed"]
    BY <1>8 DEF Receive, OpenFails, Fail
  <2> QED
    BY <1>3, <1>4, <2>1
<1>9. CASE EnterOnce(h)
  <2>1. /\ hs[h].phase = "run"
        /\ Advance(h) \/ hs' = [hs EXCEPT ![h].phase = "done"]
    BY <1>9 DEF EnterOnce, Runs
  <2> QED
    BY <1>3, <1>4, <2>1
<1>10. CASE Send(h) \/ Truncate(h)
  <2>1. PICK p \in {"wire", "open"} :
          /\ hs' = [hs EXCEPT ![h].phase = p]
          /\ IF p = "wire" THEN hs[h].phase = "run" ELSE hs[h].phase = "hold"
    BY <1>10 DEF Send, Truncate, Runs
  <2> DEFINE q == [hs[h] EXCEPT !.phase = p]
  <2>2. q \in Handler /\ q.step = hs[h].step /\ q.phase = p /\ hs'[h] = q
    BY <1>0, <2>1 DEF Handler
  <2> HIDE DEF q
  <2> QED
    BY <1>5, <2>1, <2>2
<1>11. CASE Snapshot(h)
  <2>1. Len(items) \in Nat /\ Len(findings) \in Nat
    BY DEF TypeOK
  <2> DEFINE q == [hs[h] EXCEPT !.phase = "hold", !.n = Len(items), !.f = Len(findings)]
  <2>2. q \in Handler /\ q.step = hs[h].step /\ q.phase = "hold"
    BY <1>0, <2>1 DEF Handler
  <2>3. hs'[h] = q /\ hs[h].phase = "run"
    BY <1>0, <1>11 DEF Snapshot, Runs
  <2> HIDE DEF q
  <2> QED
    BY <1>5, <2>2, <2>3
<1>12. CASE Arrives(h)
  <2>1. PICK kind \in DOMAIN Script, app \in Apps \cup {NoApp} : Arrive(h, kind, app)
    BY <1>12 DEF Arrives
  <2> DEFINE q == [hs[h] EXCEPT !.kind = kind, !.app = app, !.phase = "run"]
  <2>2. q \in Handler /\ q.step = hs[h].step /\ q.phase = "run"
    BY <1>0 DEF Handler
  <2>3. hs'[h] = q /\ hs[h].phase = "idle" /\ hs[h].step = 1
    BY <1>0, <2>1 DEF Arrive, InScript
  <2> HIDE DEF q
  <2>4. Reached(q) = 4 * (1 - 1) + 1
    BY <2>2, <2>3, ReachedIs
  <2>5. Reached(hs[h]) = 0
    BY <1>0, <2>3, ReachedIs
  <2>6. Reached(hs[h]) \in 0..23 /\ Reached(q) \in Reached(hs[h]) + 1..24
    BY <2>4, <2>5
  <2>7. GetsOn(hs[h], q)
    BY <2>6, FurtherOn
  <2> QED
    BY <2>3, <2>7
<1> QED
  BY <1>6, <1>7, <1>8, <1>9, <1>10, <1>11, <1>12 DEF Steps

-----------------------------------------------------------------------------
(* The entries and the requests on the wire.                               *)

Over(h) == hs[h].phase \in {"done", "failed"}

\* What a handler has recorded it has gone past, in order.
EntriesPast ==
  /\ \A i \in DOMAIN items :
       \/ items[i].step < hs[items[i].by].step
       \/ items[i].step = hs[items[i].by].step /\ Over(items[i].by)
  /\ \A i, j \in DOMAIN items :
       items[i].by = items[j].by /\ i < j => items[i].step < items[j].step

\* So with its requests; after one that broke off there is no other.
SentPast == \A h \in Handlers : \A k \in 1..6 :
  <<h, k>> \in sent => \/ k < hs[h].step
                       \/ k = hs[h].step /\ (Over(h) \/ hs[h].phase = "wire")

LostLast == \A h \in Handlers : \A k \in 1..6 :
  <<h, k>> \in lost => hs[h].phase = "failed"

RequestsPast == SentPast /\ LostLast

\* Which requests have an entry.
Told == \A h \in Handlers, k \in 1..6 :
  k \in DOMAIN Script[hs[h].kind] /\ Script[hs[h].kind][k] \in Exchanges =>
    (Answered(h, k) <=> \E i \in EntriesOf(h) : items[i].step = k)

\* The entries of the list, with their handlers and steps.
LEMMA ItemsTyped ==
  ASSUME TypeOK
  PROVE  /\ Len(items) \in Nat /\ DOMAIN items = 1..Len(items)
         /\ \A i \in DOMAIN items : items[i].by \in Handlers /\ items[i].step \in 1..6
<1> DEFINE T == [by : Handlers, step : 1..6]
<1>1. items \in Seq(T)
  BY DEF TypeOK
<1>2. \A e \in T : e.by \in Handlers /\ e.step \in 1..6
  OBVIOUS
<1> HIDE DEF T
<1> QED
  BY <1>1, <1>2

\* A step that sends nothing; one that hears of an answer, or gives up, goes on.
LEMMA StepKeepsSentPast ==
  ASSUME TypeOK, SentPast, NEW h \in Handlers, ~Over(h), UNCHANGED sent,
         NEW r, hs' = [hs EXCEPT ![h] = r], r \in Handler,
         r.step = hs[h].step \/ r.step = hs[h].step + 1,
         hs[h].phase = "wire" /\ r.step = hs[h].step => r.phase \in {"done", "failed"}
  PROVE  SentPast'
<1> SUFFICES ASSUME NEW g \in Handlers, NEW k \in 1..6, <<g, k>> \in sent
             PROVE  \/ k < hs'[g].step
                    \/ k = hs'[g].step /\ (Over(g) \/ hs[g].phase = "wire")'
  BY DEF SentPast
<1>1. \/ k < hs[g].step
      \/ k = hs[g].step /\ (Over(g) \/ hs[g].phase = "wire")
  BY DEF SentPast
<1>2. hs \in [Handlers -> Handler] /\ hs[h].step \in 1..6 /\ r.step \in 1..6
  BY DEF TypeOK, Handler
<1>3. CASE g # h
  BY <1>1, <1>2, <1>3 DEF Over
<1>4. CASE g = h
  <2>1. hs'[g] = r
    BY <1>2, <1>4
  <2>2. CASE k < hs[h].step
    BY <1>2, <1>4, <2>1, <2>2
  <2>3. CASE k = hs[h].step /\ hs[h].phase = "wire"
    BY <1>2, <1>4, <2>1, <2>3 DEF Over
  <2> QED
    BY <1>1, <1>4, <2>2, <2>3
<1> QED
  BY <1>3, <1>4

\* Whose response broke off has failed, and other handlers do not change that.
LEMMA StepKeepsLostLast ==
  ASSUME TypeOK, LostLast, NEW h \in Handlers, ~Over(h), UNCHANGED lost,
         NEW r, hs' = [hs EXCEPT ![h] = r]
  PROVE  LostLast'
<1> SUFFICES ASSUME NEW g \in Handlers, NEW k \in 1..6, <<g, k>> \in lost
             PROVE  hs'[g].phase = "failed"
  BY DEF LostLast
<1>1. hs[g].phase = "failed"
  BY DEF LostLast
<1>2. g # h
  BY <1>1 DEF Over
<1> QED
  BY <1>1, <1>2 DEF TypeOK

\* A step that records nothing, and sends and hears nothing.
LEMMA SilentKeepsTold ==
  ASSUME TypeOK, InScript, EntriesPast, RequestsPast, Told, NEW h \in Handlers,
         NEW r, Moved(h, r), UNCHANGED <<items, sent, lost>>,
         hs[h].phase # "wire", r.phase # "wire", ~Over(h)
  PROVE  EntriesPast' /\ RequestsPast' /\ Told'
<1>0. /\ hs \in [Handlers -> Handler]
      /\ items \in Seq([by : Handlers, step : 1..6])
      /\ hs' = [hs EXCEPT ![h] = r]
      /\ r.kind = hs[h].kind
      /\ r \in Handler /\ (r.step = hs[h].step \/ r.step = hs[h].step + 1)
      /\ hs[h].step \in Nat /\ r.step \in Nat /\ hs[h].step <= r.step
  <2>1. \A x \in Handler : x.step \in Nat
    BY DEF Handler
  <2>2. /\ hs \in [Handlers -> Handler] /\ r \in Handler
        /\ items \in Seq([by : Handlers, step : 1..6])
        /\ hs' = [hs EXCEPT ![h] = r]
        /\ r.kind = hs[h].kind
        /\ (r.step = hs[h].step \/ r.step = hs[h].step + 1)
    BY DEF TypeOK, Moved
  <2> QED
    BY <2>1, <2>2
<1>1. EntriesPast'
  <2>1. ASSUME NEW i \in DOMAIN items
        PROVE  \/ items[i].step < hs'[items[i].by].step
               \/ items[i].step = hs'[items[i].by].step /\ Over(items[i].by)'
    <3>1. CASE items[i].by = h
      <4>1. items[i].step < hs[h].step
        BY <3>1 DEF EntriesPast
      <4> QED
        BY <1>0, <3>1, <4>1, ItemsTyped
    <3>2. CASE items[i].by # h
      BY <1>0, <3>2, ItemsTyped DEF EntriesPast, Over
    <3> QED
      BY <3>1, <3>2
  <2> QED
    BY <2>1 DEF EntriesPast
<1>2. RequestsPast'
  BY <1>0, StepKeepsSentPast, StepKeepsLostLast DEF RequestsPast
<1>3. ASSUME NEW g \in Handlers, NEW k \in 1..6
      PROVE  /\ hs'[g].kind = hs[g].kind
             /\ Answered(g, k) <=> Answered(g, k)'
             /\ EntriesOf(g)' = EntriesOf(g)
  <2>1. \/ hs'[g] = hs[g]
        \/ hs'[g].kind = hs[g].kind /\ hs'[g].phase # "wire" /\ hs[g].phase # "wire"
    BY <1>0
  <2> QED
    BY <2>1 DEF Answered, EntriesOf
<1>4. Told'
  BY <1>3 DEF Told
<1> QED
  BY <1>1, <1>2, <1>4

\* An entry more, at the step the handler leaves.
LEMMA RecordKeepsOrder ==
  ASSUME TypeOK, EntriesPast, NEW h \in Handlers, ~Over(h), Record(h),
         NEW r, hs' = [hs EXCEPT ![h] = r], r \in Handler,
         \/ r.step = hs[h].step + 1
         \/ r.step = hs[h].step /\ r.phase \in {"done", "failed"}
  PROVE  EntriesPast'
<1> DEFINE e == [by |-> h, step |-> hs[h].step]
<1>0. /\ hs \in [Handlers -> Handler]
      /\ \A j \in Handlers : hs[j].step \in 1..6
      /\ Len(items) \in Nat
      /\ DOMAIN items = 1..Len(items)
      /\ \A i \in DOMAIN items : items[i].by \in Handlers /\ items[i].step \in 1..6
  <2>1. \A j \in Handlers : hs[j].step \in 1..6
    BY DEF TypeOK, Handler
  <2> QED
    BY <2>1, ItemsTyped DEF TypeOK
<1>1. /\ DOMAIN items' = 1..Len(items) + 1
      /\ \A i \in DOMAIN items : items'[i] = items[i]
      /\ items'[Len(items) + 1] = e
  BY <1>0 DEF Record, TypeOK
<1>2. e.by = h /\ e.step = hs[h].step
  OBVIOUS
<1> HIDE DEF e
<1>3. \A i \in DOMAIN items : items[i].by = h => items[i].step < hs[h].step
  BY DEF EntriesPast
<1>4. ASSUME NEW i \in DOMAIN items'
      PROVE  \/ items'[i].step < hs'[items'[i].by].step
             \/ items'[i].step = hs'[items'[i].by].step
                /\ hs'[items'[i].by].phase \in {"done", "failed"}
  <2>1. CASE i = Len(items) + 1
    BY <1>0, <1>1, <1>2, <2>1
  <2>2. CASE i \in DOMAIN items /\ items[i].by = h
    BY <1>0, <1>1, <1>3, <2>2
  <2>3. CASE i \in DOMAIN items /\ items[i].by # h
    BY <1>0, <1>1, <2>3 DEF EntriesPast, Over
  <2> QED
    BY <1>0, <1>1, <2>1, <2>2, <2>3
<1>5. ASSUME NEW i \in DOMAIN items', NEW j \in DOMAIN items',
             items'[i].by = items'[j].by, i < j
      PROVE  items'[i].step < items'[j].step
  <2>1. i \in DOMAIN items
    BY <1>0, <1>1, <1>5
  <2>2. CASE j \in DOMAIN items
    BY <1>1, <1>5, <2>1, <2>2 DEF EntriesPast
  <2>3. CASE j = Len(items) + 1
    BY <1>1, <1>2, <1>3, <1>5, <2>1, <2>3
  <2> QED
    BY <1>0, <1>1, <2>2, <2>3
<1>6. (\A i \in DOMAIN items :
         \/ items[i].step < hs[items[i].by].step
         \/ items[i].step = hs[items[i].by].step /\ Over(items[i].by))'
  BY <1>4 DEF Over
<1>7. (\A i, j \in DOMAIN items :
         items[i].by = items[j].by /\ i < j => items[i].step < items[j].step)'
  BY <1>5
<1> QED
  BY <1>6, <1>7 DEF EntriesPast

\* A recorded entry adds its step to those of its handler, and no other.
LEMMA RecordTells ==
  ASSUME TypeOK, NEW h \in Handlers, Record(h), NEW g \in Handlers, NEW k
  PROVE  (\E i \in EntriesOf(g) : items[i].step = k)'
           <=> (\E i \in EntriesOf(g) : items[i].step = k) \/ (g = h /\ k = hs[h].step)
<1> DEFINE e == [by |-> h, step |-> hs[h].step]
<1>1. /\ DOMAIN items' = 1..Len(items) + 1
      /\ \A i \in DOMAIN items : items'[i] = items[i]
      /\ items'[Len(items) + 1] = e
  BY ItemsTyped DEF Record, TypeOK
<1>2. e.by = h /\ e.step = hs[h].step
  OBVIOUS
<1> HIDE DEF e
<1>3. ASSUME NEW i \in DOMAIN items', items'[i].by = g, items'[i].step = k
      PROVE  (\E j \in EntriesOf(g) : items[j].step = k) \/ (g = h /\ k = hs[h].step)
  <2>1. CASE i \in DOMAIN items
    BY <1>1, <1>3, <2>1 DEF EntriesOf
  <2>2. CASE i = Len(items) + 1
    BY <1>1, <1>2, <1>3, <2>2
  <2> QED
    BY <1>1, <2>1, <2>2, ItemsTyped
<1>4. ASSUME NEW j \in EntriesOf(g), items[j].step = k
      PROVE  j \in EntriesOf(g)' /\ items'[j].step = k
  <2>1. j \in DOMAIN items /\ j \in DOMAIN items'
    BY <1>1, ItemsTyped DEF EntriesOf
  <2> QED
    BY <1>1, <1>4, <2>1 DEF EntriesOf
<1>5. ASSUME g = h, k = hs[h].step
      PROVE  Len(items) + 1 \in EntriesOf(g)' /\ items'[Len(items) + 1].step = k
  BY <1>1, <1>2, <1>5, ItemsTyped DEF EntriesOf
<1> QED
  BY <1>3, <1>4, <1>5 DEF EntriesOf

\* Every step keeps what was sent and answered recorded.
LEMMA ToldAtStep ==
  ASSUME TypeOK, InScript, EntriesPast, RequestsPast, Told,
         NEW h \in Handlers, Arrives(h) \/ Steps(h)
  PROVE  EntriesPast' /\ RequestsPast' /\ Told'
<1>0. /\ hs \in [Handlers -> Handler]
      /\ hs[h] \in Handler
      /\ hs[h].step \in 1..6
      /\ hs[h].step \in 1..Len(Script[hs[h].kind])
      /\ sent \subseteq Handlers \X (1..6)
      /\ lost \subseteq sent
  BY DEF TypeOK, InScript, Handler
<1>1. CASE Arrives(h)
  <2>1. PICK kind \in DOMAIN Script, app \in Apps \cup {NoApp} : Arrive(h, kind, app)
    BY <1>1 DEF Arrives
  <2>2. /\ hs[h].phase = "idle" /\ hs[h].step = 1
        /\ \A g \in Handlers : g # h => hs'[g] = hs[g]
        /\ hs'[h].step = 1 /\ hs'[h].phase = "run"
        /\ UNCHANGED <<items, sent, lost>>
    BY <1>0, <2>1 DEF Arrive, InScript, Handler
  <2>3. EntriesOf(h) = {}
    <3>1. \A i \in DOMAIN items : items[i].by = h => items[i].step < 1
      BY <2>2 DEF EntriesPast, Over
    <3> QED
      BY <3>1, ItemsTyped DEF EntriesOf
  <2>4. \A k \in 1..6 : <<h, k>> \notin sent
    <3>1. \A k \in 1..6 : <<h, k>> \in sent => k < 1
      BY <2>2 DEF RequestsPast, SentPast, Over
    <3> QED
      BY <3>1
  <2>5. EntriesPast'
    <3>1. \A i \in DOMAIN items : items[i].by \in Handlers /\ items[i].by # h
      BY <2>3, ItemsTyped DEF EntriesOf
    <3> QED
      BY <2>2, <3>1 DEF EntriesPast, Over
  <2>6. RequestsPast'
    <3>1. \A g \in Handlers : g = h \/ hs'[g] = hs[g]
      BY <2>2
    <3>2. SentPast'
      BY <2>2, <2>4, <3>1 DEF RequestsPast, SentPast, Over
    <3>3. LostLast'
      BY <1>0, <2>2, <2>4, <3>1 DEF RequestsPast, LostLast
    <3> QED
      BY <3>2, <3>3 DEF RequestsPast
  <2>7. Told'
    <3>1. ASSUME NEW g \in Handlers, NEW k \in 1..6, g # h
          PROVE  hs'[g] = hs[g] /\ (Answered(g, k) <=> Answered(g, k)')
                 /\ EntriesOf(g)' = EntriesOf(g)
      BY <2>2, <3>1 DEF Answered, EntriesOf
    <3>2. ASSUME NEW k \in 1..6
          PROVE  ~Answered(h, k)' /\ EntriesOf(h)' = {}
      BY <2>2, <2>3, <2>4 DEF Answered, EntriesOf
    <3> QED
      BY <2>2, <3>1, <3>2 DEF Told
  <2> QED
    BY <2>5, <2>6, <2>7
<1> SUFFICES ASSUME Steps(h) PROVE EntriesPast' /\ RequestsPast' /\ Told'
  BY <1>1
<1>2. PICK r : Moved(h, r)
  BY StepMoves
<1>3. /\ hs' = [hs EXCEPT ![h] = r] /\ r \in Handler /\ r.kind = hs[h].kind
      /\ r.step \in 1..6 /\ (r.step = hs[h].step \/ (r.step = hs[h].step + 1 /\ r.phase = "run"))
  <2>1. r \in Handler => r.step \in 1..6
    BY DEF Handler
  <2> QED
    BY <1>2, <2>1 DEF Moved
<1>4. CASE Find(h) \/ Skip(h) \/ GiveUp(h) \/ EnterOnce(h) \/ Snapshot(h) \/ Truncate(h)
           \/ WriteOut(h) \/ OpenFails(h)
  <2>1. hs[h].phase \in {"run", "hold", "open"} /\ UNCHANGED <<items, sent, lost>>
    BY <1>4 DEF Find, Skip, GiveUp, EnterOnce, Snapshot, Truncate, WriteOut, OpenFails, Runs
  <2>2. ~Over(h) /\ hs[h].phase # "wire"
    BY <2>1 DEF Over
  <2>3. r.phase # "wire"
    <3>1. r.phase = "wire" => r.step = hs[h].step /\ <<h, hs[h].step>> \in sent
      BY <1>2, <2>1 DEF Moved
    <3>2. <<h, hs[h].step>> \notin sent
      <4> PICK c \in 1..6 : c = hs[h].step
        BY <1>0
      <4>1. <<h, c>> \in sent => c < hs[h].step \/ Over(h) \/ hs[h].phase = "wire"
        BY DEF RequestsPast, SentPast
      <4> QED
        BY <2>2, <4>1
    <3> QED
      BY <3>1, <3>2
  <2> QED
    BY <1>2, <2>1, <2>2, <2>3, SilentKeepsTold
<1>5. CASE Add(h)
  <2>1. /\ hs[h].phase = "run" /\ Op(h) \in Adds /\ Record(h) /\ hs'[h] = Past(hs[h])
        /\ UNCHANGED <<sent, lost>>
    BY <1>0, <1>5 DEF Add, Runs, Advance
  <2>2. r = Past(hs[h])
    BY <1>0, <1>3, <2>1
  <2>3. ~Over(h) /\ hs[h].phase # "wire" /\ r.phase \in {"run", "done"}
        /\ (r.step = hs[h].step + 1 \/ (r.step = hs[h].step /\ r.phase = "done"))
    <3>1. IF hs[h].step = Len(Script[hs[h].kind])
            THEN r.step = hs[h].step /\ r.phase = "done"
            ELSE r.step = hs[h].step + 1 /\ r.phase = "run"
      BY <1>0, <2>2, PastOf
    <3> QED
      BY <2>1, <3>1 DEF Over
  <2>4. EntriesPast'
    BY <1>3, <2>1, <2>3, RecordKeepsOrder
  <2>5. RequestsPast'
    <3>1. r.step = hs[h].step \/ r.step = hs[h].step + 1
      BY <2>3
    <3>2. SentPast'
      BY <1>3, <2>1, <2>3, <3>1, StepKeepsSentPast DEF RequestsPast
    <3>3. LostLast'
      BY <1>3, <2>1, <2>3, StepKeepsLostLast DEF RequestsPast
    <3> QED
      BY <3>2, <3>3 DEF RequestsPast
  <2>6. Told'
    <3>1. ASSUME NEW g \in Handlers, NEW k \in 1..6
          PROVE  hs'[g].kind = hs[g].kind /\ (Answered(g, k) <=> Answered(g, k)')
      <4>1. hs'[g] = hs[g] \/ (g = h /\ hs'[g] = r)
        BY <1>0, <1>3
      <4>2. hs'[g].kind = hs[g].kind
        BY <1>3, <4>1
      <4>3. Answered(g, k) <=> Answered(g, k)'
        BY <2>1, <2>3, <4>1 DEF Answered
      <4> QED
        BY <4>2, <4>3
    <3>2. Op(h) \notin Exchanges
      BY <2>1 DEF Adds, Exchanges
    <3>3. ASSUME NEW g \in Handlers, NEW k \in 1..6,
                 k \in DOMAIN Script[hs'[g].kind], Script[hs'[g].kind][k] \in Exchanges
          PROVE  Answered(g, k)' <=> (\E i \in EntriesOf(g) : items[i].step = k)'
      <4>1. hs'[g].kind = hs[g].kind /\ (Answered(g, k) <=> Answered(g, k)')
        BY <3>1
      <4>2. (\E i \in EntriesOf(g) : items[i].step = k)'
              <=> (\E i \in EntriesOf(g) : items[i].step = k) \/ (g = h /\ k = hs[h].step)
        BY <2>1, RecordTells
      <4>3. ~(g = h /\ k = hs[h].step)
        BY <3>2, <3>3, <4>1 DEF Op
      <4>4. Answered(g, k) <=> \E i \in EntriesOf(g) : items[i].step = k
        BY <3>3, <4>1 DEF Told
      <4> QED
        BY <4>1, <4>2, <4>3, <4>4
    <3> QED
      BY <3>3 DEF Told
  <2> QED
    BY <2>4, <2>5, <2>6
<1>6. CASE Send(h)
  <2>1. /\ hs[h].phase = "run" /\ hs'[h].phase = "wire" /\ hs'[h].step = hs[h].step
        /\ sent' = sent \cup {<<h, hs[h].step>>} /\ UNCHANGED <<items, lost>>
    BY <1>0, <1>6 DEF Send, Runs, Handler
  <2>2. r.phase = "wire" /\ r.step = hs[h].step /\ ~Over(h) /\ r.phase \notin {"done", "failed"}
    BY <1>0, <1>3, <2>1 DEF Over
  <2>3. EntriesPast'
    <3>1. \A i \in DOMAIN items : items[i].by = h => items[i].step < hs[h].step
      BY <2>2 DEF EntriesPast
    <3>2. ASSUME NEW i \in DOMAIN items
          PROVE  \/ items[i].step < hs'[items[i].by].step
                 \/ items[i].step = hs'[items[i].by].step /\ Over(items[i].by)'
      <4>1. CASE items[i].by = h
        BY <1>0, <1>3, <2>2, <3>1, <4>1
      <4>2. CASE items[i].by # h
        <5>1. hs'[items[i].by] = hs[items[i].by]
          BY <1>0, <1>3, <4>2, ItemsTyped
        <5> QED
          BY <2>1, <5>1 DEF EntriesPast, Over
      <4> QED
        BY <4>1, <4>2
    <3> QED
      BY <2>1, <3>2 DEF EntriesPast
  <2>4. RequestsPast'
    <3>1. ASSUME NEW g \in Handlers, NEW k \in 1..6, <<g, k>> \in sent'
          PROVE  \/ k < hs'[g].step
                 \/ k = hs'[g].step /\ (Over(g) \/ hs[g].phase = "wire")'
      <4>1. CASE <<g, k>> = <<h, hs[h].step>>
        BY <1>0, <1>3, <2>2, <4>1
      <4>2. CASE <<g, k>> \in sent
        BY <1>0, <1>3, <2>1, <2>2, <4>2 DEF RequestsPast, SentPast, Over
      <4> QED
        BY <2>1, <3>1, <4>1, <4>2
    <3>2. ASSUME NEW g \in Handlers, NEW k \in 1..6, <<g, k>> \in lost'
          PROVE  hs'[g].phase = "failed"
      BY <1>0, <1>3, <2>1, <3>2 DEF RequestsPast, LostLast
    <3> QED
      BY <3>1, <3>2 DEF RequestsPast, SentPast, LostLast
  <2>5. Told'
    <3>1. ASSUME NEW g \in Handlers, NEW k \in 1..6, <<g, k>> # <<h, hs[h].step>>
          PROVE  Answered(g, k) <=> Answered(g, k)'
      <4>1. CASE g # h
        BY <1>0, <1>3, <2>1, <3>1, <4>1 DEF Answered
      <4>2. CASE g = h /\ k # hs[h].step
        BY <1>0, <1>3, <2>1, <2>2, <3>1, <4>2 DEF Answered
      <4> QED
        BY <3>1, <4>1, <4>2
    <3>2. ~Answered(h, hs[h].step)'
      BY <2>1 DEF Answered
    <3>3. ~\E i \in EntriesOf(h) : items[i].step = hs[h].step
      BY <1>0, <2>2, ItemsTyped DEF EntriesPast, EntriesOf
    <3>4. \A g \in Handlers : hs'[g].kind = hs[g].kind /\ EntriesOf(g)' = EntriesOf(g)
      BY <1>0, <1>3, <2>1 DEF EntriesOf
    <3> QED
      BY <2>1, <3>1, <3>2, <3>3, <3>4 DEF Told
  <2> QED
    BY <2>3, <2>4, <2>5
<1>7. CASE Receive(h)
  <2>0. PICK c \in 1..6 : c = hs[h].step
    BY <1>0
  <2>1. /\ hs[h].phase = "wire" /\ <<h, hs[h].step>> \in sent /\ sent' = sent
        /\ <<h, hs[h].step>> \notin lost
        /\ \A k \in 1..6 : <<h, k>> \notin lost
    BY <1>0, <1>7 DEF Receive, InScript, RequestsPast, LostLast
  <2>2. ~Over(h)
    BY <2>1 DEF Over
  <2>3. /\ r.phase # "wire"
        /\ r.step = hs[h].step + 1 \/ (r.step = hs[h].step /\ r.phase \in {"done", "failed"})
    <3>1. r = Past(hs[h]) \/ r = [hs[h] EXCEPT !.phase = "failed"]
      BY <1>0, <1>3, <1>7 DEF Receive, Advance, Fail
    <3>2. CASE r = Past(hs[h])
      <4>1. IF hs[h].step = Len(Script[hs[h].kind])
              THEN r.step = hs[h].step /\ r.phase = "done"
              ELSE r.step = hs[h].step + 1 /\ r.phase = "run"
        BY <1>0, <3>2, PastOf
      <4> QED
        BY <4>1
    <3>3. CASE r = [hs[h] EXCEPT !.phase = "failed"]
      BY <1>0, <3>3 DEF Handler
    <3> QED
      BY <3>1, <3>2, <3>3
  <2>4. ASSUME NEW g \in Handlers
        PROVE  hs'[g].kind = hs[g].kind /\ (g # h => hs'[g] = hs[g])
    BY <1>0, <1>3
  <2>5. SentPast'
    <3>1. r.step = hs[h].step \/ r.step = hs[h].step + 1
      BY <2>3
    <3> QED
      <4>1. SentPast /\ ~Over(h) /\ UNCHANGED sent /\ hs' = [hs EXCEPT ![h] = r] /\ r \in Handler
        BY <1>3, <2>1, <2>2 DEF RequestsPast
      <4>2. hs[h].phase = "wire" /\ r.step = hs[h].step => r.phase \in {"done", "failed"}
        BY <1>0, <2>3
      <4> QED
        BY <3>1, <4>1, <4>2, StepKeepsSentPast
  <2>6. CASE Record(h) /\ UNCHANGED lost
    <3>1. EntriesPast'
      BY <1>3, <2>2, <2>3, <2>6, RecordKeepsOrder
    <3>2. RequestsPast'
      <4>1. ASSUME NEW g \in Handlers, NEW k \in 1..6, <<g, k>> \in lost'
            PROVE  hs'[g].phase = "failed"
        BY <2>1, <2>4, <2>6, <4>1 DEF RequestsPast, LostLast
      <4> QED
        BY <2>5, <4>1 DEF RequestsPast, LostLast
    <3>3. Told'
      <4>1. ASSUME NEW g \in Handlers, NEW k \in 1..6, <<g, k>> # <<h, c>>
            PROVE  Answered(g, k) <=> Answered(g, k)'
        <5>1. CASE g # h
          BY <2>1, <2>4, <2>6, <5>1 DEF Answered
        <5>2. CASE g = h /\ k # c
          BY <1>0, <1>3, <2>0, <2>1, <2>3, <2>6, <5>2 DEF Answered
        <5> QED
          BY <4>1, <5>1, <5>2
      <4>2. Answered(h, c)'
        BY <1>0, <1>3, <2>0, <2>1, <2>3, <2>6 DEF Answered
      <4>3. ASSUME NEW g \in Handlers, NEW k \in 1..6
            PROVE  (\E i \in EntriesOf(g) : items[i].step = k)'
                     <=> (\E i \in EntriesOf(g) : items[i].step = k) \/ (g = h /\ k = c)
        BY <2>0, <2>6, RecordTells
      <4> QED
        BY <2>4, <4>1, <4>2, <4>3 DEF Told
    <3> QED
      BY <3>1, <3>2, <3>3
  <2>7. CASE lost' = lost \cup {<<h, hs[h].step>>} /\ Fail(h) /\ UNCHANGED items
    <3>0. r.phase = "failed" /\ r.step = hs[h].step
      BY <1>0, <1>3, <2>7 DEF Fail, Handler
    <3>1. EntriesPast'
      BY <1>0, <1>3, <2>7, <3>0, ItemsTyped DEF EntriesPast, Over
    <3>2. RequestsPast'
      <4>1. ASSUME NEW g \in Handlers, NEW k \in 1..6, <<g, k>> \in lost'
            PROVE  hs'[g].phase = "failed"
        BY <1>0, <1>3, <2>1, <2>4, <2>7, <3>0, <4>1 DEF RequestsPast, LostLast
      <4> QED
        BY <2>5, <4>1 DEF RequestsPast, LostLast
    <3>3. Told'
      <4>1. ASSUME NEW g \in Handlers, NEW k \in 1..6, <<g, k>> # <<h, c>>
            PROVE  Answered(g, k) <=> Answered(g, k)'
        <5>0. <<g, k>> \in lost' <=> <<g, k>> \in lost
          BY <2>0, <2>7, <4>1
        <5>1. CASE g # h
          BY <2>1, <2>4, <5>0, <5>1 DEF Answered
        <5>2. CASE g = h /\ k # c
          BY <1>0, <1>3, <2>0, <2>1, <2>3, <5>0, <5>2 DEF Answered
        <5> QED
          BY <4>1, <5>1, <5>2
      <4>2. ~Answered(h, c)'
        BY <2>0, <2>7 DEF Answered
      <4>3. ~\E i \in EntriesOf(h) : items[i].step = c
        BY <1>0, <2>0, <2>2, ItemsTyped DEF EntriesPast, EntriesOf
      <4>4. \A g \in Handlers : EntriesOf(g)' = EntriesOf(g)
        BY <2>7 DEF EntriesOf
      <4> QED
        BY <2>4, <2>7, <4>1, <4>2, <4>3, <4>4 DEF Told
    <3> QED
      BY <3>1, <3>2, <3>3
  <2> QED
    BY <1>7, <2>6, <2>7 DEF Receive
<1> QED
  BY <1>4, <1>5, <1>6, <1>7 DEF Steps

-----------------------------------------------------------------------------
(* The file.                                                               *)

WroteDone == \A h \in wrote : hs[h].phase = "done"

\* A snapshot holds what its handler recorded, which records no more.
Covers == \A h \in Handlers : Writing(h) \/ h \in wrote =>
  /\ \A i \in DOMAIN items : items[i].by = h => i <= hs[h].n
  /\ \A i \in DOMAIN findings : findings[i] = h => i <= hs[h].f
  /\ hs[h].n <= Len(items)
  /\ hs[h].f <= Len(findings)

\* A write that has met no other is the only one, of the longest snapshot, into
\* an empty file.
Alone == \A h \in Handlers : Writing(h) /\ h \notin overlapped =>
  /\ \A g \in Handlers : Writing(g) => g = h
  /\ \A w \in wrote : hs[w].n <= hs[h].n /\ hs[w].f <= hs[h].f
  /\ hs[h].phase = "open" => file.size = 0

Shown == file.by \in wrote \ overlapped =>
  /\ file.whole
  /\ file.n = hs[file.by].n
  /\ file.f = hs[file.by].f
  /\ \A w \in wrote : hs[w].n <= file.n /\ hs[w].f <= file.f

FileInv == WroteDone /\ Covers /\ Alone /\ Shown

\* The invariant of the file says what FileTells does.
LEMMA FileInvTells == TypeOK /\ FileInv => FileTells
<1> SUFFICES ASSUME TypeOK, FileInv, file.by \in wrote \ overlapped
             PROVE  /\ file.whole
                    /\ \A i \in DOMAIN items : items[i].by \in wrote => i <= file.n
                    /\ \A i \in DOMAIN findings : findings[i] \in wrote => i <= file.f
  BY DEF FileTells
<1>0. /\ file.n \in Nat /\ file.f \in Nat /\ wrote \subseteq Handlers
      /\ \A h \in Handlers : hs[h].n \in Nat /\ hs[h].f \in Nat
      /\ DOMAIN items \subseteq Nat /\ DOMAIN findings \subseteq Nat
  <2>1. \A r \in Handler : r.n \in Nat /\ r.f \in Nat
    BY DEF Handler
  <2> QED
    BY <2>1, ItemsTyped DEF TypeOK, File
<1>1. file.whole /\ \A w \in wrote : hs[w].n <= file.n /\ hs[w].f <= file.f
  BY DEF FileInv, Shown
<1>2. ASSUME NEW i \in DOMAIN items, items[i].by \in wrote
      PROVE  i <= file.n
  BY <1>0, <1>1, <1>2 DEF FileInv, Covers
<1>3. ASSUME NEW i \in DOMAIN findings, findings[i] \in wrote
      PROVE  i <= file.f
  BY <1>0, <1>1, <1>3 DEF FileInv, Covers
<1> QED
  BY <1>1, <1>2, <1>3

\* A step of a handler that is not writing after it.
LEMMA OtherKeepsFileInv ==
  ASSUME TypeOK, FileInv, NEW h \in Handlers, hs[h].phase # "done",
         hs'[h].phase \notin {"hold", "open"},
         \A g \in Handlers : g # h => hs'[g] = hs[g],
         UNCHANGED <<file, wrote, overlapped>>,
         Len(items) <= Len(items'), Len(findings) <= Len(findings'),
         Len(items') \in Nat, Len(findings') \in Nat,
         \A i \in DOMAIN items' :
           (i \in DOMAIN items /\ items'[i] = items[i]) \/ items'[i].by = h,
         \A i \in DOMAIN findings' :
           (i \in DOMAIN findings /\ findings'[i] = findings[i]) \/ findings'[i] = h
  PROVE  FileInv'
<1>0. /\ wrote \subseteq Handlers /\ h \notin wrote
      /\ \A g \in Handlers : hs[g].n \in Nat /\ hs[g].f \in Nat
      /\ Len(items) \in Nat /\ Len(findings) \in Nat
  <2>1. \A r \in Handler : r.n \in Nat /\ r.f \in Nat
    BY DEF Handler
  <2> QED
    BY <2>1 DEF TypeOK, FileInv, WroteDone
<1>1. WroteDone'
  BY <1>0 DEF FileInv, WroteDone
<1>2. Covers'
  <2> SUFFICES ASSUME NEW g \in Handlers, Writing(g)' \/ g \in wrote
               PROVE  /\ \A i \in DOMAIN items' : items'[i].by = g => i <= hs'[g].n
                      /\ \A i \in DOMAIN findings' : findings'[i] = g => i <= hs'[g].f
                      /\ hs'[g].n <= Len(items')
                      /\ hs'[g].f <= Len(findings')
    BY DEF Covers
  <2>1. g # h /\ hs'[g] = hs[g] /\ (Writing(g) \/ g \in wrote)
    BY <1>0 DEF Writing
  <2>2. /\ \A i \in DOMAIN items : items[i].by = g => i <= hs[g].n
        /\ \A i \in DOMAIN findings : findings[i] = g => i <= hs[g].f
        /\ hs[g].n <= Len(items)
        /\ hs[g].f <= Len(findings)
    BY <2>1 DEF FileInv, Covers
  <2> QED
    BY <1>0, <2>1, <2>2
<1>3. Alone'
  BY <1>0 DEF FileInv, Alone, Writing
<1>4. Shown'
  BY <1>0 DEF FileInv, Shown
<1> QED
  BY <1>1, <1>2, <1>3, <1>4 DEF FileInv

\* Every step keeps the file as long as the lists its writer copied.
LEMMA FileInvAtStep ==
  ASSUME TypeOK, TypeOK', InScript, FileInv, NEW h \in Handlers, Arrives(h) \/ Steps(h)
  PROVE  FileInv'
<1>0. /\ hs \in [Handlers -> Handler]
      /\ hs[h] \in Handler
      /\ hs[h].step \in 1..Len(Script[hs[h].kind])
      /\ wrote \subseteq Handlers
      /\ \A g \in Handlers : hs[g].n \in Nat /\ hs[g].f \in Nat
      /\ Len(items) \in Nat /\ Len(findings) \in Nat
      /\ DOMAIN items = 1..Len(items) /\ DOMAIN findings = 1..Len(findings)
      /\ file.size \in Nat
  <2>1. \A r \in Handler : r.n \in Nat /\ r.f \in Nat
    BY DEF Handler
  <2>2. file.size \in Nat
    BY DEF TypeOK, File
  <2>3. Len(findings) \in Nat /\ DOMAIN findings = 1..Len(findings)
    BY DEF TypeOK
  <2>4. hs[h].step \in 1..Len(Script[hs[h].kind])
    BY DEF InScript
  <2>5. hs \in [Handlers -> Handler] /\ wrote \subseteq Handlers
    BY DEF TypeOK
  <2> QED
    BY <2>1, <2>2, <2>3, <2>4, <2>5, ItemsTyped
<1>1. ASSUME hs[h].phase # "done", hs'[h].phase \notin {"hold", "open"},
             \A g \in Handlers : g # h => hs'[g] = hs[g],
             UNCHANGED <<file, wrote, overlapped>>,
             items' = items \/ Record(h),
             findings' = findings \/ findings' = Append(findings, h)
      PROVE  FileInv'
  <2>1. /\ Len(items') \in Nat /\ Len(items) <= Len(items')
        /\ \A i \in DOMAIN items' :
             (i \in DOMAIN items /\ items'[i] = items[i]) \/ items'[i].by = h
    <3>1. CASE items' = items
      BY <1>0, <3>1
    <3>2. CASE Record(h)
      <4> DEFINE e == [by |-> h, step |-> hs[h].step]
      <4>1. items' = Append(items, e) /\ e.by = h
        BY <3>2 DEF Record
      <4> HIDE DEF e
      <4>2. /\ Len(items') = Len(items) + 1
            /\ DOMAIN items' = 1..Len(items) + 1
            /\ \A i \in DOMAIN items : items'[i] = items[i]
            /\ items'[Len(items) + 1] = e
        BY <1>0, <4>1 DEF TypeOK
      <4> QED
        BY <1>0, <4>1, <4>2
    <3> QED
      BY <1>1, <3>1, <3>2
  <2>2. /\ Len(findings') \in Nat /\ Len(findings) <= Len(findings')
        /\ \A i \in DOMAIN findings' :
             (i \in DOMAIN findings /\ findings'[i] = findings[i]) \/ findings'[i] = h
    <3>1. CASE findings' = findings
      BY <1>0, <3>1
    <3>2. CASE findings' = Append(findings, h)
      <4>2. /\ Len(findings') = Len(findings) + 1
            /\ DOMAIN findings' = 1..Len(findings) + 1
            /\ \A i \in DOMAIN findings : findings'[i] = findings[i]
            /\ findings'[Len(findings) + 1] = h
        BY <1>0, <3>2 DEF TypeOK
      <4> QED
        BY <1>0, <4>2
    <3> QED
      BY <1>1, <3>1, <3>2
  <2> QED
    BY <1>1, <2>1, <2>2, OtherKeepsFileInv
<1>2. CASE Arrives(h)
  <2>1. PICK kind \in DOMAIN Script, app \in Apps \cup {NoApp} : Arrive(h, kind, app)
    BY <1>2 DEF Arrives
  <2> QED
    BY <1>0, <1>1, <2>1 DEF Arrive, Handler
<1> SUFFICES ASSUME Steps(h) PROVE FileInv'
  BY <1>2
<1>3. PICK r : Moved(h, r)
  BY StepMoves
<1>4. /\ hs' = [hs EXCEPT ![h] = r]
      /\ hs'[h] = r /\ \A g \in Handlers : g # h => hs'[g] = hs[g]
      /\ r.phase \in {"hold", "open"} => Op(h) = "write"
  BY <1>0, <1>3 DEF Moved
<1>5. CASE Add(h) \/ Find(h) \/ Skip(h) \/ GiveUp(h) \/ Send(h) \/ Receive(h) \/ EnterOnce(h)
  <2>1. /\ hs[h].phase \in {"run", "wire"}
        /\ UNCHANGED <<file, wrote, overlapped>>
        /\ items' = items \/ Record(h)
        /\ findings' = findings \/ findings' = Append(findings, h)
    BY <1>5 DEF Add, Find, Skip, GiveUp, Send, Receive, EnterOnce, Runs
  <2>2. hs'[h] = Past(hs[h]) \/ hs'[h].phase \in {"wire", "failed", "done"}
    BY <1>0, <1>5 DEF Add, Find, Skip, GiveUp, Send, Receive, EnterOnce, Advance, Fail, Handler
  <2>3. Past(hs[h]).phase \in {"run", "done"}
    BY <1>0, PastOf
  <2>4. hs'[h].phase \notin {"hold", "open"}
    BY <2>2, <2>3
  <2> QED
    BY <1>1, <1>4, <2>1, <2>4
<1>6. CASE OpenFails(h)
  <2>1. hs'[h] = Past(hs[h]) \/ hs'[h].phase = "failed"
    BY <1>0, <1>6 DEF OpenFails, Advance, Fail, Handler
  <2>2. Past(hs[h]).phase \in {"run", "done"}
    BY <1>0, PastOf
  <2>3. hs'[h].phase \notin {"hold", "open"}
    BY <2>1, <2>2
  <2> QED
    BY <1>1, <1>4, <1>6, <2>3 DEF OpenFails
<1>7. CASE Snapshot(h)
  <2>1. /\ hs[h].phase = "run"
        /\ hs'[h].phase = "hold" /\ hs'[h].n = Len(items) /\ hs'[h].f = Len(findings)
        /\ UNCHANGED <<items, findings, file, wrote>>
        /\ overlapped \subseteq overlapped'
        /\ \A g \in Handlers : g # h /\ Writing(g) => h \in overlapped' /\ g \in overlapped'
    BY <1>0, <1>7 DEF Snapshot, Runs, Handler
  <2>2. h \notin wrote
    BY <2>1 DEF FileInv, WroteDone
  <2>3. WroteDone'
    BY <1>0, <1>4, <2>1, <2>2 DEF FileInv, WroteDone
  <2>4. Covers'
    BY <1>0, <1>4, <2>1, <2>2 DEF FileInv, Covers, Writing
  <2>5. Alone'
    <3>1. \A w \in wrote : hs'[w] = hs[w] /\ hs[w].n <= Len(items) /\ hs[w].f <= Len(findings)
      BY <1>0, <1>4, <2>2 DEF FileInv, Covers
    <3>2. ASSUME NEW g \in Handlers, Writing(g)', g \notin overlapped'
          PROVE  /\ \A k \in Handlers : Writing(k)' => k = g
                 /\ \A w \in wrote : hs'[w].n <= hs'[g].n /\ hs'[w].f <= hs'[g].f
                 /\ hs'[g].phase = "open" => file'.size = 0
      <4>1. CASE g = h
        BY <1>4, <2>1, <3>1, <3>2, <4>1 DEF Writing
      <4>2. CASE g # h
        BY <1>4, <2>1, <3>2, <4>2 DEF Writing
      <4> QED
        BY <4>1, <4>2
    <3> QED
      BY <2>1, <3>2 DEF Alone
  <2>6. Shown'
    BY <1>0, <1>4, <2>1, <2>2 DEF FileInv, Shown
  <2> QED
    BY <2>3, <2>4, <2>5, <2>6 DEF FileInv
<1>8. CASE Truncate(h)
  <2>1. /\ hs[h].phase = "hold"
        /\ hs'[h].phase = "open" /\ hs'[h].n = hs[h].n /\ hs'[h].f = hs[h].f
        /\ file'.by = h /\ file'.size = 0
        /\ UNCHANGED <<items, findings, wrote, overlapped>>
    BY <1>0, <1>8 DEF Truncate, Handler
  <2>2. h \notin wrote
    BY <2>1 DEF FileInv, WroteDone
  <2>3. \A g \in Handlers : /\ Writing(g)' <=> Writing(g)
                            /\ hs'[g].n = hs[g].n /\ hs'[g].f = hs[g].f
    BY <1>4, <2>1 DEF Writing
  <2>4. WroteDone'
    BY <1>0, <1>4, <2>1, <2>2 DEF FileInv, WroteDone
  <2>5. Covers'
    BY <2>1, <2>3 DEF FileInv, Covers
  <2>6. Alone'
    BY <1>0, <2>1, <2>3 DEF FileInv, Alone
  <2>7. Shown'
    BY <2>1, <2>2 DEF Shown
  <2> QED
    BY <2>4, <2>5, <2>6, <2>7 DEF FileInv
<1>9. CASE WriteOut(h)
  <2>0. Op(h) = "write" /\ hs[h].kind \in DOMAIN Script
    BY <1>0, <1>9 DEF WriteOut, InScript, Writing, Handler
  <2>1. hs[h].step = Len(Script[hs[h].kind])
    BY <1>0, <2>0, CallsInPlace DEF Op
  <2>2. hs'[h].phase = "done" /\ hs'[h].n = hs[h].n /\ hs'[h].f = hs[h].f
    <3>1. hs'[h] = Past(hs[h])
      BY <1>0, <1>9 DEF WriteOut, Advance
    <3> QED
      BY <1>0, <2>1, <3>1, PastOf
  <2>3. /\ hs[h].phase = "open" /\ Writing(h)
        /\ file'.by = h /\ file'.n = hs[h].n /\ file'.f = hs[h].f
        /\ file'.whole = (file.size <= hs[h].n + hs[h].f)
        /\ wrote' = wrote \cup {h}
        /\ UNCHANGED <<items, findings, overlapped>>
    BY <1>9 DEF WriteOut, Writing
  <2>4. \A g \in Handlers : /\ Writing(g)' => Writing(g) /\ g # h
                            /\ hs'[g].n = hs[g].n /\ hs'[g].f = hs[g].f
    BY <1>4, <2>2 DEF Writing
  <2>5. WroteDone'
    BY <1>0, <1>4, <2>2, <2>3 DEF FileInv, WroteDone
  <2>6. Covers'
    BY <2>3, <2>4 DEF FileInv, Covers
  <2>7. Alone'
    <3>1. ASSUME NEW g \in Handlers, Writing(g)', g \notin overlapped
          PROVE  FALSE
      BY <2>3, <2>4, <3>1 DEF FileInv, Alone
    <3> QED
      BY <2>3, <3>1 DEF Alone
  <2>8. Shown'
    <3> SUFFICES ASSUME h \notin overlapped
                 PROVE  /\ file'.whole
                        /\ \A w \in wrote' : hs'[w].n <= hs[h].n /\ hs'[w].f <= hs[h].f
      BY <1>0, <2>2, <2>3 DEF Shown
    <3>1. file.size = 0 /\ \A w \in wrote : hs[w].n <= hs[h].n /\ hs[w].f <= hs[h].f
      BY <2>3 DEF FileInv, Alone
    <3>2. file'.whole
      <4>1. file.size <= hs[h].n + hs[h].f
        BY <1>0, <3>1
      <4> QED
        BY <2>3, <4>1
    <3> QED
      BY <1>0, <2>3, <2>4, <3>1, <3>2
  <2> QED
    BY <2>5, <2>6, <2>7, <2>8 DEF FileInv
<1> QED
  BY <1>5, <1>6, <1>7, <1>8, <1>9 DEF Steps

-----------------------------------------------------------------------------
(* Theorems.                                                               *)

WiretraceInv == TypeOK /\ InScript /\ HoldsOnce /\ HeldInside /\ EntriesPast /\ RequestsPast /\ Told /\ FileInv

\* The invariant holds at first.
LEMMA WiretraceInvInit == Init => WiretraceInv
<1> SUFFICES ASSUME Init PROVE WiretraceInv
  OBVIOUS
<1>1. TypeOK /\ InScript
  BY InScriptInit
<1>2. \A h \in Handlers : hs[h].kind = "start" /\ hs[h].phase = "idle"
  BY DEF Init
<1>3. /\ items = <<>> /\ findings = <<>> /\ DOMAIN items = {} /\ DOMAIN findings = {}
      /\ sent = {} /\ lost = {} /\ wrote = {}
  BY DEF Init
<1>4. HoldsOnce /\ HeldInside
  BY <1>2, RecorderAssumption DEF HoldsOnce, HeldInside, Init, Handlers
<1>5. EntriesPast /\ RequestsPast
  BY <1>3 DEF EntriesPast, RequestsPast, SentPast, LostLast
<1>6. Told
  BY <1>3 DEF Told, Answered, EntriesOf
<1>7. WroteDone /\ Covers /\ Alone /\ Shown
  BY <1>2, <1>3 DEF WroteDone, Covers, Alone, Shown, Writing
<1> QED
  BY <1>1, <1>4, <1>5, <1>6, <1>7 DEF WiretraceInv, FileInv

\* And every step keeps it.
LEMMA WiretraceInvStep == WiretraceInv /\ [Next]_vars => WiretraceInv'
<1> SUFFICES ASSUME WiretraceInv, [Next]_vars PROVE WiretraceInv'
  OBVIOUS
<1>1. CASE Next
  <2>1. PICK h \in Handlers : Arrives(h) \/ Steps(h)
    BY <1>1 DEF Next, Arrives
  <2>2. TypeOK' /\ InScript'
    BY <2>1, TypesAtStep, InScriptAtStep DEF WiretraceInv
  <2>3. HoldsOnce' /\ HeldInside'
    BY <2>1, HoldsOnceAtStep, HeldInsideAtStep DEF WiretraceInv
  <2>4. EntriesPast' /\ RequestsPast' /\ Told'
    BY <2>1, ToldAtStep DEF WiretraceInv
  <2>5. FileInv'
    BY <2>1, <2>2, FileInvAtStep DEF WiretraceInv
  <2> QED
    BY <2>2, <2>3, <2>4, <2>5 DEF WiretraceInv
<1>2. CASE UNCHANGED vars
  <2>1. TypeOK'
    BY <1>2 DEF vars, WiretraceInv, TypeOK
  <2>2. InScript' /\ HoldsOnce' /\ HeldInside'
    BY <1>2 DEF vars, WiretraceInv, InScript, HoldsOnce, HeldInside, Inside, Writing, Op
  <2>3. EntriesPast' /\ RequestsPast'
    BY <1>2 DEF vars, WiretraceInv, EntriesPast, RequestsPast, SentPast, LostLast, Over
  <2>4. Told'
    <3>1. hs' = hs /\ items' = items /\ sent' = sent /\ lost' = lost
      BY <1>2 DEF vars
    <3>2. \A h \in Handlers, k \in 1..6 : Answered(h, k)' <=> Answered(h, k)
      BY <3>1 DEF Answered
    <3>3. \A h \in Handlers : EntriesOf(h)' = EntriesOf(h)
      BY <3>1 DEF EntriesOf
    <3> QED
      BY <3>1, <3>2, <3>3 DEF WiretraceInv, Told
  <2>5. FileInv'
    BY <1>2 DEF vars, WiretraceInv, FileInv, WroteDone, Covers, Alone, Shown, Writing
  <2> QED
    BY <2>1, <2>2, <2>3, <2>4, <2>5 DEF WiretraceInv
<1> QED
  BY <1>1, <1>2

\* The recorder, the handlers and the file keep their types.
THEOREM RecorderTypes == Spec => []TypeOK
<1>1. WiretraceInv => TypeOK
  BY DEF WiretraceInv
<1> QED
  BY <1>1, WiretraceInvInit, WiretraceInvStep, PTL DEF Spec

\* Two logins of one site of chapter 03 never write the file at once: whoever
\* writes is in traceOnce of its site.
THEOREM SitesTakeTurnsAlways == Spec => []SitesTakeTurns
<1>1. WiretraceInv => SitesTakeTurns
  <2> SUFFICES ASSUME WiretraceInv, chapter = "ch03"
               PROVE  \A h \in Handlers : Writing(h) => once[hs[h].app] = h
    BY DEF SitesTakeTurns
  <2> SUFFICES ASSUME NEW h \in Handlers, Writing(h)
               PROVE  once[hs[h].app] = h
    OBVIOUS
  <2>1. /\ hs[h].step \in 1..Len(Script[hs[h].kind])
        /\ hs[h].kind \in Kinds["ch03"]
        /\ Script[hs[h].kind][hs[h].step] = "write"
        /\ hs[h].phase \in {"hold", "open"}
    BY DEF WiretraceInv, InScript, Writing, Op
  <2>2. hs[h].kind \in {"visit", "login"}
    BY <2>1, LoginWrites
  <2>3. CASE hs[h].kind = "visit"
    <3>1. Script["visit"] = <<"front">>
      BY EachScript
    <3> QED
      BY <2>1, <2>3, <3>1
  <2>4. CASE hs[h].kind = "login"
    <3>1. Len(Script["login"]) = 5
      BY LoginWrites
    <3>2. hs[h].step \in 1..5
      BY <2>1, <2>4, <3>1
    <3>3. hs[h].step = 5
      BY <2>1, <2>4, <3>1, <3>2, LoginWrites
    <3> QED
      BY <2>1, <2>4, <3>3 DEF WiretraceInv, HoldsOnce
  <2> QED
    BY <2>2, <2>3, <2>4
<1> QED
  BY <1>1, WiretraceInvInit, WiretraceInvStep, PTL DEF Spec

\* The trace has the entries of a handler in the order it made them, and one for
\* each request that was answered.
THEOREM TraceAlwaysTellsRun == Spec => []TraceTellsRun
<1>1. WiretraceInv => TraceTellsRun
  <2> SUFFICES ASSUME WiretraceInv, NEW h \in Handlers
               PROVE  /\ \A i, j \in EntriesOf(h) : i < j => items[i].step < items[j].step
                      /\ \A k \in DOMAIN Script[hs[h].kind] :
                           Script[hs[h].kind][k] \in Exchanges
                             => (Answered(h, k) <=> \E i \in EntriesOf(h) : items[i].step = k)
    BY DEF TraceTellsRun
  <2>1. \A i, j \in EntriesOf(h) : i < j => items[i].step < items[j].step
    BY DEF WiretraceInv, EntriesPast, EntriesOf
  <2>2. DOMAIN Script[hs[h].kind] \subseteq 1..6
    <3>1. hs[h].kind \in DOMAIN Script
      BY DEF WiretraceInv, TypeOK, Handler
    <3>2. DOMAIN Script[hs[h].kind] = 1..Len(Script[hs[h].kind])
      BY <3>1, ScriptNames, EachScript
    <3>3. Len(Script[hs[h].kind]) \in 1..6
      BY <3>1, ScriptLen
    <3>4. \A m \in 1..6 : 1..m \subseteq 1..6
      OBVIOUS
    <3> QED
      BY <3>2, <3>3, <3>4
  <2> QED
    BY <2>1, <2>2 DEF WiretraceInv, Told
<1> QED
  BY <1>1, WiretraceInvInit, WiretraceInvStep, PTL DEF Spec

\* A trace file whose last write met no other shows every login that has
\* written it.
THEOREM FileAlwaysTells == Spec => []FileTells
<1>1. WiretraceInv => FileTells
  BY FileInvTells DEF WiretraceInv
<1> QED
  BY <1>1, WiretraceInvInit, WiretraceInvStep, PTL DEF Spec

\* Nobody waits for ever in traceOnce, as far as safety goes: it is never left
\* locked behind, and who has it waits for nobody.
THEOREM TraceOnceIsLeft == Spec => []LoginsWaitForAWriter
<1>1. WiretraceInv => LoginsWaitForAWriter
  <2> SUFFICES ASSUME WiretraceInv, NEW h \in Handlers, Runs(h, {"once"}),
                      once[hs[h].app] \notin {NoHandler, Spent}
               PROVE  \E k \in Handlers : once[hs[h].app] = k /\ hs[k].app = hs[h].app /\ Inside(k)
    BY DEF LoginsWaitForAWriter
  <2>1. hs[h].kind = "login"
    BY CallsInPlace DEF WiretraceInv, TypeOK, InScript, Runs, Op, Handler
  <2>2. hs[h].app \in Apps
    BY <2>1 DEF WiretraceInv, InScript
  <2>3. once[hs[h].app] \in Handlers
    BY <2>2 DEF WiretraceInv, TypeOK
  <2> QED
    BY <2>2, <2>3 DEF WiretraceInv, HeldInside
<1> QED
  BY <1>1, WiretraceInvInit, WiretraceInvStep, PTL DEF Spec

\* Whatever happens brings one handler further and leaves the others where they
\* are, so that with n requests nothing happens after 24 n steps.
THEOREM StepsRunOut == Spec => EveryStepCounts
<1> DEFINE Act == \E h \in Handlers :
                    /\ Reached(hs'[h]) > Reached(hs[h]) /\ Reached(hs'[h]) <= 24
                    /\ \A k \in Handlers \ {h} : hs'[k] = hs[k]
<1>1. WiretraceInv /\ [Next]_vars => [Act]_vars
  <2> SUFFICES ASSUME WiretraceInv, Next PROVE Act
    OBVIOUS
  <2>1. PICK h \in Handlers : Arrives(h) \/ Steps(h)
    BY DEF Next, Arrives
  <2> QED
    BY <2>1, StepCounts DEF WiretraceInv, GetsOn
<1>2. EveryStepCounts <=> [][Act]_vars
  BY DEF EveryStepCounts
<1> QED
  BY <1>1, <1>2, WiretraceInvInit, WiretraceInvStep, PTL DEF Spec

=============================================================================
