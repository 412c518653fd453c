--------------------------- MODULE AuthCodeProofs ---------------------------
(***************************************************************************)
(* Theorems of AuthCode, for any number of logins and handlers.            *)
(*                                                                         *)
(* That a login completes once is not inductive by itself: the page may be *)
(* shown by a handler that is still to come.  OneValidator adds that such  *)
(* a handler holds the only redemption of its code.                        *)
(***************************************************************************)
EXTENDS AuthCode, TLAPS

\* A login that was completed, or is about to be, used its code up, and only
\* one handler is about to complete it.
OneValidator ==
  /\ \A l \in Logins : done[l] # 0 => done[l] = 1 /\ l \in redeemed
  /\ \A t \in tasks : t.step = "validate" => t.login \in redeemed /\ done[t.login] = 0
  /\ \A t, u \in tasks :
       t.step = "validate" /\ u.step = "validate" /\ t.login = u.login => t = u

\* A handler of callback works with the values drawn for its own login.
OwnValues == \A t \in tasks : t.own = t.login

\* The inductive invariant.
CodeInv == TypeOK /\ OneValidator /\ OwnValues /\ NonceNeverBlamed

\* A handler's step.
LEMMA CodeHandler ==
  ASSUME CodeInv, NEW t \in tasks, Handler(t)
  PROVE  CodeInv'
<1>0. TypeOK /\ OneValidator /\ OwnValues /\ NonceNeverBlamed
  BY DEF CodeInv
<1>t. t \in Task /\ t.own = t.login /\ t.login \in Logins /\ tasks \subseteq Task
  BY <1>0 DEF TypeOK, OwnValues, Task
<1>1. CASE Stamp(t)
  <2> DEFINE u == [t EXCEPT !.step = "redirect"]
  <2>1. u \in Task /\ u.own = u.login /\ u.step # "validate"
    BY <1>t DEF Task
  <2>2. tasks' \subseteq tasks \cup {u}
    BY <1>1 DEF Stamp, Become
  <2>3. /\ challenge' \in Logins
        /\ UNCHANGED <<split, slot, tab, redeemed, done, shown, rejected, failed, crossed>>
    BY <1>1, <1>t DEF Stamp
  <2> HIDE DEF u
  <2>4. TypeOK'
    BY <1>0, <2>1, <2>2, <2>3 DEF TypeOK, MaybeLogin
  <2>5. OneValidator' /\ OwnValues'
    BY <1>0, <2>1, <2>2, <2>3 DEF OneValidator, OwnValues
  <2> QED
    BY <1>0, <2>3, <2>4, <2>5 DEF CodeInv, NonceNeverBlamed
<1>2. CASE Redirect(t)
  <2>1. /\ tasks' \subseteq tasks
        /\ tab' = [tab EXCEPT ![t.login] = "at IdP"]
        /\ UNCHANGED <<split, slot, challenge, redeemed, done, shown, rejected, failed, crossed>>
    BY <1>2 DEF Redirect, Finish
  <2>2. TypeOK'
    BY <1>0, <1>t, <2>1 DEF TypeOK
  <2> QED
    BY <1>0, <2>1, <2>2 DEF CodeInv, OneValidator, OwnValues, NonceNeverBlamed
<1>3. CASE Exchange(t)
  <2> DEFINE u == [t EXCEPT !.step = "validate"]
  <2>1. u \in Task /\ u.own = u.login /\ u.login = t.login
    BY <1>t DEF Task
  <2>2. tasks' \subseteq tasks \cup {u} /\ t.login \notin redeemed
    BY <1>3 DEF Exchange, Become
  <2>3. /\ redeemed' = redeemed \cup {t.login}
        /\ UNCHANGED <<split, slot, challenge, tab, done, shown, rejected, failed, crossed>>
    BY <1>3 DEF Exchange
  <2> HIDE DEF u
  <2>4. TypeOK'
    BY <1>0, <1>t, <2>1, <2>2, <2>3 DEF TypeOK
  <2>5. OwnValues'
    BY <1>0, <2>1, <2>2 DEF OwnValues
  <2>6. done[t.login] = 0
    BY <1>0, <1>t, <2>2 DEF OneValidator
  <2>7. \A v \in tasks : v.step = "validate" => v.login # t.login
    BY <1>0, <2>2 DEF OneValidator
  <2>8. OneValidator'
    <3>1. \A l \in Logins : done'[l] # 0 => done'[l] = 1 /\ l \in redeemed'
      BY <1>0, <2>3 DEF OneValidator
    <3>2. \A v \in tasks' : v.step = "validate" => v.login \in redeemed' /\ done'[v.login] = 0
      BY <1>0, <2>1, <2>2, <2>3, <2>6 DEF OneValidator
    <3>3. \A v, w \in tasks' :
            v.step = "validate" /\ w.step = "validate" /\ v.login = w.login => v = w
      BY <1>0, <2>1, <2>2, <2>7 DEF OneValidator
    <3> QED
      BY <3>1, <3>2, <3>3 DEF OneValidator
  <2> QED
    BY <1>0, <2>3, <2>4, <2>5, <2>8 DEF CodeInv, NonceNeverBlamed
<1>4. CASE ExchangeFails(t)
  <2>1. /\ tasks' \subseteq tasks
        /\ redeemed \subseteq redeemed' /\ redeemed' \subseteq redeemed \cup {t.login}
        /\ UNCHANGED <<split, slot, challenge, tab, done, shown, rejected, failed, crossed>>
    BY <1>4 DEF ExchangeFails, Finish
  <2>2. TypeOK'
    BY <1>0, <1>t, <2>1 DEF TypeOK
  <2>3. OneValidator' /\ OwnValues'
    BY <1>0, <2>1 DEF OneValidator, OwnValues
  <2> QED
    BY <1>0, <2>1, <2>2, <2>3 DEF CodeInv, NonceNeverBlamed
<1>5. CASE Validate(t)
  <2>1. /\ t.step = "validate" /\ tasks' = tasks \ {t}
        /\ UNCHANGED <<split, slot, challenge, tab, redeemed, failed, crossed>>
    BY <1>5 DEF Validate, Finish
  <2>2. /\ done' = [done EXCEPT ![t.login] = done[t.login] + 1]
        /\ Show(t) /\ rejected' = rejected
    <3>1. t.own = t.login
      BY <1>t
    <3> QED
      BY <1>5, <3>1 DEF Validate
  <2>3. t.login \in redeemed /\ done[t.login] = 0
    BY <1>0, <2>1 DEF OneValidator
  <2>4. done' = [done EXCEPT ![t.login] = 1]
    BY <2>2, <2>3
  <2>5. done \in [Logins -> 0..2] /\ 1 \in 0..2
    <3>1. done \in [Logins -> 0..2]
      BY <1>0 DEF TypeOK
    <3>2. 1 \in 0..2
      OBVIOUS
    <3> QED
      BY <3>1, <3>2
  <2>6. done' \in [Logins -> 0..2]
    BY <1>t, <2>4, <2>5
  <2>7. /\ done'[t.login] = 1
        /\ \A l \in Logins : l # t.login => done'[l] = done[l]
    BY <1>t, <2>4, <2>5
  <2>8. shown' \subseteq Logins \X Logins
    <3>1. shown \subseteq Logins \X Logins
      BY <1>0 DEF TypeOK
    <3>2. CASE t.chal = NoLogin
      BY <2>2, <3>1, <3>2 DEF Show
    <3>3. CASE t.chal # NoLogin
      <4>1. t.chal \in Logins /\ t.own \in Logins
        BY <1>t, <3>3 DEF Task, MaybeLogin
      <4>2. shown' = shown \cup {<<t.chal, t.own>>}
        BY <2>2, <3>3 DEF Show
      <4>3. <<t.chal, t.own>> \in Logins \X Logins
        BY <4>1
      <4> QED
        BY <3>1, <4>2, <4>3
    <3> QED
      BY <3>2, <3>3
  <2>9. TypeOK'
    BY <1>0, <2>1, <2>2, <2>6, <2>8 DEF TypeOK
  <2>10. \A v \in tasks' : v.step = "validate" => v.login # t.login
    BY <1>0, <2>1 DEF OneValidator
  <2>11. OwnValues'
    BY <1>0, <2>1 DEF OwnValues
  <2>12. OneValidator'
    <3>1. \A l \in Logins : done'[l] # 0 => done'[l] = 1 /\ l \in redeemed'
      BY <1>0, <2>1, <2>3, <2>7 DEF OneValidator
    <3>2. \A v \in tasks' : v.step = "validate" => v.login \in redeemed' /\ done'[v.login] = 0
      BY <1>0, <1>t, <2>1, <2>7, <2>10 DEF OneValidator, Task
    <3>3. \A v, w \in tasks' :
            v.step = "validate" /\ w.step = "validate" /\ v.login = w.login => v = w
      BY <1>0, <2>1 DEF OneValidator
    <3> QED
      BY <3>1, <3>2, <3>3 DEF OneValidator
  <2> QED
    BY <1>0, <2>2, <2>9, <2>11, <2>12 DEF CodeInv, NonceNeverBlamed
<1>6. CASE ValidateFails(t)
  <2>1. /\ tasks' = tasks \ {t} /\ failed' = failed \cup {t.login}
        /\ UNCHANGED <<split, slot, challenge, tab, redeemed, done, rejected, crossed>>
    BY <1>6 DEF ValidateFails, Finish
  <2>2. shown' = shown \/ (t.chal # NoLogin /\ shown' = shown \cup {<<t.chal, t.own>>})
    BY <1>6 DEF ValidateFails, Show
  <2>3. t.chal # NoLogin => <<t.chal, t.own>> \in Logins \X Logins
    BY <1>t DEF Task, MaybeLogin
  <2>4. shown' \subseteq Logins \X Logins
    <3>1. shown \subseteq Logins \X Logins
      BY <1>0 DEF TypeOK
    <3> QED
      BY <2>2, <2>3, <3>1
  <2>5. TypeOK'
    BY <1>0, <1>t, <2>1, <2>4 DEF TypeOK
  <2>6. OneValidator' /\ OwnValues'
    BY <1>0, <2>1 DEF OneValidator, OwnValues
  <2> QED
    BY <1>0, <2>1, <2>5, <2>6 DEF CodeInv, NonceNeverBlamed
<1> QED
  BY <1>1, <1>2, <1>3, <1>4, <1>5, <1>6 DEF Handler

\* Every step preserves the invariant.
LEMMA CodeStep == CodeInv /\ [Next]_vars => CodeInv'
<1> SUFFICES ASSUME CodeInv, [Next]_vars PROVE CodeInv'
  OBVIOUS
<1>0. TypeOK /\ OneValidator /\ OwnValues /\ NonceNeverBlamed
  BY DEF CodeInv
<1>1. ASSUME NEW l \in Logins, StartLogin(l)
      PROVE  CodeInv'
  <2> DEFINE u == [step |-> IF split THEN "stamp" ELSE "redirect",
                   login |-> l, own |-> l, chal |-> NoLogin]
  <2>1. u \in Task /\ u.own = u.login /\ u.step # "validate"
    BY DEF Task, MaybeLogin
  <2>2. tasks' = tasks \cup {u}
    BY <1>1 DEF StartLogin, Begin
  <2>0. \A t \in tasks : t.login \in Logins
    BY <1>0 DEF TypeOK, Task
  <2>3. /\ slot' \in Logins /\ challenge' \in Logins \cup {challenge}
        /\ crossed' \subseteq crossed \cup (Logins \X Logins)
        /\ tab' = [tab EXCEPT ![l] = "waiting"]
        /\ UNCHANGED <<split, redeemed, done, shown, rejected, failed>>
    BY <1>1, <2>0 DEF StartLogin
  <2> HIDE DEF u
  <2>4. TypeOK'
    BY <1>0, <2>1, <2>2, <2>3 DEF TypeOK, MaybeLogin
  <2>5. OneValidator' /\ OwnValues'
    BY <1>0, <2>1, <2>2, <2>3 DEF OneValidator, OwnValues
  <2> QED
    BY <1>0, <2>3, <2>4, <2>5 DEF CodeInv, NonceNeverBlamed
<1>2. ASSUME NEW l \in Logins, SignIn(l)
      PROVE  CodeInv'
  <2>1. /\ tab' = [tab EXCEPT ![l] = "back"]
        /\ UNCHANGED <<split, slot, challenge, tasks, redeemed, done, shown, rejected, failed, crossed>>
    BY <1>2 DEF SignIn
  <2>2. TypeOK'
    BY <1>0, <2>1 DEF TypeOK
  <2> QED
    BY <1>0, <2>1, <2>2 DEF CodeInv, OneValidator, OwnValues, NonceNeverBlamed
<1>3. ASSUME NEW l \in Logins, Callback(l)
      PROVE  CodeInv'
  <2> DEFINE u == [step |-> "exchange", login |-> l, own |-> slot,
                   chal |-> IF split THEN challenge ELSE NoLogin]
  <2>1. u \in Task /\ u.own = u.login /\ u.step # "validate"
    BY <1>0, <1>3 DEF Callback, Task, MaybeLogin, TypeOK
  <2>2. tasks' = tasks \cup {u}
    BY <1>3 DEF Callback, Begin
  <2>3. UNCHANGED <<split, slot, challenge, tab, redeemed, done, shown, rejected, failed, crossed>>
    BY <1>3 DEF Callback
  <2> HIDE DEF u
  <2>4. TypeOK'
    BY <1>0, <2>1, <2>2, <2>3 DEF TypeOK
  <2>5. OneValidator' /\ OwnValues'
    BY <1>0, <2>1, <2>2, <2>3 DEF OneValidator, OwnValues
  <2> QED
    BY <1>0, <2>3, <2>4, <2>5 DEF CodeInv, NonceNeverBlamed
<1>4. CASE UNCHANGED vars
  BY <1>0, <1>4 DEF vars, CodeInv, TypeOK, OneValidator, OwnValues, NonceNeverBlamed
<1> QED
  BY <1>1, <1>2, <1>3, <1>4, CodeHandler DEF Next

-----------------------------------------------------------------------------
(* The pairs of chapter 00.                                                *)

Starting(t) == t.step \in {"stamp", "redirect"}

\* A start keeps its tab waiting, and each login has one start.
OneStart ==
  /\ \A t \in tasks : Starting(t) => tab[t.login] = "waiting"
  /\ \A t, u \in tasks : Starting(t) /\ Starting(u) /\ t.login = u.login => t = u

\* c belongs to l, or to a login that l crossed.
Near(c, l) == c = l \/ <<c, l>> \in crossed

\* Who has its stamp to come was crossed by the login that has the slot; once
\* that one has stamped, the slot holds a pair of the two.
SlotPair ==
  /\ \A t \in tasks : t.step = "stamp" => Near(t.login, slot)
  /\ (challenge # NoLogin /\ split /\ \A t \in tasks : ~(t.step = "stamp" /\ t.login = slot))
       => Near(challenge, slot)

TaskPairs == \A t \in tasks : t.chal # NoLogin => Near(t.chal, t.own)

PairInv == OneStart /\ SlotPair /\ TaskPairs /\ PairsMatchUnlessCrossed

\* Every step keeps challenge and verifier together, wherever both are.
LEMMA PairStep ==
  ASSUME CodeInv, PairInv, [Next]_vars
  PROVE  PairInv'
<1>0. TypeOK /\ OwnValues /\ OneStart /\ SlotPair /\ TaskPairs /\ PairsMatchUnlessCrossed
  BY DEF CodeInv, PairInv
<1>00. tab \in [Logins -> {"closed", "waiting", "at IdP", "back"}]
       /\ \A t \in tasks : t \in Task /\ t.login \in Logins
  BY <1>0 DEF TypeOK, Task
<1>1. ASSUME NEW l \in Logins, StartLogin(l)
      PROVE  PairInv'
  <2> DEFINE u == [step |-> IF split THEN "stamp" ELSE "redirect",
                   login |-> l, own |-> l, chal |-> NoLogin]
  <2>1. u.login = l /\ u.own = l /\ u.chal = NoLogin /\ Starting(u)
        /\ (split => u.step = "stamp") /\ (u.step = "stamp" => split)
    BY DEF Starting
  <2>2. /\ tasks' = tasks \cup {u} /\ tab[l] = "closed"
        /\ tab' = [tab EXCEPT ![l] = "waiting"]
        /\ slot' = l /\ UNCHANGED <<split, shown>>
        /\ crossed \subseteq crossed'
        /\ \A t \in tasks : t.step = "stamp" => <<t.login, l>> \in crossed'
    BY <1>1 DEF StartLogin, Begin
  <2> HIDE DEF u
  <2>3. \A t \in tasks : Starting(t) => t.login # l
    BY <1>0, <2>2 DEF OneStart
  <2>4. OneStart'
    <3>1. tab'[l] = "waiting" /\ \A k \in Logins : k # l => tab'[k] = tab[k]
      BY <1>00, <2>2
    <3>2. \A t \in tasks' : Starting(t) => tab'[t.login] = "waiting"
      BY <1>0, <1>00, <2>1, <2>2, <2>3, <3>1 DEF OneStart
    <3>3. \A t, v \in tasks' : Starting(t) /\ Starting(v) /\ t.login = v.login => t = v
      BY <1>0, <2>1, <2>2, <2>3 DEF OneStart
    <3> QED
      BY <3>2, <3>3 DEF OneStart, Starting
  <2>5. SlotPair'
    BY <1>0, <2>1, <2>2 DEF SlotPair, Near
  <2>6. TaskPairs'
    BY <1>0, <2>1, <2>2 DEF TaskPairs, Near
  <2>7. PairsMatchUnlessCrossed'
    BY <1>0, <2>2 DEF PairsMatchUnlessCrossed
  <2> QED
    BY <2>4, <2>5, <2>6, <2>7 DEF PairInv
<1>2. ASSUME NEW l \in Logins, SignIn(l)
      PROVE  PairInv'
  <2>1. /\ tab[l] = "at IdP" /\ tab' = [tab EXCEPT ![l] = "back"]
        /\ UNCHANGED <<split, slot, challenge, tasks, shown, crossed>>
    BY <1>2 DEF SignIn
  <2>2. OneStart'
    BY <1>0, <1>00, <2>1 DEF OneStart, Starting
  <2> QED
    BY <1>0, <2>1, <2>2 DEF PairInv, SlotPair, TaskPairs, PairsMatchUnlessCrossed, Near
<1>3. ASSUME NEW l \in Logins, Callback(l)
      PROVE  PairInv'
  <2> DEFINE u == [step |-> "exchange", login |-> l, own |-> slot,
                   chal |-> IF split THEN challenge ELSE NoLogin]
  <2>1. /\ tab[l] = "back" /\ slot = l /\ tasks' = tasks \cup {u}
        /\ UNCHANGED <<split, slot, challenge, tab, shown, crossed>>
    BY <1>3 DEF Callback, Begin
  <2>2. \A t \in tasks : ~(t.step = "stamp" /\ t.login = slot)
    BY <1>0, <2>1 DEF OneStart, Starting
  <2>3. u.chal # NoLogin => Near(u.chal, u.own)
    BY <1>0, <2>2 DEF SlotPair
  <2>4. ~Starting(u) /\ u.step # "stamp"
    BY DEF Starting
  <2> HIDE DEF u
  <2>5. OneStart'
    BY <1>0, <2>1, <2>4 DEF OneStart, Starting
  <2>6. SlotPair' /\ TaskPairs' /\ PairsMatchUnlessCrossed'
    BY <1>0, <2>1, <2>3, <2>4 DEF SlotPair, TaskPairs, PairsMatchUnlessCrossed, Near
  <2> QED
    BY <2>5, <2>6 DEF PairInv
<1>4. ASSUME NEW t \in tasks, Stamp(t)
      PROVE  PairInv'
  <2> DEFINE u == [t EXCEPT !.step = "redirect"]
  <2>1. /\ t.step = "stamp" /\ challenge' = t.login /\ tasks' = (tasks \ {t}) \cup {u}
        /\ UNCHANGED <<split, slot, tab, shown, crossed>>
    BY <1>4 DEF Stamp, Become
  <2>2. u.login = t.login /\ u.chal = t.chal /\ u.own = t.own /\ u.step = "redirect"
    BY <1>00 DEF Task
  <2> HIDE DEF u
  <2>3. Near(t.login, slot)
    BY <1>0, <2>1 DEF SlotPair
  <2>4. OneStart'
    BY <1>0, <2>1, <2>2 DEF OneStart, Starting
  <2>5. SlotPair'
    BY <1>0, <2>1, <2>2, <2>3 DEF SlotPair, Near
  <2>6. TaskPairs' /\ PairsMatchUnlessCrossed'
    BY <1>0, <2>1, <2>2 DEF TaskPairs, PairsMatchUnlessCrossed, Near
  <2> QED
    BY <2>4, <2>5, <2>6 DEF PairInv
<1>5. ASSUME NEW t \in tasks, Redirect(t)
      PROVE  PairInv'
  <2>1. /\ t.step = "redirect" /\ tasks' = tasks \ {t}
        /\ tab' = [tab EXCEPT ![t.login] = "at IdP"]
        /\ UNCHANGED <<split, slot, challenge, shown, crossed>>
    BY <1>5 DEF Redirect, Finish
  <2>2. \A v \in tasks' : Starting(v) => v.login # t.login
    BY <1>0, <2>1 DEF OneStart, Starting
  <2>3. OneStart'
    BY <1>0, <1>00, <2>1, <2>2 DEF OneStart, Starting
  <2>4. SlotPair' /\ TaskPairs' /\ PairsMatchUnlessCrossed'
    BY <1>0, <2>1 DEF SlotPair, TaskPairs, PairsMatchUnlessCrossed, Near
  <2> QED
    BY <2>3, <2>4 DEF PairInv
<1>6. ASSUME NEW t \in tasks, Exchange(t)
      PROVE  PairInv'
  <2> DEFINE u == [t EXCEPT !.step = "validate"]
  <2>1. /\ t.step = "exchange" /\ tasks' = (tasks \ {t}) \cup {u}
        /\ UNCHANGED <<split, slot, challenge, tab, shown, crossed>>
    BY <1>6 DEF Exchange, Become
  <2>2. u.chal = t.chal /\ u.own = t.own /\ u.step = "validate"
    BY <1>00 DEF Task
  <2> HIDE DEF u
  <2>3. OneStart'
    BY <1>0, <2>1, <2>2 DEF OneStart, Starting
  <2>4. SlotPair' /\ TaskPairs' /\ PairsMatchUnlessCrossed'
    BY <1>0, <2>1, <2>2 DEF SlotPair, TaskPairs, PairsMatchUnlessCrossed, Near
  <2> QED
    BY <2>3, <2>4 DEF PairInv
<1>7. ASSUME NEW t \in tasks, ExchangeFails(t) \/ Validate(t) \/ ValidateFails(t)
      PROVE  PairInv'
  <2>1. /\ t.step \in {"exchange", "validate"} /\ tasks' = tasks \ {t}
        /\ UNCHANGED <<split, slot, challenge, tab, crossed>>
    BY <1>7 DEF ExchangeFails, Validate, ValidateFails, Finish
  <2>2. \A pair \in shown' : pair \in shown \/ (t.chal # NoLogin /\ pair = <<t.chal, t.own>>)
    <3>1. shown' = shown \/ Show(t)
      BY <1>7 DEF ExchangeFails, Validate, ValidateFails
    <3> QED
      BY <3>1 DEF Show
  <2>3. OneStart'
    BY <1>0, <2>1 DEF OneStart, Starting
  <2>4. SlotPair' /\ TaskPairs'
    BY <1>0, <2>1 DEF SlotPair, TaskPairs, Near
  <2>5. PairsMatchUnlessCrossed'
    <3> SUFFICES ASSUME NEW pair \in shown'
                 PROVE  pair[1] = pair[2] \/ pair \in crossed
      BY <2>1 DEF PairsMatchUnlessCrossed
    <3>1. CASE pair \in shown
      BY <1>0, <3>1 DEF PairsMatchUnlessCrossed
    <3>2. CASE t.chal # NoLogin /\ pair = <<t.chal, t.own>>
      BY <1>0, <3>2 DEF TaskPairs, Near
    <3> QED
      BY <2>2, <3>1, <3>2
  <2> QED
    BY <2>3, <2>4, <2>5 DEF PairInv
<1>8. CASE UNCHANGED vars
  BY <1>0, <1>8 DEF vars, PairInv, OneStart, SlotPair, TaskPairs, PairsMatchUnlessCrossed, Near
<1> QED
  BY <1>1, <1>2, <1>3, <1>4, <1>5, <1>6, <1>7, <1>8 DEF Next, Handler

-----------------------------------------------------------------------------
(* Theorems.                                                               *)

\* The invariant holds in every reachable state.
THEOREM CodeInductive == Spec => []CodeInv
<1>1. Init => CodeInv
  BY DEF Init, CodeInv, TypeOK, MaybeLogin, OneValidator, OwnValues, NonceNeverBlamed
<1> QED
  BY <1>1, CodeStep, PTL DEF Spec

\* No number of reloads, tabs or overlapping handlers completes a login twice.
THEOREM LoginsCompleteOnce == Spec => []CompletesOnce
<1>1. CodeInv => CompletesOnce
  BY DEF CodeInv, OneValidator, CompletesOnce
<1> QED
  BY <1>1, CodeInductive, PTL

\* What the slot holds by the time a code is exchanged never matters.
THEOREM CopiesSuffice == Spec => []NonceNeverBlamed
<1>1. CodeInv => NonceNeverBlamed
  BY DEF CodeInv
<1> QED
  BY <1>1, CodeInductive, PTL

\* A trace shows a login's own challenge and verifier, but for two starts of
\* chapter 00 that crossed.
THEOREM PairsExplained == Spec => []PairsMatchUnlessCrossed
<1>1. Init => PairInv
  BY DEF Init, PairInv, OneStart, SlotPair, TaskPairs, PairsMatchUnlessCrossed
<1>2. CodeInv /\ PairInv /\ [Next]_vars => PairInv'
  BY PairStep
<1>3. PairInv => PairsMatchUnlessCrossed
  BY DEF PairInv
<1> QED
  BY <1>1, <1>2, <1>3, CodeInductive, PTL DEF Spec

=============================================================================
