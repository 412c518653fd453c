-------------------------- MODULE JwksCacheProofs --------------------------
(***************************************************************************)
(* Theorems of JwksCache, for any callers, kids and refetch interval.      *)
(* The spacing of fetches is inductive only together with mutual exclusion *)
(* (OneFetchAtATime): the age checked when a fetch begins is still the age *)
(* when it ends because nobody else can have fetched meanwhile.  That the  *)
(* cache implements KeyPromise needs more of the same kind: what the fetch *)
(* was begun for is still unknown when it ends, and its answer was         *)
(* published while the call was open.                                      *)
(***************************************************************************)
EXTENDS JwksCache, TLAPS

\* The inductive invariant.
CacheInv == TypeOK /\ OneFetchAtATime /\ FetchesSpaced

Results == {"key", "refused", "failed", "panicked", "unknown"}

\* What Return does: the caller's call is over, the others go on.
LEMMA ReturnEffect ==
  ASSUME TypeOK, NEW c \in Callers, NEW r \in Results, Return(c, r)
  PROVE  /\ call' \in [Callers -> Call]
         /\ offered' \in [Callers -> SUBSET SUBSET Kids]
         /\ call'[c].step = "idle" /\ offered'[c] = {}
         /\ \A d \in Callers \ {c} : call'[d] = call[d] /\ offered'[d] = offered[d]
         /\ \A d \in Callers : call'[d].step = "fetch" <=> d # c /\ call[d].step = "fetch"
<1>1. [step |-> "idle", kid |-> NoKid, got |-> r] \in Call
  BY DEF Call, Results
<1>2. call' = [call EXCEPT ![c] = [step |-> "idle", kid |-> NoKid, got |-> r]]
  BY DEF Return
<1>3. offered' = [offered EXCEPT ![c] = {}]
  BY DEF Return
<1> QED
  BY <1>1, <1>2, <1>3 DEF TypeOK

\* Every step preserves the types.
LEMMA CacheTypeStep == TypeOK /\ [Next]_vars => TypeOK'
<1> SUFFICES ASSUME TypeOK, [Next]_vars PROVE TypeOK'
  OBVIOUS
<1> USE CacheAssumption DEF TypeOK, Age
<1>1. CASE Tick
  BY <1>1 DEF Tick, Older
<1>2. ASSUME NEW new \in SUBSET Kids, Rotate(new)
      PROVE  TypeOK'
  BY <1>2 DEF Rotate
<1>3. ASSUME NEW c \in Callers, NEW kid \in Kids, Ask(c, kid)
      PROVE  TypeOK'
  BY <1>3 DEF Ask, Call
<1>4. ASSUME NEW c \in Callers, Answer(c)
      PROVE  TypeOK'
  <2>1. call' \in [Callers -> Call] /\ offered' \in [Callers -> SUBSET SUBSET Kids]
    <3>1. PICK r \in Results : Return(c, r)
      BY <1>4 DEF Answer, Results
    <3> QED
      BY <3>1, ReturnEffect
  <2> QED
    BY <1>4, <2>1 DEF Answer
<1>5. ASSUME NEW c \in Callers, BeginFetch(c)
      PROVE  TypeOK'
  <2>1. [call[c] EXCEPT !.step = "fetch"] \in Call
    BY DEF Call
  <2> QED
    BY <1>5, <2>1 DEF BeginFetch
<1>6. ASSUME NEW c \in Callers, FetchFails(c)
      PROVE  TypeOK'
  <2>1. Return(c, "failed") /\ "failed" \in Results
    BY <1>6 DEF FetchFails, Results
  <2>2. call' \in [Callers -> Call] /\ offered' \in [Callers -> SUBSET SUBSET Kids]
    BY <2>1, ReturnEffect
  <2> QED
    BY <1>6, <2>2 DEF FetchFails
<1>7. ASSUME NEW c \in Callers, FetchPanics(c)
      PROVE  TypeOK'
  <2>1. Return(c, "panicked") /\ "panicked" \in Results
    BY <1>7 DEF FetchPanics, Results
  <2>2. call' \in [Callers -> Call] /\ offered' \in [Callers -> SUBSET SUBSET Kids]
    BY <2>1, ReturnEffect
  <2> QED
    BY <1>7, <2>2 DEF FetchPanics
<1>8. CASE IdPAnswers
  BY <1>8 DEF IdPAnswers
<1>9. ASSUME NEW c \in Callers, NEW set \in SUBSET Kids, FetchOk(c, set)
      PROVE  TypeOK'
  <2>1. call' \in [Callers -> Call] /\ offered' \in [Callers -> SUBSET SUBSET Kids]
    <3>1. PICK r \in Results : Return(c, r)
      BY <1>9 DEF FetchOk, Results
    <3> QED
      BY <3>1, ReturnEffect
  <2> QED
    BY <1>9, <2>1 DEF FetchOk
<1>10. CASE UNCHANGED vars
  BY <1>10 DEF vars
<1> QED
  BY <1>1, <1>2, <1>3, <1>4, <1>5, <1>6, <1>7, <1>8, <1>9, <1>10 DEF Next

\* Every step preserves mutual exclusion and the spacing of fetches.
LEMMA CacheStep == CacheInv /\ [Next]_vars => OneFetchAtATime' /\ FetchesSpaced'
<1> SUFFICES ASSUME CacheInv, [Next]_vars PROVE OneFetchAtATime' /\ FetchesSpaced'
  OBVIOUS
<1> USE CacheAssumption DEF CacheInv, TypeOK, OneFetchAtATime, FetchesSpaced, Age
<1>1. CASE Tick
  BY <1>1 DEF Tick, Older
<1>2. ASSUME NEW new \in SUBSET Kids, Rotate(new)
      PROVE  OneFetchAtATime' /\ FetchesSpaced'
  BY <1>2 DEF Rotate
<1>3. ASSUME NEW c \in Callers, NEW kid \in Kids, Ask(c, kid)
      PROVE  OneFetchAtATime' /\ FetchesSpaced'
  BY <1>3 DEF Ask, Call
<1>4. ASSUME NEW c \in Callers, Answer(c)
      PROVE  OneFetchAtATime' /\ FetchesSpaced'
  <2>1. \A d \in Callers : call'[d].step = "fetch" <=> call[d].step = "fetch"
    <3>1. PICK r \in Results : Return(c, r)
      BY <1>4 DEF Answer, Results
    <3>2. call[c].step # "fetch"
      BY <1>4 DEF Answer
    <3> QED
      BY <3>1, <3>2, ReturnEffect
  <2> QED
    BY <1>4, <2>1 DEF Answer
<1>5. ASSUME NEW c \in Callers, BeginFetch(c)
      PROVE  OneFetchAtATime' /\ FetchesSpaced'
  <2>1. \A d \in Callers : call'[d].step = "fetch" <=> d = c \/ call[d].step = "fetch"
    BY <1>5 DEF BeginFetch, Call
  <2>2. \A d \in Callers : call'[d].step = "fetch" <=> d = c
    BY <1>5, <2>1 DEF BeginFetch
  <2>3. reply' = reply /\ holder' = c
    BY <1>5 DEF BeginFetch
  <2>4. keys = {} \/ age = MinRefetch
    BY <1>5 DEF BeginFetch, MustFill, MayRefetch
  <2>5. keys' = keys /\ age' = age
    BY <1>5 DEF BeginFetch
  <2> QED
    BY <2>2, <2>3, <2>4, <2>5
<1>6. ASSUME NEW c \in Callers, FetchFails(c)
      PROVE  OneFetchAtATime' /\ FetchesSpaced'
  <2>1. \A d \in Callers : call'[d].step = "fetch" <=> d # c /\ call[d].step = "fetch"
    <3>1. Return(c, "failed") /\ "failed" \in Results
      BY <1>6 DEF FetchFails, Results
    <3> QED
      BY <3>1, ReturnEffect
  <2>2. \A d \in Callers : call'[d].step # "fetch"
    BY <1>6, <2>1 DEF FetchFails
  <2> QED
    BY <1>6, <2>2 DEF FetchFails
<1>7. ASSUME NEW c \in Callers, FetchPanics(c)
      PROVE  OneFetchAtATime' /\ FetchesSpaced'
  <2>1. \A d \in Callers : call'[d].step = "fetch" <=> d # c /\ call[d].step = "fetch"
    <3>1. Return(c, "panicked") /\ "panicked" \in Results
      BY <1>7 DEF FetchPanics, Results
    <3> QED
      BY <3>1, ReturnEffect
  <2>2. \A d \in Callers : call'[d].step # "fetch"
    BY <1>7, <2>1 DEF FetchPanics
  <2> QED
    BY <1>7, <2>2 DEF FetchPanics
<1>8. CASE IdPAnswers
  BY <1>8 DEF IdPAnswers
<1>9. ASSUME NEW c \in Callers, NEW set \in SUBSET Kids, FetchOk(c, set)
      PROVE  OneFetchAtATime' /\ FetchesSpaced'
  <2>1. \A d \in Callers : call'[d].step = "fetch" <=> d # c /\ call[d].step = "fetch"
    <3>1. PICK r \in Results : Return(c, r)
      BY <1>9 DEF FetchOk, Results
    <3> QED
      BY <3>1, ReturnEffect
  <2>2. \A d \in Callers : call'[d].step # "fetch"
    BY <1>9, <2>1 DEF FetchOk
  <2> QED
    BY <1>9, <2>2 DEF FetchOk
<1>10. CASE UNCHANGED vars
  BY <1>10 DEF vars
<1> QED
  BY <1>1, <1>2, <1>3, <1>4, <1>5, <1>6, <1>7, <1>8, <1>9, <1>10 DEF Next

-----------------------------------------------------------------------------
(* The promise kept.                                                       *)

\* What was published while a call is open was offered to it; a fetch is out
\* for a kid that is not known, and its answer was offered to its call.
AskedFor ==
  /\ \A c \in Callers : IF call[c].step = "idle" THEN offered[c] = {} ELSE published \in offered[c]
  /\ \A c \in Callers : call[c].step = "fetch" => call[c].kid \notin keys
  /\ \A c \in Callers : holder = c => reply \subseteq offered[c]

\* Every step keeps a fetch out for an unknown kid, with an answer of its own time.
LEMMA AskedForStep == CacheInv /\ AskedFor /\ [Next]_vars => AskedFor'
<1> SUFFICES ASSUME CacheInv, AskedFor, [Next]_vars PROVE AskedFor'
  OBVIOUS
<1> USE CacheAssumption DEF CacheInv, TypeOK, OneFetchAtATime, AskedFor
<1>1. CASE Tick
  BY <1>1 DEF Tick
<1>2. ASSUME NEW new \in SUBSET Kids, Rotate(new)
      PROVE  AskedFor'
  BY <1>2 DEF Rotate
<1>3. ASSUME NEW c \in Callers, NEW kid \in Kids, Ask(c, kid)
      PROVE  AskedFor'
  <2>1. /\ call'[c].step = "wait" /\ offered'[c] = {published} /\ call[c].step = "idle"
        /\ \A d \in Callers \ {c} : call'[d] = call[d] /\ offered'[d] = offered[d]
        /\ UNCHANGED <<keys, holder, published, reply>>
    BY <1>3 DEF Ask
  <2> QED
    BY <2>1
<1>4. ASSUME NEW c \in Callers, NEW r \in Results, Return(c, r), published' = published,
             \/ keys' = keys /\ holder = NoCaller
             \/ holder = c,
             holder' = NoCaller
      PROVE  AskedFor'
  <2>1. /\ call'[c].step = "idle" /\ offered'[c] = {}
        /\ \A d \in Callers \ {c} : call'[d] = call[d] /\ offered'[d] = offered[d]
    BY <1>4, ReturnEffect DEF CacheInv
  <2>2. \A d \in Callers \ {c} : call[d].step # "fetch"
    BY <1>4
  <2> QED
    BY <1>4, <2>1, <2>2
<1>5. ASSUME NEW c \in Callers, BeginFetch(c)
      PROVE  AskedFor'
  <2>1. /\ call'[c].step = "fetch" /\ call'[c].kid = call[c].kid /\ call[c].step = "wait"
        /\ \A d \in Callers \ {c} : call'[d] = call[d]
        /\ UNCHANGED <<keys, published, reply, offered>> /\ holder' = c /\ holder = NoCaller
    BY <1>5 DEF BeginFetch, Call
  <2>2. call[c].kid \notin keys
    BY <1>5 DEF BeginFetch, MustFill, MayRefetch
  <2>3. reply = {}
    BY <2>1
  <2> QED
    BY <2>1, <2>2, <2>3
<1>6. CASE IdPAnswers
  <2>1. UNCHANGED <<keys, holder, call, published, offered>> /\ reply' = {published}
    BY <1>6 DEF IdPAnswers
  <2>2. \A c \in Callers : holder = c => published \in offered[c]
    OBVIOUS
  <2> QED
    BY <2>1, <2>2
<1>7. ASSUME NEW c \in Callers, Answer(c)
      PROVE  AskedFor'
  <2>1. PICK r \in Results : Return(c, r)
    BY <1>7 DEF Answer, Results
  <2> QED
    BY <1>4, <1>7, <2>1 DEF Answer
<1>8. ASSUME NEW c \in Callers, FetchFails(c)
      PROVE  AskedFor'
  <2>1. Return(c, "failed") /\ "failed" \in Results
    BY <1>8 DEF FetchFails, Results
  <2> QED
    BY <1>4, <1>8, <2>1 DEF FetchFails
<1>9. ASSUME NEW c \in Callers, FetchPanics(c)
      PROVE  AskedFor'
  <2>1. Return(c, "panicked") /\ "panicked" \in Results
    BY <1>9 DEF FetchPanics, Results
  <2> QED
    BY <1>4, <1>9, <2>1 DEF FetchPanics
<1>10. ASSUME NEW c \in Callers, NEW set \in SUBSET Kids, FetchOk(c, set)
      PROVE  AskedFor'
  <2>1. PICK r \in Results : Return(c, r)
    BY <1>10 DEF FetchOk, Results
  <2> QED
    BY <1>4, <1>10, <2>1 DEF FetchOk
<1>11. CASE UNCHANGED vars
  BY <1>11 DEF vars
<1> QED
  BY <1>1, <1>2, <1>3, <1>5, <1>6, <1>7, <1>8, <1>9, <1>10, <1>11 DEF Next

\* A call as its caller sees it.
Seen(k) == [open |-> k.step # "idle", kid |-> k.kid, got |-> k.got]

\* The look-ups change where the calls do.
LEMMA LookupsChange ==
  ASSUME TypeOK, NEW c \in Callers, NEW k \in Call, call' = [call EXCEPT ![c] = k]
  PROVE  Lookups' = [Lookups EXCEPT ![c] = Seen(k)]
<1>1. call \in [Callers -> Call]
  BY DEF TypeOK
<1>2. Lookups' = [d \in Callers |-> Seen(call'[d])]
  BY DEF Lookups, Seen
<1>3. Lookups = [d \in Callers |-> Seen(call[d])]
  BY DEF Lookups, Seen
<1>4. \A d \in Callers : call'[d] = IF d = c THEN k ELSE call[d]
  BY <1>1
<1> HIDE DEF Seen
<1> QED
  BY <1>2, <1>3, <1>4

\* An answer is what its caller gets.
LEMMA ReturnGets ==
  ASSUME TypeOK, NEW c \in Callers, NEW r \in Results, Return(c, r), call[c].step # "idle",
         published' = published
  PROVE  Promise!Gets(c, r)
<1> DEFINE k == [step |-> "idle", kid |-> NoKid, got |-> r]
<1>1. k \in Call /\ Seen(k) = [open |-> FALSE, kid |-> NoKid, got |-> r]
  BY DEF Call, Results, Seen
<1>2. call' = [call EXCEPT ![c] = k] /\ offered' = [offered EXCEPT ![c] = {}]
  BY DEF Return
<1> HIDE DEF k
<1>3. Lookups' = [Lookups EXCEPT ![c] = Seen(k)]
  BY <1>1, <1>2, LookupsChange
<1>4. Lookups[c].open
  BY DEF Lookups
<1> QED
  BY <1>1, <1>2, <1>3, <1>4 DEF Promise!Gets

\* Every step is one of KeyPromise or changes nothing it sees.
LEMMA KeyPromiseStep ==
  ASSUME CacheInv, AskedFor, [Next]_vars
  PROVE  [Promise!Next]_Promise!kvars
<1> USE CacheAssumption
<1>0. TypeOK /\ OneFetchAtATime /\ call \in [Callers -> Call] /\ offered \in [Callers -> SUBSET SUBSET Kids]
  BY DEF CacheInv, TypeOK
<1>a. \A c \in Callers : /\ Lookups[c].kid = call[c].kid
                         /\ Lookups[c].open <=> call[c].step # "idle"
  BY DEF Lookups
<1>1. ASSUME UNCHANGED <<keys, published, offered, call>>
      PROVE  UNCHANGED Promise!kvars
  BY <1>1 DEF Promise!kvars, Lookups
<1>2. CASE Tick
  BY <1>1, <1>2 DEF Tick
<1>3. ASSUME NEW new \in SUBSET Kids, Rotate(new)
      PROVE  Promise!Next
  <2>1. Promise!Publishes(new)
    BY <1>0, <1>3, <1>a DEF Rotate, Promise!Publishes, Lookups, AskedFor
  <2> QED
    BY <2>1 DEF Promise!Next
<1>4. ASSUME NEW c \in Callers, NEW kid \in Kids, Ask(c, kid)
      PROVE  Promise!Next
  <2> DEFINE k == [step |-> "wait", kid |-> kid, got |-> "nothing"]
  <2>1. k \in Call
    BY DEF Call
  <2>2. call' = [call EXCEPT ![c] = k]
    BY <1>4 DEF Ask
  <2>3. Seen(k) = [open |-> TRUE, kid |-> kid, got |-> "nothing"]
    BY DEF Seen
  <2> HIDE DEF k
  <2>4. Lookups' = [Lookups EXCEPT ![c] = Seen(k)]
    BY <1>0, <2>1, <2>2, LookupsChange
  <2>5. Promise!Asks(c, kid)
    BY <1>4, <1>a, <2>3, <2>4 DEF Ask, Promise!Asks
  <2> QED
    BY <2>5 DEF Promise!Next
<1>5. ASSUME NEW c \in Callers, Answer(c)
      PROVE  Promise!Next
  <2>1. keys # {} /\ UNCHANGED <<keys, published>> /\ call[c].step # "idle"
    BY <1>5 DEF Answer, MustFill
  <2>2. CASE call[c].kid \in keys
    <3>1. Return(c, "key") /\ "key" \in Results
      BY <1>5, <2>2 DEF Answer, Results
    <3>2. Promise!Recalls(c)
      BY <1>0, <1>a, <2>1, <2>2, <3>1, ReturnGets DEF Promise!Recalls
    <3> QED
      BY <3>2 DEF Promise!Next
  <2>3. CASE call[c].kid \notin keys
    <3>1. Return(c, "refused") /\ "refused" \in Results
      BY <1>5, <2>3 DEF Answer, Results
    <3>2. Promise!Refuses(c)
      BY <1>0, <1>a, <2>1, <2>3, <3>1, ReturnGets DEF Promise!Refuses
    <3> QED
      BY <3>2 DEF Promise!Next
  <2> QED
    BY <2>2, <2>3
<1>6. ASSUME NEW c \in Callers, BeginFetch(c)
      PROVE  UNCHANGED Promise!kvars
  <2> DEFINE k == [call[c] EXCEPT !.step = "fetch"]
  <2>1. k \in Call /\ k.step = "fetch" /\ k.kid = call[c].kid /\ k.got = call[c].got
    BY <1>0 DEF Call
  <2>2. call' = [call EXCEPT ![c] = k] /\ call[c].step = "wait"
    BY <1>6 DEF BeginFetch
  <2> HIDE DEF k
  <2>3. Seen(k) = Lookups[c]
    BY <2>1, <2>2 DEF Seen, Lookups
  <2>4. Lookups' = [Lookups EXCEPT ![c] = Seen(k)]
    BY <1>0, <2>1, <2>2, LookupsChange
  <2>5. Lookups' = Lookups
    BY <2>3, <2>4 DEF Lookups
  <2> QED
    BY <1>6, <2>5 DEF BeginFetch, Promise!kvars
<1>7. CASE IdPAnswers
  BY <1>1, <1>7 DEF IdPAnswers
<1>8. ASSUME NEW c \in Callers, holder = c
      PROVE  call[c].step # "idle" /\ call[c].kid \notin keys /\ reply \subseteq offered[c]
  BY <1>0, <1>8 DEF OneFetchAtATime, AskedFor
<1>9. ASSUME NEW c \in Callers, FetchFails(c)
      PROVE  Promise!Next
  <2>1. holder = c /\ Return(c, "failed") /\ "failed" \in Results /\ UNCHANGED <<keys, published>>
    BY <1>9 DEF FetchFails, Results
  <2>2. Promise!Misses(c)
    BY <1>0, <1>8, <1>a, <2>1, ReturnGets DEF Promise!Misses
  <2> QED
    BY <2>2 DEF Promise!Next
<1>10. ASSUME NEW c \in Callers, FetchPanics(c)
      PROVE  Promise!Next
  <2>1. /\ holder = c /\ Return(c, "panicked") /\ "panicked" \in Results
        /\ UNCHANGED <<keys, published>>
    BY <1>10 DEF FetchPanics, Results
  <2>2. Promise!Misses(c)
    BY <1>0, <1>8, <1>a, <2>1, ReturnGets DEF Promise!Misses
  <2> QED
    BY <2>2 DEF Promise!Next
<1>11. ASSUME NEW c \in Callers, NEW set \in SUBSET Kids, FetchOk(c, set)
      PROVE  Promise!Next
  <2>1. /\ holder = c /\ set \in reply /\ published' = published
        /\ keys' = keys \cup (set \cap Usable)
    BY <1>11 DEF FetchOk
  <2>2. call[c].step # "idle" /\ call[c].kid \notin keys /\ set \in offered[c]
    BY <1>8, <2>1
  <2>3. CASE set \cap Usable = {}
    <3>1. Return(c, "failed") /\ "failed" \in Results /\ keys' = keys
      BY <1>11, <2>3 DEF FetchOk, Results
    <3>2. Promise!Misses(c)
      BY <1>0, <1>a, <2>1, <2>2, <3>1, ReturnGets DEF Promise!Misses
    <3> QED
      BY <3>2 DEF Promise!Next
  <2>4. CASE set \cap Usable # {} /\ call[c].kid \in keys'
    <3>1. Return(c, "key") /\ "key" \in Results
      BY <1>11, <2>4 DEF FetchOk, Results
    <3>2. Promise!Learns(c, set)
      BY <1>0, <1>a, <2>1, <2>2, <2>4, <3>1, ReturnGets DEF Promise!Learns
    <3> QED
      BY <3>2 DEF Promise!Next
  <2>5. CASE set \cap Usable # {} /\ call[c].kid \notin keys'
    <3>1. PICK no \in {"refused", "unknown"} : Return(c, no)
      BY <1>11, <2>5 DEF FetchOk
    <3>2. no \in Results
      BY DEF Results
    <3>3. Promise!Learns(c, set)
      BY <1>0, <1>a, <2>1, <2>2, <2>5, <3>1, <3>2, ReturnGets DEF Promise!Learns
    <3> QED
      BY <3>3 DEF Promise!Next
  <2> QED
    BY <2>3, <2>4, <2>5
<1>12. CASE UNCHANGED vars
  BY <1>1, <1>12 DEF vars
<1> QED
  BY <1>2, <1>3, <1>4, <1>5, <1>6, <1>7, <1>9, <1>10, <1>11, <1>12 DEF Next

-----------------------------------------------------------------------------
(* The theorems.                                                           *)

\* The inductive invariant holds of every reachable state.
THEOREM CacheInductive == Spec => []CacheInv
<1>1. Init => CacheInv
  BY CacheAssumption DEF Init, CacheInv, TypeOK, OneFetchAtATime, FetchesSpaced, Age, Call
<1>2. CacheInv /\ [Next]_vars => CacheInv'
  BY CacheTypeStep, CacheStep DEF CacheInv
<1> QED
  BY <1>1, <1>2, PTL DEF Spec

\* The types, for any callers, kids and bounds.
THEOREM CacheTypes == Spec => []TypeOK
BY CacheInductive, PTL DEF CacheInv

\* No two fetches are ever out together.
THEOREM MutexHeldAcrossFetch == Spec => []OneFetchAtATime
BY CacheInductive, PTL DEF CacheInv

\* The mutex held across the fetch is what keeps successful fetches MinRefetch
\* apart, for any number of callers.
THEOREM FetchesAlwaysSpaced == Spec => []FetchesSpaced
BY CacheInductive, PTL DEF CacheInv

\* The cache implements KeyPromise, for any callers, kids and refetch interval:
\* known keys are answered whatever becomes of the IdP, and none is called
\* unknown for a set older than the call.
THEOREM KeyPromiseKept == Spec => KeepsKeyPromise
<1>1. Init => AskedFor
  BY CacheAssumption DEF Init, AskedFor
<1>2. Init => Promise!Init
  <2> SUFFICES ASSUME Init PROVE Promise!Init
    OBVIOUS
  <2>1. \A c \in Callers : /\ (call[c].step # "idle") = FALSE
                           /\ call[c].kid = NoKid /\ call[c].got = "nothing"
    BY DEF Init
  <2>2. Lookups = [c \in Callers |-> [open |-> FALSE, kid |-> NoKid, got |-> "nothing"]]
    BY <2>1 DEF Lookups
  <2>3. keys \in SUBSET Usable
    BY DEF Init
  <2> QED
    BY <2>2, <2>3 DEF Init, Promise!Init
<1>3. CacheInv /\ AskedFor /\ [Next]_vars => AskedFor'
  BY AskedForStep
<1>4. CacheInv /\ AskedFor /\ [Next]_vars => [Promise!Next]_Promise!kvars
  BY KeyPromiseStep
<1> QED
  BY <1>1, <1>2, <1>3, <1>4, CacheInductive, PTL DEF Spec, KeepsKeyPromise, Promise!Spec

=============================================================================
