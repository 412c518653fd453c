----------------------------- MODULE JwksCache -----------------------------
(***************************************************************************)
(* The cache of the IdP's signing keys (src/internal/jwks/jwks.go), shared *)
(* by every handler that verifies a token.                                 *)
(*                                                                         *)
(* Key holds the cache's mutex from its first look to its answer, across   *)
(* the HTTP fetch, so a caller is waiting, fetching (and holds the mutex)  *)
(* or done.  Time is kept as ages: how long ago the last fetch was, never  *)
(* above MinRefetch, beyond which the code no longer tells values apart.   *)
(***************************************************************************)
EXTENDS Naturals, FiniteSets

CONSTANTS Callers,       \* goroutines that verify tokens
          Kids,          \* key ids the IdP publishes, or a token claims
          Usable,        \* those whose JWK load accepts: RSA, for signatures
          MinRefetch,    \* minRefetch, in ticks
          MaxRotations   \* bound: changes of the published set

CONSTANTS NoKid, NoCaller

ASSUME CacheAssumption ==
  /\ Usable \subseteq Kids
  /\ NoKid \notin Kids
  /\ NoCaller \notin Callers
  /\ MinRefetch \in Nat \ {0}
  /\ MaxRotations \in Nat

VARIABLES
  offline,    \* TRUE: a cache built by NewFromSet, which has no HTTP client
  keys,       \* kids cached (keys of the map)
  age,        \* time since lastFetch
  holder,     \* the caller that holds the mutex across a fetch
  call,       \* [Callers -> [step, kid, got]]
  published,  \* kids at the jwks_uri now
  reply,      \* the JWKS the holder's request was answered with, once it was
  rotations,  \* changes of the published set so far
  attempted,  \* history: time since a fetch was last begun
  offered     \* history: [Callers -> the sets published since it called]

vars == <<offline, keys, age, holder, call, published, reply, rotations, attempted, offered>>

Age == 0..MinRefetch

\* "wait": called, queued for the mutex.  "fetch": its HTTP request is out.
Call == [step : {"idle", "wait", "fetch"},
         kid  : Kids \cup {NoKid},
         got  : {"nothing", "key", "refused", "failed", "panicked", "unknown"}]

TypeOK ==
  /\ offline \in BOOLEAN
  /\ keys \subseteq Kids
  /\ age \in Age
  /\ holder \in Callers \cup {NoCaller}
  /\ call \in [Callers -> Call]
  /\ published \subseteq Kids
  /\ reply \subseteq SUBSET Kids
  /\ rotations \in 0..MaxRotations
  /\ attempted \in Age
  /\ offered \in [Callers -> SUBSET SUBSET Kids]

\* New starts empty and has never fetched; NewFromSet is loaded from a set and
\* counts as just fetched.
Init ==
  /\ offline \in BOOLEAN
  /\ IF offline THEN keys \in (SUBSET Usable) \ {{}} /\ age = 0
                ELSE keys = {} /\ age = MinRefetch
  /\ published \in SUBSET Kids
  /\ holder = NoCaller
  /\ call = [c \in Callers |-> [step |-> "idle", kid |-> NoKid, got |-> "nothing"]]
  /\ reply = {}
  /\ rotations = 0
  /\ attempted = MinRefetch
  /\ offered = [c \in Callers |-> {}]

-----------------------------------------------------------------------------
\* An age a tick later.
Older(a) == IF a < MinRefetch THEN a + 1 ELSE a

Tick ==
  /\ age' = Older(age)
  /\ attempted' = Older(attempted)
  /\ UNCHANGED <<offline, keys, holder, call, published, reply, rotations, offered>>

\* External: the IdP rolls its keys.
Rotate(new) ==
  /\ rotations < MaxRotations
  /\ new # published
  /\ published' = new
  /\ rotations' = rotations + 1
  /\ offered' = [c \in Callers |-> IF call[c].step = "idle" THEN {} ELSE offered[c] \cup {new}]
  /\ UNCHANGED <<offline, keys, age, holder, call, reply, attempted>>

\* A token arrives whose header names kid.
Ask(c, kid) ==
  /\ call[c].step = "idle"
  /\ call' = [call EXCEPT ![c] = [step |-> "wait", kid |-> kid, got |-> "nothing"]]
  /\ offered' = [offered EXCEPT ![c] = {published}]
  /\ UNCHANGED <<offline, keys, age, holder, published, reply, rotations, attempted>>

Return(c, result) ==
  /\ call' = [call EXCEPT ![c] = [step |-> "idle", kid |-> NoKid, got |-> result]]
  /\ offered' = [offered EXCEPT ![c] = {}]

\* Mutant: never look again for an unknown kid.
NeverRefetch(k) == FALSE

\* Mutant: a cache that has grown old is fetched anew, whatever is asked.
RefetchOld(k) == age >= MinRefetch

\* Key, its two reasons to fetch: nothing cached yet, or a kid it does not know
\* and an allowance to look again.
MustFill      == keys = {}
MayRefetch(k) == k \notin keys /\ age >= MinRefetch

\* Key takes the mutex and answers from the cache.
Answer(c) ==
  /\ call[c].step = "wait"
  /\ holder = NoCaller
  /\ ~MustFill /\ ~MayRefetch(call[c].kid)
  /\ Return(c, IF call[c].kid \in keys THEN "key" ELSE "refused")
  /\ UNCHANGED <<offline, keys, age, holder, published, reply, rotations, attempted>>

\* Mutant: the mutex is not taken for the fetch.
BeginFetchUnlocked(c) ==
  /\ call[c].step = "wait"
  /\ MustFill \/ MayRefetch(call[c].kid)
  /\ holder' = c
  /\ call' = [call EXCEPT ![c].step = "fetch"]
  /\ attempted' = 0
  /\ UNCHANGED <<offline, keys, age, published, reply, rotations, offered>>

\* Key takes the mutex and starts a fetch under it.
BeginFetch(c) ==
  /\ call[c].step = "wait"
  /\ holder = NoCaller
  /\ MustFill \/ MayRefetch(call[c].kid)
  /\ holder' = c
  /\ call' = [call EXCEPT ![c].step = "fetch"]
  /\ attempted' = 0
  /\ UNCHANGED <<offline, keys, age, published, reply, rotations, offered>>

\* External: the IdP reads its keys to answer; they may roll before it arrives.
IdPAnswers ==
  /\ ~offline
  /\ holder # NoCaller
  /\ reply = {}
  /\ reply' = {published}
  /\ UNCHANGED <<offline, keys, age, holder, call, published, rotations, attempted, offered>>

\* fetch succeeds: lastFetch is set, then load adds the usable keys, an error
\* when there are none.  Keys no longer published stay.
FetchOk(c, set) ==
  LET loaded == set \cap Usable IN
  /\ ~offline
  /\ holder = c
  /\ set \in reply
  /\ reply' = {}
  /\ age' = 0
  /\ keys' = keys \cup loaded
  /\ Return(c, CASE loaded = {} -> "failed"
                 [] loaded # {} /\ call[c].kid \in keys' -> "key"
                 [] OTHER -> IF keys = {} THEN "refused" ELSE "unknown")
  /\ holder' = NoCaller
  /\ UNCHANGED <<offline, published, rotations, attempted>>

\* Mutant: the error return forgets the mutex.
FetchFailsHoldingOn(c) ==
  /\ ~offline
  /\ holder = c
  /\ reply' = {}
  /\ Return(c, "failed")
  /\ UNCHANGED <<offline, keys, age, holder, published, rotations, attempted>>

\* fetch fails (connection, status, body, deadline): an error, nothing recorded,
\* the mutex released.
FetchFails(c) ==
  /\ ~offline
  /\ holder = c
  /\ reply' = {}
  /\ Return(c, "failed")
  /\ holder' = NoCaller
  /\ UNCHANGED <<offline, keys, age, published, rotations, attempted>>

\* fetch in a cache of NewFromSet: Do on a nil client panics.  The deferred
\* Unlock runs as the panic leaves Key, and no answer comes back.
FetchPanics(c) ==
  /\ offline
  /\ holder = c
  /\ reply' = {}
  /\ Return(c, "panicked")
  /\ holder' = NoCaller
  /\ UNCHANGED <<offline, keys, age, published, rotations, attempted>>

Next ==
  \/ Tick
  \/ \E new \in SUBSET Kids : Rotate(new)
  \/ \E c \in Callers, kid \in Kids : Ask(c, kid)
  \/ \E c \in Callers : Answer(c) \/ BeginFetch(c) \/ FetchFails(c) \/ FetchPanics(c)
  \/ IdPAnswers
  \/ \E c \in Callers, set \in SUBSET Kids : FetchOk(c, set)

Spec == Init /\ [][Next]_vars

\* Time passes; sync.Mutex hands itself over to whoever waits longest; an HTTP
\* request is answered or runs into the client's timeout.  Nobody has to ask.
FetchEnds(c) == FetchFails(c) \/ FetchPanics(c) \/ \E set \in SUBSET Kids : FetchOk(c, set)

Fairness ==
  /\ WF_vars(Tick)
  /\ WF_vars(IdPAnswers)
  /\ \A c \in Callers : /\ SF_vars(Answer(c) \/ BeginFetch(c))
                        /\ WF_vars(FetchEnds(c))

FairSpec == Spec /\ Fairness

-----------------------------------------------------------------------------
(* Properties.                                                             *)

\* The mutex is held across a fetch by the one caller that fetches, so no two
\* fetches are ever out together and nobody reads the map while it is loaded.
OneFetchAtATime ==
  /\ \A c \in Callers : call[c].step = "fetch" <=> holder = c
  /\ reply # {} => holder # NoCaller

\* While a cache that holds keys has a fetch out, its last successful one lies
\* MinRefetch back, however many callers bring made-up kids: what was checked
\* under the mutex still holds when the answer comes.
FetchesSpaced ==
  \A c \in Callers :
    call[c].step = "fetch" /\ keys # {} => age = MinRefetch

\* Every call is over some time, with no caller starved by the mutex, not even
\* behind one whose fetch panicked; and it is over by an answer, unless a cache
\* of NewFromSet is asked for a kid it does not hold: that one may panic, for
\* "never fetches" is true of it only for its first MinRefetch.
CallsReturn ==
  \A c \in Callers :
    /\ call[c].step # "idle" ~> call[c].step = "idle"
    /\ (call[c].step # "idle" /\ (offline => call[c].kid \in keys))
         ~> (call[c].step = "idle" /\ call[c].got # "panicked")

\* Rollover is survived: a signing key that stays published is learned if
\* tokens that name it keep coming and fetches no longer fail, without a
\* restart.
RolloverSurvived ==
  \A k \in Usable :
    /\ ~offline
    /\ <>[](k \in published)
    /\ []<>(\E c \in Callers : call[c].step = "wait" /\ call[c].kid = k)
    /\ <>[][\A c \in Callers : ~FetchFails(c)]_vars
    => <>(k \in keys)

\* Key as its callers see it: the mutex and the requests are inside.
Lookups == [c \in Callers |-> [open |-> call[c].step # "idle", kid |-> call[c].kid, got |-> call[c].got]]

Promise == INSTANCE KeyPromise WITH known <- keys, lookup <- Lookups

\* The cache implements KeyPromise: however calls, fetches and rollovers overlap,
\* an IdP that is down costs nobody a key that is known, no key is lost again,
\* and a kid is called unknown only after the IdP was asked for this very call.
KeepsKeyPromise == Promise!Spec

-----------------------------------------------------------------------------
(* What the comments say and the code does not keep.                       *)

\* "Refetch, but not more often than minRefetch": a cache that holds keys
\* begins no fetch within MinRefetch of the one before.
AttemptsSpaced ==
  [][\A c \in Callers :
       (~offline /\ call[c].step = "wait" /\ call'[c].step = "fetch" /\ keys # {})
         => attempted >= MinRefetch]_vars

=============================================================================
