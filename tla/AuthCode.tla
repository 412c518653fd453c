------------------------------ MODULE AuthCode ------------------------------
(***************************************************************************)
(* Chapters 00 and 02 (src/00-first-login-trace, src/02-authcode-pkce):    *)
(* the Authorization Code flow with PKCE, with one slot for the login in   *)
(* flight.  Every visit to / overwrites the slot, every callback is judged *)
(* by what the slot holds when it comes, and nothing ever empties it.      *)
(*                                                                         *)
(* A login l stands for the state, nonce and verifier drawn together for   *)
(* it, and for the challenge derived from that verifier; each login has a  *)
(* browser tab of its own.  The handlers run concurrently.                 *)
(***************************************************************************)
EXTENDS Naturals, FiniteSets

CONSTANTS Logins, NoLogin,
          MaxTasks     \* bound: handlers running

ASSUME CodeAssumption ==
  /\ NoLogin \notin Logins
  /\ MaxTasks \in Nat

MaybeLogin == Logins \cup {NoLogin}

\* A handler in progress: "stamp" and "redirect" belong to start; "exchange"
\* and "validate" to callback, which works for login with the values of own.
Task == [step : {"stamp", "redirect", "exchange", "validate"},
         login : Logins,         \* whose request or code it is
         own   : Logins,         \* nonce and verifier copied from the slot
         chal  : MaybeLogin]     \* challenge copied from the slot

VARIABLES
  split,     \* TRUE: chapter 00, which stores the challenge later
  slot,      \* cur.state, cur.nonce, cur.verifier
  challenge, \* cur.challenge
  tasks,     \* handlers in progress
  tab,       \* [Logins -> where its browser tab is]
  redeemed,  \* codes the IdP has redeemed
  done,      \* [Logins -> times it ended in a result page]
  shown,     \* <<challenge, verifier>> pairs the trace showed as one login's
  rejected,  \* logins that were refused for their nonce
  failed,    \* logins that failed with their tokens in hand
  crossed    \* history: <<k, l>> if l started while k had its stamp to come

vars == <<split, slot, challenge, tasks, tab, redeemed, done, shown, rejected, failed, crossed>>

TypeOK ==
  /\ split \in BOOLEAN
  /\ slot \in MaybeLogin
  /\ challenge \in MaybeLogin
  /\ tasks \subseteq Task
  /\ tab \in [Logins -> {"closed", "waiting", "at IdP", "back"}]
  /\ redeemed \subseteq Logins
  /\ done \in [Logins -> 0..2]
  /\ shown \subseteq Logins \X Logins
  /\ rejected \subseteq Logins
  /\ failed \subseteq Logins
  /\ crossed \subseteq Logins \X Logins

Init ==
  /\ split \in BOOLEAN
  /\ slot = NoLogin
  /\ challenge = NoLogin
  /\ tasks = {}
  /\ tab = [l \in Logins |-> "closed"]
  /\ redeemed = {}
  /\ done = [l \in Logins |-> 0]
  /\ shown = {}
  /\ rejected = {}
  /\ failed = {}
  /\ crossed = {}

Begin(t)     == Cardinality(tasks) < MaxTasks /\ tasks' = tasks \cup {t}
Become(t, u) == tasks' = (tasks \ {t}) \cup {u}
Finish(t)    == tasks' = tasks \ {t}

-----------------------------------------------------------------------------
\* start draws a login and puts it into the slot: chapter 02 with its
\* challenge, chapter 00 without.
StartLogin(l) ==
  /\ tab[l] = "closed"
  /\ tab' = [tab EXCEPT ![l] = "waiting"]
  /\ slot' = l
  /\ challenge' = IF split THEN challenge ELSE l
  /\ Begin([step |-> IF split THEN "stamp" ELSE "redirect",
            login |-> l, own |-> l, chal |-> NoLogin])
  /\ crossed' = crossed \cup {<<t.login, l>> : t \in {u \in tasks : u.step = "stamp"}}
  /\ UNCHANGED <<split, redeemed, done, shown, rejected, failed>>

\* start of chapter 00, second lock section: the challenge read back out of
\* the authorization URL, into a slot that may be another login's by now.
Stamp(t) ==
  /\ t.step = "stamp"
  /\ challenge' = t.login
  /\ Become(t, [t EXCEPT !.step = "redirect"])
  /\ UNCHANGED <<split, slot, tab, redeemed, done, shown, rejected, failed, crossed>>

\* The 302 to the IdP reaches the browser.
Redirect(t) ==
  /\ t.step = "redirect"
  /\ tab' = [tab EXCEPT ![t.login] = "at IdP"]
  /\ Finish(t)
  /\ UNCHANGED <<split, slot, challenge, redeemed, done, shown, rejected, failed, crossed>>

\* External: the user signs in and the IdP sends the browser back with a code.
SignIn(l) ==
  /\ tab[l] = "at IdP"
  /\ tab' = [tab EXCEPT ![l] = "back"]
  /\ UNCHANGED <<split, slot, challenge, tasks, redeemed, done, shown, rejected, failed, crossed>>

\* Mutant: the login is recognised by its challenge.
CallbackByChallenge(l) ==
  /\ tab[l] = "back"
  /\ challenge = l
  /\ Begin([step |-> "exchange", login |-> l, own |-> slot,
            chal |-> IF split THEN challenge ELSE NoLogin])
  /\ UNCHANGED <<split, slot, challenge, tab, redeemed, done, shown, rejected, failed, crossed>>

\* callback copies the slot in one lock section and goes on if the state is
\* the slot's, else answers 400.  The tab can be reloaded at any time.
Callback(l) ==
  /\ tab[l] = "back"
  /\ slot = l
  /\ Begin([step |-> "exchange", login |-> l, own |-> slot,
            chal |-> IF split THEN challenge ELSE NoLogin])
  /\ UNCHANGED <<split, slot, challenge, tab, redeemed, done, shown, rejected, failed, crossed>>

\* Mutant: codes can be redeemed again.
ExchangeAgain(t) ==
  /\ t.step = "exchange"
  /\ redeemed' = redeemed \cup {t.login}
  /\ Become(t, [t EXCEPT !.step = "validate"])
  /\ UNCHANGED <<split, slot, challenge, tab, done, shown, rejected, failed, crossed>>

\* The token endpoint redeems a code once, for the verifier whose challenge
\* came with its authorization request.
Exchange(t) ==
  /\ t.step = "exchange"
  /\ t.login \notin redeemed /\ t.own = t.login
  /\ redeemed' = redeemed \cup {t.login}
  /\ Become(t, [t EXCEPT !.step = "validate"])
  /\ UNCHANGED <<split, slot, challenge, tab, done, shown, rejected, failed, crossed>>

\* It refuses, or its answer is lost: 400.
ExchangeFails(t) ==
  /\ t.step = "exchange"
  /\ \/ /\ t.login \in redeemed \/ t.own # t.login
        /\ UNCHANGED redeemed
     \/ redeemed' \in {redeemed, redeemed \cup {t.login}}
  /\ Finish(t)
  /\ UNCHANGED <<split, slot, challenge, tab, done, shown, rejected, failed, crossed>>

\* Mutant: the challenge is read from the slot only now.
ShowSlot(t) == shown' = shown \cup IF ~split THEN {} ELSE {<<challenge, t.own>>}

\* findPKCESplit: challenge and verifier are shown side by side, if both are
\* there.
Show(t) == shown' = shown \cup
             IF t.chal = NoLogin THEN {} ELSE {<<t.chal, t.own>>}

\* Mutant: the nonce is read from the slot only now.
ValidateBySlot(t) ==
  /\ t.step = "validate"
  /\ IF slot = t.login
       THEN /\ done' = [done EXCEPT ![t.login] = @ + 1]
            /\ Show(t)
            /\ UNCHANGED rejected
       ELSE rejected' = rejected \cup {t.login} /\ UNCHANGED <<done, shown>>
  /\ Finish(t)
  /\ UNCHANGED <<split, slot, challenge, tab, redeemed, failed, crossed>>

\* The ID token carries the nonce of its own login; it is compared with the
\* one copied before the exchange.  Then the findings and the result page.
Validate(t) ==
  /\ t.step = "validate"
  /\ IF t.own = t.login
       THEN /\ done' = [done EXCEPT ![t.login] = @ + 1]
            /\ Show(t)
            /\ UNCHANGED rejected
       ELSE rejected' = rejected \cup {t.login} /\ UNCHANGED <<done, shown>>
  /\ Finish(t)
  /\ UNCHANGED <<split, slot, challenge, tab, redeemed, failed, crossed>>

\* The answer has no ID token or one that cannot be verified, the nonce not
\* looked at yet; or the findings are made and the trace cannot be written.
\* No result page, and the code is used up.
ValidateFails(t) ==
  /\ t.step = "validate"
  /\ failed' = failed \cup {t.login}
  /\ \/ UNCHANGED shown
     \/ t.own = t.login /\ Show(t)
  /\ Finish(t)
  /\ UNCHANGED <<split, slot, challenge, tab, redeemed, done, rejected, crossed>>

Handler(t) ==
  \/ Stamp(t) \/ Redirect(t)
  \/ Exchange(t) \/ ExchangeFails(t) \/ Validate(t) \/ ValidateFails(t)

Next ==
  \/ \E l \in Logins : StartLogin(l) \/ SignIn(l) \/ Callback(l)
  \/ \E t \in tasks : Handler(t)

Spec == Init /\ [][Next]_vars

\* net/http runs a handler to its end, and the browser follows redirects.  A
\* callback that failed is reloaded, and the token endpoint does not fail for
\* ever.  Users need not start or finish a login.
Fairness ==
  \A l \in Logins :
    /\ WF_vars(Callback(l))
    /\ SF_vars(\E t \in tasks : t.login = l /\ Exchange(t))
    /\ \A step \in {"stamp", "redirect", "exchange", "validate"} :
         WF_vars(\E t \in tasks : /\ t.login = l /\ t.step = step
                                  /\ Handler(t))

FairSpec == Spec /\ Fairness

-----------------------------------------------------------------------------
(* Properties.                                                             *)

\* A login ends in a result page once at most, although the slot keeps its
\* state and the callback URL can be reloaded as long as nobody else starts.
CompletesOnce == \A l \in Logins : done[l] <= 1

\* A login under way is not refused for its nonce because another one took the
\* slot while its code was being exchanged: callback goes on with its copies.
NonceNeverBlamed == rejected = {}

\* "Each of these derives its claim from what this run actually produced": the
\* challenge and the verifier a trace shows side by side belong together, also
\* when other logins have stamped the slot by then.  The one way to show two
\* that do not is that of start in chapter 00, between whose lock sections
\* another login may start: then the pair is theirs.
PairsMatchUnlessCrossed ==
  \A pair \in shown : pair[1] = pair[2] \/ pair \in crossed

\* The answer that redeemed the code of l never arrived.
Lost(l) ==
  /\ l \in redeemed \ (rejected \cup failed)
  /\ done[l] = 0
  /\ \A t \in tasks : ~(t.login = l /\ t.step = "validate")

\* The login that holds the slot for good comes home once its browser is back,
\* whatever the logins it overtook still do.  What can keep it away is no other
\* login: its code was used up by an exchange whose answer got lost, or the
\* tokens came and could not be verified, or the trace could not be written.  A
\* reload helps in neither case, since the code is spent.
LastComesHome ==
  \A l \in Logins :
    <>[](slot = l /\ tab[l] = "back") => <>(done[l] = 1 \/ Lost(l) \/ l \in failed)

=============================================================================
