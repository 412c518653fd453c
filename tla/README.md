# A formal model of auth-from-scratch

TLA+ modules, TLC configurations and TLAPS proofs about the Go programs of this
repository. The repository builds login piece by piece: the Authorization Code
flow with a library and by hand (chapters 00 and 02), a session cookie
(chapter 03), single logout (chapter 04), signature keys (chapter 05 and
`internal/jwks`), passkeys (chapter 06 and `internal/webauthn`), authorization
models (chapter 07). Each chapter is a small server or a script; what makes them
hard is not their size but that their handlers run concurrently, keep state
between requests, and talk to an identity provider (IdP) and to browsers that
repeat, delay and reorder what they send.

## The system

| part | state | operations | how it meets the others |
|---|---|---|---|
| relying parties of chapter 04 (`src/04-logout/main.go`) | per RP, under one mutex: `sess` (our id → session), `bySID` (IdP sid → our id), `pend` (state → login) | login, callback, logout-local, logout-rp-initiated, backchannel-logout, home | redirects through the browser, token request and back-channel call to and from the IdP, tokens checked with `internal/oidcclient` and `internal/jwks` |
| session store of chapter 03 (`src/03-session-cookie`) | a map id → session under a mutex; the browser's cookie | create, get, destroy, and the handlers home, login, logout; `-unsafe-no-regenerate` | two sites share one store and, since cookies ignore ports, one cookie |
| key cache (`internal/jwks`) | keys by kid, time of the last fetch, a mutex held across the fetch | Key, fetch, load, NewFromSet, Verify | called by every handler that verifies a token; calls the IdP's `jwks_uri` |
| OIDC client (`internal/oidcclient`) | none between calls | FetchDiscovery, AuthorizeURL, ExchangeCode, ValidateIDToken | used by chapters 02, 04, 05 |
| logins of chapters 00 and 02 | one slot for the login in flight | start, callback | the IdP through the browser and the token endpoint |
| passkeys (`internal/webauthn`, `src/06-passkey`) | the stored registration and its counter; the authenticator's counter | Challenge, VerifyRegistration, VerifyAssertion; create, get of the stand-in authenticator | one ceremony at a time in chapter 06 |
| CBOR decoder (`internal/webauthn/cbor.go`) and its readers (`parseCOSEKey`, `ParseAuthenticatorData`) | a reader position | decode, parse | called by VerifyRegistration and VerifyAssertion on what the browser sent |
| recorder (`internal/wiretrace`) | a list of recorded steps under a mutex | Front, Notes, RoundTrip, WriteMarkdown, redaction | shared by the handlers of a chapter |
| authorization models (`src/07-authz-models`) | none | three decision functions | none |
| scripts (`src/00-reference-tour`, `src/05-jwks-verify`) | none between runs | generate a document; walk through a verification | the IdP, `internal/jwks` |
| IdP (`src/docker`) | external | sign-in, token endpoint, end of session, back channel, key set | everything above |

What is hard about them, and what correctness means there:

- **Chapter 04.** Handlers give the mutex up across the token exchange and
  between their lock sections. The back channel deletes whatever session the
  index names, so an index entry must lead to a live session of that sid; what
  survives a logout notice must have a reason; nobody may lose a session to
  somebody else's logout; a state is spent once; an RP-initiated logout must
  reach every RP in the end. Notices get lost, refused and repeated.
- **Chapter 03.** A browser overlaps requests, and the last Set-Cookie wins. An
  id an anonymous visitor knows must never become that of an authenticated
  session; what was destroyed must not return, even when a login writes through
  a pointer outside the mutex; a visit must not cost a login that the browser
  had when it sent it.
- **Key cache.** Many callers bring unknown kids at once, a fetch can fail or
  hang, and the IdP rolls its keys at any time. One fetch at a time, fetches
  spaced, every call over in the end, rollover survived.
- **Token rules.** Two kinds of token are signed with the same keys; their rules
  must exclude each other. The token's header has a say only where a key is
  published without an algorithm, and forgeries must gain nothing by it; missing
  time claims must not mean "forever"; the report of the checks must agree with
  the verdict.
- **Chapters 00 and 02.** Every visit overwrites the one slot, no callback
  empties it. A login completes once, is not refused for a nonce another one
  left, and the last one comes home unless its tokens or its trace fail it.
- **Recorder.** Handlers add to one list and write it to one file, the writing
  outside the mutex. The trace must tell each request's story in order and
  whole, also when an exchange fails, and the file must not be an older copy.
- **CBOR.** The decoder believes the lengths its input claims. It must stop
  where an item ends, whatever follows; lengths wrap at 64 bits; a key of a map
  may be something Go cannot hash.
- **Passkeys.** Counters stand still for some authenticators, come round at
  2^32, and are shared by copies of a key; recorded responses come again, whole
  or in parts.

`PROJECT.json` lists these hazards one by one, at the lines where they bite.

## Modules

Each component has a specification, a proof module that extends it and states
the strengthenings its proofs need (`…Proofs`), and an instance for TLC (`MC…`,
which only adds symmetry sets and small constants). `Sessions`, `LogoutPromise`
and `KeyPromise` are abstract specifications, stated without maps, cookies,
locks or handlers; `SessionStore`, `SingleLogout` and `JwksCache` implement
them. `CborMore` instantiates `Cbor` once more, on a longer input, and
`CborGrammar` adds the reference its results are compared with: rules that
produce the items in some bytes, whose solution is a constant of the module and
is computed only in `MCCbor`. `Authz` has no runs (it has no states) and its
theorems stand in `TokenRulesProofs`. Handlers that give a mutex up, or wait for
the network, become records in a set `tasks` (`reqs` in `SessionStore`, `call`
in `JwksCache`); each lock section is one action, so any interleaving the mutex
admits is a behaviour. Names follow the source.

Two abstractions hold everywhere. Random values (states, nonces, session ids,
challenges) are drawn fresh from a set: collisions of 256-bit values are left
out. Tasks form a set, so two handlers whose records are equal in every field
coincide; such handlers would take the same steps on the same data, and where
doubling matters (a reloaded callback that is already further along) their
records differ.

### SingleLogout (chapter 04)

`sess`, `bySID` and `pend` are the maps of `rp`. `tasks` are handlers,
`jar` the session cookies; `flow`, `sso`, `joined`, `ended`, `endReqs`,
`notices` are the IdP and the browser's way to it, external. `born`, `late`
and `told` are history for the properties.

| action | code |
|---|---|
| `Login` | `login`: state into `pend`, redirect |
| `TakePending`, `ExchangeCode`, `CallbackFails`, `CommitLogin` | `callback`: first lock section, the exchange without the mutex, the error returns, second lock section |
| `AskLogout`, `FindSession`, `DropSession` | `logoutLocal`, `logoutRPInitiated`, `dropSession` with `clearCookie` |
| `BackchannelLogout`, `BackchannelRefused` | `backchannelLogout` with a token that `validateLogoutToken` accepts, or refuses |
| `Reply`, `CookieExpires` | the response reaches the browser: Set-Cookie and redirect; the cookie's Max-Age runs out |
| `Authorize`, `EndSession`, `EndAtIdP` | external: sign-in, end-session endpoint, a session ended by the IdP |

A state that is not pending, and a callback with `error=`, change nothing and
are not steps. What a token must say is in `TokenRules`; a notice that names no
sid changes nothing, because sessions are found by sid only.

`LogoutPromise` is what all this promises: a session is opened once, leaves by
its own logout or by a notice of the IdP session it stems from, and a notice is
sure to end one that was the only one its RP opened there. Its `Leaves` may
happen to any live session at any time; that a single session leaves only at the
bidding of its own cookie is `EndsForItsOwnReason`. The refinement maps
`opened` to `born` and `live` to the pairs in `sess` (`LiveSessions`);
`KeepsLogoutPromise` says that every step of the handlers is a step of it or
changes nothing it sees.

### JwksCache (internal/jwks)

`Key` is under the mutex from its first look to its answer: `Answer` (from the
cache), or `BeginFetch` and then `FetchOk` or `FetchFails` while `holder` keeps
the mutex. `Ask` is the call, `Rotate` and `IdPAnswers` the IdP: the answer is
composed at one moment and arrives at another, so keys may roll in between.
`offline` marks a cache of `NewFromSet`, which has no HTTP client: a kid it lacks,
asked for after `MinRefetch`, makes `fetch` panic (`FetchPanics`, `jwks.go:148`).
The deferred `Unlock` still runs, so the mutex is free for the others, and the
call ends without an answer.
`lastFetch` is kept as an age, which stops at `MinRefetch`. `offered` is history:
the sets published while a call has been open.

`KeyPromise` is `Key` as its callers see it: a look-up has its effect at one
moment between call and answer. A known key is answered whatever becomes of the
IdP, none is lost again, and what is learned was published since the look-up
began, so that no kid is called unknown for a set older than the question. In
the refinement (`Lookups`) a call that waits and one that fetches look the same.

### SessionStore (chapter 03)

`m` is the store, `jar` the cookies with the rest of their Max-Age. `LookUp`,
`Destroy`, `Reuse`, `Create`, `Mark` are the lock sections of the handlers
(`Mark` is the write through the pointer, outside the mutex, of the unsafe
mode), `Reply` the arrival of the response at the browser, in any order,
`Tick` an idle tick; `regenerate` is the flag the program was started with. The
password check is the choice between `login` and `badlogin`. The session store of chapter 03 serves two sites with one map; a
cookie does not tell ports apart, so the two are one here.

`Sessions` is the life of a session: unborn, alive for a user or a visitor,
over. The refinement (`Lives`) calls a session alive while `get` would find it,
so idling ends it at the tick and not at the read that deletes the entry: the
lazy expiry must be invisible, which is what `KeepsSessions` shows.

### TokenRules (jwks.Verify, ValidateIDToken, validateLogoutToken)

One token, a record of what the rules can tell apart, is judged in every state
while the clock ticks and the cache loads keys. `Report` is the list of checks
`ValidateIDToken` builds and stops at the first failure; `IDTokenOk` says
independently what the verdict must be. A missing time claim is 0. With
`wired = FALSE` the Validator was built without Keys, and the signature is
deferred. `allowed` maps the algorithms of `jwks.go` to the hash each requires,
`Pss` are those with PSS padding. RSA is ideal: a signature names the key and the
algorithm it was made with, and fits any allowed algorithm with the same hash and
padding (`SignatureFits`). For a key published without `alg` it is the header
that names hash and padding. `Signed`, `NoneToken`, `AlgConfusion` and `Tamper` are the functions of
chapter 05 that make the tokens of its attack suite (`Forgeries`); the suite has
one cache with one labelled key, `SuitePasses` any keys at any time. `MCInit`
narrows `Init` to tokens in which either the claims vary or the signature, since
`Verify` reads no claim and the other rules no header.

### AuthCode (chapters 00 and 02)

`slot` and `challenge` are `cur`; a login stands for the state, nonce and
verifier drawn together. `StartLogin`, `Stamp`, `Redirect` are `start` (only
chapter 00, `split = TRUE`, has the second lock section `Stamp`); `Callback`,
`Exchange`, `ExchangeFails`, `Validate`, `ValidateFails` are `callback`. The last
stands for what can go wrong with the tokens in hand: no ID token, one that
cannot be verified, a trace that cannot be written (chapter 00,
`main.go:171-182` and `217-220`; chapter 02, `main.go:193-203` and `219-222`).
The code is used up by then, so that no reload helps; `failed` remembers these
logins, and the properties about coming home name them. `shown` records the pairs
of `findPKCESplit`, and `crossed` those that two overlapping starts of chapter
00 left in the slot. The OAuth library of chapter 00 may send the token request a
second time while it finds out how the IdP wants the client authenticated; the
outcomes are those of `Exchange` and `ExchangeFails`.

### Passkey (chapter 06, internal/webauthn)

`device` are the stand-in authenticators, `reg` the stored registration, `wire`
everything ever made by an authenticator. `Ask` draws a challenge,
`VerifyRegistration` and `VerifyAssertion` are presented with parts of responses
taken from `wire` in any combination. Counters are modulo `CountSpace` (2^32 in
the code). Keys may be copied (`Clone`). One ceremony runs at a time, and a
failed sign-up ends its ceremony, as in chapter 06. Signatures are ideal.

### Wiretrace (internal/wiretrace, with the handlers of 00, 02 and 03)

`Script` is the calls each handler makes to the recorder, in the order of the
source; a handler is a position in its script and a phase. `Add`, `Find` are the
recorder's locked appends; `Send` and `Receive` are `RoundTrip` before and after
the network; `Snapshot` is the locked part of `WriteMarkdown`, `Truncate` and
`WriteOut` are `os.WriteFile`, `OpenFails` its error; `EnterOnce` and
`LeaveOnce` are `traceOnce`. `GiveUp` stands for the 400s of the callbacks.
Calls that follow each other directly and record the same kind of thing are one
step of a script ("claims", "find"). An entry is who made it and where in the
script; what it says, and how it is rendered, is left out. A disk that fills up
after the file was opened is left out too.

### Cbor (internal/webauthn on bytes)

The state is that of `cborReader` (`rest`, `i`) and of the calls of `value`
that wait for an item of theirs (`stack`: an array or a map, how many items it
still wants, what it has, the key that waits for its value). `hand` is the item
on its way from a call that returns to the one below.

| action | code |
|---|---|
| `ReadItem` | `value` from its `head` (`HeadAt`, `Take`) to its return or its first call: `ReadNumber`, `ReadString`, `ReadSimple`, `Unsupported`, `OpenArray`, `OpenMap` |
| `StoreElement`, `StoreKey`, `StoreEntry` | what the loops do with the item a call returned |
| `CloseItem` | a loop is over |
| `ReturnItem` | `cborDecodeFirst`, and `parseCOSEKey` on its result (`IsKey`) |
| `ParseFixed` | `ParseAuthenticatorData` up to `parseCOSEKey` |

A read comes to a value, an error for what is there, an error for what is
missing, or a panic. Sizes are constants: 5 bits of info, 1 to 8 bytes of
argument, words of 2^64, 37 and 55 bytes of authenticator data are one choice of
them, the bytes of 6 bits of the TLC instance another; the theorems hold for
both. `Signed` is Go's conversion to a signed integer. `Room` is the machine's
memory in elements. Hints for maps from 2^63 on are dropped, and all others beyond
`Room` end the process; the runtime also drops those whose table would overflow
an address, so the model panics for more hints than Go does. How deep a stack the machine bears is
not modelled; `DepthWithinInput` says what depth an input can ask for.

`CborMore` is the decoder on an input that goes on. The refinement maps every
variable to itself with `More` behind the bytes, except that an error for what
is missing is where the longer run is still reading. `NothingAfterCounts` says
that the steps on the shorter input are steps on the longer one.

`CborGrammar` is the reference, the grammar of RFC 8949 for what the decoder
says it supports, told without position or stack. An item is a triple: from
where to where, and what it means; a row is items one behind the other. Two
rules produce them from each other: an item is a head and what may be behind it
(`ItemsAt`, `Behind`: the bytes announced, or a row of the length announced), a
row is empty or an item with a row behind it (`RowsAt`). Where a map has a key
twice the last pair counts (`Table`). In two places the grammar is wider than the
RFC, because the decoder is: an integer means what an `int64` keeps of it, and a
simple value may stand in an argument of any length, so that `f9 00 14`, a half
float, means false. `PanicsExplained` stands here too, since "all there" is a
notion of the grammar: nothing ends the process but a key Go cannot hash and a
head that announces more than is left. `Items` and `Rows` are constants, any sets
that satisfy the rules (`GrammarAssumption`); since an item has a head, the rules
leave one choice. `MCCbor` computes it from the end of the input backwards.

### Authz (chapter 07)

`rbac`, `abac`, `rebac` as predicates of a request; the tables they read
(`rolePerms`, `tuples`, `relationGrants`) are arguments, so that theorems can
speak of every table. `EqualFold` is a parameter without assumptions: no result
depends on how role names are compared.

## Runs

| run | instance | what it shows |
|---|---|---|
| `SingleLogoutSafety` | 1 RP, 2 browsers, 2 logins, 2 sids, 3 tasks; sid optional, notices lost, refused, repeated (1.2 million states) | the index is sound, a state is spent once, only a sibling hides a session, every survivor has a cause, nobody else's logout ends a session |
| `SingleLogoutLive` | 2 RPs, 1 browser, 2 logins, sid optional, fairness (482 000) | an RP-initiated logout reaches every index; the RPs implement `LogoutPromise` |
| `SingleLogoutFindable`, `SingleLogoutLate` | violations | see "Where the code departs" |
| `JwksCacheCalls` | 2 callers, 2 signing keys and one for encryption, MinRefetch 1, 1 rotation, fetches may fail, with and without a `jwks_uri`; fairness (124 000) | fetches spaced; every call is over in the end, by an answer unless a `NewFromSet` cache lacks the kid; a new key is learned; the cache implements `KeyPromise` |
| `JwksCacheAttempts` | violation | see below |
| `SessionStoreRequests` | 1 browser, 3 ids, 3 overlapping requests, idle time 1, both modes (1.2 million) | no fixation; the cookie of a live session is lost only to its Max-Age, a login, a logout or a visit sent before; the store implements `Sessions`, so what was destroyed stays destroyed |
| `TokenRulesTokens` | all claims of a well-signed token, all headers and signatures (5 algorithms, 2 keys) of a good one, 2 times (1.1 million) | no confusion, missing times, the report, time; the forgeries fail |
| `AuthCodeLogins` | either chapter, 3 logins, 4 handlers, a token endpoint, tokens and a trace that may fail; fairness (73 000) | a login completes once, no nonce is blamed, the last login comes home unless its tokens or trace failed; challenge and verifier belong together unless two starts crossed |
| `PasskeyLogins` | 2 authenticators, 2 sites, 3 ceremonies, 3 responses, gestures with and without user verification, counters up to 3, copies (2.9 million) | a signature is used once, for what it was made for; counters rise; the holder gets in |
| `WiretraceLogins` | 2 requests to chapter 00, 02 or 03, 2 sites; fairness (216 000) | each request's entries are in order and complete; the file has everything of whoever wrote it; sites take turns; every request ends |
| `CborBlobs` | items of up to 4 of 16 bytes and of 5 of 8 heads, keys of 5 or 6 out of 7 pairs, data of up to 6 bytes and a key (867 000) | the decoder reads the grammar and stops where the item ends; it panics only at a head that announces more than is left, or over a key Go cannot hash; depth and work stay within the input; keys do not depend on the order or the spelling of labels; data is cut where it says; what follows an input changes nothing |

Why these bounds. Every hazard between actors involves two or three of them: a
notice and a callback, two logins under one sid, a login and two visits, a
caller that fetches and one that queues, a reload and another login. The
instances have room for them: each property is violated, within its own bounds,
by a mutated definition (`PROJECT.json`, "mutants"; the mutants stand beside the
definitions they replace). Session ids are drawn once, so the number of ids
bounds the number of logins; in chapter 03 three let one be live, one replaced
and one destroyed at once. The relying parties of chapter 04 share nothing but
the IdP, so one is enough for the safety properties, and the liveness run has
two. With Idle 1 a session survives one tick and not a second; of `MinRefetch` the cache only
asks whether it is over, so that one tick does. `CountSpace = 4` lets a counter
rise, stand still, and come round within three responses. Two requests are what
it takes for a login to wait in `traceOnce` for another of its site, and for two
writes to meet; the proofs hold for any number. Four bytes of
any kind hold a long length with something behind it, five of the heads a map
with a key given twice; the byte alphabet of
`CborBlobs` has every major type, arguments within the head, in a byte and of the
longest form, an info that is none of these, and lengths that
are negative, that overflow the position (the largest of the positive ones,
behind a head) and that exceed `Room`; one of the pairs spells the label -1 as
the largest unsigned integer; data goes up to its two lengths and the credential id's from
either side. Every response of `PasskeyLogins` says that a user was present; one
that does not is covered by the proofs only.
`Passkey` bounds its ceremonies and responses and so stops (`CHECK_DEADLOCK
FALSE`), as do `Wiretrace`, where each request comes in once, and `Cbor`, which
is done when its input is read; the other modules run with deadlock checked: somebody can
always ask, or time passes.

## Fairness

- `SingleLogout`: handlers that were accepted run to their end, the browser
  follows the redirect to the IdP, and the IdP sends the notices it owes;
  `Reliable` says they are accepted. net/http runs a handler to completion and
  no lock is held across a call there, so weak fairness is enough. Nobody has to
  log in or out.
- `JwksCache`: time passes; an HTTP request is answered or hits the client's
  timeout (weak fairness); a caller that waits for the mutex while others take
  turns gets it (strong fairness: `sync.Mutex` hands itself over to whoever has
  waited for more than a millisecond). Nobody has to ask.
- `AuthCode`: handlers run to their end, a browser that is back sends its
  callback, and again after a failure (weak fairness); the token endpoint may
  fail any number of times, but not for ever (strong fairness of the exchange).
- `Wiretrace`: every handler that has come in goes on while it can (weak
  fairness): the client gives up on the IdP after 15 seconds, and the recorder's
  mutex is never held across a call. That `traceOnce` is left, and so entered or
  passed by those who wait, is not assumed.

## What is proved

TLAPS proves the following for all values of the constants; the assumptions are
the named `ASSUME`s of the modules (null values are outside the sets they
complete, bounds are natural numbers, the clock of `TokenRules` shows a time
later than the leeway after 1970; for `Cbor` the sizes fit together, and neither
the memory nor an input comes near half a word; for the grammar, `Items` and
`Rows` satisfy its rules, and an input has no more bytes than the
memory elements). Type correctness, `TypeOK` of
every module that has it, is proved and needs no run; so are `NoResurrection` of
`SessionStore` and what `Authz` says, which has no state.

- **SingleLogoutProofs.** `InductiveInv` is inductive: types, tasks are
  well-formed, a state is spent once, a live session carries the sid it was born
  with, the index is sound, whatever is indexed after its notice came late, only
  siblings are lost. `IndexSound` alone is not inductive: a commit must not
  reuse a drawn id (`BornAsFiled`), and `StateSpentOnce` needs that a handler
  working for a login has that login's code (`TasksWellFormed`).
  `SurvivorsExplained` follows from `LostOnlyToSibling` and
  `IndexedAfterNoticeIsLate`. `EndsForItsOwnReason` is an action property over
  the same invariant. `LogoutPromiseKept`: each action maps to `Opens`,
  `Leaves`, `Notice` or a stutter of `LogoutPromise`; that a lone session goes
  with its notice is `LostOnlyToSibling` once more. `NobodyIsForgotten` rests on
  `Membership`: whoever has a code, a session, an index entry or a logout request
  of an IdP session has joined it, nobody joins one that is over, and all who had
  joined have a notice coming or behind them (`EveryoneTold`).
- **JwksCacheProofs.** The spacing of fetches is inductive only together with
  mutual exclusion (`OneFetchAtATime`): the age seen when a fetch begins is the
  age when it ends because nobody else fetched. `KeyPromiseKept` is the
  refinement; `AskedFor` says what it needs: the kid a fetch is out for is still
  unknown, and the answer it gets was published while its call was open.
- **SessionStoreProofs.** `StoreInv` adds that whatever the store holds goes by
  a drawn id, and that only the unsafe login reaches `Mark`. No fixation and no
  resurrection follow, the latter for both modes. `StoreKeepsSessions` is the
  refinement, with one step per action; `OnlyEarlierVisitsCost` adds what a request
  knows of the cookie it was sent with.
- **TokenRulesProofs.** The rules exclude each other, a
  missing time is old, a refusal is final until a key arrives: from the
  definitions of the rules, over the invariant of types. The forgeries fail for
  whatever token they are made from and whatever keys are published; the report
  is characterised by the first check that fails.
- **AuthCodeProofs.** `OneValidator`: a handler about to complete a login holds
  the only redemption of its code. The properties hold in either chapter;
  `PairsExplained` needs that a slot whose stamp is outstanding is marked.
- **PasskeyProofs.** `Logins` ties every login to what its signature covered and
  to the stored counter; `Behind` (the device is never behind the server) and
  `Ahead` (a response to the challenge in use is ahead of the server) give that
  the holder gets in.
- **WiretraceProofs.** `WiretraceInv`: who is in `traceOnce` is at a step inside
  it (`HoldsOnce`), the entries of a handler lie before its step
  (`EntriesPast`), what it was told of is recorded (`Told`), and the file of a
  handler whose write met no other is as long as both lists were when it took
  its copy (`FileInv`). `HeldInside` ties the owner of `traceOnce` to its own
  site, so that who waits for it waits for one that can go on
  (`TraceOnceIsLeft`); `StepsRunOut` measures each handler by its script
  (`Reached`), which every step raises and none lowers.
- **CborProofs.** `Started` (types; every call below the innermost one still
  wants an item) and `Fresh` are inductive. Each step is first reduced to what it
  does to position, stack and item (`StepEffect`), so that depth and work are
  sums over three cases: a head was read, an item was stored, a call returned.
  `PanicsAreExplained`: a string ends the process only where its length wraps the
  position (`TakeFacts`), which takes more than is left (`TooMuch`); an array or
  a map only beyond `Room`, and no input is that long; all else is the key that
  cannot be hashed. `WhereData` keeps the cut of authenticator data
  until the key is accepted. `KeyIsItsPairs` says which items are taken for a
  key: every map is made of pairs (`AllPaired`) and a function (`MapsFunctional`), so that asking it
  label by label finds what is in it (`SaysByPair`). `LongerReadsTheSame` is the refinement,
  with one lemma per reader: a read that is accepted or refused on the input is the same
  on the longer one (`SameTake`, `SameHead`, `SameData`).
- **CborProofs, the grammar.** `ReadsGrammar` needs an invariant that says, at
  every step, what the calls on the stack will still make of the bytes ahead:
  `Ends` says where a waiting call can come to an end, and with what, given a row
  of items ahead, `Takes` the same when it is handed one first, and `Below` and
  `Completes` carry that down the stack. `Followed` states that the items
  of the whole input are exactly the ends that can still be reached so. A step
  keeps it when it leaves those ends the same (`SameEnds`), or there are none
  and the decoder refuses (`NoEnd`). The heads of grammar and code are the same
  (`HeadsAgree`), and so are their integers, converted before or after the sign
  (`SignedTwice`); what each kind of head announces has a lemma of its own
  (`NumberRead`, `StringRead`, `ArrayRead`, `MapRead`, `SimpleRead`,
  `UnsupportedRead`); storing is taking one item off the row (`StoredElement`, `StoredKey`, `StoredEntry`); and a map filled
  by overwriting, entry by entry, is the table of its row, where the last pair
  counts (`OverPut`). `KeysFromPairs` is `ReadsGrammar` for the bytes of a key,
  and `KeyIsPairs` for the item they mean.
- **Authz** (in `TokenRulesProofs`). ABAC gives the five wanted answers; no table
  of roles can; no store of relations can tell the office from elsewhere; owners
  edit under both of the others; the misses are those the chapter's README lists.
  One theorem qualifies that README: the five requests alone do not show that
  ReBAC fails, since without the tuple that shares `salaries` it answers all of
  them.

Only model-checked: liveness (`RPInitiatedReachesEveryRP`, `CallsReturn`,
`RolloverSurvived`, `LastComesHome`, `EveryRequestEnds`), because the prover has
no rules for fairness here. What they need besides fairness is proved: for
`RPInitiatedReachesEveryRP` that no index entry is forgotten
(`NobodyIsForgotten`), so that delivering the notices is all that is left; for
`EveryRequestEnds` that no login waits for one that waits (`TraceOnceIsLeft`) and
that steps run out (`StepsRunOut`); for `CallsReturn` that the mutex is held by
a caller whose request is out, and by nobody else (`MutexHeldAcrossFetch`); for
`RolloverSurvived` that a kid is called unknown only after an answer without it
that was published during this very call (`KeyPromiseKept`); for `LastComesHome`
that a callback works with the values of its own login, so that neither the token
endpoint nor the check of the nonce has a reason to refuse it (`OwnValues` in
`CodeInductive`).

Every safety property that a run checks is proved. The induction over data that
the grammar would call for is avoided: its rules are an assumption on constants,
and the induction is the one over the decoder's steps.

## Where the code departs from what it says

Each is a run whose one property is violated; `PROJECT.json` ("findings") quotes
the line.

1. `SingleLogoutFindable`: two logins of one RP under one IdP session share an
   index entry; the first session is no longer found by the back channel. (When
   that first session is logged out, `dropSession` takes the entry of the second
   one with it: the same property, from the other side.)
2. `SingleLogoutLate`: a logout notice that arrives while a callback is between
   its token response and its second lock section finds nothing, and the session
   is stored afterwards.
3. `JwksCacheAttempts`: a failed fetch does not count for `minRefetch`.

The others have no run of their own; the model does what the code does, and the
properties name them or leave them out by name.

- `home` of chapter 03 can take a login away (`main.go:149-152`): a visit sent
  without a live session, answered after the login, brings the cookie of an
  anonymous session last. `LiveCookieLostOnlyTo` allows exactly these visits.
- A cache of `NewFromSet` "never fetches" (`jwks.go:113`), but after an hour an
  unknown kid makes it try, and `fetch` panics for want of a client
  (`FetchPanics`; `CallsReturn` says which calls).
- "The algorithm comes from the key, never from the token" (`jwks.go:8-9`), but
  for a key published without `alg` the header's picks the hash, and PSS or PKCS
  #1 padding, among those allowed (`jwks.go:270`, `283-288`).
- Chapter 04 says that it does not verify signatures yet (its `README.md:116-117`,
  `162-164`, and `client.go:304-308`); `callback` and `validateLogoutToken` do,
  as `TokenRules` models. Here the documents are behind the code.
- Chapter 00 stores the challenge in a second lock section (`main.go:121`), so
  two overlapping starts show one login's challenge beside another's verifier
  (`crossed` in `AuthCode`).
- `RoundTrip` is to record every request, but one whose response breaks off is
  not recorded (`wiretrace.go:213`; `lost` in `Wiretrace`), although the IdP may
  have redeemed the code.
- Two writes of one trace file that meet can leave an older rendering, or the
  end of the longer one after the shorter (`wiretrace.go:300`; `overlapped`).
- The decoder returns integers from 2^63 on with the wrong sign (`cbor.go:88`),
  so that the label -1 of a key can also be spelled as the unsigned 2^64 - 1, and
  takes a half float whose bits are 20 to 22 for false, true or null although
  floats are "not supported" (`cbor.go:11`, `124`). `CborGrammar` says so in its
  header and is as wide.
- Three things make the decoder panic: a length that overflows the position
  (`:35`), an array or map announced beyond memory (`:100`, `:111`), and a map
  key Go cannot hash (`:120`). Chapter 06 calls it from `main`, where any of them
  ends the program. Under net/http the slice and hash panics would end one
  request; memory that runs out, or a stack, ends the program there too.

## Not modelled

- `FetchDiscovery` of `internal/oidcclient` and the live mode of chapter 05: one
  request whose document is compared field by field, without state or
  concurrency. `Wiretrace` and `SingleLogout` begin after it.
- `src/00-reference-tour`: a script that runs once, from top to bottom, and
  prints a document.
- Rendering, glossary and redaction in `internal/wiretrace`: redaction searches
  the rendered text for `key=value`; a model of it would be a model of strings.
  That a secret in another form stays in the file is listed as a hazard.
- Cryptography (RSA, ECDSA, SHA-256, bcrypt), encodings, HTML, traces and
  logs: ideal or left out.
- `pend` and `sess` of chapter 04 and the anonymous sessions of chapter 03 grow
  without bound; the models bound them and say nothing of their size.

## Plan

Done, in this order: `SingleLogout`, `JwksCache`, `SessionStore`, `TokenRules`,
`AuthCode`, `Passkey`, the abstract `Sessions` and `LogoutPromise`, `Wiretrace`,
the attack suite in `TokenRules`, `Cbor`, `Authz`, each with its proofs where
the prover reaches.

Left, should the code grow in that direction:

1. `Discovery`: `FetchDiscovery` and its checks, composed with `JwksCache` and
   `TokenRules` (who is trusted because of which document).
2. Redaction, if it moves from rendered text to the recorded values.
