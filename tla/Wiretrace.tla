----------------------------- MODULE Wiretrace -----------------------------
(***************************************************************************)
(* The recorder of src/internal/wiretrace and the handlers that share it:  *)
(* they add steps to one list, each under the mutex, make their token      *)
(* requests through a transport that records them, and in the end write    *)
(* the whole list to one file, which happens outside the mutex.            *)
(*                                                                         *)
(* A handler is known by the calls it makes to the recorder (Script).  An  *)
(* entry is who recorded it and at which step of its script; what it says, *)
(* and how the file renders it, is left out.  A snapshot is told by its    *)
(* lengths, since the two lists only grow.                                 *)
(***************************************************************************)
EXTENDS Naturals, Sequences

CONSTANTS Requests,   \* bound: requests handled
          Apps,       \* sites of chapter 03, which share recorder and file
          NoApp, NoHandler, Spent

\* Requests, numbered as they come in.
Handlers == 1..Requests

ASSUME RecorderAssumption ==
  /\ Requests \in Nat
  /\ NoApp \notin Apps
  /\ NoHandler \notin Nat
  /\ Spent \notin Nat
  /\ Spent # NoHandler

\* The calls of each handler.  "token" and "jwks" go through the transport,
\* "claims" stands for the Notes, Header and Claims in a row, "find" for the
\* findings, "once" for traceOnce.  A logout of chapter 03, and a login that is
\* refused, records what a visit does.
Script ==
  [start      |-> <<"front", "notes", "front">>,
   callback00 |-> <<"front", "token", "jwks", "claims", "find", "write">>,
   callback02 |-> <<"front", "token", "jwks", "find", "claims", "write">>,
   visit      |-> <<"front">>,
   login      |-> <<"front", "notes", "once", "notes", "write">>]

Kinds == [ch00 |-> {"start", "callback00"},
          ch02 |-> {"start", "callback02"},
          ch03 |-> {"visit", "login"}]

Adds      == {"front", "notes", "claims"}
Exchanges == {"token", "jwks"}
Optional  == {"jwks", "find"}   \* the key is in the cache; nothing to tell

\* "wire": a request is out; "hold": a snapshot is taken; "open": the file is
\* truncated and not written yet.
Handler == [kind  : DOMAIN Script,
            app   : Apps \cup {NoApp},
            step  : 1..6,
            phase : {"idle", "run", "wire", "hold", "open", "done", "failed"},
            n     : Nat,      \* the snapshot: items and findings
            f     : Nat]

VARIABLES
  chapter,
  items,    \* the recorded steps, as [by, step]
  findings, \* whose findings they are
  hs,       \* [Handlers -> Handler]
  once,     \* [Apps -> NoHandler, who is in traceOnce, or Spent]
  file,     \* who wrote it, how much of the lists, and how long the text is
  sent,     \* history: requests on the wire, as <<handler, step>>
  lost,     \* history: those whose response broke off
  wrote,    \* history: handlers that have written the file
  overlapped \* history: handlers whose write met another one

vars == <<chapter, items, findings, hs, once, file, sent, lost, wrote, overlapped>>

File == [by : Handlers \cup {NoHandler}, n : Nat, f : Nat, size : Nat, whole : BOOLEAN]

TypeOK ==
  /\ chapter \in DOMAIN Kinds
  /\ items \in Seq([by : Handlers, step : 1..6])
  /\ findings \in Seq(Handlers)
  /\ hs \in [Handlers -> Handler]
  /\ once \in [Apps -> Handlers \cup {NoHandler, Spent}]
  /\ file \in File
  /\ sent \subseteq Handlers \X (1..6)
  /\ lost \subseteq sent
  /\ wrote \subseteq Handlers
  /\ overlapped \subseteq Handlers

Init ==
  /\ chapter \in DOMAIN Kinds
  /\ items = <<>>
  /\ findings = <<>>
  /\ hs = [h \in Handlers |-> [kind |-> "start", app |-> NoApp, step |-> 1,
                               phase |-> "idle", n |-> 0, f |-> 0]]
  /\ once = [a \in Apps |-> NoHandler]
  /\ file = [by |-> NoHandler, n |-> 0, f |-> 0, size |-> 0, whole |-> FALSE]
  /\ sent = {}
  /\ lost = {}
  /\ wrote = {}
  /\ overlapped = {}

Op(h)      == Script[hs[h].kind][hs[h].step]
Runs(h, S) == hs[h].phase = "run" /\ Op(h) \in S
Writing(h) == hs[h].phase \in {"hold", "open"}

\* The handler after the step it is at.
Past(r) == IF r.step = Len(Script[r.kind])
             THEN [r EXCEPT !.phase = "done"]
             ELSE [r EXCEPT !.step = @ + 1, !.phase = "run"]

Advance(h) == hs' = [hs EXCEPT ![h] = Past(@)]
Fail(h)    == hs' = [hs EXCEPT ![h].phase = "failed"]

-----------------------------------------------------------------------------
\* The next request comes in; which site it is for matters to a login only.
Arrive(h, kind, app) ==
  /\ hs[h].phase = "idle"
  /\ \A k \in 1..h - 1 : hs[k].phase # "idle"
  /\ kind \in Kinds[chapter]
  /\ kind = "login" <=> app # NoApp
  /\ hs' = [hs EXCEPT ![h].kind = kind, ![h].app = app, ![h].phase = "run"]
  /\ UNCHANGED <<chapter, items, findings, once, file, sent, lost, wrote, overlapped>>

\* add, which holds the mutex; Seq is the position.
Record(h) == items' = Append(items, [by |-> h, step |-> hs[h].step])

\* Front, Notes, Header, Claims.
Add(h) ==
  /\ Runs(h, Adds)
  /\ Record(h)
  /\ Advance(h)
  /\ UNCHANGED <<chapter, findings, once, file, sent, lost, wrote, overlapped>>

Find(h) ==
  /\ Runs(h, {"find"})
  /\ findings' = Append(findings, h)
  /\ Advance(h)
  /\ UNCHANGED <<chapter, items, once, file, sent, lost, wrote, overlapped>>

Skip(h) ==
  /\ Runs(h, Optional)
  /\ Advance(h)
  /\ UNCHANGED <<chapter, items, findings, once, file, sent, lost, wrote, overlapped>>

\* callback answers 400 before or after an exchange: the state, the code or the
\* ID token is no good.
GiveUp(h) ==
  /\ hs[h].phase = "run"
  /\ hs[h].kind \in {"callback00", "callback02"}
  /\ hs[h].step \in 2..4
  /\ Fail(h)
  /\ UNCHANGED <<chapter, items, findings, once, file, sent, lost, wrote, overlapped>>

\* RoundTrip reads the request's body, puts a copy in its place, and sends it.
Send(h) ==
  /\ Runs(h, Exchanges)
  /\ sent' = sent \cup {<<h, hs[h].step>>}
  /\ hs' = [hs EXCEPT ![h].phase = "wire"]
  /\ UNCHANGED <<chapter, items, findings, once, file, lost, wrote, overlapped>>

\* Mutant: only an exchange that succeeds is recorded.
ReceiveGood(h) ==
  /\ hs[h].phase = "wire"
  /\ \/ Record(h) /\ Advance(h) /\ UNCHANGED lost
     \/ Fail(h) /\ UNCHANGED <<items, lost>>
     \/ lost' = lost \cup {<<h, hs[h].step>>} /\ Fail(h) /\ UNCHANGED items
  /\ UNCHANGED <<chapter, findings, once, file, sent, wrote, overlapped>>

\* The rest of RoundTrip, once the answer is there: it is recorded and handed
\* on, or it is a transport error or a refusal, recorded too; but when the
\* response's body breaks off, nothing is.
Receive(h) ==
  /\ hs[h].phase = "wire"
  /\ \/ Record(h) /\ Advance(h) /\ UNCHANGED lost
     \/ Record(h) /\ Fail(h) /\ UNCHANGED lost
     \/ lost' = lost \cup {<<h, hs[h].step>>} /\ Fail(h) /\ UNCHANGED items
  /\ UNCHANGED <<chapter, findings, once, file, sent, wrote, overlapped>>

\* Mutant: whoever comes while traceOnce is in use goes in as well.
EnterTogether(h) ==
  /\ Runs(h, {"once"})
  /\ LET a == hs[h].app IN
       IF once[a] # Spent
         THEN once' = [once EXCEPT ![a] = h] /\ Advance(h)
         ELSE hs' = [hs EXCEPT ![h].phase = "done"] /\ UNCHANGED once
  /\ UNCHANGED <<chapter, items, findings, file, sent, lost, wrote, overlapped>>

\* traceOnce.Do: the first login of an app goes in, those that come meanwhile
\* wait for it, those that come later pass by.
EnterOnce(h) ==
  /\ Runs(h, {"once"})
  /\ LET a == hs[h].app IN
       \/ once[a] = NoHandler /\ once' = [once EXCEPT ![a] = h] /\ Advance(h)
       \/ once[a] = Spent /\ hs' = [hs EXCEPT ![h].phase = "done"] /\ UNCHANGED once
  /\ UNCHANGED <<chapter, items, findings, file, sent, lost, wrote, overlapped>>

\* Mutant: what the file shows already is rendered again.
SnapshotOld(h) ==
  /\ Runs(h, {"write"})
  /\ hs' = [hs EXCEPT ![h].phase = "hold", ![h].n = file.n, ![h].f = file.f]
  /\ UNCHANGED <<chapter, items, findings, once, file, sent, lost, wrote, overlapped>>

\* WriteMarkdown copies both lists under the mutex, and renders them after.
Snapshot(h) ==
  /\ Runs(h, {"write"})
  /\ hs' = [hs EXCEPT ![h].phase = "hold", ![h].n = Len(items), ![h].f = Len(findings)]
  /\ overlapped' = LET others == {k \in Handlers \ {h} : Writing(k)}
                   IN  overlapped \cup others \cup {k \in {h} : others # {}}
  /\ UNCHANGED <<chapter, items, findings, once, file, sent, lost, wrote>>

\* os.WriteFile opens and truncates the file ...
Truncate(h) ==
  /\ hs[h].phase = "hold"
  /\ hs' = [hs EXCEPT ![h].phase = "open"]
  /\ file' = [by |-> h, n |-> 0, f |-> 0, size |-> 0, whole |-> FALSE]
  /\ UNCHANGED <<chapter, items, findings, once, sent, lost, wrote, overlapped>>

\* What ends with the handler's call to WriteMarkdown: its turn in traceOnce.
LeaveOnce(h) == once' = [a \in Apps |-> IF once[a] = h THEN Spent ELSE once[a]]

\* ... and writes its text from the start; a longer one that another handler
\* has written since then sticks out at the end.
WriteOut(h) ==
  /\ hs[h].phase = "open"
  /\ LET size == hs[h].n + hs[h].f IN
       file' = [by |-> h, n |-> hs[h].n, f |-> hs[h].f,
                size |-> IF file.size > size THEN file.size ELSE size,
                whole |-> file.size <= size]
  /\ wrote' = wrote \cup {h}
  /\ Advance(h)
  /\ LeaveOnce(h)
  /\ UNCHANGED <<chapter, items, findings, sent, lost, overlapped>>

\* Mutant: a failed write does not count as done.
OpenFailsInside(h) ==
  /\ hs[h].phase = "hold"
  /\ IF hs[h].kind = "login" THEN Advance(h) ELSE Fail(h)
  /\ UNCHANGED <<chapter, items, findings, once, file, sent, lost, wrote, overlapped>>

\* The file cannot be opened: callback answers 400, login logs it and goes on.
OpenFails(h) ==
  /\ hs[h].phase = "hold"
  /\ IF hs[h].kind = "login" THEN Advance(h) ELSE Fail(h)
  /\ LeaveOnce(h)
  /\ UNCHANGED <<chapter, items, findings, file, sent, lost, wrote, overlapped>>

Steps(h) ==
  \/ Add(h) \/ Find(h) \/ Skip(h) \/ GiveUp(h) \/ Send(h) \/ Receive(h)
  \/ EnterOnce(h) \/ Snapshot(h) \/ Truncate(h) \/ WriteOut(h) \/ OpenFails(h)

Next == \E h \in Handlers :
  \/ \E kind \in DOMAIN Script, app \in Apps \cup {NoApp} : Arrive(h, kind, app)
  \/ Steps(h)

Spec == Init /\ [][Next]_vars

\* net/http runs a handler to its end, the client gives up on the IdP after 15
\* seconds, and nobody holds the mutex across a call.  Requests need not come.
Fairness == \A h \in Handlers : WF_vars(Steps(h))

FairSpec == Spec /\ Fairness

-----------------------------------------------------------------------------
(* Properties.                                                             *)

\* The entries of h.
EntriesOf(h) == {i \in DOMAIN items : items[i].by = h}

\* A request whose answer is in, whole or as an error.
Answered(h, k) ==
  /\ <<h, k>> \in sent \ lost
  /\ ~(hs[h].phase = "wire" /\ hs[h].step = k)

\* "Recorder collects exchanges in the order they happen": whatever other
\* handlers record in between, the entries of one stand in the order it made
\* them, none twice, and a request that went out and was answered, even by an
\* error, is among them, exactly as often as it was sent.
TraceTellsRun ==
  \A h \in Handlers :
    /\ \A i, j \in EntriesOf(h) : i < j => items[i].step < items[j].step
    /\ \A k \in DOMAIN Script[hs[h].kind] :
         Script[hs[h].kind][k] \in Exchanges
           => (Answered(h, k) <=> \E i \in EntriesOf(h) : items[i].step = k)

\* The file is what the chapters tell the reader to open: when no write is under
\* way and the last one met no other, it is one whole rendering with every step
\* and every finding of every login that has written it so far.
FileTells ==
  file.by \in wrote \ overlapped
    => /\ file.whole
       /\ \A i \in DOMAIN items : items[i].by \in wrote => i <= file.n
       /\ \A i \in DOMAIN findings : findings[i] \in wrote => i <= file.f

\* In chapter 03 only the two sites can meet at the file, never two logins of
\* one site.
SitesTakeTurns ==
  chapter = "ch03" =>
    \A h, k \in Handlers : Writing(h) /\ Writing(k) /\ h # k => hs[h].app # hs[k].app

\* Every request is answered: none waits for ever for the IdP, for traceOnce or
\* for the file, not even when the file cannot be written.
EveryRequestEnds ==
  \A h \in Handlers : hs[h].phase # "idle" ~> hs[h].phase \in {"done", "failed"}

=============================================================================
