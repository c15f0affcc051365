----------------------- MODULE ChaincodeStreamProofs -----------------------
(***************************************************************************)
(* Proofs about ChaincodeStream, for any number of executions, transactions*)
(* and stub calls.                                                         *)
(*                                                                         *)
(* The argument rests on what is in flight for a run: the request in the   *)
(* stream, in the goroutine that serves it, in the answer, or held by a    *)
(* notify that waits.  As long as no execution of a transaction has been   *)
(* abandoned its runs follow each other, so that only the run with the     *)
(* context has anything in flight; and a run has one thing in flight at a  *)
(* time, the one its goroutine waits for, unless the ERROR of another run  *)
(* of its transaction ended its wait early.                                *)
(***************************************************************************)
EXTENDS ChaincodeStream, TLAPS

\* A leaf is proved by Zenon, unless it names another prover.
USE Zenon

Final == {"COMPLETED", "ERROR"}
Start == {"INIT", "TRANSACTION"}
Ended == {"end", "returned"}

TypeOK ==
    /\ load \in Workloads
    /\ loop \in [at : {"select", "notify", "ended", "panic"}, msg : Message \cup {Nil},
                 send : BOOLEAN]
    /\ loop.at = "notify" => loop.msg # Nil
    /\ work \subseteq [msg : Message, at : {"start", "use", "calling", "reply", "trigger"},
                       ctx : Runs \cup {Nil}, reply : {"RESPONSE", "ERROR", Nil},
                       more : BOOLEAN]
    /\ txCtxs \in [Txids -> Runs \cup {Nil}]
    /\ notifier \in [Runs -> SUBSET Message]
    /\ exec \in [Runs -> {"idle", "trigger", "wait", "delete"} \cup Ended]
    /\ result \in [Runs -> Message \cup {Nil}]
    /\ applied \in [Runs -> SUBSET (Runs \X Nat)]
    /\ cc \in [Runs -> [at : {"none", "running", "waiting", "received", "ended"}, n : Nat,
                        req : Requests \cup {Nil}, acked : SUBSET Nat, more : BOOLEAN]]
    /\ responseChannel \in [Txids -> Runs \cup {Nil}]
    /\ shim \in {"select", "stuck", "ended"}
    /\ failed \subseteq Runs
    /\ toShim \subseteq Message
    /\ toPeer \subseteq Message
    /\ \A m \in toShim : m.type \in Start \cup {"RESPONSE", "ERROR"}
    /\ \A m \in toPeer : m.type \in Requests \cup Final
    /\ \A w \in work : /\ w.msg.type \in Requests
                       /\ w.at \in {"use", "calling"} => w.ctx # Nil
                       /\ w.at \in {"reply", "trigger"} => w.reply \in {"RESPONSE", "ERROR"}
                       /\ w.at = "trigger" => w.msg.type \in Busy
                       /\ w.at = "calling" => w.msg.type = "INVOKE"

\* An execution of the transaction was abandoned.
Torn(t) == \E s \in Runs : TxOf[s] = t /\ Abandoned(s)

\* Answers find the call that waits for them: no run of a transaction with an abandoned
\* execution ended with ERROR.
Clean(t) == Torn(t) => \A q \in failed : TxOf[q] # t

\* What is in flight, with the run, the number of the call and the request it is of.
Asking(m) == [at |-> "asked", what |-> m, run |-> m.run, n |-> m.n, req |-> m.type]
Serving(w) ==
    [at |-> "served", what |-> w, run |-> w.msg.run, n |-> w.msg.n, req |-> w.msg.type]
Answering(m) == [at |-> "answered", what |-> m, run |-> m.run, n |-> m.n, req |-> m.req]
Holding(m) == [at |-> "held", what |-> m, run |-> m.run, n |-> m.n, req |-> m.req]

Flight ==
    {Asking(m) : m \in {k \in toPeer : k.type \in Requests}}
    \cup {Serving(w) : w \in work}
    \cup {Answering(m) : m \in {k \in toShim : k.type \notin Start}}
    \cup {Holding(m) : m \in {k \in {loop.msg} : loop.at = "notify" /\ loop.send}}

\* The chaincode has the run before it, is in it, or has just left it.
Starting(p) == \E m \in toShim : m.type \in Start /\ m.run = p
Active(p) == cc[p].at \in {"running", "waiting", "received"}
Ending(p) == \E m \in toPeer : m.type \in Final /\ m.run = p
Going(p) == Starting(p) \/ Active(p) \/ Ending(p)

GivenUp(p) ==
    result[p] # Nil /\ (result[p].type \in {"TIMEOUT", "ERROR"} \/ result[p].run # p)

\* A run's message, or one of an execution of the transaction that follows an abandoned one.
Meets(q, r) == TxOf[q] = TxOf[r] /\ (q = r \/ Disturbed(r))

Contexts ==
    /\ \A r \in Runs : /\ exec[r] \in {"trigger", "wait", "delete"} <=> txCtxs[TxOf[r]] = r
                       /\ exec[r] \in {"idle", "trigger", "wait"} <=> result[r] = Nil
                       /\ exec[r] = "delete" => result[r].type # "EXISTS"
                       /\ result[r] # Nil => result[r].type \in Final \cup {"TIMEOUT", "EXISTS"}
    /\ \A t \in Txids : txCtxs[t] # Nil => TxOf[txCtxs[t]] = t

Channels ==
    /\ \A r \in Runs : cc[r].at \in {"waiting", "received"} <=> responseChannel[TxOf[r]] = r
    /\ \A t \in Txids : responseChannel[t] # Nil => TxOf[responseChannel[t]] = t

StreamEnd ==
    /\ loop.at = "ended" => shim = "ended"
    /\ shim = "ended" => loop.at \in {"ended", "panic"}
    /\ shim = "ended" => toShim = {} /\ toPeer = {} /\ \A r \in Runs : cc[r].at = "ended"

Lanes ==
    /\ \A p \in Runs :
       /\ Going(p) => exec[p] = "wait" \/ (exec[p] \in {"delete"} \cup Ended /\ GivenUp(p))
       /\ exec[p] \in {"idle", "trigger"} => cc[p].at = "none" \/ shim = "ended"
       /\ Starting(p) => cc[p].at = "none"
       /\ Ending(p) => cc[p].at = "ended"
    /\ \A m, k \in toShim : m.type \in Start /\ k.type \in Start /\ m.run = k.run => m = k

\* The final message of a run is in one place: on its way, held by a notify that waits, in
\* a notifier, or taken by an executor.  Besides them notify handles failed writes.
IsNotice(m) ==
    (m.req = Nil /\ m.type \in Final) \/ (m.req \in Busy /\ m.type = "ERROR")

FinalsSent ==
    /\ \A m, k \in toPeer : m.type \in Final /\ k.type \in Final /\ m.run = k.run => m = k
    /\ \A m \in toPeer : m.req = Nil

FinalHeld ==
    loop.at = "notify" =>
       /\ IsNotice(loop.msg)
       /\ loop.send => loop.msg.req # Nil
       /\ loop.msg.req = Nil => cc[loop.msg.run].at = "ended" /\ ~Ending(loop.msg.run)

FinalsNotified ==
    \A c \in Runs : \A m \in notifier[c] :
       /\ IsNotice(m)
       /\ m.req = Nil => /\ cc[m.run].at = "ended" /\ ~Ending(m.run)
                         /\ ~(loop.at = "notify" /\ loop.msg.req = Nil /\ loop.msg.run = m.run)

FinalsTaken ==
    \A c \in Runs : result[c] # Nil /\ result[c].type = "COMPLETED" =>
       cc[result[c].run].at = "ended" /\ ~Ending(result[c].run)

Finals == FinalsSent /\ FinalHeld /\ FinalsNotified /\ FinalsTaken

\* Whose messages and writes an execution meets.
MeetsNotified == \A c \in Runs : \A m \in notifier[c] : Meets(m.run, c)
MeetsResult == \A c \in Runs : result[c] # Nil => Meets(result[c].run, c)
MeetsApplied == \A c \in Runs : \A e \in applied[c] : Meets(e[1], c)
MeetsWork == \A w \in work : w.ctx # Nil => Meets(w.msg.run, w.ctx)
MeetsHeld ==
    loop.at = "notify" => /\ txCtxs[TxOf[loop.msg.run]] # Nil
                          /\ Meets(loop.msg.run, txCtxs[TxOf[loop.msg.run]])

Meetings == MeetsNotified /\ MeetsResult /\ MeetsApplied /\ MeetsWork /\ MeetsHeld

FlightOK ==
    /\ \A x \in Flight :
          /\ exec[x.run] \notin {"idle", "trigger"}
          /\ exec[x.run] \in Ended => Torn(TxOf[x.run])
          /\ Clean(TxOf[x.run]) =>
                \/ shim = "ended"
                \/ cc[x.run].at = "waiting" /\ cc[x.run].n = x.n /\ cc[x.run].req = x.req
    /\ \A x, y \in Flight : x.run = y.run /\ Clean(TxOf[x.run]) => x = y

\* A run whose COMPLETED reached an executor has nothing in flight.
Settled ==
    \A c \in Runs : \A m \in notifier[c] \cup {result[c]} :
       m # Nil /\ m.type = "COMPLETED" =>
          \A x \in Flight : x.run = m.run => Torn(TxOf[x.run])

Written(p, n) == <<p, n>> \in applied[p] \/ Abandoned(p) \/ shim = "ended"

\* The request is served in the context of its own run, as long as that run is not abandoned.
ServedAtHome ==
    \A w \in work : w.ctx # Nil /\ w.ctx # w.msg.run /\ Clean(TxOf[w.msg.run]) =>
       Abandoned(w.msg.run) \/ shim = "ended"

\* The goroutine has written, and is to answer RESPONSE.
HasWritten(w) ==
    w.at \in {"reply", "trigger"} /\ w.reply = "RESPONSE" /\ w.msg.type \in Writes

\* A RESPONSE to a write, on its way to the chaincode.
AnsweredWritten ==
    /\ \A w \in work : HasWritten(w) /\ Clean(TxOf[w.msg.run]) => Written(w.msg.run, w.msg.n)
    /\ \A m \in toShim : m.type = "RESPONSE" /\ m.req \in Writes /\ Clean(TxOf[m.run]) =>
          Written(m.run, m.n)

AckedWritten ==
    \A p \in Runs : \A n \in cc[p].acked :
       Clean(TxOf[p]) => <<p, n>> \in applied[p] \/ Abandoned(p)

Acks == ServedAtHome /\ AnsweredWritten /\ AckedWritten

StreamInv ==
    /\ TypeOK /\ Contexts /\ Channels /\ StreamEnd /\ Lanes /\ Finals /\ Meetings
    /\ FlightOK /\ Settled /\ Acks

-----------------------------------------------------------------------------
\* What is known of a workload.
LEMMA LoadFacts ==
    ASSUME TypeOK
    PROVE  /\ TxOf \in [Runs -> Txids]
           /\ InitRuns \subseteq Runs
           /\ \A r, q \in Runs : TxOf[r] = TxOf[q] => (r \in InitRuns <=> q \in InitRuns)
           /\ Nil \notin Runs /\ Nil \notin Requests /\ Nil \notin Message
BY StreamAssumption DEF TypeOK, Workload, TxOf, InitRuns

\* The runs and numbers the state is about.
LEMMA TypeFacts ==
    ASSUME TypeOK
    PROVE  /\ \A r \in Runs : TxOf[r] \in Txids
           /\ \A t \in Txids : txCtxs[t] # Nil => txCtxs[t] \in Runs
           /\ \A c \in Runs : \A m \in notifier[c] : m \in Message /\ m.run \in Runs
           /\ \A c \in Runs : result[c] # Nil => result[c].run \in Runs
           /\ \A c \in Runs : \A e \in applied[c] : e[1] \in Runs
           /\ \A w \in work : /\ w.msg.run \in Runs /\ w.msg.n \in Nat
                              /\ w.ctx # Nil => w.ctx \in Runs
           /\ loop.at = "notify" => loop.msg \in Message /\ loop.msg.run \in Runs
           /\ \A m \in toShim \cup toPeer : m.run \in Runs /\ m.n \in Nat
<1>1. \A r \in Runs : TxOf[r] \in Txids
  BY LoadFacts
<1>2. \A t \in Txids : txCtxs[t] # Nil => txCtxs[t] \in Runs
  BY DEF TypeOK
<1>3. \A c \in Runs : \A m \in notifier[c] : m \in Message /\ m.run \in Runs
  BY SMT DEF TypeOK, Message
<1>4. \A c \in Runs : result[c] # Nil => result[c].run \in Runs
  BY DEF TypeOK, Message
<1>5. \A c \in Runs : \A e \in applied[c] : e[1] \in Runs
  BY SMT DEF TypeOK
<1>6. \A w \in work : /\ w.msg.run \in Runs /\ w.msg.n \in Nat
                      /\ w.ctx # Nil => w.ctx \in Runs
  BY DEF TypeOK, Message
<1>7. loop.at = "notify" => loop.msg \in Message /\ loop.msg.run \in Runs
  BY DEF TypeOK, Message
<1>8. \A m \in toShim \cup toPeer : m.run \in Runs /\ m.n \in Nat
  BY DEF TypeOK, Message
<1> QED BY <1>1, <1>2, <1>3, <1>4, <1>5, <1>6, <1>7, <1>8

\* The messages the peer and the shim make.
LEMMA MsgFields ==
    ASSUME NEW type \in Requests \cup Start \cup Final \cup {"RESPONSE", "TIMEOUT", "EXISTS"},
           NEW r \in Runs, NEW n \in Nat
    PROVE  /\ Msg(type, r, n) \in Message
           /\ Msg(type, r, n).type = type /\ Msg(type, r, n).run = r
           /\ Msg(type, r, n).n = n /\ Msg(type, r, n).req = Nil
BY DEF Msg, Message, Start, Final

\* The answer a goroutine sends belongs to the call it served.
LEMMA AnswerFields ==
    ASSUME TypeOK, NEW w \in work, w.at \in {"reply", "trigger"}
    PROVE  /\ Answer(w) \in Message
           /\ Answer(w).type = w.reply /\ Answer(w).type \in {"RESPONSE", "ERROR"}
           /\ Answer(w).run = w.msg.run /\ Answer(w).n = w.msg.n /\ Answer(w).req = w.msg.type
BY DEF Answer, Msg, Message, TypeOK

\* An abandoned execution stays abandoned, and so does what follows from it.
LEMMA Growing ==
    ASSUME load' = load, \A p \in Runs : Abandoned(p) => Abandoned(p)', failed \subseteq failed'
    PROVE  /\ TxOf' = TxOf
           /\ InitRuns' = InitRuns
           /\ \A t \in Txids : Torn(t) => Torn(t)'
           /\ \A t \in Txids : Clean(t)' => Clean(t)
           /\ \A r \in Runs : Disturbed(r) => Disturbed(r)'
           /\ \A q, r \in Runs : Meets(q, r) => Meets(q, r)'
<1>1. TxOf' = TxOf /\ InitRuns' = InitRuns
  BY DEF TxOf, InitRuns
<1>2. \A t \in Txids : Torn(t) => Torn(t)'
  BY <1>1 DEF Torn
<1>3. \A t \in Txids : Clean(t)' => Clean(t)
  BY <1>1, <1>2 DEF Clean
<1>4. \A r \in Runs : Disturbed(r) => Disturbed(r)'
  BY <1>1 DEF Disturbed
<1>5. \A q, r \in Runs : Meets(q, r) => Meets(q, r)'
  BY <1>1, <1>4 DEF Meets
<1> QED BY <1>1, <1>2, <1>3, <1>4, <1>5

\* A step that is not of an executor abandons nothing.
LEMMA Steady ==
    ASSUME UNCHANGED <<load, exec, result, failed>>
    PROVE  /\ TxOf' = TxOf
           /\ InitRuns' = InitRuns
           /\ \A p \in Runs : Abandoned(p)' <=> Abandoned(p)
           /\ \A p \in Runs : GivenUp(p)' <=> GivenUp(p)
           /\ \A t \in Txids : Torn(t)' <=> Torn(t)
           /\ \A t \in Txids : Clean(t)' <=> Clean(t)
           /\ \A r \in Runs : Disturbed(r)' <=> Disturbed(r)
           /\ \A q, r \in Runs : Meets(q, r)' <=> Meets(q, r)
<1>1. TxOf' = TxOf /\ InitRuns' = InitRuns
  BY DEF TxOf, InitRuns
<1>2. \A p \in Runs : (Abandoned(p)' <=> Abandoned(p)) /\ (GivenUp(p)' <=> GivenUp(p))
  BY DEF Abandoned, GivenUp
<1>3. \A t \in Txids : Torn(t)' <=> Torn(t)
  BY <1>1, <1>2 DEF Torn
<1>4. \A t \in Txids : Clean(t)' <=> Clean(t)
  BY <1>1, <1>3 DEF Clean
<1>5. \A r \in Runs : Disturbed(r)' <=> Disturbed(r)
  BY <1>1, <1>2 DEF Disturbed
<1>6. \A q, r \in Runs : Meets(q, r)' <=> Meets(q, r)
  BY <1>1, <1>5 DEF Meets
<1> QED BY <1>1, <1>2, <1>3, <1>4, <1>5, <1>6

\* A step that changes nothing keeps the types.
LEMMA TypeStays ==
    ASSUME TypeOK, UNCHANGED <<load, loop, work, txCtxs, notifier, exec, result, applied, cc,
                               responseChannel, shim, failed, toShim, toPeer>>
    PROVE  TypeOK'
BY SMTT(20) DEF TypeOK

\* Nor does it touch the channels of the shim, if as many calls wait as before.
LEMMA ChannelsStay ==
    ASSUME Channels, UNCHANGED <<load, responseChannel>>,
           \A p \in Runs :
              cc'[p].at \in {"waiting", "received"} <=> cc[p].at \in {"waiting", "received"}
    PROVE  Channels'
<1>1. TxOf' = TxOf
  BY DEF TxOf
<1> QED BY <1>1 DEF Channels

\* A call that begins to wait takes the channel of its transaction, one that ends frees it.
LEMMA ChannelsChange ==
    ASSUME TypeOK, Channels, load' = load, NEW r \in Runs, NEW o \in {r, Nil},
           responseChannel[TxOf[r]] \in {r, Nil}, responseChannel'[TxOf[r]] = o,
           \A t \in Txids \ {TxOf[r]} : responseChannel'[t] = responseChannel[t],
           \A p \in Runs \ {r} : cc'[p] = cc[p],
           cc'[r].at \in {"waiting", "received"} <=> o = r
    PROVE  Channels'
<1>1. TxOf' = TxOf
  BY DEF TxOf
<1>2. TxOf[r] \in Txids /\ Nil \notin Runs /\ \A p \in Runs : TxOf[p] \in Txids
  BY LoadFacts
<1>3. ASSUME NEW p \in Runs
      PROVE  cc'[p].at \in {"waiting", "received"} <=> responseChannel'[TxOf[p]] = p
  <2>1. CASE p = r
    BY <2>1
  <2>2. CASE p # r /\ TxOf[p] = TxOf[r]
    <3>1. responseChannel[TxOf[p]] # p /\ responseChannel'[TxOf[p]] # p
      BY <1>2, <2>2
    <3>2. cc'[p] = cc[p]
      BY <2>2
    <3> QED BY <3>1, <3>2 DEF Channels
  <2>3. CASE TxOf[p] # TxOf[r]
    BY <1>2, <1>3, <2>3 DEF Channels
  <2> QED BY <2>1, <2>2, <2>3
<1>4. ASSUME NEW t \in Txids, responseChannel'[t] # Nil
      PROVE  TxOf[responseChannel'[t]] = t
  <2>1. CASE t = TxOf[r]
    BY <1>4, <2>1
  <2>2. CASE t # TxOf[r]
    BY <1>4, <2>2 DEF Channels
  <2> QED BY <2>1, <2>2
<1> QED BY <1>1, <1>3, <1>4 DEF Channels

CCRecord == [at : {"none", "running", "waiting", "received", "ended"}, n : Nat,
             req : Requests \cup {Nil}, acked : SUBSET Nat, more : BOOLEAN]
CCs == [Runs -> CCRecord]

\* What a delivery and an end leave of a goroutine's record.
LEMMA CCUpdates ==
    ASSUME NEW c \in CCRecord, NEW b \in BOOLEAN, NEW a \in SUBSET Nat
    PROVE  /\ [c EXCEPT !.at = "received", !.more = b, !.acked = a] \in CCRecord
           /\ [c EXCEPT !.at = "ended", !.more = FALSE] \in CCRecord
           /\ [c EXCEPT !.at = "ended", !.more = FALSE].at = "ended"
           /\ [c EXCEPT !.at = "ended", !.more = FALSE].n = c.n
           /\ [c EXCEPT !.at = "ended", !.more = FALSE].req = c.req
           /\ [c EXCEPT !.at = "ended", !.more = FALSE].acked = c.acked
BY DEF CCRecord

\* A goroutine that runs, one whose call is refused and one whose call is made.
Running(c, r) == [c EXCEPT ![r].at = "running"]
Refused(c, r) == [c EXCEPT ![r].n = @ + 1]
Called(c, r, type) == [c EXCEPT ![r].at = "waiting", ![r].n = @ + 1, ![r].req = type]

\* What each of them changes.
Starts(c, d, r) ==
    /\ d \in CCs /\ d[r].at = "running"
    /\ \A p \in Runs \ {r} : d[p] = c[p]
    /\ \A p \in Runs : d[p].n = c[p].n /\ d[p].req = c[p].req /\ d[p].acked = c[p].acked

Refuses(c, d, r) ==
    /\ d \in CCs
    /\ \A p \in Runs \ {r} : d[p] = c[p]
    /\ \A p \in Runs : d[p].at = c[p].at /\ d[p].acked = c[p].acked

Calls(c, d, r, type) ==
    /\ d \in CCs /\ c[r].n + 1 \in Nat
    /\ d[r].at = "waiting" /\ d[r].n = c[r].n + 1 /\ d[r].req = type
    /\ \A p \in Runs \ {r} : d[p] = c[p]
    /\ \A p \in Runs : d[p].acked = c[p].acked

\* The goroutine of r runs: it has begun, or its call has returned.
LEMMA CCRuns ==
    ASSUME NEW c \in CCs, NEW r \in Runs, NEW d, d = Running(c, r)
    PROVE  Starts(c, d, r)
<1>1. c[r] \in CCRecord
  BY DEF CCs
<1>2. [c[r] EXCEPT !.at = "running"] \in CCRecord
  BY <1>1 DEF CCRecord
<1>3. d = [c EXCEPT ![r] = [c[r] EXCEPT !.at = "running"]]
  BY DEF Running
<1>4. d \in CCs
  BY <1>2, <1>3 DEF CCs
<1>5. d[r] = [c[r] EXCEPT !.at = "running"] /\ \A p \in Runs \ {r} : d[p] = c[p]
  BY <1>3 DEF CCs
<1>6. d[r].at = "running" /\ d[r].n = c[r].n /\ d[r].req = c[r].req /\ d[r].acked = c[r].acked
  BY <1>1, <1>5, SMT DEF CCRecord
<1> QED BY <1>4, <1>5, <1>6 DEF Starts

\* A call is refused: only its number goes on.
LEMMA CCRefused ==
    ASSUME NEW c \in CCs, NEW r \in Runs, NEW d, d = Refused(c, r)
    PROVE  Refuses(c, d, r)
<1>1. c[r] \in CCRecord
  BY DEF CCs
<1>2. PICK n : n = c[r].n + 1
  OBVIOUS
<1>3. [c[r] EXCEPT !.n = n] \in CCRecord
  <2>1. n \in Nat
    BY <1>1, <1>2, SMT DEF CCRecord
  <2> QED BY <1>1, <2>1 DEF CCRecord
<1>4. d = [c EXCEPT ![r] = [c[r] EXCEPT !.n = n]]
  BY <1>2 DEF Refused
<1>5. d \in CCs
  BY <1>3, <1>4 DEF CCs
<1>6. d[r] = [c[r] EXCEPT !.n = n] /\ \A p \in Runs \ {r} : d[p] = c[p]
  BY <1>4 DEF CCs
<1>7. d[r].at = c[r].at /\ d[r].acked = c[r].acked
  BY <1>1, <1>6, SMT DEF CCRecord
<1> QED BY <1>5, <1>6, <1>7 DEF Refuses

\* A call is made and waits for its answer.
LEMMA CCCalls ==
    ASSUME NEW c \in CCs, NEW r \in Runs, NEW type \in Requests, NEW d,
           d = Called(c, r, type)
    PROVE  Calls(c, d, r, type)
<1>1. c[r] \in CCRecord
  BY DEF CCs
<1>2. PICK n : n = c[r].n + 1
  OBVIOUS
<1>3. n \in Nat
  BY <1>1, <1>2, SMT DEF CCRecord
<1>4. [c[r] EXCEPT !.at = "waiting", !.n = n, !.req = type] \in CCRecord
  BY <1>1, <1>3 DEF CCRecord
<1>5. d = [c EXCEPT ![r] = [c[r] EXCEPT !.at = "waiting", !.n = n, !.req = type]]
  BY <1>2 DEF CCs, Called
<1>6. d \in CCs
  BY <1>4, <1>5 DEF CCs
<1>7. /\ d[r] = [c[r] EXCEPT !.at = "waiting", !.n = n, !.req = type]
      /\ \A p \in Runs \ {r} : d[p] = c[p]
  BY <1>5 DEF CCs
<1>8. d[r].at = "waiting" /\ d[r].n = n /\ d[r].req = type /\ d[r].acked = c[r].acked
  <2>1. ASSUME NEW e \in CCRecord
        PROVE  /\ [e EXCEPT !.at = "waiting", !.n = n, !.req = type].at = "waiting"
               /\ [e EXCEPT !.at = "waiting", !.n = n, !.req = type].n = n
               /\ [e EXCEPT !.at = "waiting", !.n = n, !.req = type].req = type
               /\ [e EXCEPT !.at = "waiting", !.n = n, !.req = type].acked = e.acked
    BY DEF CCRecord
  <2> QED BY <1>1, <1>7, <2>1
<1> QED BY <1>2, <1>3, <1>6, <1>7, <1>8 DEF Calls

\* A step that takes d out of flight and puts e there.
Exchanges(d, e) ==
    /\ \A m \in toPeer' : m \in toPeer /\ Asking(m) # d
    /\ \A w \in work' : (w \in work /\ Serving(w) # d) \/ Serving(w) = e
    /\ \A m \in toShim' : (m \in toShim /\ Answering(m) # d) \/ Answering(m) = e
    /\ loop'.at = "notify" => (loop' = loop /\ Holding(loop.msg) # d) \/ Holding(loop'.msg) = e

\* The rest of what is in flight stays.
LEMMA FlightChange ==
    ASSUME NEW d, NEW e, Exchanges(d, e)
    PROVE  Flight' \subseteq (Flight \ {d}) \cup {e}
<1> SUFFICES ASSUME NEW x \in Flight', x # e PROVE x \in Flight /\ x # d
  OBVIOUS
<1>1. CASE \E m \in toPeer' : m.type \in Requests /\ x = Asking(m)
  BY <1>1 DEF Flight, Exchanges
<1>2. CASE \E w \in work' : x = Serving(w)
  BY <1>2 DEF Flight, Exchanges
<1>3. CASE \E m \in toShim' : m.type \notin Start /\ x = Answering(m)
  BY <1>3 DEF Flight, Exchanges
<1>4. CASE loop'.at = "notify" /\ loop'.send /\ x = Holding(loop'.msg)
  BY <1>4 DEF Flight, Exchanges
<1> QED BY <1>1, <1>2, <1>3, <1>4 DEF Flight

\* Two things in flight differ when they are of different messages or at different places.
LEMMA FlightTags ==
    ASSUME NEW a, NEW b
    PROVE  /\ Asking(a) = Asking(b) => a = b
           /\ Serving(a) = Serving(b) => a = b
           /\ Answering(a) = Answering(b) => a = b
           /\ Asking(a) # Serving(b) /\ Asking(a) # Answering(b) /\ Asking(a) # Holding(b)
           /\ Serving(a) # Answering(b) /\ Serving(a) # Holding(b) /\ Answering(a) # Holding(b)
BY SMT DEF Asking, Serving, Answering, Holding

\* A request reaches the goroutine that serves it.
LEMMA FlightServed ==
    ASSUME UNCHANGED <<loop, toShim>>, NEW m, toPeer' = toPeer \ {m}, NEW w, work' = work \cup {w}
    PROVE  Flight' \subseteq (Flight \ {Asking(m)}) \cup {Serving(w)}
<1>1. Exchanges(Asking(m), Serving(w))
  BY FlightTags DEF Exchanges
<1> QED BY <1>1, FlightChange

\* The goroutine goes on with it.
LEMMA FlightReplaced ==
    ASSUME UNCHANGED <<loop, toShim, toPeer>>, NEW w, NEW v, work' = (work \ {w}) \cup {v}
    PROVE  Flight' \subseteq (Flight \ {Serving(w)}) \cup {Serving(v)}
<1>1. Exchanges(Serving(w), Serving(v))
  BY FlightTags DEF Exchanges
<1> QED BY <1>1, FlightChange

\* It answers.
LEMMA FlightAnswered ==
    ASSUME UNCHANGED <<loop, toPeer>>, NEW w, work' = work \ {w},
           NEW m, \A k \in toShim' : k \in toShim \/ k = m
    PROVE  Flight' \subseteq (Flight \ {Serving(w)}) \cup {Answering(m)}
<1>1. Exchanges(Serving(w), Answering(m))
  BY FlightTags DEF Exchanges
<1> QED BY <1>1, FlightChange

\* Its answer passes notify, which may have to hold it.
LEMMA FlightNotified ==
    ASSUME UNCHANGED toPeer, NEW w, work' = work \ {w}, NEW m,
           toShim' = IF loop'.at = "notify" THEN toShim ELSE toShim \cup {m},
           loop'.at = "notify" => loop'.msg = m
    PROVE  Flight' \subseteq (Flight \ {Serving(w)}) \cup
                             {IF loop'.at = "notify" THEN Holding(m) ELSE Answering(m)}
<1>1. CASE loop'.at = "notify"
  <2>1. Flight' \subseteq (Flight \ {Serving(w)}) \cup {Holding(m)}
    <3>1. Exchanges(Serving(w), Holding(m))
      BY <1>1, FlightTags DEF Exchanges
    <3> QED BY <3>1, FlightChange
  <2> QED BY <1>1, <2>1
<1>2. CASE loop'.at # "notify"
  <2>1. Flight' \subseteq (Flight \ {Serving(w)}) \cup {Answering(m)}
    <3>1. Exchanges(Serving(w), Answering(m))
      BY <1>2, FlightTags DEF Exchanges
    <3> QED BY <3>1, FlightChange
  <2> QED BY <1>2, <2>1
<1> QED BY <1>1, <1>2

\* The answer that notify held goes on its way.
LEMMA FlightReleased ==
    ASSUME UNCHANGED <<work, toPeer>>, loop'.at = "select", NEW m, toShim' = toShim \cup {m}
    PROVE  Flight' \subseteq (Flight \ {Holding(m)}) \cup {Answering(m)}
<1>1. Exchanges(Holding(m), Answering(m))
  BY FlightTags DEF Exchanges
<1> QED BY <1>1, FlightChange

\* The shim takes the answer.
LEMMA FlightReceived ==
    ASSUME UNCHANGED <<loop, work, toPeer>>, NEW m, toShim' = toShim \ {m}
    PROVE  Flight' \subseteq Flight \ {Answering(m)}
<1>1. Flight' \subseteq Flight
  BY DEF Flight
<1>2. Answering(m) \notin Flight'
  BY FlightTags DEF Flight
<1> QED BY <1>1, <1>2

\* Nor does it touch a transaction's context.
LEMMA ContextsStay ==
    ASSUME Contexts, UNCHANGED <<load, exec, result, txCtxs>>
    PROVE  Contexts'
<1>1. TxOf' = TxOf
  BY DEF TxOf
<1> QED BY <1>1, SMT DEF Contexts

\* What is in flight is of a run, and is a request.
LEMMA FlightType ==
    ASSUME TypeOK, NEW x \in Flight
    PROVE  x.run \in Runs /\ TxOf[x.run] \in Txids
<1>1. CASE \E m \in toPeer \cup toShim : x.run = m.run
  BY <1>1, LoadFacts DEF TypeOK, Message
<1>2. CASE \E w \in work : x.run = w.msg.run
  BY <1>2, LoadFacts DEF TypeOK, Message
<1>3. CASE loop.at = "notify" /\ x.run = loop.msg.run
  BY <1>3, LoadFacts DEF TypeOK, Message
<1> QED BY <1>1, <1>2, <1>3, SMT DEF Flight, Asking, Serving, Answering, Holding

\* An executor with something of its run in flight, whose context another run has, was
\* abandoned: the two executions of the transaction overlap.
LEMMA Overlap ==
    ASSUME TypeOK, Contexts, NEW p \in Runs, txCtxs[TxOf[p]] # Nil, txCtxs[TxOf[p]] # p,
           exec[p] \notin {"idle", "trigger"}, exec[p] \in Ended => Torn(TxOf[p])
    PROVE  Disturbed(txCtxs[TxOf[p]])
<1> DEFINE c == txCtxs[TxOf[p]]
<1>1. c \in Runs /\ TxOf[c] = TxOf[p] /\ exec[c] \notin Ended
  BY LoadFacts, SMT DEF TypeOK, Contexts, Ended
<1>2. exec[p] \in Ended
  BY LoadFacts, SMT DEF TypeOK, Contexts, Ended
<1> QED BY <1>1, <1>2 DEF Torn, Disturbed, Abandoned, Ended

\* A thing in flight that moves on stays what its run waits for.
LEMMA FlightMoves ==
    ASSUME TypeOK, FlightOK, UNCHANGED <<load, exec, result, cc, shim, failed>>,
           NEW x \in Flight, NEW y, y.run = x.run, y.n = x.n, y.req = x.req,
           Flight' \subseteq (Flight \ {x}) \cup {y}
    PROVE  FlightOK'
<1>1. \A z \in Flight : z.run \in Runs /\ TxOf[z.run] \in Txids
  BY FlightType
<1>2. SUFFICES ASSUME NEW u \in Flight', NEW v \in Flight'
              PROVE  /\ exec[u.run] \notin {"idle", "trigger"}
                     /\ exec[u.run] \in Ended => Torn(TxOf[u.run])
                     /\ Clean(TxOf[u.run]) =>
                          \/ shim = "ended"
                          \/ cc[u.run].at = "waiting" /\ cc[u.run].n = u.n /\ cc[u.run].req = u.req
                     /\ u.run = v.run /\ Clean(TxOf[u.run]) => u = v
                     /\ u.run \in Runs /\ TxOf[u.run] \in Txids
  BY Steady DEF FlightOK
<1>3. (u \in Flight \ {x} \/ u = y) /\ (v \in Flight \ {x} \/ v = y)
  OBVIOUS
<1>4. CASE u \in Flight \ {x}
  BY <1>1, <1>3, <1>4 DEF FlightOK
<1>5. CASE u = y
  BY <1>1, <1>3, <1>5 DEF FlightOK
<1> QED BY <1>3, <1>4, <1>5

\* Nothing new is in flight, and the calls of a transaction that stays clean wait on.
LEMMA FlightRests ==
    ASSUME TypeOK, FlightOK, load' = load, \A p \in Runs : Abandoned(p) => Abandoned(p)',
           failed \subseteq failed',
           Flight' \subseteq Flight,
           \A x \in Flight : /\ exec[x.run] \notin {"idle", "trigger"} =>
                                   exec'[x.run] \notin {"idle", "trigger"}
                             /\ x \in Flight' /\ exec'[x.run] \in Ended =>
                                   exec[x.run] \in Ended \/ Torn(TxOf[x.run])'
                             /\ x \in Flight' /\ shim' # "ended" /\ Clean(TxOf[x.run])
                                   /\ Clean(TxOf[x.run])' =>
                                   /\ shim # "ended"
                                   /\ cc'[x.run].at = cc[x.run].at
                                   /\ cc'[x.run].n = cc[x.run].n
                                   /\ cc'[x.run].req = cc[x.run].req
    PROVE  FlightOK'
<1>1. \A z \in Flight : z.run \in Runs /\ TxOf[z.run] \in Txids
  BY FlightType
<1>2. \A u \in Flight' :
                     /\ exec'[u.run] \notin {"idle", "trigger"}
                     /\ exec'[u.run] \in Ended => Torn(TxOf[u.run])'
                     /\ Clean(TxOf[u.run])' =>
                          \/ shim' = "ended"
                          \/ cc'[u.run].at = "waiting" /\ cc'[u.run].n = u.n /\ cc'[u.run].req = u.req
  BY <1>1, Growing DEF FlightOK
<1>3. \A u, v \in Flight' : u.run = v.run /\ Clean(TxOf[u.run])' => u = v
  BY <1>1, Growing DEF FlightOK
<1> QED BY <1>2, <1>3, Growing DEF FlightOK

\* Nothing new is in flight.
LEMMA FlightShrinks ==
    ASSUME TypeOK, FlightOK, load' = load, \A p \in Runs : Abandoned(p) => Abandoned(p)',
           failed \subseteq failed',
           Flight' \subseteq Flight,
           \A x \in Flight : /\ exec[x.run] \notin {"idle", "trigger"} =>
                                   exec'[x.run] \notin {"idle", "trigger"}
                             /\ x \in Flight' /\ exec'[x.run] \in Ended =>
                                   exec[x.run] \in Ended \/ Torn(TxOf[x.run])'
                             /\ x \in Flight' /\ Clean(TxOf[x.run]) /\ shim' # "ended" =>
                                   /\ shim # "ended"
                                   /\ cc'[x.run].at = cc[x.run].at
                                   /\ cc'[x.run].n = cc[x.run].n
                                   /\ cc'[x.run].req = cc[x.run].req
    PROVE  FlightOK'
BY FlightRests

\* No COMPLETED reaches an executor.
LEMMA SettledStays ==
    ASSUME TypeOK, Settled, load' = load, \A p \in Runs : Abandoned(p) => Abandoned(p)',
           failed \subseteq failed',
           \A c \in Runs : \A m \in notifier'[c] \cup {result'[c]} :
              m # Nil /\ m.type = "COMPLETED" => m \in notifier[c] \cup {result[c]},
           \A y \in Flight' : \E x \in Flight : x.run = y.run
    PROVE  Settled'
BY Growing, FlightType, SMT DEF Settled

\* No final message appears, and none is notified twice.
LEMMA FinalsStay ==
    ASSUME TypeOK, Finals,
           \A p \in Runs : Ending(p)' => Ending(p),
           \A p \in Runs : cc[p].at = "ended" => cc'[p].at = "ended",
           \A m \in toPeer' : m \in toPeer \/ (m.type \notin Final /\ m.req = Nil),
           loop' = loop \/ loop'.at # "notify",
           \A c \in Runs : notifier'[c] \subseteq notifier[c],
           \A c \in Runs : \/ result'[c] = result[c]
                           \/ result'[c] \in notifier[c]
                           \/ result'[c].type # "COMPLETED"
    PROVE  Finals'
<1>1. FinalsSent'
  BY DEF Finals, FinalsSent
<1>2. FinalHeld'
  BY DEF Finals, FinalHeld, TypeOK, Message
<1>3. FinalsNotified'
  BY SMT DEF Finals, FinalsNotified, TypeOK, Message
<1>4. FinalsTaken'
  <2>1. SUFFICES ASSUME NEW c \in Runs, (result[c] # Nil /\ result[c].type = "COMPLETED")'
                 PROVE  (cc[result[c].run].at = "ended" /\ ~Ending(result[c].run))'
    BY DEF FinalsTaken
  <2>2. CASE result'[c] = result[c]
    BY <2>1, <2>2, ZenonT(40) DEF Finals, FinalsTaken, TypeOK, Message
  <2>3. CASE result'[c] \in notifier[c]
    BY <2>1, <2>3, SMT DEF Finals, FinalsNotified, IsNotice, TypeOK, Message
  <2> QED BY <2>1, <2>2, <2>3
<1> QED BY <1>1, <1>2, <1>3, <1>4 DEF Finals

\* No message is notified, no write applied and no context found.
LEMMA MeetingsStay ==
    ASSUME TypeOK, Meetings, load' = load, \A p \in Runs : Abandoned(p) => Abandoned(p)',
           failed \subseteq failed',
           \A c \in Runs : notifier'[c] \subseteq notifier[c],
           \A c \in Runs : \/ result'[c] = result[c]
                           \/ result'[c] \in notifier[c]
                           \/ result'[c].run = c,
           UNCHANGED applied,
           \A w \in work' : w.ctx = Nil \/ \E v \in work : v.msg = w.msg /\ v.ctx = w.ctx,
           (loop' = loop /\ txCtxs' = txCtxs) \/ loop'.at # "notify"
    PROVE  Meetings'
<1>1. MeetsNotified'
  BY Growing, SMT DEF Meetings, MeetsNotified, TypeOK, Message
<1>2. MeetsResult'
  <2>1. \A c \in Runs : Meets(c, c)'
    BY DEF Meets
  <2> QED BY <2>1, Growing, SMT DEF Meetings, MeetsNotified, MeetsResult, TypeOK, Message
<1>3. MeetsApplied'
  BY Growing, SMT DEF Meetings, MeetsApplied, TypeOK
<1>4. MeetsWork'
  BY Growing, SMTT(30) DEF Meetings, MeetsWork, TypeOK, Message
<1>5. MeetsHeld'
  <2>1. SUFFICES ASSUME loop'.at = "notify"
                 PROVE  (/\ txCtxs[TxOf[loop.msg.run]] # Nil
                         /\ Meets(loop.msg.run, txCtxs[TxOf[loop.msg.run]]))'
    BY DEF MeetsHeld
  <2>2. loop' = loop /\ txCtxs' = txCtxs /\ TxOf' = TxOf /\ loop.at = "notify"
    BY <2>1, Growing
  <2>3. /\ txCtxs[TxOf[loop.msg.run]] # Nil
        /\ Meets(loop.msg.run, txCtxs[TxOf[loop.msg.run]])
    BY <2>2 DEF Meetings, MeetsHeld
  <2>4. loop.msg.run \in Runs /\ txCtxs[TxOf[loop.msg.run]] \in Runs
    BY <2>2, <2>3, TypeFacts
  <2>5. Meets(loop.msg.run, txCtxs[TxOf[loop.msg.run]])'
    <3>1. PICK q \in Runs, c \in Runs : q = loop.msg.run /\ c = txCtxs[TxOf[loop.msg.run]]
      BY <2>4
    <3>2. Meets(q, c)
      BY <2>3, <3>1
    <3>3. Meets(q, c)'
      BY <3>2, Growing
    <3>4. loop'.msg.run = q /\ txCtxs'[TxOf'[loop'.msg.run]] = c
      BY <2>2, <3>1
    <3> QED BY <3>3, <3>4 DEF Meets, Disturbed
  <2> QED BY <2>2, <2>3, <2>5
<1> QED BY <1>1, <1>2, <1>3, <1>4, <1>5 DEF Meetings

\* No write is answered.
LEMMA AcksStay ==
    ASSUME TypeOK, Acks, load' = load, \A p \in Runs : Abandoned(p) => Abandoned(p)',
           failed \subseteq failed',
           shim = "ended" => shim' = "ended",
           UNCHANGED applied,
           \A w \in work' :
              \/ w.ctx = Nil /\ ~HasWritten(w)
              \/ \E v \in work : v.msg = w.msg /\ v.ctx = w.ctx /\ (HasWritten(w) => HasWritten(v)),
           \A m \in toShim' : \/ m \in toShim
                              \/ m.type # "RESPONSE"
                              \/ \E w \in work : /\ m.req \in Writes => HasWritten(w)
                                                 /\ m.run = w.msg.run /\ m.n = w.msg.n,
           \A p \in Runs : cc'[p].acked = cc[p].acked
    PROVE  Acks'
<1>0. \A p \in Runs : TxOf[p] \in Txids
  BY LoadFacts
<1>1. \A p \in Runs, n \in Nat : Written(p, n) => Written(p, n)'
  BY DEF Written
<1>2. ServedAtHome'
  <2>1. SUFFICES ASSUME NEW w \in work',
                        (w.ctx # Nil /\ w.ctx # w.msg.run /\ Clean(TxOf[w.msg.run]))'
                 PROVE  (Abandoned(w.msg.run) \/ shim = "ended")'
    BY DEF ServedAtHome
  <2>2. PICK v \in work : v.msg = w.msg /\ v.ctx = w.ctx
    BY <2>1
  <2>3. v.msg.run \in Runs
    BY DEF TypeOK, Message
  <2> QED BY <1>0, <2>1, <2>2, <2>3, Growing DEF Acks, ServedAtHome
<1>3. AnsweredWritten'
  <2>1. (\A w \in work : HasWritten(w) /\ Clean(TxOf[w.msg.run]) => Written(w.msg.run, w.msg.n))'
    BY <1>0, <1>1, Growing, SMTT(30) DEF Acks, AnsweredWritten, TypeOK, Message
  <2>2. (\A m \in toShim : m.type = "RESPONSE" /\ m.req \in Writes /\ Clean(TxOf[m.run]) =>
          Written(m.run, m.n))'
    BY <1>0, <1>1, Growing, SMT DEF Acks, AnsweredWritten, TypeOK, Message
  <2> QED BY <2>1, <2>2 DEF AnsweredWritten
<1>4. AckedWritten'
  BY <1>0, Growing DEF Acks, AckedWritten, TypeOK
<1> QED BY <1>2, <1>3, <1>4 DEF Acks

-----------------------------------------------------------------------------
\* createTxContext gives a run that has sent nothing the context of its transaction.
LEMMA CreateStep ==
    ASSUME StreamInv, load' = load, NEW r \in Runs, createTxContext(r)
    PROVE  StreamInv'
<1> USE DEF StreamInv
<1>0. UNCHANGED <<loop, work, notifier, applied, cc, responseChannel, shim, failed, toShim, toPeer>>
  BY DEF createTxContext, process
<1>1. Msg("EXISTS", r, 0) \in Message /\ Msg("EXISTS", r, 0).type = "EXISTS"
         /\ Msg("EXISTS", r, 0).run = r
  BY MsgFields, SMT
<1>2. exec[r] = "idle" /\ result[r] = Nil /\ loop.at # "notify"
  BY DEF createTxContext, Contexts, Unlocked, TypeOK
<1>3. /\ txCtxs' \in [Txids -> Runs \cup {Nil}]
      /\ exec' \in [Runs -> {"idle", "trigger", "wait", "delete"} \cup Ended]
      /\ result' \in [Runs -> Message \cup {Nil}]
      /\ \A p \in Runs \ {r} : exec'[p] = exec[p] /\ result'[p] = result[p]
      /\ exec'[r] \in {"trigger", "end"}
      /\ \/ exec'[r] = "trigger" /\ result'[r] = Nil /\ txCtxs[TxOf[r]] = Nil
            /\ txCtxs' = [txCtxs EXCEPT ![TxOf[r]] = r]
         \/ exec'[r] = "end" /\ result'[r] = Msg("EXISTS", r, 0) /\ txCtxs[TxOf[r]] # Nil
            /\ txCtxs' = txCtxs
  <2>1. /\ txCtxs \in [Txids -> Runs \cup {Nil}] /\ TxOf[r] \in Txids
        /\ exec \in [Runs -> {"idle", "trigger", "wait", "delete"} \cup Ended]
        /\ result \in [Runs -> Message \cup {Nil}]
    BY LoadFacts DEF TypeOK
  <2>2. CASE txCtxs[TxOf[r]] # Nil
    BY <1>1, <2>1, <2>2 DEF createTxContext, Ended
  <2>3. CASE txCtxs[TxOf[r]] = Nil
    BY <1>2, <2>1, <2>3 DEF createTxContext, Ended
  <2> QED BY <2>2, <2>3
<1>16. TypeOK'
  BY <1>0, <1>3 DEF TypeOK
<1>4. \A p \in Runs : Abandoned(p) => Abandoned(p)'
  BY <1>1, <1>2, <1>3 DEF Abandoned
<1>5. Flight' = Flight
  BY <1>0 DEF Flight
<1>6. Contexts'
  BY <1>0, <1>1, <1>2, <1>3, LoadFacts, Growing, <1>4, SMT DEF Contexts, TypeOK
<1>7. Channels' /\ StreamEnd'
  BY <1>0, <1>4, Growing DEF Channels, StreamEnd
<1>8. \A p \in Runs : Going(p)' = Going(p) /\ Starting(p)' = Starting(p) /\ Ending(p)' = Ending(p)
  BY <1>0 DEF Going, Starting, Active, Ending
<1>9. ~Going(r)
  BY <1>2 DEF Lanes, Ended
<1>10. Lanes'
  BY <1>0, <1>2, <1>3, <1>8, <1>9, ZenonT(40) DEF Lanes, GivenUp, Going, Ended
<1>11. Finals'
  BY <1>0, <1>1, <1>2, <1>3, <1>8, FinalsStay
<1>12. Meetings'
  BY <1>0, <1>1, <1>2, <1>3, <1>4, MeetingsStay
<1>13. FlightOK'
  BY <1>0, <1>2, <1>3, <1>4, <1>5, FlightShrinks, FlightType DEF FlightOK
<1>14. Settled'
  BY <1>0, <1>1, <1>3, <1>4, <1>5, SettledStays
<1>15. Acks'
  BY <1>0, <1>4, AcksStay
<1> QED BY <1>16, <1>6, <1>7, <1>10, <1>11, <1>12, <1>13, <1>14, <1>15

\* The run's INIT or TRANSACTION is the first thing of it in the stream.
LEMMA SendStep ==
    ASSUME StreamInv, load' = load, NEW r \in Runs, sendExecuteMessage(r)
    PROVE  StreamInv'
<1> USE DEF StreamInv
<1> DEFINE m == Msg(IF r \in InitRuns THEN "INIT" ELSE "TRANSACTION", r, 0)
<1>0. UNCHANGED <<loop, work, txCtxs, notifier, result, applied, cc, responseChannel, shim, failed, toPeer>>
  BY DEF sendExecuteMessage, process, ledger
<1>1. m \in Message /\ m.type \in Start /\ m.run = r
  BY MsgFields, SMT DEF Start
<1> HIDE DEF m
<1>2. /\ exec[r] = "trigger" /\ result[r] = Nil /\ loop.at = "select" /\ shim # "ended"
      /\ exec' = [exec EXCEPT ![r] = "wait"] /\ toShim' = toShim \cup {m}
  BY DEF sendExecuteMessage, Contexts, StreamEnd, TypeOK, m
<1>3. TypeOK'
  BY <1>0, <1>1, <1>2 DEF TypeOK
<1>4. \A p \in Runs : Abandoned(p)' <=> Abandoned(p)
  BY <1>0, <1>2 DEF Abandoned, TypeOK
<1>5. Flight' = Flight
  BY <1>0, <1>1, <1>2 DEF Flight
<1>6. Contexts'
  BY <1>0, <1>2, <1>4, Growing, SMT DEF Contexts, TypeOK
<1>7. Channels' /\ StreamEnd'
  BY <1>0, <1>2, <1>4, Growing DEF Channels, StreamEnd
<1>8. \A p \in Runs : /\ Starting(p)' <=> Starting(p) \/ p = r
                      /\ Ending(p)' <=> Ending(p)
                      /\ Active(p)' <=> Active(p)
  BY <1>0, <1>1, <1>2 DEF Starting, Active, Ending
<1>9. ~Going(r) /\ cc[r].at = "none"
  BY <1>2 DEF Lanes, Ended
<1>10. Lanes'
  <2>1. \A p \in Runs : (exec[p] \in {"idle", "trigger"} => cc[p].at = "none" \/ shim = "ended")'
    BY <1>0, <1>2 DEF Lanes, TypeOK
  <2>2. \A p \in Runs : (Starting(p)' => cc'[p].at = "none") /\ (Ending(p)' => cc'[p].at = "ended")
    BY <1>0, <1>8, <1>9 DEF Lanes
  <2>3. \A p \in Runs : (Going(p) => exec[p] = "wait" \/ (exec[p] \in {"delete"} \cup Ended /\ GivenUp(p)))'
    BY <1>0, <1>2, <1>8, ZenonT(40) DEF Lanes, GivenUp, Going, Ended, TypeOK
  <2>4. (\A k, l \in toShim : k.type \in Start /\ l.type \in Start /\ k.run = l.run => k = l)'
    BY <1>1, <1>2, <1>9, ZenonT(30) DEF Lanes, Going, Starting
  <2> QED BY <2>1, <2>2, <2>3, <2>4 DEF Lanes
<1>11. Finals'
  BY <1>0, <1>8, FinalsStay
<1>12. Meetings'
  BY <1>0, <1>2, <1>4, MeetingsStay
<1>13. FlightOK'
  BY <1>0, <1>2, <1>4, <1>5, FlightShrinks, FlightType DEF FlightOK, TypeOK, Ended
<1>14. Settled'
  BY <1>0, <1>4, <1>5, SettledStays
<1>15. Acks'
  BY <1>0, <1>1, <1>2, <1>4, AcksStay DEF Start
<1> QED BY <1>3, <1>6, <1>7, <1>10, <1>11, <1>12, <1>13, <1>14, <1>15

\* Execute takes a message or times out; its context stays.
LEMMA AnsweredStep ==
    ASSUME StreamInv, load' = load, NEW r \in Runs, ExecuteAnswered(r) \/ ExecuteTimeout(r)
    PROVE  StreamInv'
<1> USE DEF StreamInv
<1>0. UNCHANGED <<loop, work, txCtxs, applied, cc, responseChannel, shim, failed, toShim, toPeer>>
  BY DEF ExecuteAnswered, ExecuteTimeout, process, ledger
<1>1. exec[r] = "wait" /\ exec' = [exec EXCEPT ![r] = "delete"] /\ result[r] = Nil
  BY DEF ExecuteAnswered, ExecuteTimeout, Contexts, TypeOK
<1>2. PICK m \in Message :
         /\ result' = [result EXCEPT ![r] = m]
         /\ \/ m \in notifier[r] /\ notifier' = [notifier EXCEPT ![r] = @ \ {m}]
            \/ m.type = "TIMEOUT" /\ m.run = r /\ UNCHANGED notifier
  <2>1. CASE ExecuteAnswered(r)
    BY <2>1 DEF ExecuteAnswered, TypeOK
  <2>2. CASE ExecuteTimeout(r)
    <3>1. LET m == Msg("TIMEOUT", r, 0) IN m \in Message /\ m.type = "TIMEOUT" /\ m.run = r
      BY MsgFields, SMT
    <3> QED BY <2>2, <3>1 DEF ExecuteTimeout
  <2> QED BY <2>1, <2>2
<1>3. \A c \in Runs : notifier'[c] \subseteq notifier[c]
  BY <1>2, SMT DEF TypeOK
<1>4. TypeOK'
  BY <1>0, <1>1, <1>2, <1>3 DEF TypeOK
<1>5. /\ m # Nil /\ m.type \in Final \cup {"TIMEOUT"} /\ result'[r] = m
      /\ \A p \in Runs \ {r} : result'[p] = result[p] /\ exec'[p] = exec[p]
  BY <1>1, <1>2, LoadFacts, SMT DEF TypeOK, Finals, FinalsNotified, IsNotice, Final
<1>6. \A p \in Runs : Abandoned(p) => Abandoned(p)'
  BY <1>1, <1>5 DEF Abandoned, TypeOK
<1>7. Flight' = Flight
  BY <1>0 DEF Flight
<1>8. Contexts'
  BY <1>0, <1>1, <1>5, <1>6, Growing, SMT DEF Contexts, TypeOK, Final
<1>9. Channels' /\ StreamEnd'
  BY <1>0, <1>6, Growing DEF Channels, StreamEnd
<1>10. \A p \in Runs : /\ Going(p)' <=> Going(p)
                       /\ Starting(p)' <=> Starting(p)
                       /\ Ending(p)' <=> Ending(p)
  BY <1>0 DEF Going, Starting, Active, Ending
<1>11. Going(r) => GivenUp(r)'
  <2>1. CASE m.type \in {"TIMEOUT", "ERROR"} \/ m.run # r
    BY <1>5, <2>1 DEF GivenUp
  <2>2. CASE m \in notifier[r] /\ m.run = r /\ m.type = "COMPLETED"
    BY <2>2 DEF Finals, FinalsNotified, IsNotice, Busy, Going, Active, Lanes
  <2> QED BY <1>2, <2>1, <2>2 DEF Finals, FinalsNotified, IsNotice, Final
<1>12. Lanes'
  <2>1. \A p \in Runs : (exec[p] \in {"idle", "trigger"} => cc[p].at = "none" \/ shim = "ended")'
    BY <1>0, <1>1, <1>5 DEF Lanes, TypeOK
  <2>2. \A p \in Runs : (Going(p) => exec[p] = "wait" \/ (exec[p] \in {"delete"} \cup Ended /\ GivenUp(p)))'
    BY <1>0, <1>1, <1>5, <1>10, <1>11, SMT DEF Lanes, GivenUp, Ended, TypeOK
  <2> QED BY <2>1, <2>2, <1>0, <1>10 DEF Lanes
<1>13. Finals'
  BY <1>0, <1>2, <1>3, <1>5, <1>10, FinalsStay
<1>14. Meetings'
  BY <1>0, <1>2, <1>3, <1>5, <1>6, MeetingsStay
<1>15. FlightOK'
  BY <1>0, <1>1, <1>5, <1>6, <1>7, FlightShrinks, FlightType DEF FlightOK, TypeOK, Ended
<1>16. Settled'
  BY <1>0, <1>2, <1>3, <1>5, <1>6, <1>7, SettledStays
<1>17. Acks'
  BY <1>0, <1>6, AcksStay
<1> QED BY <1>4, <1>8, <1>9, <1>12, <1>13, <1>14, <1>15, <1>16, <1>17

\* deleteTxContext: whatever the run left in flight, its execution was abandoned.
LEMMA DeleteStep ==
    ASSUME StreamInv, load' = load, NEW r \in Runs, deleteTxContext(r)
    PROVE  StreamInv'
<1> USE DEF StreamInv
<1>0. UNCHANGED <<loop, work, notifier, result, applied, cc, responseChannel, shim, failed, toShim, toPeer>>
  BY DEF deleteTxContext, process, ledger
<1>1. /\ exec[r] = "delete" /\ exec' = [exec EXCEPT ![r] = "end"] /\ result[r] # Nil
      /\ txCtxs[TxOf[r]] = r /\ txCtxs' = [txCtxs EXCEPT ![TxOf[r]] = Nil]
      /\ loop.at # "notify"
  BY DEF deleteTxContext, Contexts, TypeOK, Unlocked
<1>2. TypeOK'
  BY <1>0, <1>1 DEF TypeOK, Ended
<1>3. \A p \in Runs : Abandoned(p) => Abandoned(p)'
  BY <1>0, <1>1 DEF Abandoned, TypeOK
<1>4. Flight' = Flight
  BY <1>0 DEF Flight
<1>5. Contexts'
  <2>1. TxOf' = TxOf /\ Nil \notin Runs /\ \A p \in Runs : TxOf[p] \in Txids
    BY <1>0, <1>3, Growing, LoadFacts
  <2>2. /\ exec'[r] = "end" /\ \A p \in Runs \ {r} : exec'[p] = exec[p]
        /\ txCtxs'[TxOf[r]] = Nil /\ \A t \in Txids \ {TxOf[r]} : txCtxs'[t] = txCtxs[t]
    BY <1>1, <2>1 DEF TypeOK
  <2>3. ASSUME NEW p \in Runs
        PROVE  /\ exec'[p] \in {"trigger", "wait", "delete"} <=> txCtxs'[TxOf[p]] = p
               /\ exec'[p] \in {"idle", "trigger", "wait"} <=> result[p] = Nil
               /\ exec'[p] = "delete" => result[p].type # "EXISTS"
               /\ result[p] # Nil => result[p].type \in Final \cup {"TIMEOUT", "EXISTS"}
    <3>1. CASE p = r
      BY <1>1, <2>1, <2>2, <3>1, SMT DEF Contexts
    <3>2. CASE p # r /\ TxOf[p] = TxOf[r]
      <4>1. exec'[p] = exec[p] /\ txCtxs[TxOf[p]] # p /\ txCtxs'[TxOf[p]] # p
        BY <1>1, <2>1, <2>2, <3>2
      <4> QED BY <4>1, ZenonT(40) DEF Contexts
    <3>3. CASE TxOf[p] # TxOf[r]
      BY <2>1, <2>2, <3>3, SMT DEF Contexts
    <3> QED BY <3>1, <3>2, <3>3
  <2>4. \A t \in Txids : txCtxs'[t] # Nil => TxOf[txCtxs'[t]] = t
    BY <2>2, SMT DEF Contexts
  <2> QED BY <1>0, <2>1, <2>3, <2>4 DEF Contexts
<1>6. Channels' /\ StreamEnd'
  BY <1>0, <1>3, Growing DEF Channels, StreamEnd
<1>7. \A p \in Runs : /\ Going(p)' <=> Going(p)
                      /\ Starting(p)' <=> Starting(p)
                      /\ Ending(p)' <=> Ending(p)
                      /\ GivenUp(p)' <=> GivenUp(p)
  BY <1>0 DEF Going, Starting, Active, Ending, GivenUp
<1>8. Lanes'
  BY <1>0, <1>1, <1>7 DEF Lanes, Ended, TypeOK
<1>9. Finals'
  BY <1>0, <1>7, FinalsStay
<1>10. Meetings'
  BY <1>0, <1>1, <1>3, MeetingsStay
<1>11. ASSUME NEW x \in Flight, x.run = r
       PROVE  Torn(TxOf[r])'
  <2>1. CASE GivenUp(r)
    <3>1. Abandoned(r)'
      BY <1>0, <1>1, <2>1 DEF GivenUp, Abandoned, TypeOK
    <3> QED BY <3>1, <1>0, <1>3, Growing DEF Torn
  <2>2. CASE ~GivenUp(r)
    <3>1. result[r].type = "COMPLETED" /\ result[r].run = r
      BY <1>1, <2>2 DEF Contexts, GivenUp, Final
    <3>2. Torn(TxOf[r])
      BY <1>1, <1>11, <3>1 DEF Settled
    <3> QED BY <3>2, <1>0, <1>3, Growing, LoadFacts
  <2> QED BY <2>1, <2>2
<1>12. FlightOK'
  BY <1>0, <1>1, <1>3, <1>4, <1>11, FlightShrinks, FlightType DEF FlightOK, TypeOK, Ended
<1>13. Settled'
  BY <1>0, <1>3, <1>4, SettledStays
<1>14. Acks'
  BY <1>0, <1>3, AcksStay
<1> QED BY <1>2, <1>5, <1>6, <1>8, <1>9, <1>10, <1>12, <1>13, <1>14

\* The caller ends its simulator.
LEMMA DoneStep ==
    ASSUME StreamInv, load' = load, NEW r \in Runs, Done(r)
    PROVE  StreamInv'
<1> USE DEF StreamInv
<1>0. UNCHANGED <<loop, work, txCtxs, notifier, result, applied, cc, responseChannel, shim, failed, toShim, toPeer>>
  BY DEF Done, process
<1>1. exec[r] = "end" /\ exec' = [exec EXCEPT ![r] = "returned"]
  BY DEF Done
<1>2. TypeOK'
  BY <1>0, <1>1 DEF TypeOK, Ended
<1>3. \A p \in Runs : Abandoned(p) => Abandoned(p)'
  BY <1>0, <1>1 DEF Abandoned, TypeOK
<1>4. Flight' = Flight
  BY <1>0 DEF Flight
<1>5. Contexts'
  BY <1>0, <1>1, <1>3, Growing, SMT DEF Contexts, TypeOK
<1>6. Channels' /\ StreamEnd'
  BY <1>0, <1>3, Growing DEF Channels, StreamEnd
<1>7. \A p \in Runs : /\ Going(p)' <=> Going(p)
                      /\ Starting(p)' <=> Starting(p)
                      /\ Ending(p)' <=> Ending(p)
                      /\ GivenUp(p)' <=> GivenUp(p)
  BY <1>0 DEF Going, Starting, Active, Ending, GivenUp
<1>8. Lanes'
  BY <1>0, <1>1, <1>7 DEF Lanes, Ended, TypeOK
<1>9. Finals'
  BY <1>0, <1>7, FinalsStay
<1>10. Meetings'
  BY <1>0, <1>3, MeetingsStay
<1>11. FlightOK'
  BY <1>0, <1>1, <1>3, <1>4, FlightShrinks, FlightType DEF FlightOK, TypeOK, Ended
<1>12. Settled'
  BY <1>0, <1>3, <1>4, SettledStays
<1>13. Acks'
  BY <1>0, <1>3, AcksStay
<1> QED BY <1>2, <1>5, <1>6, <1>8, <1>9, <1>10, <1>11, <1>12, <1>13

-----------------------------------------------------------------------------
\* What a step that is not of an executor leaves alone.
LEMMA PeerFrame ==
    ASSUME TypeOK, Contexts, Channels, Lanes, UNCHANGED <<load, exec, result, txCtxs>>,
           UNCHANGED <<cc, responseChannel, shim, failed>>,
           \A m \in toShim' : m \in toShim \/ m.type \notin Start,
           toPeer' \subseteq toPeer
    PROVE  /\ Contexts' /\ Channels' /\ Lanes'
           /\ \A p \in Runs : Abandoned(p) => Abandoned(p)'
           /\ \A p \in Runs : Ending(p)' => Ending(p)
<1>1. Contexts' /\ Channels'
  BY ContextsStay, Steady DEF Channels
<1>2. \A p \in Runs : /\ Starting(p)' => Starting(p)
                      /\ Ending(p)' => Ending(p)
                      /\ Active(p)' => Active(p)
                      /\ Going(p)' => Going(p)
  BY DEF Starting, Ending, Active, Going
<1>3. Lanes'
  <2>1. (\A p \in Runs :
           /\ Going(p) => exec[p] = "wait" \/ (exec[p] \in {"delete"} \cup Ended /\ GivenUp(p))
           /\ exec[p] \in {"idle", "trigger"} => cc[p].at = "none" \/ shim = "ended"
           /\ Starting(p) => cc[p].at = "none"
           /\ Ending(p) => cc[p].at = "ended")'
    BY <1>2, Steady DEF Lanes
  <2>2. (\A m, k \in toShim : m.type \in Start /\ k.type \in Start /\ m.run = k.run => m = k)'
    BY DEF Lanes
  <2> QED BY <2>1, <2>2 DEF Lanes
<1>4. \A p \in Runs : Abandoned(p) => Abandoned(p)'
  BY Steady
<1> QED BY <1>1, <1>2, <1>3, <1>4

\* Without the goroutines.
LEMMA MeetingsFrame ==
    ASSUME TypeOK, Meetings, UNCHANGED <<load, exec, result, txCtxs, notifier, loop, failed>>
    PROVE  MeetsNotified' /\ MeetsResult' /\ MeetsHeld'
<1>1. MeetsNotified'
  BY Steady, TypeFacts DEF Meetings, MeetsNotified
<1>2. MeetsResult'
  BY Steady, TypeFacts DEF Meetings, MeetsResult
<1>3. MeetsHeld'
  BY Steady, TypeFacts DEF Meetings, MeetsHeld
<1> QED BY <1>1, <1>2, <1>3

\* A goroutine that serves a request takes a step of its own.
LEMMA ReplaceMoves ==
    ASSUME TypeOK, FlightOK, UNCHANGED <<load, exec, result, cc, shim, failed, loop, toShim, toPeer>>,
           NEW w \in work, NEW v, v.msg = w.msg, work' = (work \ {w}) \cup {v}
    PROVE  FlightOK' /\ \A y \in Flight' : \E x \in Flight : x.run = y.run
<1>1. /\ Serving(w) \in Flight
      /\ Serving(v).run = Serving(w).run /\ Serving(v).n = Serving(w).n
      /\ Serving(v).req = Serving(w).req
  BY DEF Flight, Serving
<1>2. Flight' \subseteq (Flight \ {Serving(w)}) \cup {Serving(v)}
  BY FlightReplaced
<1>3. FlightOK'
  BY <1>1, <1>2, FlightMoves
<1> QED BY <1>1, <1>2, <1>3

\* Who has something in flight while another run has the context.
LEMMA FlightOverlap ==
    ASSUME TypeOK, Contexts, Lanes, FlightOK, NEW x \in Flight,
           txCtxs[TxOf[x.run]] # Nil
    PROVE  /\ Meets(x.run, txCtxs[TxOf[x.run]])
           /\ txCtxs[TxOf[x.run]] # x.run /\ Clean(TxOf[x.run]) =>
                 Abandoned(x.run) \/ shim = "ended"
<1> DEFINE p == x.run
<1>0. p \in Runs /\ TxOf[p] \in Txids
  BY FlightType
<1>1. exec[p] \notin {"idle", "trigger"} /\ (exec[p] \in Ended => Torn(TxOf[p]))
  BY DEF FlightOK
<1>2. TxOf[txCtxs[TxOf[p]]] = TxOf[p]
  BY <1>0 DEF Contexts
<1>3. Meets(p, txCtxs[TxOf[p]])
  BY <1>0, <1>1, <1>2, Overlap DEF Meets
<1>4. ASSUME txCtxs[TxOf[p]] # p, Clean(TxOf[p]), shim # "ended"
      PROVE  Abandoned(p)
  <2>1. Going(p)
    BY <1>4 DEF FlightOK, Going, Active
  <2>2. exec[p] \in Ended /\ GivenUp(p)
    BY <1>0, <1>4, <2>1 DEF Lanes, Contexts
  <2> QED BY <2>2 DEF GivenUp, Abandoned, Ended
<1> QED BY <1>3, <1>4

\* createTXIDEntry: a second request of the transaction is dropped, the others find the
\* context of their transaction or are refused.
LEMMA CreateEntryStep ==
    ASSUME StreamInv, load' = load, NEW w \in work, createTXIDEntry(w)
    PROVE  StreamInv'
<1> USE DEF StreamInv
<1> DEFINE t == TxOf[w.msg.run]
<1>0. UNCHANGED <<loop, txCtxs, notifier, exec, result, applied, cc, responseChannel, shim, failed, toShim, toPeer>>
  BY DEF createTXIDEntry, context, process, ledger
<1>1. w.at = "start" /\ w.msg.run \in Runs /\ t \in Txids
  BY LoadFacts DEF createTXIDEntry, TypeOK, Message
<1>2. Contexts' /\ Channels' /\ Lanes'
  BY <1>0, PeerFrame
<1>3. \A p \in Runs : (Abandoned(p) => Abandoned(p)') /\ (Ending(p)' => Ending(p))
  BY <1>0, PeerFrame
<1>4. StreamEnd' /\ Finals'
  BY <1>0, <1>3, FinalsStay DEF StreamEnd
<1>5. Serving(w) \in Flight /\ Serving(w).run = w.msg.run
  BY DEF Flight, Serving
<1>6. CASE work' = work \ {w}
  <2>1. TypeOK'
    BY <1>0, <1>6 DEF TypeOK
  <2>2. Flight' \subseteq Flight
    BY <1>0, <1>6 DEF Flight
  <2>3. FlightOK' /\ Settled'
    BY <1>0, <1>3, <2>2, FlightShrinks, SettledStays
  <2>4. Meetings' /\ Acks'
    BY <1>0, <1>3, <1>6, MeetingsStay, AcksStay
  <2> QED BY <1>2, <1>4, <2>1, <2>3, <2>4
<1>7. CASE txCtxs[t] = Nil /\ work' = (work \ {w}) \cup {[w EXCEPT !.at = "reply", !.reply = "ERROR"]}
  <2> DEFINE v == [w EXCEPT !.at = "reply", !.reply = "ERROR"]
  <2>1. /\ v.msg = w.msg /\ v.ctx = w.ctx /\ v.at = "reply" /\ v.reply = "ERROR"
        /\ v \in [msg : Message, at : {"start", "use", "calling", "reply", "trigger"},
                  ctx : Runs \cup {Nil}, reply : {"RESPONSE", "ERROR", Nil}, more : BOOLEAN]
    BY DEF TypeOK
  <2>2. work' = (work \ {w}) \cup {v}
    BY <1>7
  <2> HIDE DEF v
  <2>3. TypeOK'
    BY <1>0, <2>1, <2>2, LoadFacts DEF TypeOK
  <2>4. FlightOK' /\ Settled'
    BY <1>0, <1>3, <2>1, <2>2, ReplaceMoves, SettledStays
  <2>5. Meetings' /\ Acks'
    BY <1>0, <1>3, <2>1, <2>2, MeetingsStay, AcksStay DEF HasWritten
  <2> QED BY <1>2, <1>4, <2>3, <2>4, <2>5
<1>8. CASE txCtxs[t] # Nil /\ work' = (work \ {w}) \cup {[w EXCEPT !.at = "use", !.ctx = txCtxs[t]]}
  <2> DEFINE v == [w EXCEPT !.at = "use", !.ctx = txCtxs[t]]
  <2>1. /\ v.msg = w.msg /\ v.ctx = txCtxs[t] /\ v.at = "use" /\ v.ctx # Nil
        /\ v \in [msg : Message, at : {"start", "use", "calling", "reply", "trigger"},
                  ctx : Runs \cup {Nil}, reply : {"RESPONSE", "ERROR", Nil}, more : BOOLEAN]
    BY <1>1, <1>8 DEF TypeOK
  <2>2. work' = (work \ {w}) \cup {v}
    BY <1>8
  <2> HIDE DEF v
  <2>3. TypeOK'
    BY <1>0, <2>1, <2>2 DEF TypeOK
  <2>4. FlightOK' /\ Settled'
    BY <1>0, <1>3, <2>1, <2>2, ReplaceMoves, SettledStays
  <2>5. Meets(w.msg.run, v.ctx) /\
          (v.ctx # w.msg.run /\ Clean(t) => Abandoned(w.msg.run) \/ shim = "ended")
    BY <1>5, <1>8, <2>1, FlightOverlap
  <2>6. Meetings'
    <3>1. MeetsNotified' /\ MeetsResult' /\ MeetsApplied' /\ MeetsHeld'
      BY <1>0, MeetingsFrame, Steady, TypeFacts DEF Meetings, MeetsApplied
    <3>2. MeetsWork'
      BY <1>0, <1>1, <2>1, <2>2, <2>5, Steady, ZenonT(40) DEF Meetings, MeetsWork, TypeOK, Message
    <3> QED BY <3>1, <3>2 DEF Meetings
  <2>7. Acks'
    <3>1. ServedAtHome'
      BY <1>0, <1>1, <2>1, <2>2, <2>5, Steady, LoadFacts, ZenonT(60)
         DEF Acks, ServedAtHome, TypeOK, Message
    <3>2. ~HasWritten(v)
      BY <2>1 DEF HasWritten
    <3>3. \A p \in Runs, n \in Nat : Written(p, n)' <=> Written(p, n)
      BY <1>0, Steady DEF Written
    <3>4. AnsweredWritten' /\ AckedWritten'
      BY <1>0, <2>2, <3>2, <3>3, Steady, LoadFacts, ZenonT(40) DEF Acks, AnsweredWritten,
           AckedWritten, TypeOK, Message
    <3> QED BY <3>1, <3>4 DEF Acks
  <2> QED BY <1>2, <1>4, <2>3, <2>4, <2>6, <2>7
<1> QED BY <1>6, <1>7, <1>8 DEF createTXIDEntry, Replace

\* A ledger operation ends, in the context its goroutine found, with the answer it will give,
\* or calls another chaincode.
LEMMA OperationStep ==
    ASSUME StreamInv, load' = load, NEW w \in work, w.at \in {"use", "calling"},
           NEW v \in [msg : Message, at : {"start", "use", "calling", "reply", "trigger"},
                      ctx : Runs \cup {Nil}, reply : {"RESPONSE", "ERROR", Nil}, more : BOOLEAN],
           v.msg = w.msg, v.ctx = w.ctx, v.at \in {"calling", "reply"},
           v.at = "reply" => v.reply \in {"RESPONSE", "ERROR"},
           v.at = "calling" => w.msg.type = "INVOKE",
           work' = (work \ {w}) \cup {v},
           UNCHANGED <<loop, txCtxs, notifier, exec, result, cc, responseChannel, shim, failed, toShim, toPeer>>,
           \/ UNCHANGED applied /\ ~HasWritten(v)
           \/ applied' = [applied EXCEPT ![w.ctx] = @ \cup {<<w.msg.run, w.msg.n>>}]
    PROVE  StreamInv'
<1> USE DEF StreamInv
<1>1. w.msg.run \in Runs /\ w.msg.n \in Nat /\ w.ctx \in Runs /\ TxOf[w.msg.run] \in Txids
  BY LoadFacts, ZenonT(40) DEF TypeOK, Message
<1>2. Contexts' /\ Channels' /\ Lanes'
  BY PeerFrame
<1>3. \A p \in Runs : (Abandoned(p) => Abandoned(p)') /\ (Ending(p)' => Ending(p))
  BY PeerFrame
<1>4. StreamEnd' /\ Finals'
  BY <1>3, FinalsStay DEF StreamEnd
<1>5. /\ \A c \in Runs : applied[c] \subseteq applied'[c]
      /\ \A c \in Runs : \A e \in applied'[c] :
            e \in applied[c] \/ (c = w.ctx /\ e = <<w.msg.run, w.msg.n>>)
      /\ HasWritten(v) => <<w.msg.run, w.msg.n>> \in applied'[w.ctx]
      /\ applied' \in [Runs -> SUBSET (Runs \X Nat)]
  <2>1. applied \in [Runs -> SUBSET (Runs \X Nat)]
    BY DEF TypeOK
  <2>2. CASE UNCHANGED applied /\ ~HasWritten(v)
    BY <2>1, <2>2
  <2>3. CASE applied' = [applied EXCEPT ![w.ctx] = @ \cup {<<w.msg.run, w.msg.n>>}]
    BY <1>1, <2>1, <2>3, SMT
  <2> QED BY <2>2, <2>3
<1>6. TypeOK'
  <2>1. \A k \in work' : /\ k.msg.type \in Requests
                         /\ k.at \in {"use", "calling"} => k.ctx # Nil
                         /\ k.at \in {"reply", "trigger"} => k.reply \in {"RESPONSE", "ERROR"}
                         /\ k.at = "trigger" => k.msg.type \in Busy
                         /\ k.at = "calling" => k.msg.type = "INVOKE"
    <3>1. w.msg.type \in Requests /\ v.ctx # Nil
      BY <1>1, LoadFacts DEF TypeOK
    <3>2. \A k \in work' : k \in work \/ k = v
      OBVIOUS
    <3> QED BY <3>1, <3>2 DEF TypeOK
  <2> QED BY <1>5, <2>1 DEF TypeOK
<1>7. FlightOK' /\ Settled'
  BY <1>3, ReplaceMoves, SettledStays
<1>8. Meets(w.msg.run, w.ctx)'
  BY <1>1, Steady, LoadFacts DEF Meetings, MeetsWork
<1>9. Meetings'
  <2>1. MeetsNotified' /\ MeetsResult' /\ MeetsHeld'
    BY MeetingsFrame
  <2>4. MeetsApplied'
    <3>1. SUFFICES ASSUME NEW c \in Runs, NEW e \in applied'[c]
                   PROVE  Meets(e[1], c)'
      BY DEF MeetsApplied
    <3>2. CASE e \in applied[c]
      BY <3>2, Steady, SMT DEF Meetings, MeetsApplied, TypeOK
    <3>3. CASE c = w.ctx /\ e = <<w.msg.run, w.msg.n>>
      BY <1>8, <3>3
    <3> QED BY <1>5, <3>2, <3>3
  <2>5. MeetsWork'
    BY <1>8, Steady, TypeFacts DEF Meetings, MeetsWork
  <2> QED BY <2>1, <2>4, <2>5 DEF Meetings
<1>10. Acks'
  <2>1. ServedAtHome'
    BY Steady, TypeFacts DEF Acks, ServedAtHome
  <2>2. \A p \in Runs, n \in Nat : Written(p, n) => Written(p, n)'
    BY <1>5, Steady DEF Written
  <2>3. HasWritten(v) /\ Clean(TxOf[w.msg.run]) => Written(w.msg.run, w.msg.n)'
    BY <1>1, <1>5, Steady, LoadFacts DEF Acks, ServedAtHome, Written
  <2>4. AnsweredWritten'
    <3>1. (\A k \in work : HasWritten(k) /\ Clean(TxOf[k.msg.run]) => Written(k.msg.run, k.msg.n))'
      BY <1>1, <2>2, <2>3, Steady, TypeFacts DEF Acks, AnsweredWritten
    <3>2. (\A m \in toShim : m.type = "RESPONSE" /\ m.req \in Writes /\ Clean(TxOf[m.run]) =>
              Written(m.run, m.n))'
      BY <2>2, Steady, TypeFacts DEF Acks, AnsweredWritten
    <3> QED BY <3>1, <3>2 DEF AnsweredWritten
  <2>5. AckedWritten'
    BY <1>5, Steady, LoadFacts DEF Acks, AckedWritten, TypeOK
  <2> QED BY <2>1, <2>4, <2>5 DEF Acks
<1> QED BY <1>2, <1>4, <1>6, <1>7, <1>9, <1>10

\* Every operation of a goroutine, but for the panic, is such a step.
LEMMA ServeStep ==
    ASSUME StreamInv, load' = load, NEW w \in work,
           \/ OperationFails(w) \/ handleGetState(w) \/ InvokeChaincode(w) \/ InvokeReturns(w)
           \/ SetState(w) \/ handleGetStateByRange(w) \/ handleGetQueryResult(w)
           \/ handleGetHistoryForKey(w) \/ handleQueryStateNext(w) \/ handleQueryStateClose(w)
    PROVE  StreamInv'
<1> DEFINE Ops == [msg : Message, at : {"start", "use", "calling", "reply", "trigger"},
                   ctx : Runs \cup {Nil}, reply : {"RESPONSE", "ERROR", Nil}, more : BOOLEAN]
           Is(v, at) == v.msg = w.msg /\ v.ctx = w.ctx /\ v.at = at
<1>0. w \in Ops /\ w.at \in {"use", "calling"} /\ w.msg.type \in Requests
  BY DEF StreamInv, TypeOK, Usable, OperationFails, handleGetState, InvokeChaincode, InvokeReturns,
         SetState, handleGetStateByRange, handleGetQueryResult, handleGetHistoryForKey,
         handleQueryStateNext, handleQueryStateClose
<1>1. UNCHANGED <<loop, txCtxs, notifier, exec, result, cc, responseChannel, shim, failed, toShim, toPeer>>
  BY DEF OperationFails, handleGetState, InvokeChaincode, InvokeReturns, SetState,
         handleGetStateByRange, handleGetQueryResult, handleGetHistoryForKey,
         handleQueryStateNext, handleQueryStateClose, getQueryResponse, context, process
<1>2. CASE OperationFails(w)
  <2> DEFINE v == [w EXCEPT !.at = "reply", !.reply = "ERROR"]
  <2>1. v \in Ops /\ Is(v, "reply") /\ v.reply = "ERROR"
    BY <1>0
  <2>2. work' = (work \ {w}) \cup {v} /\ UNCHANGED applied
    BY <1>2 DEF OperationFails, Replace
  <2>3. ~HasWritten(v)
    BY <2>1 DEF HasWritten
  <2> QED BY <1>0, <1>1, <2>1, <2>2, <2>3, OperationStep
<1>3. CASE handleGetState(w) \/ handleQueryStateClose(w)
  <2> DEFINE v == [w EXCEPT !.at = "reply", !.reply = "RESPONSE"]
  <2>1. v \in Ops /\ Is(v, "reply") /\ v.reply = "RESPONSE"
    BY <1>0
  <2>2. work' = (work \ {w}) \cup {v} /\ UNCHANGED applied /\ w.msg.type \notin Writes
    BY <1>3 DEF handleGetState, handleQueryStateClose, Replace, ledger, Writes
  <2>3. ~HasWritten(v)
    BY <2>1, <2>2 DEF HasWritten
  <2> QED BY <1>0, <1>1, <2>1, <2>2, <2>3, OperationStep
<1>4. CASE SetState(w)
  <2> DEFINE v == [w EXCEPT !.at = "reply", !.reply = "RESPONSE"]
  <2>1. v \in Ops /\ Is(v, "reply") /\ v.reply = "RESPONSE"
    BY <1>0
  <2>2. /\ work' = (work \ {w}) \cup {v}
        /\ applied' = [applied EXCEPT ![w.ctx] = @ \cup {<<w.msg.run, w.msg.n>>}]
    BY <1>4 DEF SetState, Replace
  <2> QED BY <1>0, <1>1, <2>1, <2>2, OperationStep
<1>5. CASE \/ handleGetStateByRange(w) \/ handleGetQueryResult(w) \/ handleGetHistoryForKey(w)
           \/ handleQueryStateNext(w)
  <2>1. PICK more \in BOOLEAN :
           /\ work' = (work \ {w}) \cup
                      {[w EXCEPT !.at = "reply", !.reply = "RESPONSE", !.more = more]}
           /\ UNCHANGED applied /\ w.msg.type \notin Writes
    BY <1>5 DEF handleGetStateByRange, handleGetQueryResult, handleGetHistoryForKey,
                handleQueryStateNext, getQueryResponse, Replace, Writes
  <2> DEFINE v == [w EXCEPT !.at = "reply", !.reply = "RESPONSE", !.more = more]
  <2>2. v \in Ops /\ Is(v, "reply") /\ v.reply = "RESPONSE"
    BY <1>0
  <2>3. ~HasWritten(v)
    BY <2>1, <2>2 DEF HasWritten
  <2> QED BY <1>0, <1>1, <2>1, <2>2, <2>3, OperationStep
<1>6. CASE InvokeChaincode(w)
  <2> DEFINE v == [w EXCEPT !.at = "calling"]
  <2>1. v \in Ops /\ Is(v, "calling") /\ w.msg.type = "INVOKE"
    BY <1>0, <1>6 DEF InvokeChaincode
  <2>2. work' = (work \ {w}) \cup {v} /\ UNCHANGED applied
    BY <1>6 DEF InvokeChaincode, Replace, ledger
  <2>3. ~HasWritten(v)
    BY <2>1 DEF HasWritten
  <2> QED BY <1>0, <1>1, <2>1, <2>2, <2>3, OperationStep
<1>7. CASE InvokeReturns(w)
  <2>1. PICK reply \in {"RESPONSE", "ERROR"} :
           work' = (work \ {w}) \cup {[w EXCEPT !.at = "reply", !.reply = reply]}
    BY <1>7 DEF InvokeReturns, Replace
  <2> DEFINE v == [w EXCEPT !.at = "reply", !.reply = reply]
  <2>2. v \in Ops /\ Is(v, "reply") /\ v.reply = reply
    BY <1>0
  <2>3. UNCHANGED applied /\ w.msg.type \notin Writes
    BY <1>7 DEF InvokeReturns, ledger, Writes, StreamInv, TypeOK
  <2>4. ~HasWritten(v)
    BY <2>2, <2>3 DEF HasWritten
  <2> QED BY <1>0, <1>1, <2>1, <2>2, <2>3, <2>4, OperationStep
<1> QED BY <1>2, <1>3, <1>4, <1>5, <1>6, <1>7

-----------------------------------------------------------------------------
\* What notify does with a message: nothing, when the transaction has no context; the
\* message is in the context's notifier, or notify waits with it.
Notifies(m) ==
    LET c == txCtxs[TxOf[m.run]] IN
    \/ notifier' = notifier /\ loop'.at # "notify"
    \/ c # Nil /\ notifier' = [notifier EXCEPT ![c] = {m}] /\ loop'.at # "notify"
    \/ c # Nil /\ notifier' = notifier /\ loop'.at = "notify" /\ loop'.msg = m

\* A run that has ended has something in flight only if an execution was abandoned.
LEMMA EndedSettled ==
    ASSUME TypeOK, FlightOK, shim # "ended", NEW x \in Flight, cc[x.run].at = "ended"
    PROVE  Torn(TxOf[x.run])
BY DEF FlightOK, Clean

\* notify with the final message of a run, or with a failed write.
LEMMA NotifyKeeps ==
    ASSUME StreamInv, NEW m \in Message, Notifies(m), IsNotice(m),
           UNCHANGED <<load, exec, result, txCtxs, cc, responseChannel, shim, failed>>,
           shim # "ended", loop'.at # "ended", loop'.at = "notify" /\ loop'.send => m.req # Nil,
           m.req = Nil => /\ cc[m.run].at = "ended" /\ ~Ending(m.run)'
                          /\ \A c \in Runs : \A k \in notifier[c] : k.req = Nil => k.run # m.run,
           txCtxs[TxOf[m.run]] # Nil => Meets(m.run, txCtxs[TxOf[m.run]]),
           toPeer' \subseteq toPeer,
           \A k \in toShim' : k \in toShim \/ k.type \notin Start,
           \A y \in Flight' : \E x \in Flight : x.run = y.run
    PROVE  /\ Contexts' /\ Channels' /\ StreamEnd' /\ Lanes' /\ Finals'
           /\ MeetsNotified' /\ MeetsResult' /\ MeetsHeld' /\ Settled'
           /\ notifier' \in [Runs -> SUBSET Message]
           /\ \A p \in Runs : Abandoned(p) => Abandoned(p)'
<1> USE DEF StreamInv
<1> DEFINE d == txCtxs[TxOf[m.run]]
<1>0. m.run \in Runs /\ TxOf[m.run] \in Txids /\ (d # Nil => d \in Runs)
  BY TypeFacts DEF Message
<1>1. /\ Contexts' /\ Channels' /\ Lanes'
      /\ \A p \in Runs : Abandoned(p) => Abandoned(p)'
      /\ \A p \in Runs : Ending(p)' => Ending(p)
  BY PeerFrame
<1>2. StreamEnd'
  BY DEF StreamEnd
<1>3. /\ notifier \in [Runs -> SUBSET Message]
      /\ \A c \in Runs : \A k \in notifier'[c] : k \in notifier[c] \/ (c = d /\ k = m /\ loop'.at # "notify" /\ d # Nil)
      /\ notifier' \in [Runs -> SUBSET Message]
  <2>1. notifier \in [Runs -> SUBSET Message]
    BY DEF TypeOK
  <2> QED BY <1>0, <2>1, SMT DEF Notifies
<1>4. loop'.at = "notify" => loop'.msg = m /\ d # Nil
  BY DEF Notifies
<1>5. FinalsSent' /\ FinalsTaken'
  BY <1>1, TypeFacts DEF Finals, FinalsSent, FinalsTaken
<1>6. FinalHeld'
  BY <1>4 DEF FinalHeld, IsNotice
<1>7. FinalsNotified'
  <2>1. SUFFICES ASSUME NEW c \in Runs, NEW k \in notifier'[c]
                 PROVE  /\ IsNotice(k)
                        /\ k.req = Nil => /\ cc[k.run].at = "ended" /\ ~Ending(k.run)'
                                          /\ ~(loop'.at = "notify" /\ loop'.msg.req = Nil
                                                 /\ loop'.msg.run = k.run)
    BY DEF FinalsNotified, IsNotice
  <2>2. CASE k \in notifier[c]
    BY <1>1, <1>4, <2>2, TypeFacts DEF Finals, FinalsNotified
  <2>3. CASE k = m /\ loop'.at # "notify"
    BY <2>3
  <2> QED BY <1>3, <2>2, <2>3
<1>8. Finals'
  BY <1>5, <1>6, <1>7 DEF Finals
<1>9. MeetsResult'
  BY Steady, TypeFacts DEF Meetings, MeetsResult
<1>10. d # Nil => Meets(m.run, d)'
  BY <1>0, Steady
<1>11. MeetsNotified'
  BY <1>3, <1>10, Steady, TypeFacts, ZenonT(30) DEF Meetings, MeetsNotified
<1>12. MeetsHeld'
  BY <1>0, <1>4, <1>10, Steady DEF MeetsHeld
<1>13. Settled'
  <2>1. SUFFICES ASSUME NEW c \in Runs, NEW k \in notifier'[c] \cup {result[c]}, k # Nil,
                        k.type = "COMPLETED", NEW y \in Flight', y.run = k.run
                 PROVE  Torn(TxOf[y.run])'
    BY DEF Settled
  <2>2. PICK x \in Flight : x.run = y.run
    OBVIOUS
  <2>3. Torn(TxOf[x.run])
    <3>1. CASE k \in notifier[c] \cup {result[c]}
      BY <2>1, <2>2, <3>1 DEF Settled
    <3>2. CASE k = m
      <4>1. m.req = Nil
        BY <2>1, <3>2 DEF IsNotice
      <4> QED BY <2>1, <2>2, <3>2, <4>1, EndedSettled
    <3> QED BY <1>3, <3>1, <3>2
  <2>4. x.run \in Runs /\ TxOf[x.run] \in Txids
    BY FlightType
  <2> QED BY <2>2, <2>3, <2>4, Steady
<1> QED BY <1>1, <1>2, <1>3, <1>8, <1>9, <1>11, <1>12, <1>13

\* The loop after a call of notify.
LoopOK(l) ==
    /\ l \in [at : {"select", "notify", "ended", "panic"}, msg : Message \cup {Nil},
              send : BOOLEAN]
    /\ l.at = "notify" => l.msg # Nil

\* The outcomes of notify.
LEMMA NotifyOutcome ==
    ASSUME NEW m \in Message, NEW s \in BOOLEAN, Nil \notin Message, notify(m, s)
    PROVE  /\ Notifies(m) /\ LoopOK(loop') /\ loop'.at \in {"select", "notify"}
           /\ loop'.at = "notify" => loop'.msg = m /\ loop'.send = s
<1> DEFINE c == txCtxs[TxOf[m.run]]
<1>1. LoopOK(Idle) /\ Idle.at = "select"
  BY DEF Idle, LoopOK
<1>2. LET l == [at |-> "notify", msg |-> m, send |-> s]
      IN  LoopOK(l) /\ l.at = "notify" /\ l.msg = m /\ l.send = s
  BY DEF LoopOK
<1>3. CASE c = Nil
  BY <1>1, <1>3 DEF notify, Notifies
<1>4. CASE c # Nil /\ notifier[c] = {}
  BY <1>1, <1>4 DEF notify, Notifies
<1>5. CASE c # Nil /\ notifier[c] # {}
  BY <1>2, <1>5 DEF notify, Notifies
<1> QED BY <1>3, <1>4, <1>5

\* processStream takes a message of the shim.
LEMMA HandleStep ==
    ASSUME StreamInv, load' = load, NEW m \in toPeer, HandleMessage(m)
    PROVE  StreamInv'
<1> USE DEF StreamInv
<1>0. /\ UNCHANGED <<txCtxs, exec, result, applied, cc, responseChannel, shim, failed, toShim>>
      /\ loop.at = "select" /\ toPeer' = toPeer \ {m}
  BY DEF HandleMessage, process, ledger
<1>1. m \in Message /\ m.run \in Runs /\ TxOf[m.run] \in Txids /\ shim # "ended" /\ m.req = Nil
  BY <1>0, TypeFacts DEF TypeOK, Finals, FinalsSent, StreamEnd
<1>2. CASE m.type \in Requests
  <2> DEFINE w == [msg |-> m, at |-> "start", ctx |-> Nil, reply |-> Nil, more |-> FALSE]
  <2>1. work' = work \cup {w} /\ UNCHANGED <<loop, notifier>>
    BY <1>2 DEF HandleMessage
  <2>2. /\ w.msg = m /\ w.at = "start" /\ w.ctx = Nil
        /\ w \in [msg : Message, at : {"start", "use", "calling", "reply", "trigger"},
                  ctx : Runs \cup {Nil}, reply : {"RESPONSE", "ERROR", Nil}, more : BOOLEAN]
    BY <1>1
  <2> HIDE DEF w
  <2>3. TypeOK'
    BY <1>0, <1>2, <2>1, <2>2 DEF TypeOK
  <2>4. Contexts' /\ Channels' /\ Lanes'
    BY <1>0, <2>1, PeerFrame
  <2>5. \A p \in Runs : (Abandoned(p) => Abandoned(p)') /\ (Ending(p)' => Ending(p))
    BY <1>0, <2>1, PeerFrame
  <2>6. StreamEnd'
    BY <1>0, <1>1, <2>1 DEF StreamEnd
  <2>7. Finals'
    BY <1>0, <2>1, <2>5, FinalsStay
  <2>8. Meetings' /\ Acks'
    BY <1>0, <2>1, <2>2, <2>5, MeetingsStay, AcksStay DEF HasWritten
  <2>9. Asking(m) \in Flight /\ Serving(w).run = Asking(m).run /\ Serving(w).n = Asking(m).n
           /\ Serving(w).req = Asking(m).req
    BY <1>2, <2>2 DEF Flight, Asking, Serving
  <2>10. Flight' \subseteq (Flight \ {Asking(m)}) \cup {Serving(w)}
    BY <1>0, <2>1, FlightServed
  <2>11. FlightOK'
    BY <1>0, <2>9, <2>10, FlightMoves
  <2>12. Settled'
    BY <1>0, <2>1, <2>5, <2>9, <2>10, SettledStays
  <2> QED BY <2>3, <2>4, <2>6, <2>7, <2>8, <2>11, <2>12
<1>3. CASE m.type \notin Requests
  <2>1. notify(m, FALSE) /\ UNCHANGED work /\ m.type \in Final
    BY <1>3 DEF HandleMessage, TypeOK
  <2>2. IsNotice(m) /\ Ending(m.run) /\ cc[m.run].at = "ended"
    BY <1>1, <2>1 DEF IsNotice, Ending, Lanes
  <2>3. ~Ending(m.run)'
    BY <1>0, <2>1 DEF Ending, Finals, FinalsSent
  <2>4. \A c \in Runs : \A k \in notifier[c] : k.req = Nil => k.run # m.run
    BY <2>2 DEF Finals, FinalsNotified
  <2>5. /\ Notifies(m) /\ LoopOK(loop') /\ loop'.at \in {"select", "notify"}
        /\ loop'.at = "notify" => loop'.send = FALSE
    BY <1>1, <2>1, NotifyOutcome, LoadFacts
  <2>6. Flight' \subseteq Flight
    BY <1>0, <2>1, <2>5 DEF Flight
  <2>8. txCtxs[TxOf[m.run]] # Nil => Meets(m.run, txCtxs[TxOf[m.run]])
    <3>1. exec[m.run] = "wait" \/ (exec[m.run] \in {"delete"} \cup Ended /\ GivenUp(m.run))
      BY <1>1, <2>2 DEF Lanes, Going
    <3>2. exec[m.run] \in Ended => Torn(TxOf[m.run])
      BY <1>1, <3>1 DEF Torn, Abandoned, GivenUp, Ended
    <3>3. exec[m.run] \notin {"idle", "trigger"}
      BY <3>1 DEF Ended
    <3> QED BY <1>1, <3>2, <3>3, Overlap DEF Meets, Contexts
  <2>9. /\ Contexts' /\ Channels' /\ StreamEnd' /\ Lanes' /\ Finals'
        /\ MeetsNotified' /\ MeetsResult' /\ MeetsHeld' /\ Settled'
        /\ notifier' \in [Runs -> SUBSET Message]
        /\ \A p \in Runs : Abandoned(p) => Abandoned(p)'
    BY <1>0, <1>1, <2>2, <2>3, <2>4, <2>5, <2>6, <2>8, NotifyKeeps
  <2>10. TypeOK'
    BY <1>0, <2>1, <2>5, <2>9 DEF TypeOK, LoopOK
  <2>11. MeetsApplied' /\ MeetsWork'
    BY <1>0, <2>1, Steady, TypeFacts DEF Meetings, MeetsApplied, MeetsWork
  <2>12. FlightOK' /\ Acks'
    BY <1>0, <2>1, <2>6, <2>9, FlightShrinks, AcksStay
  <2> QED BY <2>9, <2>10, <2>11, <2>12 DEF Meetings
<1> QED BY <1>2, <1>3

\* The loop takes the answer of enterBusyState; an ERROR passes notify.
LEMMA TriggerStep ==
    ASSUME StreamInv, load' = load, NEW w \in work, triggerNextState(w)
    PROVE  StreamInv'
<1> USE DEF StreamInv
<1> DEFINE m == Answer(w)
<1>0. /\ UNCHANGED <<txCtxs, exec, result, applied, cc, responseChannel, shim, failed, toPeer>>
      /\ loop.at = "select" /\ w.at = "trigger" /\ work' = work \ {w}
  BY DEF triggerNextState, process, ledger
<1>1. /\ m \in Message /\ m.type = w.reply /\ m.type \in {"RESPONSE", "ERROR"}
      /\ m.run = w.msg.run /\ m.n = w.msg.n /\ m.req = w.msg.type /\ m.req \in Busy
  BY <1>0, AnswerFields DEF TypeOK
<1>2. /\ w.reply = "ERROR" => /\ notify(m, TRUE)
                              /\ toShim' = IF loop'.at = "notify" THEN toShim ELSE toShim \cup {m}
      /\ w.reply # "ERROR" => toShim' = toShim \cup {m} /\ UNCHANGED <<loop, notifier>>
  BY DEF triggerNextState
<1> HIDE DEF m
<1>3. shim # "ended" /\ m.run \in Runs /\ TxOf[m.run] \in Txids /\ m.type \notin Start
  BY <1>0, <1>1, TypeFacts DEF StreamEnd, Start
<1>4. /\ Serving(w) \in Flight
      /\ Serving(w).run = m.run /\ Serving(w).n = m.n /\ Serving(w).req = m.req
  BY <1>1 DEF Flight, Serving
<1>5. /\ Answering(m).run = m.run /\ Answering(m).n = m.n /\ Answering(m).req = m.req
      /\ Holding(m).run = m.run /\ Holding(m).n = m.n /\ Holding(m).req = m.req
  BY DEF Answering, Holding
<1>6. HasWritten(w) \/ m.type # "RESPONSE" \/ m.req \notin Writes
  BY <1>0, <1>1 DEF HasWritten
<1>7. \A k \in toShim' : k \in toShim \/ k = m
  BY <1>1, <1>2
<1>8. CASE w.reply = "ERROR"
  <2>1. /\ Notifies(m) /\ LoopOK(loop') /\ loop'.at \in {"select", "notify"}
        /\ loop'.at = "notify" => loop'.msg = m /\ loop'.send = TRUE
    BY <1>1, <1>2, <1>8, NotifyOutcome, LoadFacts
  <2>2. Flight' \subseteq (Flight \ {Serving(w)}) \cup
                          {IF loop'.at = "notify" THEN Holding(m) ELSE Answering(m)}
    BY <1>0, <1>2, <1>8, <2>1, FlightNotified
  <2>3. FlightOK' /\ \A y \in Flight' : \E x \in Flight : x.run = y.run
    <3> DEFINE y == IF loop'.at = "notify" THEN Holding(m) ELSE Answering(m)
    <3>1. y.run = Serving(w).run /\ y.n = Serving(w).n /\ y.req = Serving(w).req
      BY <1>4, <1>5
    <3>2. Flight' \subseteq (Flight \ {Serving(w)}) \cup {y}
      BY <2>2
    <3> HIDE DEF y
    <3>3. FlightOK'
      BY <1>0, <1>4, <3>1, <3>2, FlightMoves
    <3> QED BY <1>4, <3>1, <3>2, <3>3
  <2>4. IsNotice(m) /\ m.req # Nil
    BY <1>1, <1>8, LoadFacts DEF IsNotice, Requests
  <2>5. txCtxs[TxOf[m.run]] # Nil => Meets(m.run, txCtxs[TxOf[m.run]])
    BY <1>4, FlightOverlap
  <2>6. /\ Contexts' /\ Channels' /\ StreamEnd' /\ Lanes' /\ Finals'
        /\ MeetsNotified' /\ MeetsResult' /\ MeetsHeld' /\ Settled'
        /\ notifier' \in [Runs -> SUBSET Message]
        /\ \A p \in Runs : Abandoned(p) => Abandoned(p)'
    BY <1>0, <1>1, <1>3, <1>7, <2>1, <2>3, <2>4, <2>5, NotifyKeeps
  <2>7. TypeOK'
    BY <1>0, <1>1, <1>7, <2>1, <2>6 DEF TypeOK, LoopOK
  <2>8. MeetsApplied' /\ MeetsWork'
    BY <1>0, Steady, TypeFacts DEF Meetings, MeetsApplied, MeetsWork
  <2>9. Acks'
    BY <1>0, <1>1, <1>6, <1>7, <2>6, AcksStay
  <2> QED BY <2>3, <2>6, <2>7, <2>8, <2>9 DEF Meetings
<1>9. CASE w.reply # "ERROR"
  <2>1. toShim' = toShim \cup {m} /\ UNCHANGED <<loop, notifier>>
    BY <1>2, <1>9
  <2>2. Flight' \subseteq (Flight \ {Serving(w)}) \cup {Answering(m)}
    BY <1>0, <1>7, <2>1, FlightAnswered
  <2>3. FlightOK' /\ \A y \in Flight' : \E x \in Flight : x.run = y.run
    BY <1>0, <1>4, <1>5, <2>2, FlightMoves
  <2>4. TypeOK'
    BY <1>0, <1>1, <2>1 DEF TypeOK
  <2>5. Contexts' /\ Channels' /\ Lanes'
    BY <1>0, <1>3, <2>1, PeerFrame
  <2>6. \A p \in Runs : (Abandoned(p) => Abandoned(p)') /\ (Ending(p)' => Ending(p))
    BY <1>0, <1>3, <2>1, PeerFrame
  <2>7. StreamEnd' /\ Finals'
    BY <1>0, <1>3, <2>1, <2>6, FinalsStay DEF StreamEnd
  <2>8. Meetings' /\ Settled'
    BY <1>0, <2>1, <2>3, <2>6, MeetingsStay, SettledStays
  <2>9. Acks'
    BY <1>0, <1>1, <1>6, <1>7, <2>6, AcksStay
  <2> QED BY <2>3, <2>4, <2>5, <2>7, <2>8, <2>9
<1> QED BY <1>8, <1>9

\* The send a notify waited with succeeds.
LEMMA ResumeStep ==
    ASSUME StreamInv, load' = load, NotifyResumes
    PROVE  StreamInv'
<1> USE DEF StreamInv
<1>0. loop.at = "notify" /\ loop.msg \in Message
  BY TypeFacts DEF NotifyResumes
<1>1. PICK m \in Message : m = loop.msg
  BY <1>0
<1>2. /\ UNCHANGED <<work, txCtxs, exec, result, applied, cc, responseChannel, shim, failed, toPeer>>
      /\ loop.at = "notify" /\ loop' = Idle
      /\ notifier' = [notifier EXCEPT ![txCtxs[TxOf[m.run]]] = {m}]
      /\ toShim' = toShim \cup (IF loop.send THEN {m} ELSE {})
  BY <1>1 DEF NotifyResumes, process, ledger
<1>3. m \in Message /\ m.run \in Runs /\ TxOf[m.run] \in Txids /\ shim # "ended"
  BY <1>2, <1>1, TypeFacts DEF StreamEnd
<1>4. /\ IsNotice(m)
      /\ m.req = Nil => /\ cc[m.run].at = "ended" /\ ~Ending(m.run)
                        /\ \A c \in Runs : \A k \in notifier[c] : k.req = Nil => k.run # m.run
      /\ txCtxs[TxOf[m.run]] # Nil /\ Meets(m.run, txCtxs[TxOf[m.run]])
  BY <1>2, <1>1 DEF Finals, FinalHeld, FinalsNotified, Meetings, MeetsHeld
<1>5. LoopOK(loop') /\ loop'.at = "select" /\ Notifies(m)
  BY <1>2, <1>4 DEF Idle, LoopOK, Notifies
<1>6. Ending(m.run)' => Ending(m.run)
  BY <1>2 DEF Ending
<1>7. loop.send => m.type = "ERROR" /\ m.type \notin Start
  BY <1>2, <1>4, <1>1 DEF Finals, FinalHeld, IsNotice, Start
<1>8. /\ loop.send => Holding(m) \in Flight
      /\ Answering(m).run = Holding(m).run /\ Answering(m).n = Holding(m).n
      /\ Answering(m).req = Holding(m).req
  BY <1>2, <1>1 DEF Flight, Holding, Answering
<1>9. FlightOK' /\ \A y \in Flight' : \E x \in Flight : x.run = y.run
  <2>1. CASE loop.send
    <3>1. Flight' \subseteq (Flight \ {Holding(m)}) \cup {Answering(m)}
      BY <1>2, <1>5, <2>1, FlightReleased
    <3> QED BY <1>2, <1>8, <2>1, <3>1, FlightMoves
  <2>2. CASE ~loop.send
    <3>1. Flight' \subseteq Flight
      BY <1>2, <1>5, <2>2 DEF Flight
    <3>2. \A p \in Runs : Abandoned(p) => Abandoned(p)'
      BY <1>2, Steady
    <3> QED BY <1>2, <3>1, <3>2, FlightShrinks
  <2> QED BY <2>1, <2>2
<1>10. \A k \in toShim' : k \in toShim \/ (k = m /\ loop.send)
  BY <1>2
<1>11. /\ Contexts' /\ Channels' /\ StreamEnd' /\ Lanes' /\ Finals'
      /\ MeetsNotified' /\ MeetsResult' /\ MeetsHeld' /\ Settled'
      /\ notifier' \in [Runs -> SUBSET Message]
      /\ \A p \in Runs : Abandoned(p) => Abandoned(p)'
  BY <1>2, <1>3, <1>4, <1>5, <1>6, <1>7, <1>9, <1>10, NotifyKeeps
<1>12. TypeOK'
  BY <1>2, <1>3, <1>5, <1>7, <1>10, <1>11 DEF TypeOK, LoopOK
<1>13. MeetsApplied' /\ MeetsWork'
  BY <1>2, Steady, TypeFacts DEF Meetings, MeetsApplied, MeetsWork
<1>14. Acks'
  BY <1>2, <1>7, <1>10, <1>11, AcksStay
<1> QED BY <1>9, <1>11, <1>12, <1>13, <1>14 DEF Meetings

\* The goroutine answers at once, or offers its answer to the loop.
LEMMA DeleteEntryStep ==
    ASSUME StreamInv, load' = load, NEW w \in work, deleteTXIDEntry(w)
    PROVE  StreamInv'
<1> USE DEF StreamInv
<1>0. /\ UNCHANGED <<loop, txCtxs, notifier, exec, result, applied, cc, responseChannel, shim, failed, toPeer>>
      /\ loop.at \in {"select", "ended"}
  BY DEF deleteTXIDEntry, context, process, ledger, Unlocked
<1>1. /\ w.at = "reply" /\ w.reply \in {"RESPONSE", "ERROR"} /\ w.msg.type \in Requests
      /\ w \in [msg : Message, at : {"start", "use", "calling", "reply", "trigger"},
                ctx : Runs \cup {Nil}, reply : {"RESPONSE", "ERROR", Nil}, more : BOOLEAN]
  BY DEF deleteTXIDEntry, TypeOK
<1>2. \A p \in Runs : Abandoned(p) => Abandoned(p)'
  BY <1>0, Steady
<1>3. CASE w.msg.type \in Direct
  <2> DEFINE m == Answer(w)
  <2>1. /\ m \in Message /\ m.type = w.reply /\ m.type \in {"RESPONSE", "ERROR"}
        /\ m.run = w.msg.run /\ m.n = w.msg.n /\ m.req = w.msg.type
    BY <1>1, AnswerFields
  <2>2. work' = work \ {w} /\ toShim' = IF loop.at = "ended" THEN toShim ELSE toShim \cup {m}
    BY <1>3 DEF deleteTXIDEntry
  <2> HIDE DEF m
  <2>3. m.type \notin Start
    BY <2>1 DEF Start
  <2>4. /\ Serving(w) \in Flight
        /\ Answering(m).run = Serving(w).run /\ Answering(m).n = Serving(w).n
        /\ Answering(m).req = Serving(w).req
    BY <2>1 DEF Flight, Serving, Answering
  <2>5. Flight' \subseteq (Flight \ {Serving(w)}) \cup {Answering(m)}
    <3>1. \A k \in toShim' : k \in toShim \/ k = m
      BY <2>2
    <3> QED BY <1>0, <2>2, <3>1, FlightAnswered
  <2>6. FlightOK' /\ \A y \in Flight' : \E x \in Flight : x.run = y.run
    BY <1>0, <2>4, <2>5, FlightMoves
  <2>7. \A k \in toShim' : k \in toShim \/ k = m
    BY <2>2
  <2>8. TypeOK'
    BY <1>0, <2>1, <2>2, <2>7 DEF TypeOK
  <2>9. Contexts' /\ Channels' /\ Lanes' /\ \A p \in Runs : Ending(p)' => Ending(p)
    BY <1>0, <2>3, <2>7, PeerFrame
  <2>10. StreamEnd'
    BY <1>0, <2>2 DEF StreamEnd
  <2>11. Finals' /\ Meetings' /\ Settled'
    BY <1>0, <1>2, <2>2, <2>6, <2>9, FinalsStay, MeetingsStay, SettledStays
  <2>12. m.req \in Writes => HasWritten(w) \/ m.type # "RESPONSE"
    BY <1>1, <2>1 DEF HasWritten
  <2>13. Acks'
    BY <1>0, <1>2, <2>1, <2>2, <2>7, <2>12, AcksStay
  <2> QED BY <2>6, <2>8, <2>9, <2>10, <2>11, <2>13
<1>4. CASE w.msg.type \notin Direct
  <2> DEFINE v == [w EXCEPT !.at = "trigger"]
  <2>1. /\ v.msg = w.msg /\ v.ctx = w.ctx /\ v.at = "trigger" /\ v.reply = w.reply
        /\ v \in [msg : Message, at : {"start", "use", "calling", "reply", "trigger"},
                  ctx : Runs \cup {Nil}, reply : {"RESPONSE", "ERROR", Nil}, more : BOOLEAN]
    BY <1>1
  <2>2. work' = (work \ {w}) \cup {v} /\ UNCHANGED toShim
    BY <1>4 DEF deleteTXIDEntry, Replace
  <2> HIDE DEF v
  <2>3. w.msg.type \in Busy
    BY <1>1, <1>4 DEF Requests
  <2>4. TypeOK'
    BY <1>0, <1>1, <2>1, <2>2, <2>3 DEF TypeOK
  <2>5. Contexts' /\ Channels' /\ Lanes' /\ \A p \in Runs : Ending(p)' => Ending(p)
    BY <1>0, <2>2, PeerFrame
  <2>6. FlightOK' /\ \A y \in Flight' : \E x \in Flight : x.run = y.run
    BY <1>0, <2>1, <2>2, ReplaceMoves
  <2>7. StreamEnd' /\ Finals' /\ Settled'
    BY <1>0, <1>2, <2>2, <2>5, <2>6, FinalsStay, SettledStays DEF StreamEnd
  <2>8. Meetings'
    BY <1>0, <1>2, <2>1, <2>2, MeetingsStay
  <2>9. HasWritten(v) => HasWritten(w)
    BY <1>1, <2>1 DEF HasWritten
  <2>10. Acks'
    BY <1>0, <1>2, <2>1, <2>2, <2>9, AcksStay
  <2> QED BY <2>4, <2>5, <2>6, <2>7, <2>8, <2>10
<1> QED BY <1>3, <1>4

\* The peer's process panics.
LEMMA PanicStep ==
    ASSUME StreamInv, load' = load, NEW w \in work, SimulatorPanics(w) \/ CalleePanics(w)
    PROVE  StreamInv'
<1> USE DEF StreamInv
<1>0. /\ UNCHANGED <<work, txCtxs, notifier, exec, result, applied, cc, responseChannel, shim, failed, toShim, toPeer>>
      /\ LoopOK(loop') /\ loop'.at = "panic"
  BY DEF SimulatorPanics, CalleePanics, context, process, ledger, LoopOK, Idle
<1>1. TypeOK'
  BY <1>0 DEF TypeOK, LoopOK
<1>2. /\ Contexts' /\ Channels' /\ Lanes'
      /\ \A p \in Runs : (Abandoned(p) => Abandoned(p)') /\ (Ending(p)' => Ending(p))
  BY <1>0, PeerFrame
<1>3. StreamEnd' /\ Finals'
  BY <1>0, <1>2, FinalsStay DEF StreamEnd
<1>4. Meetings' /\ Acks'
  BY <1>0, <1>2, MeetingsStay, AcksStay
<1>5. Flight' \subseteq Flight
  BY <1>0 DEF Flight
<1>6. FlightOK' /\ Settled'
  BY <1>0, <1>2, <1>5, FlightShrinks, SettledStays
<1> QED BY <1>1, <1>2, <1>3, <1>4, <1>6

-----------------------------------------------------------------------------
\* A run whose executor has ended, and which the chaincode still has, was abandoned.
LEMMA GoingOn ==
    ASSUME TypeOK, Contexts, Lanes, NEW p \in Runs, Going(p)
    PROVE  /\ exec[p] \notin {"idle", "trigger"}
           /\ txCtxs[TxOf[p]] # p => Abandoned(p)
           /\ exec[p] \in Ended => Torn(TxOf[p])
<1>1. exec[p] = "wait" \/ (exec[p] \in {"delete"} \cup Ended /\ GivenUp(p))
  BY DEF Lanes
<1>2. exec[p] \in Ended => Abandoned(p)
  BY <1>1 DEF GivenUp, Abandoned, Ended
<1> QED BY <1>1, <1>2 DEF Contexts, Torn, Ended

\* The run gets its goroutine.
LEMMA StartStep ==
    ASSUME StreamInv, load' = load, NEW m \in toShim, shimStart(m)
    PROVE  StreamInv'
<1> USE DEF StreamInv
<1> DEFINE r == m.run
<1>0. /\ UNCHANGED <<loop, work, txCtxs, notifier, exec, result, applied, responseChannel, shim, failed, toPeer>>
      /\ shim = "select" /\ m.type \in Start /\ toShim' = toShim \ {m}
      /\ cc' = [cc EXCEPT ![r].at = "running"]
  BY DEF shimStart, context, ledger, Start
<1>1. r \in Runs
  BY TypeFacts
<1>2. Starting(r) /\ cc[r].at = "none"
  BY <1>0, <1>1 DEF Starting, Lanes
<1>3. /\ \A p \in Runs \ {r} : cc'[p] = cc[p]
      /\ cc'[r].at = "running"
      /\ \A p \in Runs : cc'[p].n = cc[p].n /\ cc'[p].req = cc[p].req /\ cc'[p].acked = cc[p].acked
      /\ cc' \in CCs
  <2>1. cc \in CCs
    BY DEF TypeOK, CCs, CCRecord
  <2>2. cc' = Running(cc, r)
    BY <1>0 DEF Running
  <2>3. Starts(cc, cc', r)
    BY <1>1, <2>1, <2>2, CCRuns
  <2> QED BY <2>3 DEF Starts
<1>3a. TypeOK'
  BY <1>0, <1>3 DEF TypeOK, CCs, CCRecord
<1>4. \A p \in Runs : Abandoned(p) => Abandoned(p)'
  BY <1>0, Steady
<1>5. Contexts'
  BY <1>0, ContextsStay
<1>6. Channels'
  BY <1>0, <1>2, <1>3, ChannelsStay
<1>7. StreamEnd'
  BY <1>0 DEF StreamEnd
<1>8. \A p \in Runs : /\ Starting(p)' => Starting(p) /\ p # r
                      /\ Ending(p)' <=> Ending(p)
                      /\ Going(p)' => Going(p)
  BY <1>0, <1>2, <1>3, ZenonT(40) DEF Starting, Ending, Active, Going, Lanes
<1>9. Lanes'
  <2>1. exec[r] \notin {"idle", "trigger"}
    BY <1>1, <1>2, GoingOn DEF Going
  <2>2. ~Ending(r)
    BY <1>1, <1>2 DEF Lanes
  <2>3. (\A p \in Runs :
           /\ Going(p) => exec[p] = "wait" \/ (exec[p] \in {"delete"} \cup Ended /\ GivenUp(p))
           /\ exec[p] \in {"idle", "trigger"} => cc[p].at = "none" \/ shim = "ended"
           /\ Starting(p) => cc[p].at = "none"
           /\ Ending(p) => cc[p].at = "ended")'
    BY <1>0, <1>3, <1>8, <2>1, <2>2, Steady, SMT DEF Lanes
  <2>4. (\A k, l \in toShim : k.type \in Start /\ l.type \in Start /\ k.run = l.run => k = l)'
    BY <1>0 DEF Lanes
  <2> QED BY <2>3, <2>4 DEF Lanes
<1>10. Finals'
  BY <1>0, <1>2, <1>3, <1>8, FinalsStay
<1>11. Meetings' /\ Acks'
  BY <1>0, <1>3, <1>4, MeetingsStay, AcksStay
<1>12. Flight' \subseteq Flight
  BY <1>0 DEF Flight
<1>13. \A x \in Flight : x.run \in Runs /\ (Clean(TxOf[x.run]) => x.run # r)
  BY <1>0, <1>2, FlightType DEF FlightOK
<1>14. FlightOK' /\ Settled'
  BY <1>0, <1>3, <1>4, <1>12, <1>13, FlightShrinks, SettledStays
<1> QED BY <1>3a, <1>5, <1>6, <1>7, <1>9, <1>10, <1>11, <1>14

\* The deferred deleteChannel of a stub call.
LEMMA DeleteChannelStep ==
    ASSUME StreamInv, load' = load, NEW r \in Runs, deleteChannel(r)
    PROVE  StreamInv'
<1> USE DEF StreamInv
<1>0. /\ UNCHANGED <<loop, work, txCtxs, notifier, exec, result, applied, shim, failed, toShim, toPeer>>
      /\ cc[r].at = "received" /\ cc' = [cc EXCEPT ![r].at = "running"]
      /\ responseChannel' = [responseChannel EXCEPT ![TxOf[r]] = Nil]
      /\ shim # "ended"
  BY DEF deleteChannel, context, ledger, StreamEnd
<1>1. /\ \A p \in Runs \ {r} : cc'[p] = cc[p]
      /\ cc'[r].at = "running"
      /\ \A p \in Runs : cc'[p].n = cc[p].n /\ cc'[p].req = cc[p].req /\ cc'[p].acked = cc[p].acked
      /\ cc' \in CCs
  <2>1. cc \in CCs
    BY DEF TypeOK, CCs, CCRecord
  <2>2. cc' = Running(cc, r)
    BY <1>0 DEF Running
  <2>3. Starts(cc, cc', r)
    BY <2>1, <2>2, CCRuns
  <2> QED BY <2>3 DEF Starts
<1>2. /\ \A t \in Txids \ {TxOf[r]} : responseChannel'[t] = responseChannel[t]
      /\ responseChannel'[TxOf[r]] = Nil /\ responseChannel[TxOf[r]] = r
      /\ responseChannel' \in [Txids -> Runs \cup {Nil}]
  BY <1>0, LoadFacts, SMT DEF TypeOK, Channels
<1>3. TypeOK'
  BY <1>0, <1>1, <1>2 DEF TypeOK, CCs, CCRecord
<1>4. \A p \in Runs : Abandoned(p) => Abandoned(p)'
  BY <1>0, Steady
<1>5. Contexts'
  BY <1>0, ContextsStay
<1>6. Channels'
  BY <1>0, <1>1, <1>2, LoadFacts, ChannelsChange
<1>7. StreamEnd'
  BY <1>0 DEF StreamEnd
<1>8. \A p \in Runs : /\ Starting(p)' <=> Starting(p)
                      /\ Ending(p)' <=> Ending(p)
                      /\ Going(p)' => Going(p)
  BY <1>0, <1>1 DEF Starting, Ending, Active, Going
<1>9. Lanes'
  <2>1. exec[r] \notin {"idle", "trigger"} /\ ~Ending(r) /\ ~Starting(r)
    BY <1>0, GoingOn DEF Going, Active, Lanes
  <2>2. (\A p \in Runs :
           /\ Going(p) => exec[p] = "wait" \/ (exec[p] \in {"delete"} \cup Ended /\ GivenUp(p))
           /\ exec[p] \in {"idle", "trigger"} => cc[p].at = "none" \/ shim = "ended"
           /\ Starting(p) => cc[p].at = "none"
           /\ Ending(p) => cc[p].at = "ended")'
    BY <1>0, <1>1, <1>8, <2>1, Steady DEF Lanes
  <2> QED BY <1>0, <2>2 DEF Lanes
<1>10. Finals'
  BY <1>0, <1>1, <1>8, FinalsStay
<1>11. Meetings' /\ Acks'
  BY <1>0, <1>1, <1>4, MeetingsStay, AcksStay
<1>12. Flight' = Flight
  BY <1>0 DEF Flight
<1>13. \A x \in Flight : x.run \in Runs /\ (Clean(TxOf[x.run]) => x.run # r)
  BY <1>0, FlightType DEF FlightOK
<1>14. FlightOK' /\ Settled'
  BY <1>0, <1>1, <1>4, <1>12, <1>13, FlightShrinks, SettledStays
<1> QED BY <1>3, <1>5, <1>6, <1>7, <1>9, <1>10, <1>11, <1>14

\* A stub call: refused while another of the transaction waits, otherwise the only thing
\* the transaction has in flight.
LEMMA CallStep ==
    ASSUME StreamInv, load' = load, NEW r \in Runs, NEW type \in Requests, stubCall(r, type)
    PROVE  StreamInv'
<1> USE DEF StreamInv
<1>0. /\ UNCHANGED <<loop, work, txCtxs, notifier, exec, result, applied, shim, failed, toShim>>
      /\ shim = "select" /\ cc[r].at = "running" /\ createChannel(r, type)
  BY DEF stubCall, context, ledger
<1>1. \A p \in Runs : Abandoned(p) => Abandoned(p)'
  BY <1>0, Steady
<1>2. Contexts'
  BY <1>0, ContextsStay
<1>3. Active(r) /\ ~Ending(r) /\ ~Starting(r) /\ Going(r)
  BY <1>0 DEF Active, Lanes, Going
<1>4. \A x \in Flight : x.run \in Runs /\ (Clean(TxOf[x.run]) => x.run # r)
  BY <1>0, FlightType DEF FlightOK
<1>5. CASE responseChannel[TxOf[r]] # Nil
  <2>0. cc' = [cc EXCEPT ![r].n = @ + 1] /\ UNCHANGED <<responseChannel, toPeer>>
    BY <1>0, <1>5 DEF createChannel
  <2>1. /\ \A p \in Runs \ {r} : cc'[p] = cc[p]
        /\ \A p \in Runs : cc'[p].at = cc[p].at /\ cc'[p].acked = cc[p].acked
        /\ cc' \in CCs
    <3>1. cc \in CCs
      BY DEF TypeOK, CCs, CCRecord
    <3>2. cc' = Refused(cc, r)
      BY <2>0 DEF Refused
    <3>3. Refuses(cc, cc', r)
      BY <3>1, <3>2, CCRefused
    <3> QED BY <3>3 DEF Refuses
  <2>1a. TypeOK'
    BY <1>0, <2>0, <2>1 DEF TypeOK, CCs, CCRecord
  <2>2. Channels' /\ StreamEnd'
    BY <1>0, <2>0, <2>1, ChannelsStay DEF StreamEnd
  <2>3. \A p \in Runs : /\ Starting(p)' <=> Starting(p)
                        /\ Ending(p)' <=> Ending(p)
                        /\ Going(p)' <=> Going(p)
    BY <1>0, <2>0, <2>1 DEF Starting, Ending, Active, Going
  <2>4. Lanes'
    BY <1>0, <2>1, <2>3, Steady DEF Lanes
  <2>5. Finals'
    BY <1>0, <2>0, <2>1, <2>3, FinalsStay
  <2>6. Meetings' /\ Acks'
    BY <1>0, <1>1, <2>1, MeetingsStay, AcksStay
  <2>7. Flight' = Flight
    BY <1>0, <2>0 DEF Flight
  <2>8. FlightOK' /\ Settled'
    BY <1>0, <1>1, <1>4, <2>1, <2>7, FlightShrinks, SettledStays
  <2> QED BY <1>2, <2>1a, <2>2, <2>4, <2>5, <2>6, <2>8
<1>6. CASE responseChannel[TxOf[r]] = Nil
  <2> DEFINE k == Msg(type, r, cc[r].n + 1)
  <2>0. /\ cc' = [cc EXCEPT ![r].at = "waiting", ![r].n = @ + 1, ![r].req = type]
        /\ responseChannel' = [responseChannel EXCEPT ![TxOf[r]] = r]
        /\ toPeer' = toPeer \cup {k}
    BY <1>0, <1>6 DEF createChannel
  <2>1. /\ \A p \in Runs \ {r} : cc'[p] = cc[p]
        /\ cc'[r].at = "waiting" /\ cc'[r].n = cc[r].n + 1 /\ cc'[r].req = type
        /\ \A p \in Runs : cc'[p].acked = cc[p].acked
        /\ cc[r].n + 1 \in Nat
        /\ cc' \in CCs
    <3>1. cc \in CCs
      BY DEF TypeOK, CCs, CCRecord
    <3>2. cc' = Called(cc, r, type)
      BY <2>0 DEF Called
    <3>3. Calls(cc, cc', r, type)
      BY <3>1, <3>2, CCCalls
    <3> QED BY <3>3 DEF Calls
  <2>2. k \in Message /\ k.type = type /\ k.run = r /\ k.n = cc'[r].n /\ k.req = Nil /\ type \notin Final
    BY <2>1, MsgFields, SMT DEF Final, Requests, Direct, Busy, Writes
  <2> HIDE DEF k
  <2>3. /\ \A t \in Txids \ {TxOf[r]} : responseChannel'[t] = responseChannel[t]
        /\ responseChannel'[TxOf[r]] = r
        /\ responseChannel' \in [Txids -> Runs \cup {Nil}]
    BY <2>0, LoadFacts DEF TypeOK
  <2>4. TypeOK'
    <3>1. toPeer' \subseteq Message /\ \A l \in toPeer' : l.type \in Requests \cup Final
      BY <2>0, <2>2 DEF TypeOK
    <3> QED BY <1>0, <2>1, <2>3, <3>1 DEF TypeOK, CCs, CCRecord
  <2>5. Channels'
    BY <1>6, <2>1, <2>3, ChannelsChange
  <2>6. StreamEnd'
    BY <1>0 DEF StreamEnd
  <2>7. \A p \in Runs : /\ Starting(p)' <=> Starting(p)
                        /\ Ending(p)' <=> Ending(p)
                        /\ Going(p)' <=> Going(p)
    <3>1. \A p \in Runs : (Starting(p)' <=> Starting(p)) /\ (Ending(p)' <=> Ending(p))
      BY <1>0, <2>0, <2>2 DEF Starting, Ending
    <3>2. \A p \in Runs : Active(p)' <=> Active(p)
      BY <1>0, <2>1 DEF Active
    <3> QED BY <3>1, <3>2 DEF Going
  <2>8. Lanes'
    <3>1. exec[r] \notin {"idle", "trigger"}
      BY <1>3, GoingOn
    <3>2. (\A p \in Runs :
             /\ Going(p) => exec[p] = "wait" \/ (exec[p] \in {"delete"} \cup Ended /\ GivenUp(p))
             /\ exec[p] \in {"idle", "trigger"} => cc[p].at = "none" \/ shim = "ended"
             /\ Starting(p) => cc[p].at = "none"
             /\ Ending(p) => cc[p].at = "ended")'
      BY <1>0, <1>3, <2>1, <2>7, <3>1, Steady DEF Lanes
    <3> QED BY <1>0, <3>2 DEF Lanes
  <2>9. Finals'
    BY <1>0, <2>0, <2>1, <2>2, <2>7, FinalsStay, ZenonT(30)
  <2>10. Meetings' /\ Acks'
    BY <1>0, <1>1, <2>1, MeetingsStay, AcksStay
  <2>11. /\ Flight' \subseteq Flight \cup {Asking(k)}
         /\ Asking(k).run = r /\ Asking(k).n = cc'[r].n /\ Asking(k).req = type
    BY <1>0, <2>0, <2>2, ZenonT(40) DEF Flight, Asking
  <2>12. \A x \in Flight : Clean(TxOf[x.run]) => TxOf[x.run] # TxOf[r]
    BY <1>0, <1>4, <1>6, LoadFacts, SMT DEF FlightOK, Channels
  <2>13. exec[r] \notin {"idle", "trigger"} /\ (exec[r] \in Ended => Torn(TxOf[r]))
    BY <1>3, GoingOn
  <2>14. FlightOK'
    <3>1. \A u \in Flight' : u \in Flight \/ u = Asking(k)
      BY <2>11
    <3>2. (\A u \in Flight :
             /\ exec[u.run] \notin {"idle", "trigger"}
             /\ exec[u.run] \in Ended => Torn(TxOf[u.run])
             /\ Clean(TxOf[u.run]) =>
                   \/ shim = "ended"
                   \/ cc[u.run].at = "waiting" /\ cc[u.run].n = u.n /\ cc[u.run].req = u.req)'
      <4>1. SUFFICES ASSUME NEW u \in Flight'
                     PROVE  /\ exec[u.run] \notin {"idle", "trigger"}
                            /\ exec[u.run] \in Ended => Torn(TxOf[u.run])'
                            /\ Clean(TxOf[u.run])' =>
                                  \/ shim = "ended"
                                  \/ cc'[u.run].at = "waiting" /\ cc'[u.run].n = u.n
                                     /\ cc'[u.run].req = u.req
        BY <1>0, Steady
      <4>2. CASE u = Asking(k)
        BY <2>1, <2>11, <2>13, <4>2, Steady, <1>0, TypeFacts
      <4>3. CASE u \in Flight
        <5>1. u.run \in Runs /\ TxOf[u.run] \in Txids /\ (Clean(TxOf[u.run]) => u.run # r)
          BY <1>4, <4>3, TypeFacts
        <5> QED BY <1>0, <2>1, <4>3, <5>1, Steady DEF FlightOK
      <4> QED BY <3>1, <4>2, <4>3
    <3>3. (\A u, v \in Flight : u.run = v.run /\ Clean(TxOf[u.run]) => u = v)'
      BY <1>0, <1>4, <2>11, <2>12, <3>1, Steady, TypeFacts DEF FlightOK
    <3> QED BY <3>2, <3>3 DEF FlightOK
  <2>15. Settled'
    <3>1. SUFFICES ASSUME NEW c \in Runs, NEW m \in notifier[c] \cup {result[c]}, m # Nil,
                          m.type = "COMPLETED", NEW y \in Flight', y.run = m.run
                   PROVE  Torn(TxOf[y.run])'
      BY <1>0 DEF Settled
    <3>2. cc[m.run].at = "ended"
      BY <3>1 DEF Finals, FinalsNotified, FinalsTaken, IsNotice
    <3>3. y \in Flight
      BY <1>0, <2>11, <3>1, <3>2
    <3> QED BY <1>0, <1>4, <3>1, <3>3, Steady, TypeFacts DEF Settled
  <2> QED BY <1>2, <2>4, <2>5, <2>6, <2>8, <2>9, <2>10, <2>14, <2>15
<1> QED BY <1>5, <1>6

Delivery(m, next, o) ==
    /\ o \in Runs \cup {Nil}
    /\ \A p \in Runs : p # o \/ cc[o].at # "waiting" => cc'[p] = next[p]
    /\ o # Nil /\ cc[o].at = "waiting" =>
          /\ cc'[o].at = "received" /\ cc'[o].n = cc[o].n /\ cc'[o].req = cc[o].req
          /\ \A n \in cc'[o].acked : n \in next[o].acked
                \/ (n = cc[o].n /\ m.type = "RESPONSE" /\ cc[o].req \in Writes)
    /\ shim' = shim \/ shim' = "stuck"
    /\ cc' \in CCs

\* sendChannel changes at most the goroutine o that waits on the transaction's channel.
LEMMA Delivered ==
    ASSUME TypeOK, NEW m \in Message, NEW next \in CCs, NEW o, o = responseChannel[TxOf[m.run]],
           o # Nil => cc[o].at = next[o].at /\ cc[o].n = next[o].n /\ cc[o].req = next[o].req,
           sendChannel(m, next)
    PROVE  Delivery(m, next, o)
<1> USE DEF Delivery
<1>1. o \in Runs \cup {Nil} /\ Nil \notin Runs
  <2>1. m.run \in Runs
    BY DEF Message
  <2> QED BY <2>1, LoadFacts, TypeFacts DEF TypeOK
<1>2. CASE o = Nil
  BY <1>1, <1>2 DEF sendChannel
<1>3. CASE o # Nil /\ cc[o].at # "waiting"
  BY <1>1, <1>3 DEF sendChannel
<1>4. CASE o # Nil /\ cc[o].at = "waiting"
  <2>1. /\ cc' = [next EXCEPT ![o].at = "received", ![o].more = m.more \/ (@ /\ m.req \in Iterless),
                             ![o].acked = IF m.type = "RESPONSE" /\ cc[o].req \in Writes
                                          THEN @ \cup {cc[o].n} ELSE @]
        /\ shim' = shim
    BY <1>4 DEF sendChannel
  <2>2. PICK b : b = (m.more \/ (next[o].more /\ m.req \in Iterless))
    OBVIOUS
  <2>3. b \in BOOLEAN
    BY <2>2
  <2>0. o \in Runs /\ cc[o].n \in Nat /\ next[o].acked \subseteq Nat
    BY <1>1, <1>4 DEF CCs, CCRecord, TypeOK
  <2>4. PICK a : a = IF m.type = "RESPONSE" /\ cc[o].req \in Writes
                     THEN next[o].acked \cup {cc[o].n} ELSE next[o].acked
    OBVIOUS
  <2>5. /\ a \in SUBSET Nat
        /\ \A n \in a : n \in next[o].acked
              \/ (n = cc[o].n /\ m.type = "RESPONSE" /\ cc[o].req \in Writes)
    BY <2>0, <2>4
  <2>6. cc' = [next EXCEPT ![o] = [next[o] EXCEPT !.at = "received", !.more = b, !.acked = a]]
    BY <1>1, <1>4, <2>1, <2>2, <2>4 DEF CCs, CCRecord
  <2>7. cc' \in CCs
    <3>1. [next[o] EXCEPT !.at = "received", !.more = b, !.acked = a] \in CCRecord
      BY <2>0, <2>3, <2>5, CCUpdates DEF CCs
    <3> QED BY <2>0, <2>6, <3>1 DEF CCs
  <2>8. (\A p \in Runs : p # o => cc'[p] = next[p]) /\ cc'[o].acked = a
        /\ cc'[o].at = "received" /\ cc'[o].n = next[o].n /\ cc'[o].req = next[o].req
    BY <2>0, <2>6, ZenonT(40) DEF CCs, CCRecord
  <2> QED BY <1>1, <1>4, <2>1, <2>5, <2>7, <2>8
<1> QED BY <1>2, <1>3, <1>4

\* An answer reaches the call that waits for it, of a clean transaction.
LEMMA ReceiveStep ==
    ASSUME StreamInv, load' = load, NEW m \in toShim, shimReceive(m)
    PROVE  StreamInv'
<1> USE DEF StreamInv
<1>a. PICK o : o = responseChannel[TxOf[m.run]]
  OBVIOUS
<1>0. /\ UNCHANGED <<loop, work, txCtxs, notifier, exec, result, applied, responseChannel, failed, toPeer>>
      /\ shim = "select" /\ m.type \in {"RESPONSE", "ERROR"} /\ toShim' = toShim \ {m}
      /\ sendChannel(m, cc)
  BY DEF shimReceive, context, ledger
<1>1. m.run \in Runs /\ TxOf[m.run] \in Txids /\ m \in Message
  BY TypeFacts DEF TypeOK
<1>2. o # Nil => o \in Runs /\ TxOf[o] = TxOf[m.run]
  <2>1. responseChannel \in [Txids -> Runs \cup {Nil}]
    BY DEF TypeOK
  <2> QED BY <1>a, <1>1, <2>1 DEF Channels
<1>3. \A p \in Runs : Abandoned(p) => Abandoned(p)'
  BY <1>0, Steady
<1>4. Contexts'
  BY <1>0, ContextsStay
<1>5. /\ Answering(m) \in Flight /\ Answering(m).run = m.run /\ Answering(m).n = m.n
      /\ Answering(m).req = m.req
  BY <1>0 DEF Flight, Answering, Start
<1>6. Flight' \subseteq Flight \ {Answering(m)}
  BY <1>0, FlightReceived
<1>7. /\ o \in Runs \cup {Nil}
      /\ \A p \in Runs : p # o \/ cc[o].at # "waiting" => cc'[p] = cc[p]
      /\ o # Nil /\ cc[o].at = "waiting" =>
            /\ cc'[o].at = "received" /\ cc'[o].n = cc[o].n /\ cc'[o].req = cc[o].req
            /\ \A n \in cc'[o].acked : n \in cc[o].acked
                  \/ (n = cc[o].n /\ m.type = "RESPONSE" /\ cc[o].req \in Writes)
      /\ shim' \in {"select", "stuck"}
      /\ cc' \in CCs
  <2>1. cc \in CCs
    BY DEF TypeOK, CCs, CCRecord
  <2>2. TypeOK /\ sendChannel(m, cc)
    BY <1>0
  <2>3. shim = "select"
    BY <1>0
  <2>4. Delivery(m, cc, o)
    BY <1>a, <1>1, <2>1, <2>2, Delivered
  <2> QED BY <2>3, <2>4 DEF Delivery
<1>8. TypeOK'
  BY <1>0, <1>7 DEF TypeOK, CCs, CCRecord
<1>9. /\ \A p \in Runs : cc'[p].at \in {"waiting", "received"} <=> cc[p].at \in {"waiting", "received"}
      /\ \A p \in Runs : cc'[p].at = cc[p].at \/ (cc[p].at = "waiting" /\ cc'[p].at = "received")
  <2>1. SUFFICES ASSUME NEW p \in Runs
                 PROVE  \/ cc'[p].at = cc[p].at
                        \/ cc[p].at = "waiting" /\ cc'[p].at = "received"
    OBVIOUS
  <2>2. CASE p = o /\ cc[o].at = "waiting"
    BY <1>7, <2>2, LoadFacts
  <2>3. CASE p # o \/ cc[o].at # "waiting"
    BY <1>7, <2>3
  <2> QED BY <2>2, <2>3
<1>10. Channels' /\ StreamEnd'
  BY <1>0, <1>7, <1>9, ChannelsStay DEF StreamEnd
<1>11. \A p \in Runs : /\ Starting(p)' <=> Starting(p)
                       /\ Ending(p)' <=> Ending(p)
                       /\ Going(p)' <=> Going(p)
  BY <1>0, <1>9 DEF Starting, Ending, Active, Going, Start
<1>12. Lanes'
  <2>1. (\A p \in Runs :
           /\ Going(p) => exec[p] = "wait" \/ (exec[p] \in {"delete"} \cup Ended /\ GivenUp(p))
           /\ exec[p] \in {"idle", "trigger"} => cc[p].at = "none" \/ shim = "ended"
           /\ Starting(p) => cc[p].at = "none"
           /\ Ending(p) => cc[p].at = "ended")'
    BY <1>0, <1>7, <1>9, <1>11, Steady DEF Lanes
  <2> QED BY <1>0, <2>1 DEF Lanes
<1>13. Finals'
  BY <1>0, <1>9, <1>11, FinalsStay
<1>14. Meetings'
  BY <1>0, <1>3, MeetingsStay
<1>15. Clean(TxOf[m.run]) => o = m.run /\ cc[o].n = m.n /\ cc[o].req = m.req
  <2>1. SUFFICES ASSUME Clean(TxOf[m.run]) PROVE o = m.run /\ cc[o].n = m.n /\ cc[o].req = m.req
    OBVIOUS
  <2>2. cc[m.run].at = "waiting" /\ cc[m.run].n = m.n /\ cc[m.run].req = m.req
    BY <1>0, <1>5, <2>1 DEF FlightOK
  <2>3. o = m.run
    BY <1>a, <1>1, <2>2 DEF Channels
  <2> QED BY <2>2, <2>3
<1>16. \A x \in Flight' : x.run \in Runs /\ (Clean(TxOf[x.run]) => x.run # o \/ cc[o].at # "waiting")
  <2>1. SUFFICES ASSUME NEW x \in Flight', Clean(TxOf[x.run]), x.run = o, cc[o].at = "waiting"
                 PROVE  FALSE
    BY <1>6, FlightType
  <2>2. x \in Flight /\ x # Answering(m) /\ x.run \in Runs
    BY <1>6, FlightType
  <2>3. Clean(TxOf[m.run]) /\ x.run = Answering(m).run
    BY <1>2, <1>5, <1>15, <2>1, <2>2, LoadFacts
  <2> QED BY <1>5, <2>2, <2>3 DEF FlightOK
<1>17. FlightOK' /\ Settled'
  BY <1>0, <1>3, <1>6, <1>7, <1>16, FlightShrinks, FlightType, SettledStays
<1>18. Acks'
  <2>1. ServedAtHome'
    BY <1>0, Steady, TypeFacts DEF Acks, ServedAtHome
  <2>2. \A p \in Runs, n \in Nat : Written(p, n) => Written(p, n)'
    BY <1>0, Steady DEF Written
  <2>3. AnsweredWritten'
    BY <1>0, <2>2, Steady, TypeFacts DEF Acks, AnsweredWritten
  <2>4. AckedWritten'
    <3>1. SUFFICES ASSUME NEW p \in Runs, NEW n \in cc'[p].acked, Clean(TxOf[p])
                   PROVE  <<p, n>> \in applied[p] \/ Abandoned(p)
      BY <1>0, Steady, TypeFacts DEF AckedWritten
    <3>2. CASE n \in cc[p].acked
      BY <3>1, <3>2 DEF Acks, AckedWritten
    <3>3. CASE /\ p = o /\ n = cc[o].n /\ m.type = "RESPONSE" /\ cc[o].req \in Writes
      <4>1. Clean(TxOf[m.run]) /\ p = m.run /\ n = m.n /\ m.req \in Writes
        BY <1>2, <1>15, <3>1, <3>3, LoadFacts
      <4>2. Written(m.run, m.n)
        BY <3>3, <4>1 DEF Acks, AnsweredWritten
      <4> QED BY <1>0, <4>1, <4>2 DEF Written
    <3>4. CASE p # o \/ cc[o].at # "waiting"
      BY <1>7, <3>1, <3>2, <3>4
    <3>5. CASE p = o /\ cc[o].at = "waiting"
      BY <1>7, <3>1, <3>2, <3>3, <3>5, LoadFacts
    <3> QED BY <3>4, <3>5
  <2> QED BY <2>1, <2>3, <2>4 DEF Acks
<1> QED BY <1>4, <1>8, <1>10, <1>12, <1>13, <1>14, <1>17, <1>18

\* The goroutine of a run is done: its final message is the only one, and an ERROR can end
\* only the wait of a call with nothing in flight that counts.
LEMMA FinishStep ==
    ASSUME StreamInv, load' = load, NEW r \in Runs, NEW type \in Final,
           Finish(r, type)
    PROVE  StreamInv'
<1> USE DEF StreamInv
<1> DEFINE k == Msg(type, r, 0)
           ended == [cc EXCEPT ![r].at = "ended", ![r].more = FALSE]
<1>0. /\ UNCHANGED <<loop, work, txCtxs, notifier, exec, result, applied, responseChannel, toShim>>
      /\ shim = "select" /\ cc[r].at = "running" /\ toPeer' = toPeer \cup {k}
      /\ failed' = IF type = "ERROR" THEN failed \cup {r} ELSE failed
      /\ IF type = "ERROR" THEN sendChannel(k, ended) ELSE cc' = ended /\ UNCHANGED shim
  BY DEF Finish, context, ledger
<1>1. k \in Message /\ k.type = type /\ k.run = r /\ k.req = Nil
  BY MsgFields, SMT
<1>2. /\ ended \in CCs /\ ended[r].at = "ended" /\ \A p \in Runs \ {r} : ended[p] = cc[p]
      /\ \A p \in Runs : /\ ended[p].n = cc[p].n /\ ended[p].req = cc[p].req
                         /\ ended[p].acked = cc[p].acked
  <2>1. cc \in CCs /\ cc[r] \in CCRecord
    BY DEF TypeOK, CCs, CCRecord
  <2>2. ended = [cc EXCEPT ![r] = [cc[r] EXCEPT !.at = "ended", !.more = FALSE]]
    BY <2>1 DEF CCs
  <2> HIDE DEF ended
  <2> QED BY <2>1, <2>2, CCUpdates DEF CCs
<1>3. PICK o : o = responseChannel[TxOf[r]]
  OBVIOUS
<1>4. o # r /\ (o # Nil => o \in Runs /\ TxOf[o] = TxOf[r])
  <2>1. responseChannel \in [Txids -> Runs \cup {Nil}] /\ TxOf[r] \in Txids
    BY TypeFacts DEF TypeOK
  <2>2. o # r
    BY <1>0, <1>3 DEF Channels
  <2>3. o \in Runs \cup {Nil}
    BY <1>3, <2>1
  <2>4. responseChannel[TxOf[r]] # Nil => TxOf[responseChannel[TxOf[r]]] = TxOf[r]
    BY <2>1 DEF Channels
  <2> QED BY <1>3, <2>2, <2>3, <2>4
<1> HIDE DEF k, ended
<1>5. /\ cc' \in CCs /\ shim' \in {"select", "stuck"} /\ cc'[r].at = "ended"
      /\ \A p \in Runs : cc'[p].n = cc[p].n /\ cc'[p].req = cc[p].req
      /\ \A p \in Runs \ {r} : \/ cc'[p] = cc[p]
                               \/ /\ p = o /\ cc[p].at = "waiting" /\ cc'[p].at = "received"
                                  /\ r \in failed'
      /\ \A p \in Runs : \A n \in cc'[p].acked : n \in cc[p].acked
  <2>1. CASE type # "ERROR"
    BY <1>0, <1>2, <2>1
  <2>2. CASE type = "ERROR"
    <3>1. sendChannel(k, ended) /\ o = responseChannel[TxOf[k.run]] /\ k.type # "RESPONSE"
      BY <1>0, <1>1, <1>3, <2>2
    <3>2. o # Nil => cc[o].at = ended[o].at /\ cc[o].n = ended[o].n /\ cc[o].req = ended[o].req
      BY <1>2, <1>4
    <3>3. /\ o \in Runs \cup {Nil}
          /\ \A p \in Runs : p # o \/ cc[o].at # "waiting" => cc'[p] = ended[p]
          /\ o # Nil /\ cc[o].at = "waiting" =>
                /\ cc'[o].at = "received" /\ cc'[o].n = cc[o].n /\ cc'[o].req = cc[o].req
                /\ \A n \in cc'[o].acked : n \in ended[o].acked
                      \/ (n = cc[o].n /\ k.type = "RESPONSE" /\ cc[o].req \in Writes)
          /\ shim' = shim \/ shim' = "stuck"
          /\ cc' \in CCs
      <4>1. TypeOK
        OBVIOUS
      <4>2. Delivery(k, ended, o)
        BY <1>1, <1>2, <3>1, <3>2, <4>1, Delivered
      <4> QED BY <4>2 DEF Delivery
    <3>4. CASE o = Nil \/ cc[o].at # "waiting"
      BY <1>0, <1>2, <3>3, <3>4, LoadFacts, SMT
    <3>5. CASE o # Nil /\ cc[o].at = "waiting"
      <4>1. /\ cc' \in CCs /\ shim' \in {"select", "stuck"} /\ o \in Runs \ {r} /\ r \in failed'
        BY <1>0, <1>4, <2>2, <3>3, <3>5
      <4>2. \A p \in Runs \ {o} : cc'[p] = ended[p]
        BY <3>3
      <4>3. /\ cc'[o].at = "received" /\ cc'[o].n = cc[o].n /\ cc'[o].req = cc[o].req
            /\ \A n \in cc'[o].acked : n \in cc[o].acked
        BY <1>2, <3>1, <3>3, <3>5, <4>1
      <4> QED BY <1>2, <3>5, <4>1, <4>2, <4>3
    <3> QED BY <3>4, <3>5
  <2> QED BY <2>1, <2>2
<1>6. TypeOK'
  BY <1>0, <1>1, <1>5 DEF TypeOK, CCs, CCRecord
<1>7. /\ \A p \in Runs : (Abandoned(p) <=> Abandoned(p)') /\ (GivenUp(p) <=> GivenUp(p)')
      /\ TxOf' = TxOf /\ failed \subseteq failed'
  BY <1>0 DEF Abandoned, GivenUp, TxOf
<1>8. Contexts'
  BY <1>0, ContextsStay
<1>9. Channels'
  <2>1. \A p \in Runs :
          cc'[p].at \in {"waiting", "received"} <=> cc[p].at \in {"waiting", "received"}
    BY <1>0, <1>5
  <2> QED BY <1>0, <2>1, ChannelsStay
<1>10. StreamEnd'
  BY <1>0, <1>5 DEF StreamEnd
<1>11. Going(r) /\ ~Ending(r) /\ ~Starting(r)
  BY <1>0 DEF Going, Active, Lanes
<1>12. \A p \in Runs : /\ Starting(p)' <=> Starting(p)
                       /\ Ending(p)' <=> Ending(p) \/ p = r
                       /\ Going(p)' => Going(p)
  <2>1. \A p \in Runs : Ending(p)' <=> Ending(p) \/ p = r
    BY <1>0, <1>1 DEF Ending
  <2> QED BY <1>0, <1>5, <1>11, <2>1 DEF Starting, Active, Going
<1>13. Lanes'
  <2>1. exec[r] \notin {"idle", "trigger"}
    BY <1>11, GoingOn
  <2>2. (\A p \in Runs :
           /\ Going(p) => exec[p] = "wait" \/ (exec[p] \in {"delete"} \cup Ended /\ GivenUp(p))
           /\ exec[p] \in {"idle", "trigger"} => cc[p].at = "none" \/ shim = "ended"
           /\ Starting(p) => cc[p].at = "none"
           /\ Ending(p) => cc[p].at = "ended")'
    BY <1>0, <1>5, <1>7, <1>11, <1>12, <2>1 DEF Lanes
  <2> QED BY <1>0, <2>2 DEF Lanes
<1>14. Finals'
  <2>0. \A p \in Runs : cc[p].at = "ended" => cc'[p].at = "ended" /\ (Ending(p)' => Ending(p))
    BY <1>0, <1>5, <1>12
  <2>1. FinalsSent'
    <3>1. \A m \in toPeer : m.run \in Runs /\ (m.type \in Final => m.run # r)
      BY <1>11, TypeFacts DEF Ending
    <3> QED BY <1>0, <1>1, <3>1 DEF Finals, FinalsSent
  <2>2. FinalHeld'
    BY <1>0, <2>0, TypeFacts DEF Finals, FinalHeld, IsNotice
  <2>3. FinalsNotified'
    BY <1>0, <2>0, TypeFacts DEF Finals, FinalsNotified, IsNotice
  <2>4. FinalsTaken'
    BY <1>0, <2>0, TypeFacts DEF Finals, FinalsTaken
  <2> QED BY <2>1, <2>2, <2>3, <2>4 DEF Finals
<1>15. Meetings'
  BY <1>0, <1>7, MeetingsStay
<1>16. Flight' = Flight
  <2>1. type \notin Requests
    BY DEF Final, Requests, Direct, Busy, Writes
  <2> QED BY <1>0, <1>1, <2>1 DEF Flight
<1>17. \A x \in Flight : Clean(TxOf[x.run]) /\ Clean(TxOf[x.run])' => cc'[x.run] = cc[x.run]
  <2>1. SUFFICES ASSUME NEW x \in Flight, Clean(TxOf[x.run]), Clean(TxOf[x.run])',
                        cc'[x.run] # cc[x.run]
                 PROVE  FALSE
    OBVIOUS
  <2>2. x.run \in Runs /\ x.run # r /\ cc[x.run].at = "waiting"
    BY <1>0, <2>1, FlightType DEF FlightOK
  <2>3. TxOf[x.run] = TxOf[r] /\ r \in failed' /\ Going(x.run)
    BY <1>4, <1>5, <2>1, <2>2, LoadFacts DEF Going, Active
  <2>4. ~Torn(TxOf[r])
    <3>1. ~Torn(TxOf[x.run])'
      BY <1>7, <2>1, <2>3 DEF Clean
    <3> QED BY <1>7, <2>3, <3>1 DEF Torn
  <2>5. txCtxs[TxOf[r]] = r /\ txCtxs[TxOf[r]] = x.run
    BY <1>11, <2>2, <2>3, <2>4, GoingOn DEF Torn
  <2> QED BY <2>2, <2>5
<1>18. FlightOK' /\ Settled'
  BY <1>0, <1>5, <1>7, <1>16, <1>17, FlightRests, SettledStays
<1>19. Acks'
  <2>0. \A t \in Txids : Clean(t)' => Clean(t)
    BY <1>0, <1>7, Growing
  <2>1. ServedAtHome'
    BY <1>0, <1>5, <1>7, <2>0, TypeFacts DEF Acks, ServedAtHome
  <2>2. \A p \in Runs, n \in Nat : Written(p, n) => Written(p, n)'
    BY <1>0, <1>7 DEF Written
  <2>3. AnsweredWritten'
    BY <1>0, <1>7, <2>0, <2>2, TypeFacts DEF Acks, AnsweredWritten, HasWritten
  <2>4. AckedWritten'
    BY <1>0, <1>5, <1>7, <2>0, TypeFacts DEF Acks, AckedWritten
  <2> QED BY <2>1, <2>3, <2>4 DEF Acks
<1> QED BY <1>6, <1>8, <1>9, <1>10, <1>13, <1>14, <1>15, <1>18, <1>19

\* The stream ends, and what it carried is lost.
LEMMA EndStep ==
    ASSUME StreamInv, load' = load, StreamEnds
    PROVE  StreamInv'
<1> USE DEF StreamInv
<1>0. /\ UNCHANGED <<work, txCtxs, notifier, exec, result, applied, failed>>
      /\ loop' = [Idle EXCEPT !.at = "ended"] /\ shim' = "ended" /\ toShim' = {} /\ toPeer' = {}
      /\ cc' = [r \in Runs |-> [cc[r] EXCEPT !.at = "ended", !.more = FALSE]]
      /\ responseChannel' = [t \in Txids |-> Nil]
  BY DEF StreamEnds, context, ledger
<1>1. loop'.at = "ended" /\ loop'.msg = Nil /\ loop' = [at |-> "ended", msg |-> Nil, send |-> FALSE]
  BY <1>0 DEF Idle
<1>2. /\ \A p \in Runs : cc'[p].at = "ended" /\ cc'[p].acked = cc[p].acked
      /\ cc' \in CCs
  <2>1. \A p \in Runs : cc[p] \in CCRecord
    BY DEF TypeOK, CCRecord
  <2> QED BY <1>0, <2>1, CCUpdates DEF CCs
<1>3. TypeOK'
  <2>1. /\ loop' \in [at : {"select", "notify", "ended", "panic"}, msg : Message \cup {Nil},
                      send : BOOLEAN]
        /\ responseChannel' \in [Txids -> Runs \cup {Nil}]
    BY <1>0, <1>1
  <2> QED BY <2>1, <1>0, <1>1, <1>2 DEF TypeOK, CCs, CCRecord
<1>4. \A p \in Runs : Abandoned(p) => Abandoned(p)'
  BY <1>0, Steady
<1>5. Contexts'
  BY <1>0, ContextsStay
<1>6. Channels'
  <2>1. \A t \in Txids : responseChannel'[t] = Nil
    BY <1>0
  <2> QED BY <1>0, <1>2, <2>1, Steady, LoadFacts, ZenonT(40) DEF Channels
<1>6a. StreamEnd'
  BY <1>0, <1>1, <1>2 DEF StreamEnd
<1>7. \A p \in Runs : ~Starting(p)' /\ ~Ending(p)' /\ ~Going(p)'
  BY <1>0, <1>2 DEF Starting, Ending, Active, Going
<1>8. Lanes'
  BY <1>0, <1>7 DEF Lanes
<1>9. Finals'
  BY <1>0, <1>1, <1>2, <1>7, FinalsStay
<1>10. Meetings' /\ Acks'
  BY <1>0, <1>1, <1>2, <1>4, MeetingsStay, AcksStay
<1>11. Flight' \subseteq Flight
  BY <1>0, <1>1 DEF Flight
<1>12. FlightOK' /\ Settled'
  BY <1>0, <1>4, <1>11, FlightShrinks, SettledStays
<1> QED BY <1>3, <1>5, <1>6, <1>6a, <1>8, <1>9, <1>10, <1>12

-----------------------------------------------------------------------------
\* Nothing has been sent, and nobody waits.
LEMMA InitStreamInv == Init => StreamInv
<1> SUFFICES ASSUME Init PROVE StreamInv
  OBVIOUS
<1> USE DEF Init
<1>1. /\ loop.at = "select" /\ loop.msg = Nil
      /\ loop \in [at : {"select", "notify", "ended", "panic"}, msg : Message \cup {Nil},
                   send : BOOLEAN]
  BY DEF Idle
<1>2. \A r \in Runs : exec[r] = "idle" /\ result[r] = Nil /\ notifier[r] = {} /\ applied[r] = {}
                      /\ cc[r].at = "none" /\ cc[r].acked = {}
  OBVIOUS
<1>3. TypeOK
  BY <1>1, StreamAssumption DEF TypeOK
<1>4. Flight = {} /\ \A r \in Runs : ~Going(r) /\ ~Starting(r) /\ ~Ending(r)
  BY <1>1, <1>2 DEF Flight, Going, Starting, Active, Ending
<1>5. (\A t \in Txids : txCtxs[t] = Nil /\ responseChannel[t] = Nil) /\ Nil \notin Runs
  BY <1>3, LoadFacts
<1>6. Contexts /\ Channels
  BY <1>2, <1>3, <1>5, LoadFacts DEF Contexts, Channels
<1>7. StreamEnd /\ Lanes /\ Finals
  BY <1>1, <1>2, <1>4 DEF StreamEnd, Lanes, Finals, FinalsSent, FinalHeld, FinalsNotified, FinalsTaken
<1>8. Meetings
  BY <1>1, <1>2 DEF Meetings, MeetsNotified, MeetsResult, MeetsApplied, MeetsWork, MeetsHeld
<1>9. FlightOK /\ Settled /\ Acks
  BY <1>2, <1>4 DEF FlightOK, Settled, Acks, ServedAtHome, AnsweredWritten, AckedWritten
<1> QED BY <1>3, <1>6, <1>7, <1>8, <1>9 DEF StreamInv

\* Every step of the two sides of the stream keeps the invariant.
LEMMA NextStreamInv == StreamInv /\ [Next]_vars => StreamInv'
<1> SUFFICES ASSUME StreamInv, [Next]_vars PROVE StreamInv'
  OBVIOUS
<1>1. CASE UNCHANGED vars
  <2>1. UNCHANGED <<load, loop, work, txCtxs, notifier, exec, result, applied, cc, responseChannel,
                    shim, failed, toShim, toPeer>>
    BY <1>1 DEF vars, context, ledger, process
  <2>2. /\ TypeOK' /\ Contexts' /\ Channels' /\ StreamEnd'
    BY <2>1, TypeStays, ContextsStay, ChannelsStay DEF StreamInv, StreamEnd
  <2>3. \A p \in Runs : /\ Starting(p)' <=> Starting(p)
                        /\ Ending(p)' <=> Ending(p)
                        /\ Going(p)' <=> Going(p)
                        /\ Abandoned(p)' <=> Abandoned(p)
    BY <2>1, Steady DEF Starting, Ending, Active, Going
  <2>4. Flight' = Flight
    BY <2>1 DEF Flight
  <2>5. Lanes' /\ Finals' /\ Meetings' /\ Acks'
    <3>1. Lanes'
      BY <2>1, <2>3, Steady DEF StreamInv, Lanes
    <3> QED BY <2>1, <2>3, <3>1, FinalsStay, MeetingsStay, AcksStay DEF StreamInv
  <2>6. FlightOK' /\ Settled'
    BY <2>1, <2>3, <2>4, FlightShrinks, SettledStays DEF StreamInv
  <2> QED BY <2>2, <2>5, <2>6 DEF StreamInv
<1>2. CASE Next
  <2>0. load' = load
    BY <1>2 DEF Next
  <2>1. ASSUME NEW r \in Runs, Executor(r) PROVE StreamInv'
    BY <2>0, <2>1, CreateStep, SendStep, AnsweredStep, DeleteStep, DoneStep DEF Executor
  <2>2. ASSUME NEW w \in work, Serve(w) PROVE StreamInv'
    BY <2>0, <2>2, CreateEntryStep, PanicStep, ServeStep, DeleteEntryStep, TriggerStep DEF Serve
  <2>2a. ASSUME NEW w \in work, InvokeReturns(w) \/ CalleePanics(w) PROVE StreamInv'
    BY <2>0, <2>2a, PanicStep, ServeStep
  <2>3. ASSUME NEW r \in Runs, Chaincode(r) PROVE StreamInv'
    <3>1. ASSUME NEW type \in Requests, stubCall(r, type) PROVE StreamInv'
      BY <2>0, <3>1, CallStep
    <3>2. CASE handleInit(r) \/ handleTransaction(r)
      <4>0. load.ends \in [Runs -> SUBSET Final]
        BY StreamAssumption DEF StreamInv, TypeOK, Workload, Final
      <4>1. PICK type \in Final : Finish(r, type)
        BY <3>2, <4>0 DEF handleInit, handleTransaction
      <4> QED BY <2>0, <4>1, FinishStep
    <3>3. CASE \/ GetState(r) \/ PutState(r) \/ DelState(r)
               \/ GetStateByRange(r) \/ GetQueryResult(r) \/ GetHistoryForKey(r)
               \/ fetchNextQueryResult(r) \/ CloseIterator(r) \/ stubInvokeChaincode(r)
      <4>1. {"GET_STATE", "PUT_STATE", "DEL_STATE", "RANGE", "QUERY", "HISTORY", "NEXT", "CLOSE",
             "INVOKE"} \subseteq Requests
        BY DEF Requests, Direct, Busy, Writes
      <4> QED BY <3>1, <3>3, <4>1 DEF GetState, PutState, DelState, GetStateByRange, GetQueryResult,
                  GetHistoryForKey, fetchNextQueryResult, CloseIterator, stubInvokeChaincode
    <3> QED BY <2>3, <3>2, <3>3 DEF Chaincode
  <2>4. CASE \E m \in toPeer : HandleMessage(m)
    BY <2>0, <2>4, HandleStep
  <2>5. CASE NotifyResumes
    BY <2>0, <2>5, ResumeStep
  <2>6. CASE \E m \in toShim : shimStart(m)
    BY <2>0, <2>6, StartStep
  <2>7. CASE \E m \in toShim : shimReceive(m)
    BY <2>0, <2>7, ReceiveStep
  <2>8. CASE \E r \in Runs : deleteChannel(r)
    BY <2>0, <2>8, DeleteChannelStep
  <2>9. CASE StreamEnds
    BY <2>0, <2>9, EndStep
  <2> QED BY <1>2, <2>1, <2>2, <2>2a, <2>3, <2>4, <2>5, <2>6, <2>7, <2>8, <2>9 DEF Next
<1> QED BY <1>1, <1>2

\* The invariant of the handler, the goroutines that serve requests and the shim.
THEOREM StreamInvariant == Spec => []StreamInv
BY InitStreamInv, NextStreamInv, PTL DEF Spec

\* An execution is answered by its own chaincode run and its simulator holds the writes of
\* that run, unless an execution of the same transaction was abandoned before: notify and
\* isValidTxSim find the context by transaction id.
THEOREM AlwaysAnsweredByOwnRun == Spec => []AnsweredByOwnRun
<1>1. StreamInv => AnsweredByOwnRun
  <2> SUFFICES ASSUME StreamInv, NEW r \in Runs,
                      NEW q \in {e[1] : e \in applied[r]} \cup
                                (IF result[r] = Nil THEN {} ELSE {result[r].run}), q # r
               PROVE  TxOf[q] = TxOf[r] /\ Disturbed(r)
    BY DEF AnsweredByOwnRun
  <2>1. Meets(q, r)
    BY DEF StreamInv, Meetings, MeetsApplied, MeetsResult
  <2> QED BY <2>1 DEF Meets
<1> QED BY <1>1, StreamInvariant, PTL

\* A write whose stub call returned without an error is in the simulator whose results the
\* endorser signs, when Execute returns the run's COMPLETED; but for a transaction with an
\* abandoned execution and a run that ended with ERROR.
THEOREM AckedWritesAlwaysApplied == Spec => []AckedWritesApplied
<1>1. StreamInv => AckedWritesApplied
  <2> SUFFICES ASSUME StreamInv, NEW r \in Runs, result[r] # Nil, result[r].type = "COMPLETED",
                      result[r].run = r,
                      ~(Disturbed(r) /\ \E q \in Runs : TxOf[q] = TxOf[r] /\ q \in failed),
                      NEW n \in cc[r].acked
               PROVE  <<r, n>> \in applied[r]
    BY DEF AckedWritesApplied
  <2>1. ~Abandoned(r)
    BY DEF Abandoned
  <2>2. Torn(TxOf[r]) => Disturbed(r)
    BY <2>1 DEF Torn, Disturbed
  <2>3. Clean(TxOf[r])
    BY <2>2 DEF Clean, StreamInv, TypeOK
  <2> QED BY <2>1, <2>3 DEF StreamInv, Acks, AckedWritten
<1> QED BY <1>1, StreamInvariant, PTL

\* notify keeps the handler locked for a full notifier only when one of the two messages is
\* the ERROR of a failed write, or of another run after an abandoned execution.
THEOREM NotifyAlwaysWaitsAfterError == Spec => []NotifyWaitsOnlyAfterError
<1>1. StreamInv => NotifyWaitsOnlyAfterError
  <2> SUFFICES ASSUME StreamInv, loop.at = "notify", NEW c, c = txCtxs[TxOf[loop.msg.run]],
                      notifier[c] # {}
               PROVE  \E m \in notifier[c] \cup {loop.msg} :
                         \/ m.run = c /\ m.type = "ERROR" /\ m.req \in Busy
                         \/ m.run # c /\ Disturbed(c)
    BY DEF NotifyWaitsOnlyAfterError
  <2>1. c \in Runs /\ Meets(loop.msg.run, c)
    BY TypeFacts DEF StreamInv, Meetings, MeetsHeld
  <2>2. PICK m : m \in notifier[c]
    OBVIOUS
  <2>3. Meets(m.run, c) /\ IsNotice(m) /\ IsNotice(loop.msg)
    BY <2>1, <2>2 DEF StreamInv, Meetings, MeetsNotified, Finals, FinalsNotified, FinalHeld
  <2>4. m.req = Nil /\ loop.msg.req = Nil => m.run # loop.msg.run
    BY <2>1, <2>2 DEF StreamInv, Finals, FinalsNotified
  <2> QED BY <2>1, <2>2, <2>3, <2>4 DEF Meets, IsNotice
<1> QED BY <1>1, StreamInvariant, PTL
=============================================================================
