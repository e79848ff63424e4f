------------------------------- MODULE Remote -------------------------------
(***************************************************************************)
(* Remote execution (src/remote/remote.cc, include/remote/remote.hpp).     *)
(*                                                                         *)
(* A device has a main connection and connections to announced hosts.     *)
(* CheckExpire drops a connection without heartbeat for two periods and    *)
(* fails the requests registered with it.  A call sends one request to the *)
(* main connection or one to each connection; a request is published at    *)
(* most three times until it is acknowledged, and a synchronous one then   *)
(* waits for its result.  Messages are lost, late or repeated: nothing     *)
(* forces one to arrive, and one that was sent may arrive any number of    *)
(* times.  One step is one critical section of mCallback.                  *)
(*                                                                         *)
(* A null connection that is dereferenced and an exception that leaves a   *)
(* task are the same to the model: crashed, and nothing runs any more.     *)
(***************************************************************************)
EXTENDS Naturals, FiniteSets

CONSTANTS
  Hosts,        \* cloud and fog nodes that may be announced
  Calls,        \* remote calls, to the other side or from it
  Kinds,        \* the kinds of call there are, of AllKinds
  Attempts,     \* 3 in the code: how often a request is published
  MaxAnnounce   \* bound: number of PUT-CF-INFO announcements

AllKinds == {"async", "asyncEach", "sync", "syncEach", "inbound"}
Main     == "main"
Conns    == Hosts \cup {Main}
Reqs     == Calls \X Conns

ASSUME RemoteAssumption ==
  /\ IsFiniteSet(Hosts) /\ Main \notin Hosts /\ Kinds \subseteq AllKinds
  /\ Attempts \in Nat \ {0} /\ MaxAnnounce \in Nat

VARIABLES
  up,          \* connections that exist; isValidConnection
  registered,  \* isRegistered
  expired,     \* isExpired
  pending,     \* rExecPending of each connection
  ackLookup, rLookup,   \* requests with an entry in the two maps
  ackVal, resVal,       \* what their promises were set to
  pc, tries,   \* the task of each request, and retryNum
  sent,        \* requests that were published
  call,        \* the state the requests of a call share
  failed,      \* requests whose task counted a failure or gave up
  cached,      \* announcements (PUT-CF-INFO) in the cache
  known,       \* hosts announced and not taken back
  clearThrew,  \* Clear met a promise that was set already
  stopped, crashed

conns == <<up, registered, expired, pending>>
maps  == <<ackLookup, rLookup, ackVal, resVal>>
tasks == <<pc, tries, sent, call, failed>>
world == <<cached, known>>
flags == <<clearThrew, stopped, crashed>>
vars  == <<conns, maps, tasks, world, flags>>

NoCall == [kind |-> "none", todo |-> {}, total |-> 0, fails |-> 0, once |-> FALSE,
           good |-> 0, bad |-> 0, answer |-> "none"]

Running   == ~stopped /\ ~crashed
Usable(c) == c \in up /\ registered[c]
K(r)      == call[r[1]]
IsSync(k) == k.kind \in {"sync", "syncEach"}

Init ==
  /\ up = {Main}
  /\ registered = [c \in Conns |-> FALSE] /\ expired = [c \in Conns |-> FALSE]
  /\ pending = [c \in Conns |-> {}]
  /\ ackLookup = {} /\ rLookup = {}
  /\ ackVal = [r \in Reqs |-> "none"] /\ resVal = [r \in Reqs |-> "none"]
  /\ pc = [r \in Reqs |-> "none"] /\ tries = [r \in Reqs |-> 0] /\ sent = {}
  /\ call = [k \in Calls |-> NoCall] /\ failed = {}
  /\ cached = 0 /\ known = {}
  /\ clearThrew = FALSE /\ stopped = FALSE /\ crashed = FALSE

-----------------------------------------------------------------------------
(* Connections.                                                            *)

\* CloudFogInfo::Clear of the connections C: every registered request that is
\* still in a map is set to false; the entries stay.  A set promise would throw.
Clear(C) ==
  LET ids == UNION {pending[c] : c \in C}
  IN  /\ ackVal' = [r \in Reqs |-> IF r \in ids \cap ackLookup THEN "false" ELSE ackVal[r]]
      /\ resVal' = [r \in Reqs |-> IF r \in ids \cap rLookup THEN "false" ELSE resVal[r]]
      /\ clearThrew' = (clearThrew \/ \E r \in ids : \/ r \in ackLookup /\ ackVal[r] # "none"
                                                     \/ r \in rLookup /\ resVal[r] # "none")
      /\ UNCHANGED <<ackLookup, rLookup>>

\* the object of a dropped connection is gone, with its flags and its set
Drop(C, born) ==
  /\ up' = (up \ C) \cup born
  /\ registered' = [c \in Conns |-> registered[c] /\ c \notin C]
  /\ pending' = [c \in Conns |-> IF c \in C THEN {} ELSE pending[c]]

\* Mutation: the main connection is not made again.
CheckExpireNotReborn ==
  LET dead == {c \in up : expired[c]} IN
  /\ Running
  /\ Clear(dead)
  /\ Drop(dead, {})
  /\ expired' = [c \in Conns |-> c \in up \ dead]
  /\ UNCHANGED <<tasks, cached, known, stopped, crashed>>

\* One round of CheckExpire, every ten seconds
CheckExpire ==
  LET dead == {c \in up : expired[c]}
      born == {Main} \ up
  IN
  /\ Running
  /\ Clear(dead)
  /\ Drop(dead, born)
  /\ expired' = [c \in Conns |-> c \in up \ dead]
  /\ UNCHANGED <<tasks, cached, known, stopped, crashed>>

\* CancelAllRExecRequests, from ShutDown (a KILL message or the program)
ShutDown ==
  /\ Running
  /\ stopped' = TRUE
  /\ Clear(up)
  /\ Drop(up, {})
  /\ UNCHANGED <<expired, tasks, cached, known, crashed>>

\* PING: the connection is alive (REGISTER, PONG and GET-CF-INFO are published)
Ping(c) ==
  /\ Running /\ c \in up
  /\ expired' = [expired EXCEPT ![c] = FALSE]
  /\ UNCHANGED <<up, registered, pending, maps, tasks, world, flags>>

RegisterAck(c) ==
  /\ Running /\ c \in up
  /\ registered' = [registered EXCEPT ![c] = TRUE]
  /\ expired' = [expired EXCEPT ![c] = FALSE]
  /\ UNCHANGED <<up, pending, maps, tasks, world, flags>>

\* PUT-CF-INFO ADD with a new actid; one that is in the cache is ignored
PutAdd(h) ==
  /\ Running /\ up # {} /\ cached < MaxAnnounce
  /\ cached' = cached + 1 /\ known' = known \cup {h}
  /\ up' = up \cup {h}
  /\ registered' = [registered EXCEPT ![h] = TRUE]
  /\ expired' = [expired EXCEPT ![h] = @ /\ h \in up]
  /\ UNCHANGED <<pending, maps, tasks, flags>>

\* PUT-CF-INFO DEL of a host announced before: one that is not connected any
\* more is a null pointer
PutDel(h) ==
  /\ Running /\ up # {} /\ cached < MaxAnnounce /\ h \in known
  /\ cached' = cached + 1 /\ known' = known \ {h}
  /\ crashed' = (h \notin up)
  /\ Clear(up \cap {h})
  /\ Drop(up \cap {h}, {})
  /\ UNCHANGED <<expired, tasks, stopped>>

-----------------------------------------------------------------------------
(* Messages about requests.                                                *)

\* Mutation: the entry stays in the map.
AckArrivesKeeps(r) ==
  /\ Running /\ r \in sent /\ r[2] \in up
  /\ r \in ackLookup /\ ackVal[r] = "none"
  /\ ackVal' = [ackVal EXCEPT ![r] = "true"]
  /\ UNCHANGED <<ackLookup, conns, rLookup, resVal, tasks, world, flags>>

\* REXEC-ACK: an entry that Clear has set already throws, and is left alone
AckArrives(r) ==
  /\ Running /\ r \in sent /\ r[2] \in up
  /\ r \in ackLookup /\ ackVal[r] = "none"
  /\ ackVal' = [ackVal EXCEPT ![r] = "true"]
  /\ ackLookup' = ackLookup \ {r}
  /\ UNCHANGED <<conns, rLookup, resVal, tasks, world, flags>>

\* REXEC-RES: the id leaves the set of the connection the result came from
ResArrives(r) ==
  /\ Running /\ r \in sent /\ r[2] \in up
  /\ r \in rLookup /\ resVal[r] = "none"
  /\ resVal' = [resVal EXCEPT ![r] = "true"]
  /\ rLookup' = rLookup \ {r}
  /\ pending' = [pending EXCEPT ![r[2]] = @ \ {r}]
  /\ UNCHANGED <<up, registered, expired, ackLookup, ackVal, tasks, world, flags>>

-----------------------------------------------------------------------------
(* The end of a request, as the state "k" of its call sees it.             *)

\* Mutation: one failure too few.
LastFailsEarly(k) == k.fails + 1 >= k.total

LastFails(k) == k.fails = k.total

\* failureCallback or the exception for the caller, once all have failed
Failure(k) ==
  CASE k.kind = "async" -> [k EXCEPT !.bad = @ + 1]
    [] k.kind = "sync" -> [k EXCEPT !.answer = "exception"]
    [] k.kind = "asyncEach" ->
         [k EXCEPT !.fails = @ + 1, !.bad = IF LastFails(k) THEN @ + 1 ELSE @]
    [] k.kind = "syncEach" ->
         [k EXCEPT !.fails = @ + 1,
                   !.answer = IF LastFails(k) /\ @ = "none" THEN "exception" ELSE @]

\* prCommon->set_value throws when the caller has an answer
Throws(k) == k.kind = "syncEach" /\ LastFails(k) /\ k.answer # "none"

\* inside the try block the exception is caught and counted as another failure
FailureCaught(k) == IF Throws(k) THEN [k EXCEPT !.fails = @ + 2] ELSE Failure(k)

\* Mutation: onceFlag is not looked at.
SuccessTwice(k) ==
  CASE k.kind \in {"async", "asyncEach"} -> [k EXCEPT !.good = @ + 1]
    [] k.kind = "sync" -> [k EXCEPT !.answer = "value"]
    [] k.kind = "syncEach" -> [k EXCEPT !.answer = "value", !.once = TRUE]

\* successCallback or the value, once per call
Success(k) ==
  CASE k.kind = "async" -> [k EXCEPT !.good = @ + 1]
    [] k.kind = "sync" -> [k EXCEPT !.answer = "value"]
    [] k.kind = "asyncEach" -> IF k.once THEN k ELSE [k EXCEPT !.good = @ + 1, !.once = TRUE]
    [] k.kind = "syncEach" ->
         IF k.once THEN k
         ELSE IF k.answer = "none" THEN [k EXCEPT !.answer = "value", !.once = TRUE]
                                   ELSE FailureCaught(k)

\* the request r is done with the new state k of its call
End(r, k) ==
  /\ pc' = [pc EXCEPT ![r] = "end"]
  /\ call' = [call EXCEPT ![r[1]] = k]

Fail(r, k) == End(r, k) /\ failed' = failed \cup {r}

-----------------------------------------------------------------------------
(* Calls.                                                                  *)

\* The caller looks at the connections there are.
Begin(k, kind) ==
  LET each == kind \in {"asyncEach", "syncEach"}
      targets == IF each THEN {Main} \cup (up \cap Hosts) ELSE {Main}
  IN
  /\ Running /\ kind \in Kinds \ {"inbound"} /\ call[k] = NoCall
  /\ call' = [call EXCEPT ![k] = [NoCall EXCEPT !.kind = kind, !.todo = targets,
                                                !.total = Cardinality(targets \ {Main})]]
  /\ UNCHANGED <<conns, maps, pc, tries, sent, failed, world, flags>>

\* CreateRExecAsyncWithCallback, and NT for a host or, after the hosts, for main
StartAsync(r) ==
  LET k == [K(r) EXCEPT !.todo = @ \ {r[2]}] IN
  /\ Running /\ ~IsSync(k) /\ r[2] \in K(r).todo
  /\ r[2] = Main => K(r).todo = {Main}
  /\ \/ ~Usable(r[2]) /\ Fail(r, Failure(k)) /\ UNCHANGED <<ackLookup, pending>>
     \/ /\ Usable(r[2])
        /\ ackLookup' = ackLookup \cup {r}
        /\ pending' = [pending EXCEPT ![r[2]] = IF r[2] = Main THEN @ ELSE @ \cup {r}]
        /\ pc' = [pc EXCEPT ![r] = "publish"]
        /\ call' = [call EXCEPT ![r[1]] = k]
        /\ UNCHANGED failed
  /\ UNCHANGED <<up, registered, expired, rLookup, ackVal, resVal, tries, sent, world, flags>>

\* CreateRExecSyncWithTimeout and both CreateRetryTaskSync: the id goes to the
\* set of the main connection, which may be null when the request is for a host
StartSync(r) ==
  LET k == [K(r) EXCEPT !.todo = @ \ {r[2]}] IN
  /\ Running /\ IsSync(k) /\ r[2] \in K(r).todo
  /\ \/ /\ ~Usable(r[2])
        /\ Fail(r, Failure(k))
        /\ crashed' = Throws(k)
        /\ UNCHANGED <<ackLookup, rLookup, pending>>
     \/ /\ Usable(r[2])
        /\ ackLookup' = ackLookup \cup {r} /\ rLookup' = rLookup \cup {r}
        /\ pending' = [pending EXCEPT ![Main] = @ \cup {r}]
        /\ crashed' = (Main \notin up)
        /\ pc' = [pc EXCEPT ![r] = "publish"]
        /\ call' = [call EXCEPT ![r[1]] = k]
        /\ UNCHANGED failed
  /\ UNCHANGED <<up, registered, expired, ackVal, resVal, tries, sent, world, clearThrew, stopped>>

\* the head of the retry loop: publish, or give up without a connection
Publish(r) ==
  /\ Running /\ pc[r] = "publish" /\ tries[r] < Attempts
  /\ \/ /\ ~Usable(r[2])
        /\ Fail(r, Failure(K(r)))
        /\ crashed' = Throws(K(r))
        /\ UNCHANGED sent
     \/ /\ Usable(r[2])
        /\ sent' = sent \cup {r}
        /\ pc' = [pc EXCEPT ![r] = "ack"]
        /\ UNCHANGED <<call, failed, crashed>>
  /\ UNCHANGED <<conns, maps, tries, world, clearThrew, stopped>>

\* Mutation: a synchronous request ends as well.
ExhaustedSilently(r) ==
  /\ Running /\ pc[r] = "publish" /\ tries[r] = Attempts
  /\ pc' = [pc EXCEPT ![r] = "end"]
  /\ failed' = failed \cup {r}
  /\ UNCHANGED <<conns, maps, tries, sent, call, world, flags>>

\* the loop ends after three attempts: an asynchronous request ends without a
\* callback, a synchronous one waits for the result all the same
Exhausted(r) ==
  /\ Running /\ pc[r] = "publish" /\ tries[r] = Attempts
  /\ pc' = [pc EXCEPT ![r] = IF IsSync(K(r)) THEN "result" ELSE "end"]
  /\ failed' = IF IsSync(K(r)) THEN failed ELSE failed \cup {r}
  /\ UNCHANGED <<conns, maps, tries, sent, call, world, flags>>

\* futureAck.wait_for(100 ms) times out
AckTimeout(r) ==
  /\ Running /\ pc[r] = "ack" /\ ackVal[r] = "none"
  /\ tries' = [tries EXCEPT ![r] = @ + 1]
  /\ pc' = [pc EXCEPT ![r] = "publish"]
  /\ UNCHANGED <<conns, maps, sent, call, failed, world, flags>>

\* Mutation: an acknowledgement that was cancelled counts as one.
AckReadyAsyncBlind(r) ==
  /\ Running /\ pc[r] = "ack" /\ ~IsSync(K(r))
  /\ ackVal[r] # "none" /\ End(r, Success(K(r)))
  /\ UNCHANGED <<conns, maps, failed, tries, sent, world, flags>>

\* futureAck is ready
AckReadyAsync(r) ==
  /\ Running /\ pc[r] = "ack" /\ ~IsSync(K(r))
  /\ \/ ackVal[r] = "true" /\ End(r, Success(K(r))) /\ UNCHANGED failed
     \/ ackVal[r] = "false" /\ Fail(r, Failure(K(r)))
  /\ UNCHANGED <<conns, maps, tries, sent, world, flags>>

\* a host of a call to each connection counts the failure and goes on
AckReadySync(r) ==
  /\ Running /\ pc[r] = "ack" /\ IsSync(K(r))
  /\ \/ /\ ackVal[r] = "true"
        /\ pc' = [pc EXCEPT ![r] = "result"]
        /\ UNCHANGED <<call, failed, crashed>>
     \/ /\ ackVal[r] = "false"
        /\ crashed' = Throws(K(r))
        /\ IF r[2] = Main
             THEN Fail(r, Failure(K(r)))
             ELSE /\ pc' = [pc EXCEPT ![r] = "result"]
                  /\ call' = [call EXCEPT ![r[1]] = Failure(K(r))]
                  /\ failed' = failed \cup {r}
  /\ UNCHANGED <<conns, maps, tries, sent, world, clearThrew, stopped>>

\* fuExec.wait_for(timeOut) times out
ResTimeout(r) ==
  /\ Running /\ pc[r] = "result" /\ resVal[r] = "none"
  /\ Fail(r, FailureCaught(K(r)))
  /\ UNCHANGED <<conns, maps, tries, sent, world, flags>>

\* fuExec is ready; only the requests to each connection look at its flag, the
\* single synchronous call returns the second half, the {} of Clear too
ResReady(r) ==
  /\ Running /\ pc[r] = "result"
  /\ \/ resVal[r] = "true" /\ End(r, Success(K(r))) /\ UNCHANGED failed
     \/ /\ resVal[r] = "false"
        /\ Fail(r, IF K(r).kind = "sync" THEN Success(K(r)) ELSE FailureCaught(K(r)))
  /\ UNCHANGED <<conns, maps, tries, sent, world, flags>>

-----------------------------------------------------------------------------
(* Calls from the other side.                                              *)

\* REXEC-ASY and CreateRPBatchCall: a task for a function that is registered,
\* and the acknowledgement; a repeated message runs the function again
RexecAsy(k) ==
  /\ Running /\ Main \in up /\ "inbound" \in Kinds
  /\ call[k] = NoCall \/ (call[k].kind = "inbound" /\ call[k].answer = "done")
  /\ call' = [call EXCEPT ![k] = [NoCall EXCEPT !.kind = "inbound", !.answer = "task"]]
  /\ UNCHANGED <<conns, maps, pc, tries, sent, failed, world, flags>>

\* RoutineRemote::Invoke; its result or exception goes to the callback thread
Invoke(k) ==
  /\ Running /\ call[k].kind = "inbound" /\ call[k].answer = "task"
  /\ call' = [call EXCEPT ![k].answer = "reply"]
  /\ UNCHANGED <<conns, maps, pc, tries, sent, failed, world, flags>>

\* publish the result, at most three times, if the address of the connection it
\* came from is (still or again) that of a valid one
Reply(k) ==
  /\ Running /\ call[k].kind = "inbound" /\ call[k].answer = "reply"
  /\ call' = [call EXCEPT ![k].answer = "done"]
  /\ UNCHANGED <<conns, maps, pc, tries, sent, failed, world, flags>>

-----------------------------------------------------------------------------
\* the retry loop, the other steps of a request of either sort, and all of them
Attempt(r)   == Publish(r) \/ AckTimeout(r) \/ Exhausted(r)
StepAsync(r) == StartAsync(r) \/ AckReadyAsync(r)
StepSync(r)  == StartSync(r) \/ AckReadySync(r) \/ ResTimeout(r) \/ ResReady(r)
Step(r)      == StepAsync(r) \/ StepSync(r) \/ Attempt(r)

Next ==
  \/ CheckExpire \/ ShutDown
  \/ \E c \in Conns : Ping(c) \/ RegisterAck(c)
  \/ \E h \in Hosts : PutAdd(h) \/ PutDel(h)
  \/ \E k \in Calls, kind \in AllKinds : Begin(k, kind)
  \/ \E k \in Calls : RexecAsy(k) \/ Invoke(k) \/ Reply(k)
  \/ \E r \in Reqs : AckArrives(r) \/ ResArrives(r) \/ Step(r)

Spec == Init /\ [][Next]_vars

\* Tasks run and waits end; the loop of CheckExpire comes round.  Messages need
\* never arrive.
Fairness ==
  /\ WF_vars(CheckExpire)
  /\ \A r \in Reqs : WF_vars(Step(r))
  /\ \A k \in Calls : WF_vars(Invoke(k) \/ Reply(k))

FairSpec == Spec /\ Fairness

-----------------------------------------------------------------------------
(* Properties.                                                             *)

Members(k)  == {Main} \cup {h \in Hosts : pc[<<k, h>>] # "none" \/ h \in call[k].todo}
AllEnded(k) == call[k] # NoCall /\ \A c \in Members(k) : pc[<<k, c>>] = "end"

\* Clear never meets a promise that is set: acknowledgements and results take
\* their entry out of the map, a dropped connection takes its set with it, and a
\* late message does not put anything back.  (CheckExpire would end the process.)
ClearNeverThrows == ~clearThrew

\* Of an asynchronous call at most one callback is called, at most once, whatever
\* is acknowledged twice, late or after a reconnection.
OneCallback == \A k \in Calls : call[k].good + call[k].bad <= 1

\* The failure callback is called only when every request of the call has failed.
FailureOnlyIfAllFailed ==
  \A k \in Calls : call[k].bad > 0 => \A c \in Members(k) : <<k, c>> \in failed

\* The success callback is called only if a connection acknowledged, and a call to
\* each connection returns a value only if one of them sent a result: what Clear
\* puts into the promises of a dropped connection is not taken for an answer,
\* however late it is read.  (The single synchronous call: FailureReported.)
SuccessOnlyIfAnswered ==
  \A k \in Calls :
    /\ call[k].good > 0 => \E c \in Members(k) : ackVal[<<k, c>>] = "true"
    /\ call[k].kind = "syncEach" /\ call[k].answer = "value" =>
         \E c \in Members(k) : resVal[<<k, c>>] = "true"

\* A synchronous call returns, whatever is lost, unless the program stops.
SyncReturns ==
  \A k \in Calls : IsSync(call[k]) ~> call[k].answer # "none" \/ ~Running

\* A main connection that was dropped is replaced.
MainComesBack == Main \notin up ~> Main \in up \/ ~Running

\* What the interface promises of calls that fail: an asynchronous call all of
\* whose requests have failed has called the failure callback, and a synchronous
\* call returns a value only if a connection has sent one.
FailureReported ==
  \A k \in Calls : AllEnded(k) =>
    IF IsSync(call[k])
    THEN call[k].answer = "value" => \E c \in Members(k) : resVal[<<k, c>>] = "true"
    ELSE (\A c \in Members(k) : <<k, c>> \in failed) => call[k].bad = 1
=============================================================================
