---------------------------- MODULE RemoteProofs -----------------------------
(***************************************************************************)
(* Proofs about Remote, for any finite set of hosts and any calls: Clear   *)
(* never meets a promise that is set, and a call reports one outcome, a    *)
(* failure only if every request failed and success only if one was        *)
(* answered.                                                               *)
(*                                                                         *)
(* The argument has two halves.  An id is in the set of one connection at  *)
(* most and, while it is, what its map entries promise is open (PendInv);  *)
(* an entry whose promise holds an answer is gone from the map (ValInv).   *)
(* And a call counts at most one failure for each of its requests, of      *)
(* which there are total + 1 (EachInv): it can count total + 1 of them     *)
(* only when none succeeded.                                               *)
(***************************************************************************)
EXTENDS Remote, FiniteSetTheorems, TLAPS

Labels  == {"none", "publish", "ack", "result", "end"}
Vals    == {"none", "true", "false"}
Answers == {"none", "value", "exception", "task", "reply", "done"}
CallStates ==
  [kind : AllKinds \cup {"none"}, todo : SUBSET Conns, total : Nat, fails : Nat,
   once : BOOLEAN, good : Nat, bad : Nat, answer : Answers]

TypeInv ==
  /\ up \in SUBSET Conns
  /\ pending \in [Conns -> SUBSET Reqs]
  /\ ackLookup \in SUBSET Reqs /\ rLookup \in SUBSET Reqs
  /\ ackVal \in [Reqs -> Vals] /\ resVal \in [Reqs -> Vals]
  /\ pc \in [Reqs -> Labels]
  /\ call \in [Calls -> CallStates]
  /\ failed \in SUBSET Reqs

\* A request that has not begun has left no trace.
FreshInv ==
  \A r \in Reqs : pc[r] = "none" =>
    /\ r \notin ackLookup /\ r \notin rLookup /\ r \notin failed
    /\ ackVal[r] = "none" /\ resVal[r] = "none"
    /\ \A c \in Conns : r \notin pending[c]

\* A promise that holds an answer has left the map.
ValInv ==
  \A r \in Reqs : /\ ackVal[r] = "true" => r \notin ackLookup
                  /\ resVal[r] = "true" => r \notin rLookup

\* An id is in the set of the main connection, or of its own, and not in both;
\* while it is, its promises are open.
PendInv ==
  \A c \in Conns : \A r \in pending[c] :
    /\ c = IF IsSync(K(r)) THEN Main ELSE r[2]
    /\ r \in ackLookup => ackVal[r] = "none"
    /\ r \in rLookup => resVal[r] = "none"

-----------------------------------------------------------------------------
(* What is kept of a call k.                                               *)

\* The requests still to be made have not begun, and a call that makes no
\* requests has none.
TodoOK(k) ==
  /\ \A c \in Conns : c \in call[k].todo => pc[<<k, c>>] = "none"
  /\ call[k].kind \in {"none", "inbound"} =>
       /\ call[k].todo = {} /\ call[k].good = 0 /\ call[k].bad = 0
       /\ call[k].answer # "value"
       /\ \A c \in Conns : pc[<<k, c>>] = "none"

\* The requests of an asynchronous call that failed have ended, and none waits
\* for a result.
EndOK(k) ==
  call[k].kind \in {"async", "asyncEach"} =>
    /\ call[k].answer = "none"
    /\ \A c \in Conns : /\ <<k, c>> \in failed => pc[<<k, c>>] = "end"
                        /\ pc[<<k, c>>] # "result"

\* A call to the main connection calls back when its request ends.
AsyncOK(k) ==
  call[k].kind = "async" =>
    /\ call[k].todo \subseteq {Main} /\ \A h \in Hosts : pc[<<k, h>>] = "none"
    /\ pc[<<k, Main>>] # "end" => call[k].good = 0 /\ call[k].bad = 0
    /\ call[k].good + call[k].bad <= 1
    /\ call[k].bad > 0 => <<k, Main>> \in failed
    /\ call[k].good > 0 => ackVal[<<k, Main>>] = "true"

FailedOf(k) == {c \in Members(k) : <<k, c>> \in failed}

\* A call to each connection has total + 1 requests, counts no more failures
\* than there were, and calls back at the last one if none succeeded.
EachOK(k) ==
  call[k].kind = "asyncEach" =>
    /\ Main \in call[k].todo \/ pc[<<k, Main>>] # "none"
    /\ Cardinality(Members(k)) = call[k].total + 1
    /\ call[k].fails <= Cardinality(FailedOf(k))
    /\ call[k].good = IF call[k].once THEN 1 ELSE 0
    /\ call[k].bad > 0 => /\ call[k].bad = 1 /\ call[k].fails = call[k].total + 1
                          /\ call[k].good = 0
    /\ call[k].good > 0 =>
         \E c \in Members(k) : /\ ackVal[<<k, c>>] = "true" /\ <<k, c>> \notin failed
                               /\ pc[<<k, c>>] = "end"

\* A synchronous call has no callbacks, and one to each connection returns a
\* value only as the result of a request.
SyncOK(k) ==
  call[k].kind \in {"sync", "syncEach"} =>
    /\ call[k].good = 0 /\ call[k].bad = 0
    /\ call[k].kind = "syncEach" /\ call[k].answer = "value" =>
         \E c \in Conns : pc[<<k, c>>] # "none" /\ resVal[<<k, c>>] = "true"

CallOK(k) == TodoOK(k) /\ EndOK(k) /\ AsyncOK(k) /\ EachOK(k) /\ SyncOK(k)

MapInv  == FreshInv /\ ValInv /\ PendInv /\ ClearNeverThrows
CallInv == \A k \in Calls : CallOK(k)

IInv == TypeInv /\ MapInv /\ CallInv

-----------------------------------------------------------------------------
(* Facts about requests and their calls.                                   *)

\* A request is a call and a connection.
LEMMA Pairs ==
  /\ \A r \in Reqs : r[1] \in Calls /\ r[2] \in Conns /\ r = <<r[1], r[2]>>
  /\ \A k \in Calls, c \in Conns : <<k, c>> \in Reqs
BY DEF Reqs

\* The requests of a call are finitely many.
LEMMA MembersFinite ==
  ASSUME NEW k \in Calls
  PROVE  /\ IsFiniteSet(Members(k)) /\ Members(k) \subseteq Conns
         /\ Cardinality(Members(k)) \in Nat
         /\ IsFiniteSet(FailedOf(k)) /\ Cardinality(FailedOf(k)) \in Nat
         /\ Cardinality(FailedOf(k)) <= Cardinality(Members(k))
<1>1. IsFiniteSet(Conns)
  <2>1. IsFiniteSet(Hosts \cup {Main})
    BY RemoteAssumption, FS_AddElement
  <2> QED
    BY <2>1 DEF Conns
<1>2. Members(k) \subseteq Conns /\ FailedOf(k) \subseteq Members(k)
  BY DEF Members, Conns, FailedOf
<1> QED
  BY <1>1, <1>2, FS_Subset, FS_CardinalityType

\* What is known of a call depends on where its requests are, on their failures
\* and on answers, which are kept.
LEMMA Frame ==
  ASSUME NEW k \in Calls, CallOK(k), call'[k] = call[k],
         \A c \in Conns : /\ pc'[<<k, c>>] = pc[<<k, c>>]
                          /\ <<k, c>> \in failed' <=> <<k, c>> \in failed
                          /\ ackVal[<<k, c>>] = "true" => ackVal'[<<k, c>>] = "true"
                          /\ resVal[<<k, c>>] = "true" => resVal'[<<k, c>>] = "true"
  PROVE  CallOK(k)'
<1>0. Main \in Conns /\ Hosts \subseteq Conns
  BY DEF Conns
<1>1. Members(k)' = Members(k)
  BY <1>0 DEF Members
<1>2. FailedOf(k)' = FailedOf(k)
  BY <1>1, MembersFinite DEF FailedOf
<1>3. TodoOK(k)'
  BY DEF CallOK, TodoOK
<1>4. EndOK(k)'
  BY DEF CallOK, EndOK
<1>5. AsyncOK(k)'
  BY <1>0 DEF CallOK, AsyncOK
<1>6. EachOK(k)'
  BY <1>0, <1>1, <1>2, MembersFinite DEF CallOK, EachOK
<1>7. SyncOK(k)'
  BY DEF CallOK, SyncOK
<1> QED
  BY <1>3, <1>4, <1>5, <1>6, <1>7 DEF CallOK

-----------------------------------------------------------------------------
(* Connections.                                                            *)

\* Dropping connections fails the requests registered with them, each of which
\* is open, and leaves those of the others alone.
LEMMA ClearHolds ==
  ASSUME IInv, NEW C \in SUBSET Conns, NEW born \in SUBSET Conns,
         Clear(C), Drop(C, born), UNCHANGED tasks
  PROVE  IInv'
<1> USE DEF IInv, TypeInv, MapInv, tasks
<1>1. PICK ids : ids = UNION {pending[c] : c \in C}
  OBVIOUS
<1>2. /\ ackVal' = [r \in Reqs |-> IF r \in ids \cap ackLookup THEN "false" ELSE ackVal[r]]
      /\ resVal' = [r \in Reqs |-> IF r \in ids \cap rLookup THEN "false" ELSE resVal[r]]
      /\ clearThrew' = (clearThrew \/ \E r \in ids : \/ r \in ackLookup /\ ackVal[r] # "none"
                                                     \/ r \in rLookup /\ resVal[r] # "none")
      /\ ackLookup' = ackLookup /\ rLookup' = rLookup
  BY <1>1 DEF Clear
<1>3. /\ up' = (up \ C) \cup born
      /\ pending' = [c \in Conns |-> IF c \in C THEN {} ELSE pending[c]]
  BY DEF Drop
<1>4. \A r \in ids : \E c \in C : r \in pending[c]
  BY <1>1
<1>5. TypeInv'
  BY <1>2, <1>3 DEF Vals
<1>6. FreshInv'
  BY <1>2, <1>3, <1>4 DEF FreshInv
<1>7. ValInv'
  BY <1>2 DEF ValInv
<1>8. PendInv'
  <2> SUFFICES ASSUME NEW c \in Conns, NEW r \in pending'[c]
               PROVE  PendInv!(c)!(r)'
    BY DEF PendInv
  <2>1. c \notin C /\ r \in pending[c] /\ r \in Reqs
    BY <1>3
  <2>2. r \notin ids
    BY <1>4, <2>1 DEF PendInv
  <2> QED
    BY <1>2, <2>1, <2>2 DEF PendInv, K
<1>9. ClearNeverThrows'
  <2>1. \A r \in ids : /\ r \in ackLookup => ackVal[r] = "none"
                       /\ r \in rLookup => resVal[r] = "none"
    BY <1>4 DEF PendInv
  <2> QED
    BY <1>2, <2>1, Zenon DEF ClearNeverThrows
<1>10. CallInv'
  <2> SUFFICES ASSUME NEW k \in Calls PROVE CallOK(k)'
    BY DEF CallInv
  <2>1. \A c \in Conns : /\ ackVal[<<k, c>>] = "true" => ackVal'[<<k, c>>] = "true"
                         /\ resVal[<<k, c>>] = "true" => resVal'[<<k, c>>] = "true"
    BY <1>2, Pairs DEF ValInv
  <2> QED
    BY <2>1, Frame DEF CallInv
<1> QED
  BY <1>5, <1>6, <1>7, <1>8, <1>9, <1>10

\* One round of CheckExpire.
LEMMA CheckExpireHolds ==
  ASSUME IInv, CheckExpire
  PROVE  IInv'
<1>1. PICK dead, born : /\ dead = {c \in up : expired[c]} /\ born = {Main} \ up
                        /\ Clear(dead) /\ Drop(dead, born) /\ UNCHANGED tasks
  BY DEF CheckExpire
<1>2. dead \in SUBSET Conns /\ born \in SUBSET Conns
  BY <1>1 DEF IInv, TypeInv, Conns
<1> QED
  BY <1>1, <1>2, ClearHolds

\* Stopping the program.
LEMMA ShutDownHolds ==
  ASSUME IInv, ShutDown
  PROVE  IInv'
<1>1. up \in SUBSET Conns /\ {} \in SUBSET Conns
  BY DEF IInv, TypeInv
<1> QED
  BY <1>1, ClearHolds DEF ShutDown

\* A host that was taken back.
LEMMA PutDelHolds ==
  ASSUME IInv, NEW h \in Hosts, PutDel(h)
  PROVE  IInv'
<1>1. up \cap {h} \in SUBSET Conns /\ {} \in SUBSET Conns
  BY DEF IInv, TypeInv
<1> QED
  BY <1>1, ClearHolds DEF PutDel

\* Connections that appear or show that they are alive.
LEMMA AliveHolds ==
  ASSUME IInv, UNCHANGED <<pending, maps, tasks, clearThrew>>, up' \in SUBSET Conns
  PROVE  IInv'
<1> USE DEF maps, tasks
<1>1. TypeInv'
  BY DEF IInv, TypeInv
<1>2. MapInv'
  BY DEF IInv, MapInv, FreshInv, ValInv, PendInv, ClearNeverThrows, K
<1>3. CallInv'
  BY Frame DEF IInv, CallInv
<1> QED
  BY <1>1, <1>2, <1>3 DEF IInv

\* PING, REGISTER-ACK and PUT-CF-INFO ADD.
LEMMA ConnectionHolds ==
  ASSUME IInv,
         \/ \E c \in Conns : Ping(c) \/ RegisterAck(c)
         \/ \E h \in Hosts : PutAdd(h)
  PROVE  IInv'
<1>1. UNCHANGED <<pending, maps, tasks, clearThrew>>
  BY DEF Ping, RegisterAck, PutAdd, flags
<1>2. up' \in SUBSET Conns
  BY DEF Ping, RegisterAck, PutAdd, IInv, TypeInv, Conns
<1> QED
  BY <1>1, <1>2, AliveHolds

-----------------------------------------------------------------------------
(* Messages about requests.                                                *)

\* An acknowledgement keeps its promise and takes the entry out of the map.
LEMMA AckArrivesHolds ==
  ASSUME IInv, NEW r \in Reqs, AckArrives(r)
  PROVE  IInv'
<1> USE DEF IInv, TypeInv, MapInv
<1>1. /\ ackVal' = [ackVal EXCEPT ![r] = "true"] /\ ackLookup' = ackLookup \ {r}
      /\ r \in ackLookup
      /\ UNCHANGED <<up, pending, rLookup, resVal, pc, call, failed, clearThrew>>
  BY DEF AckArrives, conns, tasks, flags
<1>2. TypeInv'
  BY <1>1 DEF Vals
<1>3. FreshInv' /\ ValInv' /\ ClearNeverThrows'
  BY <1>1 DEF FreshInv, ValInv, ClearNeverThrows
<1>4. PendInv'
  BY <1>1 DEF PendInv, K
<1>5. CallInv'
  BY <1>1, Frame, Pairs DEF CallInv
<1> QED
  BY <1>2, <1>3, <1>4, <1>5

\* So does a result, and the id leaves the set of the connection.
LEMMA ResArrivesHolds ==
  ASSUME IInv, NEW r \in Reqs, ResArrives(r)
  PROVE  IInv'
<1> USE DEF IInv, TypeInv, MapInv
<1>1. /\ resVal' = [resVal EXCEPT ![r] = "true"] /\ rLookup' = rLookup \ {r}
      /\ r \in rLookup
      /\ pending' = [pending EXCEPT ![r[2]] = @ \ {r}]
      /\ UNCHANGED <<up, ackLookup, ackVal, pc, call, failed, clearThrew>>
  BY DEF ResArrives, tasks, flags
<1>2. TypeInv'
  BY <1>1 DEF Vals
<1>3. FreshInv' /\ ValInv' /\ ClearNeverThrows'
  BY <1>1 DEF FreshInv, ValInv, ClearNeverThrows
<1>4. PendInv'
  BY <1>1 DEF PendInv, K
<1>5. CallInv'
  BY <1>1, Frame, Pairs DEF CallInv
<1> QED
  BY <1>2, <1>3, <1>4, <1>5

-----------------------------------------------------------------------------
(* Requests.                                                               *)

\* A request that is to be made, or under way, of a call in the state k after it
\* was made.
UnderWay(r) == r[2] \in K(r).todo \/ pc[r] \notin {"none", "end"}
Made(r)     == [K(r) EXCEPT !.todo = @ \ {r[2]}]

\* A step of the request r: it goes to x and its call to the state k.
RequestStep(r, x, k) ==
  /\ UnderWay(r)
  /\ k \in CallStates /\ k.kind = K(r).kind /\ k.todo = K(r).todo \ {r[2]}
  /\ x \in Labels \ {"none"}
  /\ pc' = [pc EXCEPT ![r] = x]
  /\ call' = [call EXCEPT ![r[1]] = k]
  /\ failed' \in {failed, failed \cup {r}}
  /\ ackVal' = ackVal /\ resVal' = resVal

\* A request that has been made is not made again, and belongs to a call to the
\* other side.
LEMMA MadeOnce ==
  ASSUME IInv, NEW r \in Reqs
  PROVE  /\ K(r) \in CallStates /\ Made(r) \in CallStates
         /\ Made(r).kind = K(r).kind /\ Made(r).todo = K(r).todo \ {r[2]}
         /\ pc[r] # "none" => Made(r) = K(r) /\ r[2] \notin K(r).todo
         /\ UnderWay(r) => K(r).kind \in AllKinds \ {"inbound"}
<1>1. r[1] \in Calls /\ r[2] \in Conns /\ r = <<r[1], r[2]>>
  BY Pairs
<1>2. K(r) \in CallStates
  BY <1>1 DEF IInv, TypeInv, K
<1>3. pc[r] # "none" => r[2] \notin K(r).todo
  BY <1>1 DEF IInv, CallInv, CallOK, TodoOK, K
<1>4. /\ Made(r) \in CallStates
      /\ Made(r).kind = K(r).kind /\ Made(r).todo = K(r).todo \ {r[2]}
  BY <1>2 DEF Made, CallStates
<1>5. r[2] \notin K(r).todo => Made(r) = K(r)
  BY <1>2 DEF Made, CallStates
<1>6. UnderWay(r) => K(r).kind \in AllKinds \ {"inbound"}
  BY <1>1, <1>2 DEF UnderWay, IInv, CallInv, CallOK, TodoOK, K, CallStates, AllKinds
<1> QED
  BY <1>2, <1>3, <1>4, <1>5, <1>6

\* The other calls do not see a step of a request; its own keeps its requests.
LEMMA StepFrame ==
  ASSUME IInv, NEW r \in Reqs, NEW x, NEW k, RequestStep(r, x, k)
  PROVE  /\ \A j \in Calls \ {r[1]} : CallOK(j)'
         /\ TodoOK(r[1])'
         /\ Members(r[1])' = Members(r[1]) /\ r[2] \in Members(r[1])
         /\ call'[r[1]] = k /\ pc'[r] = x
         /\ \A c \in Conns \ {r[2]} : /\ pc'[<<r[1], c>>] = pc[<<r[1], c>>]
                                      /\ <<r[1], c>> \in failed' <=> <<r[1], c>> \in failed
<1> USE DEF RequestStep
<1>1. r[1] \in Calls /\ r[2] \in Conns /\ r = <<r[1], r[2]>>
  BY Pairs
<1>2. call'[r[1]] = k /\ pc'[r] = x /\ x # "none"
  BY <1>1 DEF IInv, TypeInv
<1>3. \A j \in Calls, c \in Conns : <<j, c>> # r =>
        /\ pc'[<<j, c>>] = pc[<<j, c>>]
        /\ <<j, c>> \in failed' <=> <<j, c>> \in failed
  BY Pairs DEF IInv, TypeInv
<1>4. ASSUME NEW j \in Calls \ {r[1]} PROVE CallOK(j)'
  <2>1. \A c \in Conns : <<j, c>> # r
    BY <1>1
  <2>2. call'[j] = call[j]
    BY DEF IInv, TypeInv
  <2> QED
    BY <1>3, <2>1, <2>2, Frame DEF IInv, CallInv
<1>5. \A c \in Conns \ {r[2]} : <<r[1], c>> # r
  BY <1>1
<1>6. k.kind \in AllKinds \ {"inbound"}
  BY MadeOnce
<1>7. TodoOK(r[1])'
  BY <1>1, <1>2, <1>3, <1>5, <1>6 DEF IInv, CallInv, CallOK, TodoOK, K, AllKinds
<1>8. r[2] \in Members(r[1])
  BY <1>1 DEF Members, UnderWay, K, Conns
<1>9. Members(r[1])' = Members(r[1])
  <2>1. ASSUME NEW h \in Hosts \ {r[2]}
        PROVE  /\ pc'[<<r[1], h>>] = pc[<<r[1], h>>]
               /\ h \in call'[r[1]].todo <=> h \in call[r[1]].todo
    BY <1>1, <1>2, <1>3, <1>5 DEF Conns, K
  <2>2. r[2] \in Hosts => pc'[<<r[1], r[2]>>] # "none"
    BY <1>1, <1>2
  <2> QED
    BY <1>8, <2>1, <2>2 DEF Members
<1> QED
  BY <1>1, <1>2, <1>3, <1>4, <1>5, <1>7, <1>8, <1>9

\* What a failure does to the state of a call.
LEMMA Failures ==
  ASSUME NEW k \in CallStates, k.kind \in AllKinds \ {"inbound"}
  PROVE  /\ Failure(k) \in CallStates
         /\ Failure(k).kind = k.kind /\ Failure(k).todo = k.todo
         /\ Failure(k).total = k.total /\ Failure(k).once = k.once
         /\ Failure(k).good = k.good
         /\ IsSync(k) => Failure(k).bad = k.bad /\ Failure(k).answer \in {k.answer, "exception"}
         /\ ~IsSync(k) => Failure(k).answer = k.answer
         /\ k.kind = "async" => Failure(k).bad = k.bad + 1
         /\ k.kind = "asyncEach" =>
              /\ Failure(k).fails = k.fails + 1
              /\ Failure(k).bad = IF k.fails = k.total THEN k.bad + 1 ELSE k.bad
<1>0. /\ k.fails + 1 \in Nat /\ k.bad \in Nat /\ k.bad + 1 \in Nat /\ k.once \in BOOLEAN
      /\ k.answer \in Answers /\ "exception" \in Answers
  BY DEF CallStates, Answers
<1>1. CASE k.kind = "async"
  BY <1>1 DEF Failure, CallStates, IsSync
<1>2. CASE k.kind = "asyncEach"
  <2>1. CASE k.fails = k.total
    <3>1. PICK f : f = Failure(k) /\ f = [k EXCEPT !.fails = k.fails + 1, !.bad = k.bad + 1]
      BY <1>2, <2>1 DEF Failure, LastFails
    <3>2. /\ f \in CallStates /\ f.kind = k.kind /\ f.todo = k.todo /\ f.total = k.total
          /\ f.once = k.once /\ f.good = k.good /\ f.answer = k.answer
          /\ f.fails = k.fails + 1 /\ f.bad = k.bad + 1
      BY <1>0, <3>1 DEF CallStates
    <3> QED
      BY <1>2, <2>1, <3>1, <3>2 DEF IsSync
  <2>2. CASE k.fails # k.total
    <3>1. PICK f : f = Failure(k) /\ f = [k EXCEPT !.fails = k.fails + 1, !.bad = k.bad]
      BY <1>2, <2>2 DEF Failure, LastFails
    <3>2. /\ f \in CallStates /\ f.kind = k.kind /\ f.todo = k.todo /\ f.total = k.total
          /\ f.once = k.once /\ f.good = k.good /\ f.answer = k.answer
          /\ f.fails = k.fails + 1 /\ f.bad = k.bad
      BY <1>0, <3>1 DEF CallStates
    <3> QED
      BY <1>2, <2>2, <3>1, <3>2 DEF IsSync
  <2> QED
    BY <2>1, <2>2
<1>3. CASE k.kind = "sync"
  BY <1>3 DEF Failure, CallStates, IsSync, Answers
<1>4. CASE k.kind = "syncEach"
  <2>1. PICK a \in {k.answer, "exception"} :
          Failure(k) = [k EXCEPT !.fails = k.fails + 1, !.answer = a]
    BY <1>4 DEF Failure
  <2>2. PICK f : f = Failure(k) /\ f = [k EXCEPT !.fails = k.fails + 1, !.answer = a]
    BY <2>1
  <2>3. /\ f \in CallStates /\ f.kind = k.kind /\ f.todo = k.todo /\ f.total = k.total
        /\ f.once = k.once /\ f.good = k.good /\ f.bad = k.bad /\ f.answer = a
    BY <1>0, <2>2 DEF CallStates
  <2> QED
    BY <1>4, <2>2, <2>3 DEF IsSync
<1> QED
  BY <1>1, <1>2, <1>3, <1>4 DEF AllKinds

\* A failure that is counted where an exception would be caught.
LEMMA CaughtFailures ==
  ASSUME NEW k \in CallStates, IsSync(k)
  PROVE  /\ FailureCaught(k) \in CallStates
         /\ FailureCaught(k).kind = k.kind /\ FailureCaught(k).todo = k.todo
         /\ FailureCaught(k).good = k.good /\ FailureCaught(k).bad = k.bad
         /\ FailureCaught(k).answer \in {k.answer, "exception"}
<1>1. k.kind \in AllKinds \ {"inbound"}
  BY DEF IsSync, AllKinds
<1>2. CASE Throws(k)
  BY <1>2 DEF FailureCaught, CallStates
<1>3. CASE ~Throws(k)
  BY <1>1, <1>3, Failures DEF FailureCaught
<1> QED
  BY <1>2, <1>3

\* What a success does to it.
LEMMA Successes ==
  ASSUME NEW k \in CallStates, k.kind \in AllKinds \ {"inbound"}
  PROVE  /\ Success(k) \in CallStates
         /\ Success(k).kind = k.kind /\ Success(k).todo = k.todo
         /\ IsSync(k) => Success(k).good = k.good /\ Success(k).bad = k.bad
         /\ k.kind = "async" =>
              /\ Success(k).good = k.good + 1
              /\ Success(k).bad = k.bad /\ Success(k).answer = k.answer
         /\ k.kind = "asyncEach" =>
              /\ Success(k).good = IF k.once THEN k.good ELSE k.good + 1
              /\ Success(k).once = TRUE
              /\ Success(k).bad = k.bad /\ Success(k).answer = k.answer
              /\ Success(k).fails = k.fails /\ Success(k).total = k.total
<1>0. k.good + 1 \in Nat /\ k.once \in BOOLEAN /\ k.fails \in Nat /\ "value" \in Answers
  BY DEF CallStates, Answers
<1>1. CASE k.kind = "async"
  BY <1>1 DEF Success, CallStates, IsSync
<1>2. CASE k.kind = "asyncEach"
  <2>1. CASE k.once = TRUE
    BY <1>2, <2>1 DEF Success, CallStates, IsSync
  <2>2. CASE k.once = FALSE
    <3>1. PICK f : f = Success(k) /\ f = [k EXCEPT !.good = k.good + 1, !.once = TRUE]
      BY <1>2, <2>2 DEF Success
    <3>2. /\ f \in CallStates /\ f.kind = k.kind /\ f.todo = k.todo /\ f.total = k.total
          /\ f.fails = k.fails /\ f.bad = k.bad /\ f.answer = k.answer
          /\ f.good = k.good + 1 /\ f.once = TRUE
      BY <1>0, <3>1 DEF CallStates
    <3> QED
      BY <1>2, <2>2, <3>1, <3>2 DEF IsSync
  <2> QED
    BY <1>0, <2>1, <2>2
<1>3. CASE k.kind = "sync"
  BY <1>3 DEF Success, CallStates, IsSync, Answers
<1>4. CASE k.kind = "syncEach"
  <2>1. Success(k) \in {k, [k EXCEPT !.answer = "value", !.once = TRUE], FailureCaught(k)}
    BY <1>4 DEF Success
  <2>2. PICK f : f = [k EXCEPT !.answer = "value", !.once = TRUE]
    OBVIOUS
  <2>3. /\ f \in CallStates /\ f.kind = k.kind /\ f.todo = k.todo
        /\ f.good = k.good /\ f.bad = k.bad
    BY <1>0, <2>2 DEF CallStates
  <2> QED
    BY <1>4, <2>1, <2>2, <2>3, CaughtFailures DEF IsSync
<1> QED
  BY <1>1, <1>2, <1>3, <1>4 DEF AllKinds

\* Steps of synchronous requests.
LEMMA SyncStep ==
  ASSUME IInv, NEW r \in Reqs, NEW x, NEW k, RequestStep(r, x, k), IsSync(K(r)),
         k.good = K(r).good, k.bad = K(r).bad,
         k.kind = "syncEach" /\ k.answer = "value" => K(r).answer = "value" \/ resVal[r] = "true"
  PROVE  CallInv'
<1>1. r[1] \in Calls /\ r[2] \in Conns /\ r = <<r[1], r[2]>>
  BY Pairs
<1>0. /\ call'[r[1]] = k /\ pc'[r] = x /\ TodoOK(r[1])'
      /\ \A c \in Conns \ {r[2]} : pc'[<<r[1], c>>] = pc[<<r[1], c>>]
  BY StepFrame
<1>2. k.kind \in {"sync", "syncEach"} /\ k.kind = K(r).kind /\ x # "none" /\ resVal' = resVal
  BY DEF IsSync, RequestStep
<1>3. TodoOK(r[1])' /\ EndOK(r[1])' /\ AsyncOK(r[1])' /\ EachOK(r[1])'
  BY <1>0, <1>2 DEF EndOK, AsyncOK, EachOK
<1>4. SyncOK(r[1])'
  <2>1. SyncOK(r[1]) /\ call[r[1]] = K(r) /\ K(r).kind \in {"sync", "syncEach"}
    BY <1>1 DEF IInv, CallInv, CallOK, K, IsSync
  <2>2. \A c \in Conns : pc[<<r[1], c>>] # "none" => pc'[<<r[1], c>>] # "none"
    BY <1>0, <1>1, <1>2
  <2>3. pc'[<<r[1], r[2]>>] # "none"
    BY <1>0, <1>1, <1>2
  <2> QED
    BY <1>0, <1>1, <1>2, <2>1, <2>2, <2>3 DEF SyncOK
<1> QED
  BY <1>3, <1>4, StepFrame DEF CallInv, CallOK

\* While a request of an asynchronous call is under way, it has not failed, and
\* the call has counted at most as many failures as it has other requests.
LEMMA NotYetFailed ==
  ASSUME IInv, NEW r \in Reqs, UnderWay(r), ~IsSync(K(r))
  PROVE  /\ pc[r] # "end" /\ r \notin failed
         /\ K(r).kind \in {"async", "asyncEach"} /\ K(r).answer = "none"
         /\ K(r).kind = "async" => r[2] = Main /\ K(r).good = 0 /\ K(r).bad = 0
         /\ K(r).kind = "asyncEach" => K(r).fails <= K(r).total /\ K(r).bad = 0
<1>1. r[1] \in Calls /\ r[2] \in Conns /\ r = <<r[1], r[2]>> /\ K(r) = call[r[1]]
  BY Pairs DEF K
<1>2. CallOK(r[1]) /\ K(r) \in CallStates
  BY <1>1, MadeOnce DEF IInv, CallInv
<1>3. pc[r] # "end"
  BY <1>1, <1>2 DEF UnderWay, CallOK, TodoOK
<1>4. K(r).kind \in {"async", "asyncEach"}
  BY MadeOnce DEF IsSync, AllKinds
<1>5. r \notin failed /\ K(r).answer = "none"
  BY <1>1, <1>2, <1>3, <1>4 DEF CallOK, EndOK
<1>6. K(r).kind = "async" => r[2] = Main /\ K(r).good = 0 /\ K(r).bad = 0
  BY <1>1, <1>2, <1>3 DEF CallOK, AsyncOK, UnderWay, Conns
<1>7. ASSUME K(r).kind = "asyncEach" PROVE K(r).fails <= K(r).total /\ K(r).bad = 0
  <2>1. r[2] \in Members(r[1]) /\ r[2] \notin FailedOf(r[1])
    BY <1>1, <1>5 DEF Members, FailedOf, UnderWay, Conns
  <2>2. Cardinality(FailedOf(r[1])) # Cardinality(Members(r[1]))
    BY <1>1, <2>1, MembersFinite, FS_Subset DEF FailedOf
  <2>3. /\ Cardinality(Members(r[1])) = K(r).total + 1
        /\ K(r).fails <= Cardinality(FailedOf(r[1]))
        /\ K(r).bad > 0 => K(r).fails = K(r).total + 1
    BY <1>1, <1>2, <1>7 DEF CallOK, EachOK
  <2>4. K(r).total \in Nat /\ K(r).fails \in Nat /\ K(r).bad \in Nat
    BY <1>2 DEF CallStates
  <2> QED
    BY <1>1, <2>2, <2>3, <2>4, MembersFinite
<1> QED
  BY <1>3, <1>4, <1>5, <1>6, <1>7

\* A request that is made or goes on.
LEMMA AsyncGoesOn ==
  ASSUME IInv, NEW r \in Reqs, NEW x, RequestStep(r, x, Made(r)), ~IsSync(K(r)),
         x \notin {"end", "result"}, failed' = failed
  PROVE  CallInv'
<1>1. r[1] \in Calls /\ r[2] \in Conns /\ r = <<r[1], r[2]>> /\ K(r) = call[r[1]]
  BY Pairs DEF K
<1>2. UnderWay(r) /\ ackVal' = ackVal /\ x # "none"
  BY DEF RequestStep
<1>3. CallOK(r[1]) /\ K(r) \in CallStates
  BY <1>1, MadeOnce DEF IInv, CallInv
<1>4. /\ call'[r[1]] = Made(r) /\ pc'[r] = x /\ TodoOK(r[1])'
      /\ Members(r[1])' = Members(r[1])
      /\ \A c \in Conns \ {r[2]} : pc'[<<r[1], c>>] = pc[<<r[1], c>>]
  BY StepFrame
<1>5. /\ Made(r).kind = K(r).kind /\ Made(r).total = K(r).total /\ Made(r).fails = K(r).fails
      /\ Made(r).once = K(r).once /\ Made(r).good = K(r).good /\ Made(r).bad = K(r).bad
      /\ Made(r).answer = K(r).answer /\ Made(r).todo = K(r).todo \ {r[2]}
  BY <1>3 DEF Made, CallStates
<1>6. pc[r] # "end" /\ K(r).kind \in {"async", "asyncEach"} /\ (K(r).kind = "async" => r[2] = Main)
  BY <1>2, NotYetFailed
<1>7. \A c \in Conns : pc[<<r[1], c>>] = "end" <=> pc'[<<r[1], c>>] = "end"
  BY <1>1, <1>4, <1>6
<1>8. EndOK(r[1])'
  BY <1>1, <1>3, <1>4, <1>5, <1>7 DEF CallOK, EndOK
<1>9. AsyncOK(r[1])'
  BY <1>1, <1>2, <1>3, <1>4, <1>5, <1>6, <1>7, RemoteAssumption DEF CallOK, AsyncOK, Conns
<1>10. EachOK(r[1])'
  <2>1. FailedOf(r[1])' = FailedOf(r[1])
    BY <1>4 DEF FailedOf
  <2>2. Members(r[1]) \subseteq Conns
    BY <1>1, MembersFinite
  <2> QED
    BY <1>1, <1>2, <1>3, <1>4, <1>5, <1>7, <2>1, <2>2 DEF CallOK, EachOK, Conns
<1>11. SyncOK(r[1])'
  BY <1>4, <1>5, <1>6 DEF SyncOK
<1> QED
  BY <1>4, <1>8, <1>9, <1>10, <1>11, StepFrame DEF CallInv, CallOK

\* A request that fails, and is counted or not.
LEMMA AsyncFails ==
  ASSUME IInv, NEW r \in Reqs, NEW k \in {Made(r), Failure(Made(r))},
         RequestStep(r, "end", k), ~IsSync(K(r)), failed' = failed \cup {r}
  PROVE  CallInv'
<1>1. r[1] \in Calls /\ r[2] \in Conns /\ r = <<r[1], r[2]>> /\ K(r) = call[r[1]]
  BY Pairs DEF K
<1>2. UnderWay(r) /\ ackVal' = ackVal
  BY DEF RequestStep
<1>3. CallOK(r[1]) /\ K(r) \in CallStates
  BY <1>1, MadeOnce DEF IInv, CallInv
<1>4. /\ call'[r[1]] = k /\ pc'[r] = "end" /\ TodoOK(r[1])'
      /\ Members(r[1])' = Members(r[1]) /\ r[2] \in Members(r[1])
      /\ \A c \in Conns \ {r[2]} : /\ pc'[<<r[1], c>>] = pc[<<r[1], c>>]
                                   /\ <<r[1], c>> \in failed' <=> <<r[1], c>> \in failed
  BY StepFrame
<1>5. /\ pc[r] # "end" /\ r \notin failed
      /\ K(r).kind \in {"async", "asyncEach"} /\ K(r).answer = "none"
      /\ K(r).kind = "async" => r[2] = Main /\ K(r).good = 0 /\ K(r).bad = 0
      /\ K(r).kind = "asyncEach" => K(r).fails <= K(r).total /\ K(r).bad = 0
  BY <1>2, NotYetFailed
<1>6. /\ Made(r).kind = K(r).kind /\ Made(r).total = K(r).total /\ Made(r).fails = K(r).fails
      /\ Made(r).once = K(r).once /\ Made(r).good = K(r).good /\ Made(r).bad = K(r).bad
      /\ Made(r).answer = K(r).answer /\ Made(r).todo = K(r).todo \ {r[2]}
  BY <1>3 DEF Made, CallStates
<1>7. /\ k.kind = K(r).kind /\ k.total = K(r).total /\ k.once = K(r).once
      /\ k.good = K(r).good /\ k.todo = K(r).todo \ {r[2]} /\ k.answer = "none"
      /\ k.kind = "async" => k.bad \in {K(r).bad, K(r).bad + 1}
      /\ k.kind = "asyncEach" =>
           \/ k.fails = K(r).fails /\ k.bad = K(r).bad
           \/ /\ k.fails = K(r).fails + 1
              /\ k.bad = IF K(r).fails = K(r).total THEN K(r).bad + 1 ELSE K(r).bad
  <2>1. CASE k = Made(r)
    BY <1>5, <1>6, <2>1
  <2>2. CASE k = Failure(Made(r))
    <3>1. ~IsSync(Made(r)) /\ Made(r) \in CallStates /\ Made(r).kind \in AllKinds \ {"inbound"}
      BY <1>5, <1>6, MadeOnce DEF IsSync, AllKinds
    <3> QED
      BY <1>5, <1>6, <2>2, <3>1, Failures
  <2> QED
    BY <2>1, <2>2
<1>8. EndOK(r[1])'
  BY <1>1, <1>3, <1>4, <1>7 DEF CallOK, EndOK
<1>9. AsyncOK(r[1])'
  BY <1>1, <1>2, <1>3, <1>4, <1>5, <1>7, RemoteAssumption DEF CallOK, AsyncOK, Conns, CallStates
<1>10. EachOK(r[1])'
  <2> SUFFICES ASSUME K(r).kind = "asyncEach" PROVE EachOK(r[1])'
    BY <1>4, <1>7 DEF EachOK
  <2>1. FailedOf(r[1])' = FailedOf(r[1]) \cup {r[2]} /\ r[2] \notin FailedOf(r[1])
    BY <1>1, <1>4, <1>5, MembersFinite DEF FailedOf
  <2>2. /\ Cardinality(FailedOf(r[1]))' = Cardinality(FailedOf(r[1])) + 1
        /\ Cardinality(FailedOf(r[1])) \in Nat
    BY <1>1, <2>1, MembersFinite, FS_AddElement
  <2>3. K(r).total \in Nat /\ K(r).fails \in Nat /\ K(r).bad \in Nat /\ K(r).good \in Nat
    BY <1>3 DEF CallStates
  <2>4. EachOK(r[1])!2
    BY <1>1, <1>3 DEF CallOK, EachOK
  <2>5. Cardinality(FailedOf(r[1])) = K(r).total => K(r).good = 0
    <3> SUFFICES ASSUME Cardinality(FailedOf(r[1])) = K(r).total, K(r).good > 0 PROVE FALSE
      BY <2>3
    <3>1. PICK c \in Members(r[1]) : <<r[1], c>> \notin failed /\ pc[<<r[1], c>>] = "end"
      BY <1>1, <2>4
    <3>2. c # r[2] /\ c \notin FailedOf(r[1]) \cup {r[2]}
      BY <1>1, <1>5, <3>1 DEF FailedOf
    <3>3. /\ FailedOf(r[1]) \cup {r[2]} \subseteq Members(r[1])
          /\ FailedOf(r[1]) \cup {r[2]} # Members(r[1])
          /\ IsFiniteSet(FailedOf(r[1]))
      BY <1>1, <1>4, <3>1, <3>2, MembersFinite DEF FailedOf
    <3>4. Cardinality(FailedOf(r[1]) \cup {r[2]}) = K(r).total + 1
      BY <2>1, <2>2, <3>3, FS_AddElement
    <3> QED
      BY <1>1, <2>4, <3>3, <3>4, MembersFinite, FS_Subset
  <2>6. k.fails <= Cardinality(FailedOf(r[1]))'
    BY <1>1, <1>4, <1>7, <2>2, <2>3, <2>4
  <2>7. k.bad > 0 => k.bad = 1 /\ k.fails = k.total + 1 /\ k.good = 0
    <3>1. K(r).fails <= Cardinality(FailedOf(r[1])) /\ Cardinality(Members(r[1])) = K(r).total + 1
      BY <1>1, <2>4
    <3>2. Cardinality(FailedOf(r[1])) <= K(r).total
      <4>1. Cardinality(FailedOf(r[1])) # Cardinality(Members(r[1]))
        BY <1>1, <1>4, <2>1, MembersFinite, FS_Subset DEF FailedOf
      <4> QED
        BY <1>1, <2>3, <3>1, <4>1, MembersFinite
    <3> QED
      BY <1>5, <1>7, <2>2, <2>3, <2>5, <3>1, <3>2
  <2>8. k.good > 0 =>
          \E c \in Members(r[1])' : /\ ackVal'[<<r[1], c>>] = "true" /\ <<r[1], c>> \notin failed'
                                    /\ pc'[<<r[1], c>>] = "end"
    <3> SUFFICES ASSUME k.good > 0
                 PROVE  \E c \in Members(r[1]) :
                           /\ ackVal[<<r[1], c>>] = "true" /\ <<r[1], c>> \notin failed'
                           /\ pc'[<<r[1], c>>] = "end"
      BY <1>2, <1>4
    <3>1. PICK c \in Members(r[1]) : /\ ackVal[<<r[1], c>>] = "true"
                                     /\ <<r[1], c>> \notin failed /\ pc[<<r[1], c>>] = "end"
      BY <1>1, <1>7, <2>4
    <3>2. c # r[2] /\ c \in Conns
      BY <1>1, <1>5, <3>1, MembersFinite
    <3> QED
      BY <1>4, <3>1, <3>2
  <2>9. Main \in k.todo \/ pc'[<<r[1], Main>>] # "none"
    BY <1>1, <1>4, <1>7, <2>4 DEF Conns
  <2> QED
    BY <1>1, <1>4, <1>7, <2>4, <2>6, <2>7, <2>8, <2>9 DEF EachOK
<1>11. SyncOK(r[1])'
  BY <1>4, <1>5, <1>7 DEF SyncOK
<1> QED
  BY <1>4, <1>8, <1>9, <1>10, <1>11, StepFrame DEF CallInv, CallOK

\* A request that was acknowledged.
LEMMA AsyncSucceeds ==
  ASSUME IInv, NEW r \in Reqs, RequestStep(r, "end", Success(K(r))), ~IsSync(K(r)),
         failed' = failed, ackVal[r] = "true"
  PROVE  CallInv'
<1>1. r[1] \in Calls /\ r[2] \in Conns /\ r = <<r[1], r[2]>> /\ K(r) = call[r[1]]
  BY Pairs DEF K
<1>2. UnderWay(r) /\ ackVal' = ackVal /\ Success(K(r)).todo = K(r).todo \ {r[2]}
  BY DEF RequestStep
<1>3. CallOK(r[1]) /\ K(r) \in CallStates /\ K(r).kind \in AllKinds \ {"inbound"}
  BY <1>1, <1>2, MadeOnce DEF IInv, CallInv
<1>4. PICK k : k = Success(K(r))
  OBVIOUS
<1>5. /\ call'[r[1]] = k /\ pc'[r] = "end" /\ TodoOK(r[1])'
      /\ Members(r[1])' = Members(r[1]) /\ r[2] \in Members(r[1])
      /\ \A c \in Conns \ {r[2]} : pc'[<<r[1], c>>] = pc[<<r[1], c>>]
  BY <1>4, StepFrame
<1>6. /\ pc[r] # "end" /\ r \notin failed
      /\ K(r).kind \in {"async", "asyncEach"} /\ K(r).answer = "none"
      /\ K(r).kind = "async" => r[2] = Main /\ K(r).good = 0 /\ K(r).bad = 0
      /\ K(r).kind = "asyncEach" => K(r).fails <= K(r).total /\ K(r).bad = 0
  BY <1>2, NotYetFailed
<1>7. /\ k.kind = K(r).kind /\ k.todo = K(r).todo \ {r[2]} /\ k.answer = "none"
      /\ k.kind = "async" => k.good = K(r).good + 1 /\ k.bad = K(r).bad
      /\ k.kind = "asyncEach" =>
           /\ k.good = IF K(r).once THEN K(r).good ELSE K(r).good + 1
           /\ k.once = TRUE /\ k.bad = 0
           /\ k.fails = K(r).fails /\ k.total = K(r).total
  BY <1>2, <1>3, <1>4, <1>6, Successes
<1>8. EndOK(r[1])'
  BY <1>1, <1>3, <1>5, <1>7 DEF CallOK, EndOK
<1>9. AsyncOK(r[1])'
  BY <1>1, <1>2, <1>3, <1>5, <1>6, <1>7, RemoteAssumption DEF CallOK, AsyncOK, Conns
<1>10. EachOK(r[1])'
  <2> SUFFICES ASSUME K(r).kind = "asyncEach" PROVE EachOK(r[1])'
    BY <1>5, <1>7 DEF EachOK
  <2>1. FailedOf(r[1])' = FailedOf(r[1])
    BY <1>5 DEF FailedOf
  <2>2. EachOK(r[1])!2
    BY <1>1, <1>3 DEF CallOK, EachOK
  <2>3. k.good = 1
    BY <1>1, <1>3, <1>7, <2>2 DEF CallStates
  <2>4. \E c \in Members(r[1]) : /\ ackVal[<<r[1], c>>] = "true" /\ <<r[1], c>> \notin failed
                                 /\ pc'[<<r[1], c>>] = "end"
    BY <1>1, <1>5, <1>6
  <2>5. Main \in k.todo \/ pc'[<<r[1], Main>>] # "none"
    BY <1>1, <1>5, <1>7, <2>2 DEF Conns
  <2> QED
    BY <1>1, <1>2, <1>5, <1>7, <2>1, <2>2, <2>3, <2>4, <2>5 DEF EachOK
<1>11. SyncOK(r[1])'
  BY <1>5, <1>6, <1>7 DEF SyncOK
<1> QED
  BY <1>5, <1>8, <1>9, <1>10, <1>11, StepFrame DEF CallInv, CallOK

\* A step of a request that is made keeps the types and the maps.
LEMMA StepMaps ==
  ASSUME IInv, NEW r \in Reqs, NEW x, NEW k, RequestStep(r, x, k),
         UNCHANGED <<up, pending, ackLookup, rLookup, clearThrew>>
  PROVE  TypeInv' /\ MapInv'
<1> USE DEF RequestStep
<1>1. r[1] \in Calls
  BY Pairs
<1>2. TypeInv'
  BY <1>1 DEF IInv, TypeInv
<1>3. FreshInv' /\ ValInv' /\ ClearNeverThrows'
  BY DEF IInv, TypeInv, MapInv, FreshInv, ValInv, ClearNeverThrows
<1>4. \A q \in Reqs : IsSync(K(q))' <=> IsSync(K(q))
  BY <1>1, Pairs DEF IInv, TypeInv, K, IsSync
<1>5. PendInv'
  BY <1>4 DEF IInv, TypeInv, MapInv, PendInv
<1> QED
  BY <1>2, <1>3, <1>5 DEF MapInv

\* A request that is made is new in the maps, and in the set of one connection.
LEMMA StartMaps ==
  ASSUME IInv, NEW r \in Reqs, NEW x, NEW k, RequestStep(r, x, k), pc[r] = "none",
         NEW c \in Conns, c = IF IsSync(K(r)) THEN Main ELSE r[2],
         ackLookup' = ackLookup \cup {r}, rLookup' \in {rLookup, rLookup \cup {r}},
         pending' \in {pending, [pending EXCEPT ![c] = @ \cup {r}]},
         UNCHANGED <<up, clearThrew>>
  PROVE  TypeInv' /\ MapInv'
<1> USE DEF RequestStep
<1>1. r[1] \in Calls
  BY Pairs
<1>2. TypeInv'
  BY <1>1 DEF IInv, TypeInv
<1>3. FreshInv' /\ ValInv' /\ ClearNeverThrows'
  BY DEF IInv, TypeInv, MapInv, FreshInv, ValInv, ClearNeverThrows
<1>4. \A q \in Reqs : IsSync(K(q))' <=> IsSync(K(q))
  BY <1>1, Pairs DEF IInv, TypeInv, K, IsSync
<1>5. PendInv'
  BY <1>4 DEF IInv, TypeInv, MapInv, PendInv, FreshInv
<1> QED
  BY <1>2, <1>3, <1>5 DEF MapInv

-----------------------------------------------------------------------------
(* The actions of a request.                                               *)

\* A request that is made, asynchronously.
LEMMA StartAsyncHolds ==
  ASSUME IInv, NEW r \in Reqs, StartAsync(r)
  PROVE  IInv'
<1>1. /\ UnderWay(r) /\ ~IsSync(Made(r))
      /\ \/ Fail(r, Failure(Made(r))) /\ UNCHANGED <<ackLookup, pending>>
         \/ /\ ackLookup' = ackLookup \cup {r}
            /\ pending' = [pending EXCEPT ![r[2]] = IF r[2] = Main THEN @ ELSE @ \cup {r}]
            /\ pc' = [pc EXCEPT ![r] = "publish"]
            /\ call' = [call EXCEPT ![r[1]] = Made(r)]
            /\ failed' = failed
      /\ UNCHANGED <<up, rLookup, ackVal, resVal, clearThrew>>
  BY DEF StartAsync, UnderWay, Made, flags
<1>2. pc[r] = "none"
  BY Pairs DEF StartAsync, K, IInv, CallInv, CallOK, TodoOK
<1>3. ~IsSync(K(r)) /\ Made(r) \in CallStates /\ Made(r).kind \in AllKinds \ {"inbound"}
  BY <1>1, MadeOnce DEF IsSync
<1>4. CASE Fail(r, Failure(Made(r))) /\ UNCHANGED <<ackLookup, pending>>
  <2>1. RequestStep(r, "end", Failure(Made(r))) /\ failed' = failed \cup {r}
    BY <1>1, <1>3, <1>4, MadeOnce, Failures DEF RequestStep, Fail, End, Labels
  <2>2. CallInv'
    BY <1>3, <2>1, AsyncFails
  <2> QED
    BY <1>1, <1>4, <2>1, <2>2, StepMaps DEF IInv
<1>5. CASE /\ ackLookup' = ackLookup \cup {r}
           /\ pending' = [pending EXCEPT ![r[2]] = IF r[2] = Main THEN @ ELSE @ \cup {r}]
           /\ pc' = [pc EXCEPT ![r] = "publish"]
           /\ call' = [call EXCEPT ![r[1]] = Made(r)]
           /\ failed' = failed
  <2>1. RequestStep(r, "publish", Made(r)) /\ failed' = failed
    BY <1>1, <1>3, <1>5, MadeOnce DEF RequestStep, Labels
  <2>2. CallInv'
    BY <1>3, <2>1, AsyncGoesOn
  <2>3. pending' \in {pending, [pending EXCEPT ![r[2]] = @ \cup {r}]} /\ r[2] \in Conns
    BY <1>5, Pairs DEF IInv, TypeInv
  <2> QED
    BY <1>1, <1>2, <1>3, <1>5, <2>1, <2>2, <2>3, StartMaps DEF IInv
<1> QED
  BY <1>1, <1>4, <1>5

\* A request that is made, synchronously.
LEMMA StartSyncHolds ==
  ASSUME IInv, NEW r \in Reqs, StartSync(r)
  PROVE  IInv'
<1>1. /\ UnderWay(r) /\ IsSync(Made(r))
      /\ \/ Fail(r, Failure(Made(r))) /\ UNCHANGED <<ackLookup, rLookup, pending>>
         \/ /\ ackLookup' = ackLookup \cup {r} /\ rLookup' = rLookup \cup {r}
            /\ pending' = [pending EXCEPT ![Main] = @ \cup {r}]
            /\ pc' = [pc EXCEPT ![r] = "publish"]
            /\ call' = [call EXCEPT ![r[1]] = Made(r)]
            /\ failed' = failed
      /\ UNCHANGED <<up, ackVal, resVal, clearThrew>>
  BY DEF StartSync, UnderWay, Made
<1>2. pc[r] = "none"
  BY Pairs DEF StartSync, K, IInv, CallInv, CallOK, TodoOK
<1>3. IsSync(K(r)) /\ Made(r) \in CallStates /\ Made(r).kind \in AllKinds \ {"inbound"}
  BY <1>1, MadeOnce DEF IsSync
<1>4. Made(r).good = K(r).good /\ Made(r).bad = K(r).bad /\ Made(r).answer = K(r).answer
  BY MadeOnce DEF Made, CallStates
<1>5. CASE Fail(r, Failure(Made(r))) /\ UNCHANGED <<ackLookup, rLookup, pending>>
  <2>1. RequestStep(r, "end", Failure(Made(r)))
    BY <1>1, <1>3, <1>5, MadeOnce, Failures DEF RequestStep, Fail, End, Labels
  <2>2. /\ Failure(Made(r)).good = K(r).good /\ Failure(Made(r)).bad = K(r).bad
        /\ Failure(Made(r)).answer \in {K(r).answer, "exception"}
    BY <1>1, <1>3, <1>4, Failures
  <2>3. CallInv'
    BY <1>3, <2>1, <2>2, SyncStep
  <2> QED
    BY <1>1, <1>5, <2>1, <2>3, StepMaps DEF IInv
<1>6. CASE /\ ackLookup' = ackLookup \cup {r} /\ rLookup' = rLookup \cup {r}
           /\ pending' = [pending EXCEPT ![Main] = @ \cup {r}]
           /\ pc' = [pc EXCEPT ![r] = "publish"]
           /\ call' = [call EXCEPT ![r[1]] = Made(r)]
           /\ failed' = failed
  <2>1. RequestStep(r, "publish", Made(r))
    BY <1>1, <1>3, <1>6, MadeOnce DEF RequestStep, Labels
  <2>2. CallInv'
    BY <1>3, <1>4, <2>1, SyncStep
  <2>3. Main \in Conns
    BY DEF Conns
  <2> QED
    BY <1>1, <1>2, <1>3, <1>6, <2>1, <2>2, <2>3, StartMaps DEF IInv
<1> QED
  BY <1>1, <1>5, <1>6

\* A request that was made counts a failure and ends, or goes on.
LEMMA FailHolds ==
  ASSUME IInv, NEW r \in Reqs, pc[r] \notin {"none", "end"},
         NEW x \in {"result", "end"}, x = "result" => IsSync(K(r)),
         pc' = [pc EXCEPT ![r] = x], call' = [call EXCEPT ![r[1]] = Failure(K(r))],
         failed' = failed \cup {r}, UNCHANGED <<up, pending, maps, clearThrew>>
  PROVE  IInv'
<1>1. UnderWay(r) /\ Made(r) = K(r) /\ K(r) \in CallStates /\ K(r).kind \in AllKinds \ {"inbound"}
  BY MadeOnce DEF UnderWay
<1>2. RequestStep(r, x, Failure(K(r)))
  BY <1>1, MadeOnce, Failures DEF RequestStep, Labels, maps
<1>3. CASE IsSync(K(r))
  <2>1. /\ Failure(K(r)).good = K(r).good /\ Failure(K(r)).bad = K(r).bad
        /\ Failure(K(r)).answer \in {K(r).answer, "exception"}
    BY <1>1, <1>3, Failures
  <2>2. CallInv'
    BY <1>2, <1>3, <2>1, SyncStep
  <2> QED
    BY <1>2, <2>2, StepMaps DEF IInv, maps
<1>4. CASE ~IsSync(K(r))
  <2>1. x = "end"
    BY <1>4
  <2>2. CallInv'
    BY <1>1, <1>2, <1>4, <2>1, AsyncFails
  <2> QED
    BY <1>2, <2>2, StepMaps DEF IInv, maps
<1> QED
  BY <1>3, <1>4

\* A request that was made goes on and nothing is counted.
LEMMA GoOnHolds ==
  ASSUME IInv, NEW r \in Reqs, pc[r] \notin {"none", "end"},
         NEW x \in {"publish", "ack", "result"}, x = "result" => IsSync(K(r)),
         pc' = [pc EXCEPT ![r] = x], call' = call, failed' = failed,
         UNCHANGED <<up, pending, maps, clearThrew>>
  PROVE  IInv'
<1>1. UnderWay(r) /\ Made(r) = K(r) /\ K(r) \in CallStates
  BY MadeOnce DEF UnderWay
<1>2. call' = [call EXCEPT ![r[1]] = K(r)]
  BY DEF K, IInv, TypeInv
<1>3. RequestStep(r, x, K(r))
  BY <1>1, <1>2, MadeOnce DEF RequestStep, Labels, maps
<1>4. CallInv'
  BY <1>1, <1>3, SyncStep, AsyncGoesOn
<1> QED
  BY <1>3, <1>4, StepMaps DEF IInv, maps

\* The head of the retry loop.
LEMMA PublishHolds ==
  ASSUME IInv, NEW r \in Reqs, Publish(r)
  PROVE  IInv'
<1>1. pc[r] \notin {"none", "end"} /\ UNCHANGED <<up, pending, maps, clearThrew>>
  BY DEF Publish, conns
<1>2. \/ /\ pc' = [pc EXCEPT ![r] = "end"] /\ call' = [call EXCEPT ![r[1]] = Failure(K(r))]
         /\ failed' = failed \cup {r}
      \/ pc' = [pc EXCEPT ![r] = "ack"] /\ call' = call /\ failed' = failed
  BY DEF Publish, Fail, End
<1> QED
  BY <1>1, <1>2, FailHolds, GoOnHolds

\* The wait for an acknowledgement ends without one.
LEMMA AckTimeoutHolds ==
  ASSUME IInv, NEW r \in Reqs, AckTimeout(r)
  PROVE  IInv'
<1>1. /\ pc[r] \notin {"none", "end"} /\ pc' = [pc EXCEPT ![r] = "publish"]
      /\ call' = call /\ failed' = failed /\ UNCHANGED <<up, pending, maps, clearThrew>>
  BY DEF AckTimeout, conns, flags
<1> QED
  BY <1>1, GoOnHolds

\* All attempts are used.
LEMMA ExhaustedHolds ==
  ASSUME IInv, NEW r \in Reqs, Exhausted(r)
  PROVE  IInv'
<1>1. pc[r] \notin {"none", "end"} /\ call' = call /\ UNCHANGED <<up, pending, maps, clearThrew>>
  BY DEF Exhausted, conns, flags
<1>2. CASE IsSync(K(r))
  <2>1. pc' = [pc EXCEPT ![r] = "result"] /\ failed' = failed
    BY <1>2 DEF Exhausted
  <2> QED
    BY <1>1, <1>2, <2>1, GoOnHolds
<1>3. CASE ~IsSync(K(r))
  <2>1. pc' = [pc EXCEPT ![r] = "end"] /\ failed' = failed \cup {r}
    BY <1>3 DEF Exhausted
  <2>2. UnderWay(r) /\ Made(r) = K(r) /\ K(r) \in CallStates
    BY <1>1, MadeOnce DEF UnderWay
  <2>3. call' = [call EXCEPT ![r[1]] = K(r)]
    BY <1>1 DEF K, IInv, TypeInv
  <2>4. RequestStep(r, "end", K(r))
    BY <1>1, <2>1, <2>2, <2>3, MadeOnce DEF RequestStep, Labels, maps
  <2>5. CallInv'
    BY <1>3, <2>1, <2>2, <2>4, AsyncFails
  <2> QED
    BY <1>1, <2>4, <2>5, StepMaps DEF IInv, maps
<1> QED
  BY <1>2, <1>3

\* An asynchronous request reads what its acknowledgement was.
LEMMA AckReadyAsyncHolds ==
  ASSUME IInv, NEW r \in Reqs, AckReadyAsync(r)
  PROVE  IInv'
<1>1. /\ pc[r] \notin {"none", "end"} /\ ~IsSync(K(r))
      /\ UNCHANGED <<up, pending, maps, clearThrew>>
  BY DEF AckReadyAsync, conns, flags
<1>2. CASE ackVal[r] = "true" /\ End(r, Success(K(r))) /\ failed' = failed
  <2>1. /\ UnderWay(r) /\ Made(r) = K(r) /\ K(r) \in CallStates
        /\ K(r).kind \in AllKinds \ {"inbound"} /\ K(r).todo = K(r).todo \ {r[2]}
    BY <1>1, MadeOnce DEF UnderWay
  <2>2. RequestStep(r, "end", Success(K(r)))
    BY <1>1, <1>2, <2>1, Successes DEF RequestStep, End, Labels, maps
  <2>3. CallInv'
    BY <1>1, <1>2, <2>2, AsyncSucceeds
  <2> QED
    BY <1>1, <2>2, <2>3, StepMaps DEF IInv, maps
<1>3. CASE Fail(r, Failure(K(r)))
  BY <1>1, <1>3, FailHolds DEF Fail, End
<1> QED
  BY <1>2, <1>3 DEF AckReadyAsync

\* A synchronous one does, and waits for its result or gives up.
LEMMA AckReadySyncHolds ==
  ASSUME IInv, NEW r \in Reqs, AckReadySync(r)
  PROVE  IInv'
<1>1. /\ pc[r] \notin {"none", "end"} /\ IsSync(K(r))
      /\ UNCHANGED <<up, pending, maps, clearThrew>>
  BY DEF AckReadySync, conns
<1>2. \/ pc' = [pc EXCEPT ![r] = "result"] /\ call' = call /\ failed' = failed
      \/ /\ pc' = [pc EXCEPT ![r] = "end"] /\ call' = [call EXCEPT ![r[1]] = Failure(K(r))]
         /\ failed' = failed \cup {r}
      \/ /\ pc' = [pc EXCEPT ![r] = "result"] /\ call' = [call EXCEPT ![r[1]] = Failure(K(r))]
         /\ failed' = failed \cup {r}
  BY DEF AckReadySync, Fail, End
<1> QED
  BY <1>1, <1>2, FailHolds, GoOnHolds

\* Requests that wait for a result belong to synchronous calls: what they find
\* there, or the time-out, ends them.
LEMMA ResultHolds ==
  ASSUME IInv, NEW r \in Reqs, IsSync(K(r)), ResTimeout(r) \/ ResReady(r)
  PROVE  IInv'
<1>1. /\ pc[r] \notin {"none", "end"} /\ UNCHANGED <<up, pending, maps, clearThrew>>
      /\ pc' = [pc EXCEPT ![r] = "end"] /\ failed' \in {failed, failed \cup {r}}
  BY DEF ResTimeout, ResReady, Fail, End, conns, flags
<1>2. /\ UnderWay(r) /\ Made(r) = K(r) /\ K(r) \in CallStates /\ K(r).todo = K(r).todo \ {r[2]}
      /\ K(r).kind \in AllKinds \ {"inbound"}
  BY <1>1, MadeOnce DEF UnderWay
<1>3. PICK k : /\ call' = [call EXCEPT ![r[1]] = k]
               /\ \/ k = FailureCaught(K(r))
                  \/ k = Success(K(r)) /\ K(r).kind = "sync"
                  \/ k = Success(K(r)) /\ resVal[r] = "true"
  BY DEF ResTimeout, ResReady, Fail, End
<1>4. /\ k \in CallStates /\ k.kind = K(r).kind /\ k.todo = K(r).todo
      /\ k.good = K(r).good /\ k.bad = K(r).bad
      /\ k.kind = "syncEach" /\ k.answer = "value" => K(r).answer = "value" \/ resVal[r] = "true"
  <2>1. CASE k = FailureCaught(K(r))
    BY <1>2, <2>1, CaughtFailures
  <2>2. CASE k = Success(K(r)) /\ K(r).kind = "sync"
    BY <1>2, <2>2, Successes
  <2>3. CASE k = Success(K(r)) /\ resVal[r] = "true"
    BY <1>2, <2>3, Successes
  <2> QED
    BY <1>3, <2>1, <2>2, <2>3
<1>5. RequestStep(r, "end", k)
  BY <1>1, <1>2, <1>3, <1>4 DEF RequestStep, Labels, maps
<1>6. CallInv'
  BY <1>4, <1>5, SyncStep
<1> QED
  BY <1>1, <1>5, <1>6, StepMaps DEF IInv, maps

-----------------------------------------------------------------------------
(* Calls.                                                                  *)

\* A call that has made no request gets a new state.
LEMMA NewCall ==
  ASSUME IInv, NEW k \in Calls, call[k].kind \in {"none", "inbound"}, NEW v \in CallStates,
         call' = [call EXCEPT ![k] = v],
         UNCHANGED <<up, pending, maps, pc, failed, clearThrew>>
  PROVE  /\ TypeInv' /\ MapInv' /\ call'[k] = v
         /\ \A c \in Conns : pc[<<k, c>>] = "none" /\ <<k, c>> \notin failed
         /\ \A j \in Calls \ {k} : CallOK(j)'
<1> USE DEF maps
<1>1. TypeInv' /\ call'[k] = v
  BY DEF IInv, TypeInv
<1>2. \A c \in Conns : pc[<<k, c>>] = "none"
  BY DEF IInv, CallInv, CallOK, TodoOK
<1>3. \A c \in Conns : <<k, c>> \notin failed
  BY <1>2, Pairs DEF IInv, MapInv, FreshInv
<1>4. FreshInv' /\ ValInv' /\ ClearNeverThrows'
  BY DEF IInv, MapInv, FreshInv, ValInv, ClearNeverThrows
<1>5. PendInv'
  <2> SUFFICES ASSUME NEW c \in Conns, NEW r \in pending[c] PROVE PendInv!(c)!(r)'
    BY DEF PendInv
  <2>1. r \in Reqs /\ pc[r] # "none"
    BY DEF IInv, TypeInv, MapInv, FreshInv
  <2>2. r[1] \in Calls \ {k}
    BY <1>2, <2>1, Pairs
  <2>3. K(r)' = K(r)
    BY <2>2 DEF K, IInv, TypeInv
  <2> QED
    BY <2>3 DEF IInv, MapInv, PendInv
<1>6. ASSUME NEW j \in Calls \ {k} PROVE CallOK(j)'
  <2>1. call'[j] = call[j]
    BY DEF IInv, TypeInv
  <2> QED
    BY <2>1, Frame DEF IInv, CallInv
<1> QED
  BY <1>1, <1>2, <1>3, <1>4, <1>5, <1>6 DEF MapInv

\* The state of a call before it begins.
LEMMA NoCallState ==
  /\ NoCall \in CallStates /\ NoCall.kind = "none" /\ NoCall.fails = 0 /\ NoCall.once = FALSE
  /\ NoCall.good = 0 /\ NoCall.bad = 0 /\ NoCall.answer = "none" /\ NoCall.todo = {}
BY DEF NoCall, CallStates, Answers

\* A call begins with one request for each of its targets.
LEMMA BeginHolds ==
  ASSUME IInv, NEW k \in Calls, NEW kind \in AllKinds, Begin(k, kind)
  PROVE  IInv'
<1>1. PICK targets :
        /\ targets = IF kind \in {"asyncEach", "syncEach"} THEN {Main} \cup (up \cap Hosts)
                                                           ELSE {Main}
        /\ call' = [call EXCEPT ![k] = [NoCall EXCEPT !.kind = kind, !.todo = targets,
                                          !.total = Cardinality(targets \ {Main})]]
  BY DEF Begin
<1>2. /\ call[k] = NoCall /\ kind # "inbound"
      /\ UNCHANGED <<up, pending, maps, pc, failed, clearThrew>>
  BY DEF Begin, conns, flags
<1>3. Main \in targets /\ targets \subseteq Conns /\ targets \ {Main} \subseteq Hosts
  BY <1>1 DEF Conns
<1>4. /\ IsFiniteSet(targets \ {Main}) /\ Cardinality(targets \ {Main}) \in Nat
      /\ Cardinality(targets) = Cardinality(targets \ {Main}) + 1
  <2>1. IsFiniteSet(targets \ {Main})
    BY <1>3, RemoteAssumption, FS_Subset
  <2>2. targets = (targets \ {Main}) \cup {Main} /\ Main \notin targets \ {Main}
    BY <1>3
  <2> QED
    BY <2>1, <2>2, FS_AddElement, FS_CardinalityType
<1>5. PICK v \in CallStates :
        /\ call' = [call EXCEPT ![k] = v]
        /\ v.kind = kind /\ v.todo = targets /\ v.total = Cardinality(targets \ {Main})
        /\ v.fails = 0 /\ v.once = FALSE /\ v.good = 0 /\ v.bad = 0 /\ v.answer = "none"
  <2>1. PICK n \in Nat : n = Cardinality(targets \ {Main})
    BY <1>4
  <2>2. PICK z \in CallStates :
          /\ z = NoCall
          /\ z.fails = 0 /\ z.once = FALSE /\ z.good = 0 /\ z.bad = 0 /\ z.answer = "none"
    BY NoCallState
  <2>3. PICK v : v = [z EXCEPT !.kind = kind, !.todo = targets, !.total = n]
    OBVIOUS
  <2>4. /\ v \in CallStates /\ v.kind = kind /\ v.todo = targets /\ v.total = n
        /\ v.fails = 0 /\ v.once = FALSE /\ v.good = 0 /\ v.bad = 0 /\ v.answer = "none"
    BY <1>3, <2>2, <2>3 DEF CallStates
  <2>5. call' = [call EXCEPT ![k] = v]
    BY <1>1, <2>1, <2>2, <2>3
  <2> QED
    BY <2>1, <2>4, <2>5
<1>6. /\ TypeInv' /\ MapInv' /\ call'[k] = v
      /\ \A c \in Conns : pc[<<k, c>>] = "none" /\ <<k, c>> \notin failed
      /\ \A j \in Calls \ {k} : CallOK(j)'
  BY <1>2, <1>5, NewCall, NoCallState
<1>7. Members(k)' = targets
  BY <1>2, <1>3, <1>5, <1>6 DEF Members, Conns
<1>8. FailedOf(k)' = {}
  BY <1>2, <1>3, <1>6, <1>7 DEF FailedOf
<1>9. TodoOK(k)' /\ EndOK(k)' /\ SyncOK(k)'
  BY <1>2, <1>5, <1>6 DEF TodoOK, EndOK, SyncOK, AllKinds
<1>10. AsyncOK(k)'
  <2>1. kind = "async" => targets = {Main}
    BY <1>1
  <2> QED
    BY <1>2, <1>5, <1>6, <2>1 DEF AsyncOK, Conns
<1>11. EachOK(k)'
  BY <1>3, <1>4, <1>5, <1>6, <1>7, <1>8, FS_EmptySet DEF EachOK
<1> QED
  BY <1>6, <1>9, <1>10, <1>11 DEF IInv, CallInv, CallOK

\* A call from the other side makes no requests.
LEMMA InboundHolds ==
  ASSUME IInv, NEW k \in Calls, RexecAsy(k) \/ Invoke(k) \/ Reply(k)
  PROVE  IInv'
<1>1. call[k] \in CallStates /\ UNCHANGED <<up, pending, maps, pc, failed, clearThrew>>
  BY DEF IInv, TypeInv, RexecAsy, Invoke, Reply, conns, flags
<1>2. call[k].kind \in {"none", "inbound"}
  BY NoCallState DEF RexecAsy, Invoke, Reply
<1>3. PICK v \in CallStates :
        /\ call' = [call EXCEPT ![k] = v]
        /\ v.kind = "inbound" /\ v.todo = {} /\ v.good = 0 /\ v.bad = 0 /\ v.answer # "value"
  <2>1. CASE RexecAsy(k)
    <3>1. PICK v : v = [NoCall EXCEPT !.kind = "inbound", !.answer = "task"]
      OBVIOUS
    <3>2. /\ v \in CallStates /\ v.kind = "inbound" /\ v.todo = {} /\ v.good = 0
          /\ v.bad = 0 /\ v.answer # "value"
      BY <3>1 DEF NoCall, CallStates, Answers, AllKinds
    <3> QED
      BY <2>1, <3>1, <3>2 DEF RexecAsy
  <2>2. CASE Invoke(k) \/ Reply(k)
    <3>1. PICK a \in {"reply", "done"} : call' = [call EXCEPT ![k].answer = a]
      BY <2>2 DEF Invoke, Reply
    <3>2. call[k].kind = "inbound" /\ call[k].todo = {} /\ call[k].good = 0 /\ call[k].bad = 0
      BY <2>2 DEF Invoke, Reply, IInv, CallInv, CallOK, TodoOK
    <3>3. PICK v : v = [call[k] EXCEPT !.answer = a]
      OBVIOUS
    <3>4. /\ v \in CallStates /\ v.kind = "inbound" /\ v.todo = {} /\ v.good = 0
          /\ v.bad = 0 /\ v.answer # "value"
      BY <1>1, <3>1, <3>2, <3>3 DEF CallStates, Answers
    <3>5. call' = [call EXCEPT ![k] = v]
      BY <3>1, <3>3
    <3> QED
      BY <3>4, <3>5
  <2> QED
    BY <2>1, <2>2
<1>4. /\ TypeInv' /\ MapInv' /\ call'[k] = v
      /\ \A c \in Conns : pc[<<k, c>>] = "none" /\ <<k, c>> \notin failed
      /\ \A j \in Calls \ {k} : CallOK(j)'
  BY <1>1, <1>2, <1>3, NewCall
<1>5. CallOK(k)'
  BY <1>1, <1>3, <1>4 DEF CallOK, TodoOK, EndOK, AsyncOK, EachOK, SyncOK
<1> QED
  BY <1>4, <1>5 DEF IInv, CallInv

-----------------------------------------------------------------------------
(* The theorems.                                                           *)

\* Initially there are no calls.
LEMMA InitHolds == Init => IInv
<1> SUFFICES ASSUME Init PROVE IInv
  OBVIOUS
<1> USE DEF Init
<1>1. TypeInv
  BY NoCallState DEF TypeInv, Conns, Vals, Labels
<1>2. MapInv
  BY DEF MapInv, FreshInv, ValInv, PendInv, ClearNeverThrows
<1>3. ASSUME NEW k \in Calls PROVE CallOK(k)
  <2>1. call[k].kind = "none" /\ \A c \in Conns : pc[<<k, c>>] = "none"
    BY NoCallState, Pairs
  <2> QED
    BY <2>1 DEF CallOK, TodoOK, EndOK, AsyncOK, EachOK, SyncOK, NoCall
<1> QED
  BY <1>1, <1>2, <1>3 DEF IInv, CallInv

\* Every step keeps the invariant.
LEMMA NextHolds == IInv /\ [Next]_vars => IInv'
<1> SUFFICES ASSUME IInv, [Next]_vars PROVE IInv'
  OBVIOUS
<1>1. ASSUME NEW r \in Reqs, Step(r) PROVE IInv'
  <2>1. CASE StepAsync(r)
    BY <2>1, StartAsyncHolds, AckReadyAsyncHolds DEF StepAsync
  <2>2. CASE ResTimeout(r) \/ ResReady(r)
    <3>1. pc[r] = "result"
      BY <2>2 DEF ResTimeout, ResReady
    <3>2. K(r).kind \in AllKinds \ {"inbound"}
      BY <3>1, MadeOnce DEF UnderWay
    <3>3. K(r).kind \notin {"async", "asyncEach"}
      BY <3>1, Pairs DEF IInv, CallInv, CallOK, EndOK, K
    <3> QED
      BY <2>2, <3>2, <3>3, ResultHolds DEF IsSync, AllKinds
  <2>3. CASE StartSync(r) \/ AckReadySync(r)
    BY <2>3, StartSyncHolds, AckReadySyncHolds
  <2>4. CASE Attempt(r)
    BY <2>4, PublishHolds, AckTimeoutHolds, ExhaustedHolds DEF Attempt
  <2> QED
    BY <1>1, <2>1, <2>2, <2>3, <2>4 DEF Step, StepSync
<1>2. ASSUME NEW r \in Reqs, AckArrives(r) \/ ResArrives(r) PROVE IInv'
  BY <1>2, AckArrivesHolds, ResArrivesHolds
<1>3. ASSUME NEW k \in Calls, RexecAsy(k) \/ Invoke(k) \/ Reply(k) PROVE IInv'
  BY <1>3, InboundHolds
<1>4. ASSUME NEW k \in Calls, NEW kind \in AllKinds, Begin(k, kind) PROVE IInv'
  BY <1>4, BeginHolds
<1>5. ASSUME NEW h \in Hosts, PutDel(h) PROVE IInv'
  BY <1>5, PutDelHolds
<1>6. ASSUME UNCHANGED vars PROVE IInv'
  <2>1. UNCHANGED <<pending, maps, tasks, clearThrew>> /\ up' \in SUBSET Conns
    BY <1>6 DEF vars, conns, flags, IInv, TypeInv
  <2> QED
    BY <2>1, AliveHolds
<1> QED
  BY <1>1, <1>2, <1>3, <1>4, <1>5, <1>6, CheckExpireHolds, ShutDownHolds, ConnectionHolds
     DEF Next

\* The inductive invariant holds for any finite set of hosts and any calls.
THEOREM RemoteInvariant == Spec => []IInv
BY InitHolds, NextHolds, PTL DEF Spec

\* Dropping a connection never meets a promise that is set already: CheckExpire,
\* ShutDown and PUT-CF-INFO DEL do not end the process.
THEOREM ClearIsSafe == Spec => []ClearNeverThrows
<1>1. IInv => ClearNeverThrows
  BY DEF IInv, MapInv
<1> QED
  BY <1>1, RemoteInvariant, PTL

\* Of an asynchronous call at most one callback is called, at most once.
THEOREM CallsBackOnce == Spec => []OneCallback
<1>1. ASSUME IInv, NEW k \in Calls PROVE call[k].good + call[k].bad <= 1
  <2>1. CallOK(k) /\ call[k] \in CallStates
    BY <1>1 DEF IInv, TypeInv, CallInv
  <2>2. CASE call[k].kind = "async"
    BY <2>1, <2>2 DEF CallOK, AsyncOK
  <2>3. CASE call[k].kind = "asyncEach"
    BY <2>1, <2>3 DEF CallOK, EachOK, CallStates
  <2>4. CASE call[k].kind \notin {"async", "asyncEach"}
    <3>1. call[k].good = 0 /\ call[k].bad = 0
      BY <2>1, <2>4 DEF CallOK, TodoOK, SyncOK, CallStates, AllKinds
    <3> QED
      BY <3>1
  <2> QED
    BY <2>2, <2>3, <2>4
<1>2. IInv => OneCallback
  BY <1>1 DEF OneCallback
<1> QED
  BY <1>2, RemoteInvariant, PTL

\* The failure callback is called only when every request of the call has failed.
THEOREM FailureMeansAllFailed == Spec => []FailureOnlyIfAllFailed
<1>1. ASSUME IInv, NEW k \in Calls, call[k].bad > 0, NEW c \in Members(k)
      PROVE  <<k, c>> \in failed
  <2>1. CallOK(k) /\ call[k] \in CallStates
    BY <1>1 DEF IInv, TypeInv, CallInv
  <2>2. call[k].kind \in {"async", "asyncEach"}
    BY <1>1, <2>1 DEF CallOK, TodoOK, SyncOK, CallStates, AllKinds
  <2>3. CASE call[k].kind = "async"
    BY <1>1, <2>1, <2>3 DEF CallOK, AsyncOK, Members
  <2>4. CASE call[k].kind = "asyncEach"
    <3>1. Cardinality(FailedOf(k)) = Cardinality(Members(k))
      BY <1>1, <2>1, <2>4, MembersFinite DEF CallOK, EachOK, CallStates
    <3>2. FailedOf(k) = Members(k)
      BY <3>1, MembersFinite, FS_Subset DEF FailedOf
    <3> QED
      BY <3>2 DEF FailedOf
  <2> QED
    BY <2>2, <2>3, <2>4
<1>2. IInv => FailureOnlyIfAllFailed
  BY <1>1 DEF FailureOnlyIfAllFailed
<1> QED
  BY <1>2, RemoteInvariant, PTL

\* The success callback is called only if a connection acknowledged, and a call to
\* each connection returns a value only if a result arrived.
THEOREM SuccessMeansAnswered == Spec => []SuccessOnlyIfAnswered
<1>1. ASSUME IInv, NEW k \in Calls
      PROVE  /\ call[k].good > 0 => \E c \in Members(k) : ackVal[<<k, c>>] = "true"
             /\ call[k].kind = "syncEach" /\ call[k].answer = "value" =>
                  \E c \in Members(k) : resVal[<<k, c>>] = "true"
  <2>1. CallOK(k) /\ call[k] \in CallStates
    BY <1>1 DEF IInv, TypeInv, CallInv
  <2>2. \A c \in Conns : pc[<<k, c>>] # "none" => c \in Members(k)
    BY DEF Members, Conns
  <2>3. Main \in Members(k)
    BY DEF Members
  <2>4. CASE call[k].kind = "async"
    BY <2>1, <2>3, <2>4 DEF CallOK, AsyncOK, EndOK
  <2>5. CASE call[k].kind = "asyncEach"
    BY <2>1, <2>5 DEF CallOK, EachOK, EndOK
  <2>6. CASE call[k].kind \in {"sync", "syncEach"}
    <3>1. call[k].good = 0
      BY <2>1, <2>6 DEF CallOK, SyncOK
    <3>2. call[k].kind = "syncEach" /\ call[k].answer = "value" =>
            \E c \in Conns : pc[<<k, c>>] # "none" /\ resVal[<<k, c>>] = "true"
      BY <2>1, <2>6 DEF CallOK, SyncOK
    <3>3. ~(call[k].good > 0)
      BY ONLY <3>1
    <3>4. call[k].kind = "syncEach" /\ call[k].answer = "value" =>
            \E c \in Members(k) : resVal[<<k, c>>] = "true"
      BY ONLY <2>2, <3>2, Zenon
    <3> QED
      BY ONLY <3>3, <3>4
  <2>7. CASE call[k].kind \in {"none", "inbound"}
    BY <2>1, <2>7 DEF CallOK, TodoOK
  <2> QED
    BY <2>1, <2>4, <2>5, <2>6, <2>7 DEF CallStates, AllKinds
<1>2. IInv => SuccessOnlyIfAnswered
  BY <1>1 DEF SuccessOnlyIfAnswered
<1> QED
  BY <1>2, RemoteInvariant, PTL
=============================================================================
