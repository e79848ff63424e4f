---------------------------- MODULE MCTimingWheel ----------------------------
(* A wheel small enough to be explored completely. *)
EXTENDS TimingWheel

\* timeouts_update with the sorting, flattening and folding of the library.
Before(l, k) == l[1] < k[1] \/ (l[1] = k[1] /\ l[2] < k[2])
Folded(S, new) ==
    LET ticked == Ticked(S, new) \cap S.pending
        order == SetToSortSeq(ticked, Before)
        todo == FlattenSeq([i \in 1 .. Len(order) |-> S.list[order[i]]])
        C == [S EXCEPT !.list = [l \in Lists |-> IF l \in ticked THEN <<>> ELSE @[l]],
                       !.pending = @ \ ticked,
                       !.curtime = new,
                       !.at = [t \in Timers |-> IF @[t] \in ticked THEN Null ELSE @[t]]]
        sched(R, t) == timeouts_sched(R, t, R.expires[t])
    IN  FoldLeft(sched, C, todo)

\* Every timeout armed, in any order and at any time.
AllArmed ==
    UNION {{FoldLeft(LAMBDA S, t : timeouts_add(S, t, given[t]),
                     [timeouts_init EXCEPT !.curtime = now], order)
               : order \in SetToSeqs(Timers), given \in [Timers -> Times]}
            : now \in 0 .. MaxTime}

\* The order in which timeouts_update takes the timeouts is the one of the code's
\* two loops, and scheduling them in turn is the fold over it.
ASSUME UpdateIsFold ==
    \A S \in AllArmed : \A new \in S.curtime .. MaxTime :
        timeouts_update(S, new) = Folded(S, new)
==============================================================================
