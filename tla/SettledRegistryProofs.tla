----------------------- MODULE SettledRegistryProofs -----------------------
(***************************************************************************)
(* Proofs that the registry keeps its budget and loses no wakeup, for any  *)
(* clients, models, specs and budgets.                                     *)
(***************************************************************************)
EXTENDS ModelRegistryProofs

-----------------------------------------------------------------------------
(* Steps that charge or release.                                           *)

\* The smaller of two numbers.
LEMMA SmallerOf ==
  ASSUME NEW n \in Nat, NEW v \in Nat
  PROVE  \E own \in Nat : own <= n /\ own <= v /\ (own = n \/ own = v)
  <1>1. CASE n <= v
    BY <1>1
  <1>2. CASE ~(n <= v)
    BY <1>2
  <1> QED BY <1>1, <1>2

\* Every slack is that of a reservation, so of a model that is loading.
LEMMA SlackIsLoading ==
  ASSUME IInv, NEW slack, NEW r, SlackFor(slack, r), NEW m \in Models, slack[m] # 0
  PROVE  status[m] = "Loading"
  BY DEF SlackFor, Pending, IInv, SingleLoader, Loader

\* A reservation charges its model before its victims are destroyed.  What the
\* charges then exceed the budget by is slack: if the victims free less than the
\* model takes, the plan says that the difference fits.
LEMMA ReserveWithinBudget ==
  ASSUME BudgetInv, SettledStep, NEW c \in Clients, NEW m \in Models,
         pc[c] # "destroy", status[m] = "Unloaded", spec[m].need \in Bytes,
         NEW V \in SUBSET Models, m \notin V, \A k \in V : status[k] = "Loaded",
         settled' => FitsWithout(V, budget.limit, spec[m].need),
         bytes' = [k \in Models |-> IF k = m THEN spec[m].need
                                    ELSE IF k \in V THEN ZeroBytes ELSE bytes[k]],
         used' = [r \in Resource |-> used[r] + spec[m].need[r]],
         doomed' = [doomed EXCEPT ![c] = TakenOut(V)],
         pc'[c] = IF V = {} THEN "init" ELSE "destroy",
         InCall(c, "acquire", m)',
         \A d \in Clients \ {c} : pc'[d] = pc[d] /\ call'[d] = call[d]
  PROVE  WithinBudget'
  <1> SUFFICES ASSUME settled', NEW r \in Resource, budget'.limit[r] # 0
               PROVE  \E slack \in [Models -> Nat] :
                        /\ SlackFor(slack, r)'
                        /\ used'[r] <= budget'.limit[r] + SumOver(slack, Models)
    BY DEF WithinBudget
  <1> DEFINE n == spec[m].need[r]
             v == SumBytes(V, r)
             L == budget.limit[r]
  <1>1. settled /\ budget' = budget
    BY Zenon DEF SettledStep, StaysSettled
  <1>2. PICK slack \in [Models -> Nat] :
          SlackFor(slack, r) /\ used[r] <= L + SumOver(slack, Models)
    BY <1>1 DEF WithinBudget, BudgetInv
  <1>3. TypeOK /\ DoomedInv /\ IInv
    BY DEF BudgetInv, IInv
  <1>4. n \in Nat /\ v \in Nat /\ L \in Nat /\ used[r] \in Nat
    <2>1. n \in Nat
      BY DEF Bytes
    <2>2. v \in Nat /\ used[r] \in Nat
      BY CountersTyped, <1>3 DEF BudgetInv, CountersOK
    <2>3. L \in Nat
      BY <1>3 DEF TypeOK, Budget, Bytes
    <2> QED BY <2>1, <2>2, <2>3
  <1>5. used[r] - v + n <= L
    BY <1>1 DEF FitsWithout, fits
  <1>6. slack[m] = 0
    BY <1>2, <1>3, SlackIsLoading
  <1>7. SumDoomed(TakenOut(V), r) = v
    BY <1>3, TakenOutBytes
  <1>8. V = {} => v = 0
    BY SumEmpty DEF SumBytes
  <1>9. bytes'[m][r] = n /\ used'[r] = used[r] + n
    OBVIOUS
  <1>10. doomed'[c] = TakenOut(V) /\ \A d \in Clients \ {c} : doomed'[d] = doomed[d]
    BY <1>3 DEF TypeOK
  <1> HIDE DEF n, v, L
  <1>11. PICK own \in Nat : own <= n /\ own <= v /\ (own = n \/ own = v)
    BY <1>4, SmallerOf, Zenon
  <1> DEFINE new == [slack EXCEPT ![m] = own]
  <1>12. /\ new \in [Models -> Nat] /\ new[m] = own
         /\ \A k \in Models \ {m} : new[k] = slack[k]
    BY <1>11
  <1> HIDE DEF new
  <1>13. SumOver(new, Models) = SumOver(slack, Models) + own /\ SumOver(slack, Models) \in Nat
    <2>1. \A k \in Models : slack[k] \in Nat /\ new[k] \in Nat
      BY <1>12
    <2>2. /\ SumOver(new, Models) = SumOver(slack, Models) - slack[m] + new[m]
          /\ SumOver(slack, Models) \in Nat
      <3>1. \A k \in Models \ {m} : new[k] = slack[k]
        BY <1>12
      <3> QED BY <2>1, <3>1, ModelsFinite, SumUpdate, SMTT(30)
    <2> QED BY <1>6, <1>11, <1>12, <2>2
  <1>14. SlackFor(new, r)'
    <2> SUFFICES ASSUME NEW k \in Models, new[k] # 0
                 PROVE  \E d \in Clients :
                          /\ Pending(d, k)'
                          /\ new[k] <= bytes'[k][r]
                          /\ new[k] <= SumDoomed(doomed'[d], r)
      BY DEF SlackFor, SumDoomed
    <2>1. CASE k = m
      <3>1. V # {}
        BY <1>4, <1>8, <1>11, <1>12, <2>1
      <3>2. Pending(c, m)'
        BY <3>1 DEF Pending
      <3>3. new[m] <= bytes'[m][r] /\ new[m] <= SumDoomed(doomed'[c], r)
        BY <1>7, <1>9, <1>10, <1>11, <1>12
      <3> QED BY <2>1, <3>2, <3>3
    <2>2. CASE k # m
      <3>1. new[k] = slack[k] /\ slack[k] # 0
        BY <1>12, <2>2
      <3>2. status[k] = "Loading"
        BY <1>2, <1>3, <3>1, SlackIsLoading
      <3>3. bytes'[k] = bytes[k]
        BY <2>2, <3>2
      <3>4. PICK d \in Clients : /\ Pending(d, k)
                                 /\ slack[k] <= bytes[k][r]
                                 /\ slack[k] <= SumDoomed(doomed[d], r)
        BY <1>2, <3>1 DEF SlackFor
      <3>5. d # c /\ Pending(d, k)' /\ doomed'[d] = doomed[d]
        BY <1>10, <3>4 DEF Pending, InCall
      <3>6. new[k] <= bytes'[k][r]
        BY <3>1, <3>3, <3>4
      <3>7. new[k] <= SumDoomed(doomed'[d], r)
        BY <3>1, <3>4, <3>5
      <3> QED BY <3>5, <3>6, <3>7
    <2> QED BY <2>1, <2>2
  <1>15. used'[r] <= budget'.limit[r] + SumOver(new, Models)
    <2>1. budget'.limit[r] = L
      BY <1>1 DEF L
    <2>2. used[r] + n <= L + (SumOver(slack, Models) + own)
      BY <1>2, <1>4, <1>5, <1>11, <1>13
    <2> QED BY <1>9, <1>13, <2>1, <2>2
  <1> QED BY <1>12, <1>14, <1>15

\* A reservation.
LEMMA ReserveKeeps ==
  ASSUME BudgetInv, IInv', SettledStep, NEW c \in Clients, NEW m \in Models,
         AtAcquire(c, m), status[m] = "Unloaded",
         NEW V \in SUBSET evictable({m}), ReserveEvicting(c, m, V),
         settled' => FitsWithout(V, budget.limit, spec[m].need)
  PROVE  BudgetInv'
  <1>1. /\ status' = [k \in Models |-> IF k = m THEN "Loading"
                                       ELSE IF k \in V THEN "Unloaded"
                                       ELSE status[k]]
        /\ bytes' = [k \in Models |-> IF k = m THEN spec[m].need
                                      ELSE IF k \in V THEN ZeroBytes
                                      ELSE bytes[k]]
        /\ used' = [r \in Resource |-> used[r] + spec[m].need[r]]
        /\ releasing' = [r \in Resource |-> releasing[r] + SumBytes(V, r)]
        /\ doomed' = [doomed EXCEPT ![c] = TakenOut(V)]
        /\ pc' = [pc EXCEPT ![c] = IF V = {} THEN "init" ELSE "destroy"]
        /\ call' = [call EXCEPT ![c] = CallRecord(c, "acquire", m)]
        /\ UNCHANGED <<spec, leases, older, budget, holders>>
    BY DEF ReserveEvicting, Goto, ReleasingWith
  <1>2. TypeOK /\ DoomedInv /\ IInv
    BY DEF BudgetInv, IInv
  <1>3. pc[c] # "destroy" /\ spec[m] # NoSpec
    BY DEF AtAcquire, At
  <1>4. m \notin V /\ V \in SUBSET Models /\ \A k \in V : status[k] = "Loaded"
    BY DEF evictable
  <1>5. spec[m].need \in Bytes /\ bytes[m] = ZeroBytes
    BY <1>2, <1>3 DEF TypeOK, Spec_, IInv, SpecStable
  <1>6. /\ pc'[c] = IF V = {} THEN "init" ELSE "destroy"
        /\ call'[c] = CallRecord(c, "acquire", m)
        /\ \A d \in Clients \ {c} : pc'[d] = pc[d] /\ call'[d] = call[d]
    BY <1>1, <1>2 DEF TypeOK
  <1>7. InCall(c, "acquire", m)'
    BY <1>6, SMTT(30) DEF InCall, CallRecord
  <1>8. CountersOK
    BY <1>2, CountersTyped DEF BudgetInv
  <1>9. \A r \in Resource :
          /\ DoomedBytes(r)' = DoomedBytes(r) + SumBytes(V, r)
          /\ DoomedBytes(r) \in Nat /\ SumBytes(V, r) \in Nat
          /\ IsFiniteSet(TakenOut(V))
    BY <1>1, <1>2, <1>3, <1>4, TakeOutReleases, ZenonT(30)
  <1>10. \A r \in Resource :
           SumBytes(Models, r)' = SumBytes(Models, r) - SumBytes(V, r) + spec[m].need[r]
    BY ZenonT(30), <1>1, <1>2, <1>4, <1>5, BytesReplaced
  <1>11. Accounting'
    <2> SUFFICES ASSUME NEW r \in Resource
                 PROVE  /\ releasing'[r] = DoomedBytes(r)'
                        /\ used'[r] = SumBytes(Models, r)' + releasing'[r]
      BY DEF Accounting
    <2>1. releasing[r] = DoomedBytes(r) /\ used[r] = SumBytes(Models, r) + releasing[r]
      BY DEF BudgetInv, Accounting
    <2>2. releasing'[r] = releasing[r] + SumBytes(V, r) /\ used'[r] = used[r] + spec[m].need[r]
      BY ZenonT(30), <1>1
    <2>3. SumBytes(Models, r) \in Nat /\ spec[m].need[r] \in Nat
      BY <1>5, <1>8 DEF CountersOK, Bytes
    <2>4. /\ DoomedBytes(r)' = DoomedBytes(r) + SumBytes(V, r)
          /\ DoomedBytes(r) \in Nat /\ SumBytes(V, r) \in Nat
      BY ZenonT(30), <1>9
    <2>5. Moved(SumBytes(Models, r), DoomedBytes(r), SumBytes(V, r), spec[m].need[r])
      BY ZenonT(30), <2>3, <2>4, MovesOver
    <2> QED BY ZenonT(30), <1>10, <2>1, <2>2, <2>4, <2>5 DEF Moved
  <1>12. DoomedInv'
    BY <1>1, <1>2, <1>6, <1>9, TakeOutDoomed, ZenonT(30) DEF Resource
  <1>13. UseOrder'
    BY ZenonT(30), <1>1 DEF BudgetInv, UseOrder
  <1>14. WithinBudget'
    BY <1>1, <1>3, <1>4, <1>5, <1>6, <1>7, ReserveWithinBudget, ZenonT(30)
  <1>15. NoNews(c)
    <2>1. \A r \in Resource : used[r] <= used'[r]
      <3> SUFFICES ASSUME NEW r \in Resource PROVE used[r] <= used'[r]
        BY Zenon
      <3>1. used[r] \in Nat /\ spec[m].need[r] \in Nat
        BY ZenonT(30), <1>5, <1>8 DEF CountersOK, Bytes
      <3>2. used'[r] = used[r] + spec[m].need[r]
        BY ZenonT(30), <1>1
      <3> QED BY ZenonT(30), <3>1, <3>2, Grows
    <2>2. \A k \in Models :
            /\ status[k] = "Loading" => status'[k] = "Loading"
            /\ status'[k] = "Loaded" => status[k] = "Loaded" /\ bytes'[k] = bytes[k]
      BY ZenonT(30), <1>1, <1>4
    <2> QED BY <1>1, <1>3, <1>6, <2>1, <2>2 DEF NoNews
  <1>16. WaitOK(c)'
    BY ZenonT(30), <1>6 DEF WaitOK, Waiting
  <1>17. \A d \in Clients : WaitOK(d)'
    BY <1>11, <1>12, <1>15, <1>16, OthersWait
  <1> QED BY <1>11, <1>12, <1>13, <1>14, <1>17 DEF BudgetInv

\* A step that charges nothing keeps the slack of every reservation it does not
\* end: of every model whose loader stays in destroy with the same Sessions.
LEMMA SlackKept ==
  ASSUME NEW slack \in [Models -> Nat], NEW new \in [Models -> Nat], NEW r \in Resource,
         SlackFor(slack, r), NEW c \in Clients,
         \A d \in Clients \ {c} : /\ call'[d] = call[d] /\ doomed'[d] = doomed[d]
                                  /\ pc[d] = "destroy" => pc'[d] = "destroy",
         \A k \in Models : new[k] # 0 => /\ new[k] = slack[k] /\ ~Pending(c, k)
                                         /\ bytes'[k] = bytes[k]
  PROVE  SlackFor(new, r)'
  <1> SUFFICES ASSUME NEW k \in Models, new[k] # 0
               PROVE  \E d \in Clients :
                        /\ Pending(d, k)'
                        /\ new[k] <= bytes'[k][r]
                        /\ new[k] <= SumDoomed(doomed'[d], r)
    BY DEF SlackFor, SumDoomed
  <1>1. new[k] = slack[k] /\ slack[k] # 0 /\ bytes'[k] = bytes[k]
    OBVIOUS
  <1>2. PICK d \in Clients : /\ Pending(d, k)
                             /\ slack[k] <= bytes[k][r]
                             /\ slack[k] <= SumDoomed(doomed[d], r)
    BY <1>1 DEF SlackFor
  <1>3. d # c
    BY <1>2
  <1>4. Pending(d, k)' /\ doomed'[d] = doomed[d]
    BY <1>2, <1>3 DEF Pending, InCall
  <1>5. new[k] <= bytes'[k][r] /\ new[k] <= SumDoomed(doomed'[d], r)
    BY <1>1, <1>2, <1>4
  <1> QED BY <1>4, <1>5

\* unload_model, register_model or set_budget takes idle models out.
LEMMA EvictKeeps ==
  ASSUME BudgetInv, IInv', SettledStep, NEW c \in Clients, NEW m \in Models, NEW op,
         pc[c] \in {"idle", "run"},
         NEW V \in SUBSET Models, \A k \in V : status[k] = "Loaded",
         EvictAndDestroy(c, op, m, V)
  PROVE  BudgetInv'
  <1>1. /\ status' = [k \in Models |-> IF k \in V THEN "Unloaded" ELSE status[k]]
        /\ bytes' = [k \in Models |-> IF k \in V THEN ZeroBytes ELSE bytes[k]]
        /\ releasing' = [r \in Resource |-> releasing[r] + SumBytes(V, r)]
        /\ doomed' = [doomed EXCEPT ![c] = TakenOut(V)]
        /\ pc' = [pc EXCEPT ![c] = "destroy"]
        /\ call' = [call EXCEPT ![c] = CallRecord(c, op, m)]
        /\ UNCHANGED <<spec, leases, older, used, holders>>
    BY DEF EvictAndDestroy, Goto, ReleasingWith
  <1>2. TypeOK /\ DoomedInv /\ IInv
    BY DEF BudgetInv, IInv
  <1>3. pc[c] # "destroy"
    OBVIOUS
  <1>4. /\ pc'[c] = "destroy"
        /\ \A d \in Clients \ {c} :
             pc'[d] = pc[d] /\ call'[d] = call[d] /\ doomed'[d] = doomed[d]
    BY <1>1, <1>2 DEF TypeOK
  <1>5. CountersOK
    BY <1>2, CountersTyped DEF BudgetInv
  <1>6. \A r \in Resource :
          /\ DoomedBytes(r)' = DoomedBytes(r) + SumBytes(V, r)
          /\ DoomedBytes(r) \in Nat /\ SumBytes(V, r) \in Nat
          /\ IsFiniteSet(TakenOut(V))
    BY <1>1, <1>2, <1>3, TakeOutReleases, ZenonT(30)
  <1>7. \A r \in Resource : SumBytes(Models, r)' = SumBytes(Models, r) - SumBytes(V, r)
    BY <1>1, <1>2, BytesDropped
  <1>8. Accounting'
    <2> SUFFICES ASSUME NEW r \in Resource
                 PROVE  /\ releasing'[r] = DoomedBytes(r)'
                        /\ used'[r] = SumBytes(Models, r)' + releasing'[r]
      BY DEF Accounting
    <2>1. releasing[r] = DoomedBytes(r) /\ used[r] = SumBytes(Models, r) + releasing[r]
      BY DEF BudgetInv, Accounting
    <2>2. releasing'[r] = releasing[r] + SumBytes(V, r) /\ used'[r] = used[r]
      BY <1>1
    <2>3. SumBytes(Models, r) \in Nat
      BY <1>5 DEF CountersOK
    <2> QED BY <1>6, <1>7, <2>1, <2>2, <2>3, SMTT(30)
  <1>9. DoomedInv'
    BY <1>1, <1>2, <1>4, <1>6, TakeOutDoomed, ZenonT(30) DEF Resource
  <1>10. UseOrder'
    BY <1>1 DEF BudgetInv, UseOrder
  <1>11. WithinBudget'
    <2> SUFFICES ASSUME settled', NEW r \in Resource, budget'.limit[r] # 0
                 PROVE  \E slack \in [Models -> Nat] :
                          /\ SlackFor(slack, r)'
                          /\ used'[r] <= budget'.limit[r] + SumOver(slack, Models)
      BY DEF WithinBudget
    <2>1. settled /\ budget' = budget
      BY Zenon DEF SettledStep, StaysSettled
    <2>2. PICK slack \in [Models -> Nat] :
            SlackFor(slack, r) /\ used[r] <= budget.limit[r] + SumOver(slack, Models)
      BY <2>1 DEF WithinBudget, BudgetInv
    <2>3. \A k \in Models : slack[k] # 0 => bytes'[k] = bytes[k] /\ ~Pending(c, k)
      <3>1. \A k \in Models : slack[k] # 0 => status[k] = "Loading"
        BY <1>2, <2>2, SlackIsLoading
      <3> QED BY <1>1, <1>3, <3>1 DEF Pending
    <2>4. SlackFor(slack, r)'
      BY <1>3, <1>4, <2>2, <2>3, SlackKept
    <2> QED BY <1>1, <2>1, <2>2, <2>4
  <1>12. NoNews(c)
    <2>1. \A r \in Resource : used[r] <= used'[r]
      BY ZenonT(30), <1>1, <1>5, SameSize DEF CountersOK
    <2>2. \A k \in Models :
            /\ status[k] = "Loading" => status'[k] = "Loading"
            /\ status'[k] = "Loaded" => status[k] = "Loaded" /\ bytes'[k] = bytes[k]
      BY <1>1
    <2> QED BY <1>1, <1>3, <1>4, <2>1, <2>2 DEF NoNews
  <1>13. WaitOK(c)'
    BY <1>4 DEF WaitOK, Waiting
  <1>14. \A d \in Clients : WaitOK(d)'
    BY <1>8, <1>9, <1>12, <1>13, OthersWait
  <1> QED BY <1>8, <1>9, <1>10, <1>11, <1>14 DEF BudgetInv

\* A load fails: its reservation is released, and everybody is told.
LEMMA LoadFailsKeeps ==
  ASSUME BudgetInv, IInv', SettledStep, NEW c \in Clients, NEW m \in Models,
         LoadFails(c, m)
  PROVE  BudgetInv'
  <1>1. /\ pc[c] = "init" /\ InCall(c, "acquire", m)
        /\ used' = [r \in Resource |-> used[r] - bytes[m][r]]
        /\ bytes' = [bytes EXCEPT ![m] = ZeroBytes]
        /\ pc' = notify_all([pc EXCEPT ![c] = "idle"])
        /\ call' = [call EXCEPT ![c] = NoCall]
        /\ UNCHANGED <<older, budget, releasing, doomed>>
    BY DEF LoadFails, Goto, Hangup
  <1>2. TypeOK /\ DoomedInv /\ IInv
    BY DEF BudgetInv, IInv
  <1>3. CountersOK
    BY <1>2, CountersTyped DEF BudgetInv
  <1>4. /\ pc'[c] = "idle"
        /\ \A d \in Clients \ {c} : /\ call'[d] = call[d] /\ doomed'[d] = doomed[d]
                                    /\ pc[d] = "destroy" <=> pc'[d] = "destroy"
    <2> DEFINE p == [pc EXCEPT ![c] = "idle"]
    <2>1. p \in [Clients -> PC] /\ p[c] = "idle" /\ \A d \in Clients \ {c} : p[d] = pc[d]
      BY <1>2 DEF TypeOK, PC
    <2>2. pc' = notify_all(p)
      BY <1>1
    <2> HIDE DEF p
    <2>3. \A d \in Clients : pc'[d] = "destroy" <=> p[d] = "destroy"
      BY <2>1, <2>2, NotifyKeeps DEF Waiting
    <2>4. pc'[c] = "idle"
      BY <2>1, <2>2, NotifyKeeps DEF Waiting
    <2>5. \A d \in Clients \ {c} : call'[d] = call[d] /\ doomed'[d] = doomed[d]
      BY ZenonT(30), <1>1, <1>2 DEF TypeOK
    <2> QED BY <2>1, <2>3, <2>4, <2>5
  <1>5. \A r \in Resource : SumBytes(Models, r)' = SumBytes(Models, r) - bytes[m][r]
    <2> SUFFICES ASSUME NEW r \in Resource
                 PROVE  SumBytes(Models, r)' = SumBytes(Models, r) - bytes[m][r]
      OBVIOUS
    <2>1. bytes' = [k \in Models |-> IF k \in {m} THEN ZeroBytes ELSE bytes[k]]
      BY <1>1, <1>2, ZenonT(30) DEF TypeOK
    <2>2. SumBytes(Models, r)' = SumBytes(Models, r) - SumBytes({m}, r)
      BY <1>2, <2>1, BytesDropped
    <2>3. SumBytes({m}, r) = bytes[m][r]
      <3>1. BytesOf(r)[m] = bytes[m][r] /\ BytesOf(r)[m] \in Nat
        BY <1>2, BytesTyped
      <3> QED BY <3>1, SumSingle DEF SumBytes
    <2> QED BY <2>2, <2>3
  <1>6. \A r \in Resource : bytes[m][r] \in Nat
    BY <1>2, BytesTyped
  <1>7. Accounting'
    <2> SUFFICES ASSUME NEW r \in Resource
                 PROVE  /\ releasing'[r] = DoomedBytes(r)'
                        /\ used'[r] = SumBytes(Models, r)' + releasing'[r]
      BY DEF Accounting
    <2>1. releasing[r] = DoomedBytes(r) /\ used[r] = SumBytes(Models, r) + releasing[r]
      BY DEF BudgetInv, Accounting
    <2>2. DoomedBytes(r)' = DoomedBytes(r)
      BY <1>1 DEF DoomedBytes, DoomedOf, SumDoomed
    <2>3. releasing'[r] = releasing[r] /\ used'[r] = used[r] - bytes[m][r]
      BY <1>1
    <2>4. SumBytes(Models, r) \in Nat /\ releasing[r] \in Nat
      BY <1>3 DEF CountersOK
    <2> QED BY <1>5, <1>6, <2>1, <2>2, <2>3, <2>4
  <1>8. DoomedInv'
    BY <1>1, <1>2, <1>4, ZenonT(30) DEF DoomedInv
  <1>9. UseOrder'
    BY <1>1 DEF BudgetInv, UseOrder
  <1>10. WithinBudget'
    <2> SUFFICES ASSUME settled', NEW r \in Resource, budget'.limit[r] # 0
                 PROVE  \E slack \in [Models -> Nat] :
                          /\ SlackFor(slack, r)'
                          /\ used'[r] <= budget'.limit[r] + SumOver(slack, Models)
      BY DEF WithinBudget
    <2>1. settled /\ budget' = budget
      BY Zenon DEF SettledStep, StaysSettled
    <2>2. PICK slack \in [Models -> Nat] :
            SlackFor(slack, r) /\ used[r] <= budget.limit[r] + SumOver(slack, Models)
      BY <2>1 DEF WithinBudget, BudgetInv
    <2>3. \A d \in Clients : ~Pending(d, m)
      BY ZenonT(30), <1>1, <1>2 DEF IInv, SingleLoader, Loader, Pending
    <2>4. slack[m] = 0
      BY ZenonT(30), <2>2, <2>3 DEF SlackFor
    <2>5. \A k \in Models : slack[k] # 0 => bytes'[k] = bytes[k] /\ ~Pending(c, k)
      BY <1>1, <1>2, <2>4 DEF TypeOK, Pending
    <2>6. SlackFor(slack, r)'
      BY <1>4, <2>2, <2>5, SlackKept
    <2>7. SumOver(slack, Models) \in Nat
      BY ModelsFinite, UnitsFinite
    <2>8. used'[r] <= used[r] /\ used[r] \in Nat /\ used'[r] \in Int
      <3>1. used[r] \in Nat /\ bytes[m][r] \in Nat
        BY ZenonT(30), <1>3, <1>6 DEF CountersOK
      <3>2. used'[r] = used[r] - bytes[m][r]
        BY ZenonT(30), <1>1
      <3> QED BY ZenonT(30), <3>1, <3>2, Shrinks
    <2>9. budget.limit[r] \in Nat
      BY <1>2 DEF TypeOK, Budget, Bytes
    <2> QED BY <2>1, <2>2, <2>6, <2>7, <2>8, <2>9
  <1>11. \A d \in Clients : WaitOK(d)'
    BY ZenonT(30), <1>1, NotifiedAll
  <1> QED BY <1>7, <1>8, <1>9, <1>10, <1>11 DEF BudgetInv

\* The end of destroy: the Sessions are gone and uncharged, the reservation of
\* the client, if it made one, no longer needs its slack, and everybody is told.
LEMMA UnchargeKeeps ==
  ASSUME BudgetInv, IInv', SettledStep, NEW c \in Clients, NEW where \in {"init", "idle"},
         Uncharge(c, where), \A d \in Clients \ {c} : call'[d] = call[d]
  PROVE  BudgetInv'
  <1>1. /\ pc[c] = "destroy"
        /\ used' = [r \in Resource |-> used[r] - SumDoomed(doomed[c], r)]
        /\ releasing' = [r \in Resource |-> releasing[r] - SumDoomed(doomed[c], r)]
        /\ doomed' = [doomed EXCEPT ![c] = {}]
        /\ pc' = notify_all([pc EXCEPT ![c] = where])
        /\ UNCHANGED <<status, bytes, leases, older, budget, holders>>
    BY ZenonT(30) DEF Uncharge, Goto
  <1>2. TypeOK /\ DoomedInv /\ IInv
    BY DEF BudgetInv, IInv
  <1>3. CountersOK
    BY <1>2, CountersTyped DEF BudgetInv
  <1>4. /\ pc'[c] # "destroy" /\ doomed'[c] = {}
        /\ \A d \in Clients \ {c} : /\ call'[d] = call[d] /\ doomed'[d] = doomed[d]
                                    /\ pc[d] = "destroy" <=> pc'[d] = "destroy"
    <2> DEFINE p == [pc EXCEPT ![c] = where]
    <2>1. p \in [Clients -> PC] /\ p[c] = where /\ \A d \in Clients \ {c} : p[d] = pc[d]
      BY <1>2 DEF TypeOK, PC
    <2>2. pc' = notify_all(p)
      BY ZenonT(30), <1>1
    <2> HIDE DEF p
    <2>3. \A d \in Clients : pc'[d] = "destroy" <=> p[d] = "destroy"
      BY <2>1, <2>2, NotifyKeeps DEF Waiting
    <2>4. doomed'[c] = {} /\ \A d \in Clients \ {c} : doomed'[d] = doomed[d]
      BY ZenonT(30), <1>1, <1>2 DEF TypeOK
    <2> QED BY <2>1, <2>3, <2>4
  <1>5. \A r \in Resource :
          /\ DoomedBytes(r)' = DoomedBytes(r) - SumDoomed(doomed[c], r)
          /\ DoomedBytes(r) \in Nat /\ SumDoomed(doomed[c], r) \in Nat
    <2> SUFFICES ASSUME NEW r \in Resource
                 PROVE  /\ DoomedBytes(r)' = DoomedBytes(r) - SumDoomed(doomed[c], r)
                        /\ DoomedBytes(r) \in Nat /\ SumDoomed(doomed[c], r) \in Nat
      OBVIOUS
    <2>1. IsFiniteSet({}) /\ SumDoomed({}, r) = 0
      BY FS_EmptySet, SumEmpty DEF SumDoomed
    <2>2. /\ DoomedBytes(r) \in Nat /\ SumDoomed(doomed[c], r) \in Nat
          /\ DoomedBytes(r)' = DoomedBytes(r) - SumDoomed(doomed[c], r) + SumDoomed({}, r)
      BY <1>1, <1>2, <2>1, DoomedUpdate, ZenonT(30)
    <2>3. DoomedBytes(r) - SumDoomed(doomed[c], r) \in Int
      BY ZenonT(30), <2>2, Shrinks
    <2> QED BY ZenonT(30), <2>1, <2>2, <2>3, PlusZero
  <1>6. Accounting'
    <2> SUFFICES ASSUME NEW r \in Resource
                 PROVE  /\ releasing'[r] = DoomedBytes(r)'
                        /\ used'[r] = SumBytes(Models, r)' + releasing'[r]
      BY DEF Accounting
    <2>1. releasing[r] = DoomedBytes(r) /\ used[r] = SumBytes(Models, r) + releasing[r]
      BY DEF BudgetInv, Accounting
    <2>2. SumBytes(Models, r)' = SumBytes(Models, r)
      BY <1>1 DEF SumBytes, BytesOf
    <2>3. /\ releasing'[r] = releasing[r] - SumDoomed(doomed[c], r)
          /\ used'[r] = used[r] - SumDoomed(doomed[c], r)
      BY <1>1
    <2>4. SumBytes(Models, r) \in Nat
      BY <1>3 DEF CountersOK
    <2> QED BY <1>5, <2>1, <2>2, <2>3, <2>4
  <1>7. DoomedInv'
    <2>1. IsFiniteSet({})
      BY FS_EmptySet
    <2> QED BY <1>2, <1>4, <2>1 DEF DoomedInv
  <1>8. UseOrder'
    BY <1>1 DEF BudgetInv, UseOrder
  <1>9. WithinBudget'
    <2> SUFFICES ASSUME settled', NEW r \in Resource, budget'.limit[r] # 0
                 PROVE  \E slack \in [Models -> Nat] :
                          /\ SlackFor(slack, r)'
                          /\ used'[r] <= budget'.limit[r] + SumOver(slack, Models)
      BY DEF WithinBudget
    <2> DEFINE freed == SumDoomed(doomed[c], r)
    <2>1. settled /\ budget' = budget
      BY Zenon DEF SettledStep, StaysSettled
    <2>2. PICK slack \in [Models -> Nat] :
            SlackFor(slack, r) /\ used[r] <= budget.limit[r] + SumOver(slack, Models)
      BY <2>1 DEF WithinBudget, BudgetInv
    <2>3. freed \in Nat /\ used[r] \in Nat /\ used'[r] = used[r] - freed
      BY <1>1, <1>3 DEF CountersOK
    <2>4. SumOver(slack, Models) \in Nat
      BY ModelsFinite, UnitsFinite
    <2>5. \A k, j \in Models : Pending(c, k) /\ Pending(c, j) => k = j
      BY DEF Pending, InCall
    <2>6. \A k \in Models : Pending(c, k) /\ slack[k] # 0 => slack[k] <= freed
      <3> SUFFICES ASSUME NEW k \in Models, Pending(c, k), slack[k] # 0
                   PROVE  slack[k] <= freed
        OBVIOUS
      <3>1. PICK d \in Clients : Pending(d, k) /\ slack[k] <= SumDoomed(doomed[d], r)
        BY <2>2 DEF SlackFor
      <3>2. d = c
        BY <1>2, <3>1 DEF IInv, SingleLoader, Loader, Pending
      <3> QED BY <3>1, <3>2
    <2> HIDE DEF freed
    <2>7. PICK new \in [Models -> Nat] :
            /\ \A k \in Models : new[k] # 0 => new[k] = slack[k] /\ ~Pending(c, k)
            /\ SumOver(new, Models) \in Nat
            /\ SumOver(slack, Models) <= SumOver(new, Models) + freed
      <3>1. CASE \A k \in Models : ~Pending(c, k)
        BY <2>3, <2>4, <3>1
      <3>2. ASSUME NEW k \in Models, Pending(c, k)
            PROVE  \E new \in [Models -> Nat] :
                     /\ \A j \in Models : new[j] # 0 => new[j] = slack[j] /\ ~Pending(c, j)
                     /\ SumOver(new, Models) \in Nat
                     /\ SumOver(slack, Models) <= SumOver(new, Models) + freed
        <4> DEFINE new == [slack EXCEPT ![k] = 0]
        <4>1. /\ new \in [Models -> Nat] /\ new[k] = 0
              /\ \A j \in Models \ {k} : new[j] = slack[j]
          OBVIOUS
        <4>2. \A j \in Models : slack[j] \in Nat /\ new[j] \in Nat
          BY <4>1
        <4> HIDE DEF new
        <4>3. /\ SumOver(new, Models) = SumOver(slack, Models) - slack[k] + new[k]
              /\ SumOver(new, Models) \in Nat
          BY <4>1, <4>2, ModelsFinite, SumUpdate
        <4>4. slack[k] <= freed
          BY <2>3, <2>6, <3>2
        <4>5. SumOver(slack, Models) <= SumOver(new, Models) + freed
          BY <2>3, <2>4, <4>1, <4>2, <4>3, <4>4
        <4>6. \A j \in Models : new[j] # 0 => new[j] = slack[j] /\ ~Pending(c, j)
          BY <2>5, <3>2, <4>1
        <4> QED BY <4>1, <4>3, <4>5, <4>6
      <3> QED BY <3>1, <3>2
    <2>8. SlackFor(new, r)'
      <3>1. \A k \in Models : new[k] # 0 => /\ new[k] = slack[k] /\ ~Pending(c, k)
                                            /\ bytes'[k] = bytes[k]
        BY ZenonT(30), <1>1, <2>7
      <3>2. \A d \in Clients \ {c} : /\ call'[d] = call[d] /\ doomed'[d] = doomed[d]
                                     /\ pc[d] = "destroy" => pc'[d] = "destroy"
        BY ZenonT(30), <1>4
      <3>3. SlackFor(slack, r)
        BY <2>2
      <3> QED BY ZenonT(30), <3>1, <3>2, <3>3, SlackKept
    <2>9. budget.limit[r] \in Nat
      BY <1>2 DEF TypeOK, Budget, Bytes
    <2>10. used'[r] <= budget'.limit[r] + SumOver(new, Models)
      BY <2>1, <2>2, <2>3, <2>4, <2>7, <2>9
    <2> QED BY <2>8, <2>10
  <1>10. \A d \in Clients : WaitOK(d)'
    BY ZenonT(30), <1>1, NotifiedAll
  <1> QED BY ZenonT(30), <1>6, <1>7, <1>8, <1>9, <1>10 DEF BudgetInv

-----------------------------------------------------------------------------
(* The invariant and what it means.                                        *)

\* A registry that charges nothing and in which nobody waits.
LEMMA InitBudgetInv == SettledInit => BudgetInv
  <1> SUFFICES ASSUME SettledInit PROVE BudgetInv
    OBVIOUS
  <1>1. Init
    BY DEF SettledInit
  <1>2. IInv
    BY <1>1, InitIInv
  <1>3. DoomedInv /\ UseOrder
    BY <1>1, FS_EmptySet DEF Init, DoomedInv, UseOrder
  <1>4. \A c \in Clients : WaitOK(c)
    BY <1>1 DEF Init, WaitOK, Waiting
  <1>5. \A r \in Resource : used[r] = 0 /\ releasing[r] = 0
    BY <1>1 DEF Init, ZeroBytes
  <1>6. Accounting
    <2> SUFFICES ASSUME NEW r \in Resource
                 PROVE  DoomedBytes(r) = 0 /\ SumBytes(Models, r) = 0
      BY <1>5 DEF Accounting
    <2>1. \A m \in Models : BytesOf(r)[m] = 0
      BY <1>1 DEF Init, BytesOf, ZeroBytes
    <2>2. SumDoomed({}, r) = 0
      BY SumEmpty DEF SumDoomed
    <2>3. \A c \in Clients : doomed[c] = {}
      BY <1>1 DEF Init
    <2>4. \A c \in Clients : DoomedOf(r)[c] = 0
      BY <2>2, <2>3 DEF DoomedOf
    <2> QED BY <2>1, <2>4, SumZero DEF SumBytes, DoomedBytes
  <1>7. WithinBudget
    <2> SUFFICES ASSUME NEW r \in Resource
                 PROVE  \E slack \in [Models -> Nat] :
                          /\ SlackFor(slack, r)
                          /\ used[r] <= budget.limit[r] + SumOver(slack, Models)
      BY DEF WithinBudget
    <2> DEFINE slack == [m \in Models |-> 0]
    <2>1. slack \in [Models -> Nat] /\ SlackFor(slack, r)
      BY DEF SlackFor
    <2>2. SumOver(slack, Models) = 0
      BY SumZero
    <2>3. budget.limit[r] \in Nat
      BY <1>2 DEF IInv, TypeOK, Budget, Bytes
    <2> HIDE DEF slack
    <2> QED BY <1>5, <2>1, <2>2, <2>3
  <1> QED BY <1>2, <1>3, <1>4, <1>6, <1>7 DEF BudgetInv

\* Every section of every registry call preserves the invariant.
LEMMA NextBudgetInv ==
  ASSUME BudgetInv, SettledNext
  PROVE  BudgetInv'
  <1>1. IInv' /\ SettledStep
    BY NextIInv DEF BudgetInv, SettledNext, SettledStep
  <1>2. ASSUME NEW c \in Clients, Section(c)
        PROVE  BudgetInv'
    <2>1. ASSUME NEW m \in Models, AcquireLoaded(c, m)
          PROVE  BudgetInv'
      BY <1>1, <2>1, AcquireLoadedKeeps
    <2>2. ASSUME NEW m \in Models, AcquireWaitLoading(c, m)
          PROVE  BudgetInv'
      BY <1>1, <2>2, WaitKeeps DEF AcquireWaitLoading, AtAcquire, Waiting
    <2>3. ASSUME NEW m \in Models, AcquireWaitFrees(c, m)
          PROVE  BudgetInv'
      <3>1. At(c, "acquire", m) /\ FreesPending /\ Wait(c, "waitFrees", "acquire", m)
        BY <2>3 DEF AcquireWaitFrees, AtAcquire
      <3>2. \E d \in Clients : pc[d] = "destroy"
        <4> SUFFICES ASSUME \A d \in Clients : pc[d] # "destroy"
                     PROVE  FALSE
          OBVIOUS
        <4>1. \A d \in Clients : doomed[d] = {}
          BY DEF BudgetInv, DoomedInv
        <4>2. \A r \in Resource : SumDoomed({}, r) = 0
          BY SumEmpty DEF SumDoomed
        <4>3. \A r \in Resource : \A d \in Clients : DoomedOf(r)[d] = 0
          BY <4>1, <4>2 DEF DoomedOf
        <4>4. \A r \in Resource : DoomedBytes(r) = 0
          BY <4>3, SumZero DEF DoomedBytes
        <4> QED BY <3>1, <4>4 DEF FreesPending, BudgetInv, Accounting
      <3> QED BY <1>1, <3>1, <3>2, WaitKeeps DEF Waiting
    <2>4. ASSUME NEW m \in Models, AcquireWaitUntil(c, m)
          PROVE  BudgetInv'
      <3>1. /\ At(c, "acquire", m) /\ Wait(c, "waitUntil", "acquire", m)
            /\ spec[m] # NoSpec /\ status[m] = "Unloaded" /\ PlanFor(m) = {}
        BY <2>4 DEF AcquireWaitUntil, AtAcquire
      <3> QED BY <1>1, <3>1, WaitKeeps DEF Waiting
    <2>5. ASSUME NEW m \in Models,
                 \/ AcquireEstimateFails(c, m)
                 \/ AcquireOutOfMemory(c, m)
                 \/ UnloadNothing(c, m)
                 \/ \E op \in UnloadOps : UnloadInUse(c, op, m)
          PROVE  BudgetInv'
      <3>1. /\ pc[c] \in {"idle", "run"} /\ Return(c)
            /\ UNCHANGED <<entryVars, stateVars, doomed, holders>>
        BY ZenonT(30), <2>5 DEF AcquireEstimateFails, AcquireOutOfMemory, UnloadNothing, UnloadInUse,
                    AtAcquire, At
      <3> QED BY <1>1, <3>1, ReturnKeeps
    <2>6. ASSUME NEW m \in Models, AcquireReserve(c, m)
          PROVE  BudgetInv'
      <3>1. PICK V \in PlanFor(m) : ReserveEvicting(c, m, V)
        BY <2>6 DEF AcquireReserve
      <3>2. AtAcquire(c, m) /\ status[m] = "Unloaded"
        BY <2>6 DEF AcquireReserve
      <3>3. V \in SUBSET evictable({m}) /\ FitsWithout(V, budget.limit, spec[m].need)
        BY <3>1 DEF PlanFor, plan, LruPrefixes
      <3> QED BY ZenonT(30), <1>1, <3>1, <3>2, <3>3, ReserveKeeps
    <2>7. ASSUME NEW m \in Models, AcquireOvercommit(c, m)
          PROVE  BudgetInv'
      <3>1. /\ AtAcquire(c, m) /\ status[m] = "Unloaded" /\ budget.allow_overcommit
            /\ ReserveEvicting(c, m, evictable({m}))
        BY <2>7 DEF AcquireOvercommit
      <3>2. ~settled'
        BY <1>1, <3>1, Zenon DEF SettledStep, StaysSettled
      <3> QED BY <1>1, <3>1, <3>2, ReserveKeeps
    <2>8. ASSUME NEW m \in Models, NEW op \in UnloadOps, UnloadWaits(c, op, m)
          PROVE  BudgetInv'
      BY ZenonT(30), <1>1, <2>8, WaitKeeps DEF UnloadWaits, UnloadOps, Waiting
    <2>9. ASSUME NEW m \in Models, NEW op \in UnloadOps, UnloadIdle(c, op, m)
          PROVE  BudgetInv'
      <3>1. /\ pc[c] \in {"idle", "run"} /\ status[m] = "Loaded"
            /\ EvictAndDestroy(c, op, m, {m})
        BY <2>9 DEF UnloadIdle, At
      <3> QED BY <1>1, <3>1, EvictKeeps
    <2>10. ASSUME NEW m \in Models, NEW s \in SpecsOf[m], RegisterUnloaded(c, m, s)
           PROVE  BudgetInv'
      BY <1>1, <2>10, RegisterKeeps
    <2>11. ASSUME NEW m \in Models, LoadSucceeds(c, m) \/ LoadFails(c, m)
           PROVE  BudgetInv'
      BY <1>1, <2>11, LoadSucceedsKeeps, LoadFailsKeeps
    <2>12. ASSUME \/ DestroyThenLoad(c)
                  \/ DestroyThenReturn(c)
                  \/ \E m \in Models : \E s \in SpecsOf[m] : DestroyThenRegister(c, m, s)
           PROVE  BudgetInv'
      <3>1. PICK where \in {"init", "idle"} :
              Uncharge(c, where) /\ (call' = call \/ call' = Hangup(c))
        BY <2>12 DEF DestroyThenLoad, DestroyThenReturn, DestroyThenRegister
      <3>2. \A d \in Clients \ {c} : call'[d] = call[d]
        BY <3>1 DEF Hangup, BudgetInv, IInv, TypeOK
      <3> QED BY <1>1, <3>1, <3>2, UnchargeKeeps
    <2>13. ASSUME DeadlinePasses(c)
           PROVE  BudgetInv'
      BY <1>1, <2>13, DeadlineKeeps
    <2> QED
      BY ZenonT(30), <1>2, <2>1, <2>2, <2>3, <2>4, <2>5, <2>6, <2>7, <2>8, <2>9, <2>10, <2>11, <2>12, <2>13
         DEF Section
  <1>3. ASSUME NEW c \in Clients, NEW b \in Budgets, set_budget(c, b)
        PROVE  BudgetInv'
    <2>1. pc[c] = "idle"
      BY <1>3 DEF set_budget
    <2>2. PICK V \in SUBSET evictable({}) :
            IF V = {}
            THEN UNCHANGED <<entryVars, used, releasing, clientVars>>
            ELSE \E m \in V : EvictAndDestroy(c, "set_budget", m, V)
      <3>1. \A V \in plan(evictable({}), b.limit, ZeroBytes) : V \subseteq evictable({})
        BY PlanIsEvictable
      <3> QED BY <1>3, <3>1 DEF set_budget
    <2>3. V \in SUBSET Models /\ \A k \in V : status[k] = "Loaded"
      BY DEF evictable
    <2>4. CASE V = {}
      <3>1. UNCHANGED <<entryVars, used, releasing, clientVars>>
        BY <2>2, <2>4
      <3>2. /\ UNCHANGED <<bytes, doomed, used, releasing, pc, call, status, leases, spec>>
            /\ UseOrder'
        BY <3>1 DEF entryVars, clientVars, BudgetInv, UseOrder
      <3>3. \A r \in Resource : used[r] \in Nat
        BY CountersTyped DEF BudgetInv, IInv, CountersOK
      <3>4. NoNews(c)
        BY <2>1, <3>2, <3>3 DEF NoNews
      <3>5. WaitOK(c)'
        BY <2>1, <3>2 DEF WaitOK, Waiting
      <3>6. Accounting' /\ DoomedInv' => \A d \in Clients : WaitOK(d)'
        BY <1>1, <3>4, <3>5, OthersWait
      <3> QED BY <1>1, <2>1, <3>2, <3>6, StillStep
    <2>5. CASE V # {}
      <3>1. PICK m \in V : EvictAndDestroy(c, "set_budget", m, V)
        BY <2>2, <2>5
      <3> QED BY <1>1, <2>1, <2>3, <3>1, EvictKeeps
    <2> QED BY <2>4, <2>5
  <1>4. PICK c \in Clients : \/ Section(c)
                             \/ \E m \in Models : release_model(c, m)
                             \/ \E b \in Budgets : set_budget(c, b)
    BY DEF SettledNext, Next
  <1> QED BY <1>1, <1>2, <1>3, <1>4, ReleaseKeeps

\* Nothing happens.
LEMMA StutterBudgetInv ==
  ASSUME BudgetInv, UNCHANGED settledVars
  PROVE  BudgetInv'
  <1>1. UNCHANGED vars /\ settled' = settled
    BY DEF settledVars
  <1>2. IInv'
    BY <1>1, NextIInv DEF BudgetInv
  <1>3. UNCHANGED <<entryVars, stateVars, clientVars>>
    BY <1>1 DEF vars, entryVars, stateVars, clientVars
  <1>4. Accounting'
    BY <1>3, AccountsKept DEF BudgetInv, entryVars, stateVars, clientVars
  <1>5. DoomedInv' /\ UseOrder'
    BY <1>3 DEF BudgetInv, DoomedInv, UseOrder, entryVars, clientVars
  <1>6. WithinBudget'
    BY ZenonT(30), <1>1 DEF BudgetInv, WithinBudget, SlackFor, Pending, InCall, SumDoomed, vars
  <1>7. \A c \in Clients : WaitOK(c)'
    <2> SUFFICES ASSUME NEW c \in Clients
                 PROVE  WaitOK(c)'
      OBVIOUS
    <2>1. WaitOK(c)
      BY DEF BudgetInv
    <2>2. \A k : PlanFor(k)' = PlanFor(k)
      BY <1>3, PlanKept
    <2>3. PlanFor(call[c].model)' = PlanFor(call[c].model)
      BY <1>3, <2>2 DEF clientVars
    <2> QED BY ZenonT(30), <1>1, <1>3, <2>1, <2>3 DEF WaitOK, entryVars, clientVars
  <1> QED BY <1>2, <1>4, <1>5, <1>6, <1>7 DEF BudgetInv

\* The invariant holds in every reachable state.
THEOREM BudgetInvariance == SettledSpec => []BudgetInv
  <1>1. BudgetInv /\ [SettledNext]_settledVars => BudgetInv'
    BY NextBudgetInv, StutterBudgetInv
  <1> QED BY <1>1, InitBudgetInv, PTL DEF SettledSpec

\* The invariant keeps what is in memory within the budget: the slack is part of
\* what the models that are still waiting for their victims are charged, and
\* those are not in memory.
LEMMA WithinBudgetSuffices == BudgetInv => BudgetKept
  <1> SUFFICES ASSUME BudgetInv, settled, NEW r \in Resource, budget.limit[r] # 0
               PROVE  Resident(r) <= budget.limit[r]
    BY DEF BudgetInv, BudgetKept, ResidentWithinBudget
  <1> DEFINE R == {m \in Models : \/ status[m] = "Loaded"
                                  \/ \E c \in Clients : Loader(c, m) /\ pc[c] = "init"}
             f == BytesOf(r)
  <1>1. PICK slack \in [Models -> Nat] :
          SlackFor(slack, r) /\ used[r] <= budget.limit[r] + SumOver(slack, Models)
    BY DEF WithinBudget, BudgetInv
  <1>2. TypeOK /\ DoomedInv /\ IInv /\ Accounting
    BY DEF BudgetInv, IInv
  <1>3. \A m \in Models : f[m] = bytes[m][r] /\ f[m] \in Nat
    BY <1>2, BytesTyped
  <1>4. R \in SUBSET Models /\ Resident(r) = SumOver(f, R) + DoomedBytes(r)
    BY DEF Resident, SumBytes
  <1>5. \A m \in R : slack[m] = 0
    <2> SUFFICES ASSUME NEW m \in R, slack[m] # 0
                 PROVE  FALSE
      OBVIOUS
    <2>1. PICK d \in Clients : Pending(d, m)
      BY <1>1 DEF SlackFor
    <2>2. Loader(d, m) /\ pc[d] = "destroy"
      BY <2>1 DEF Pending, Loader
    <2>3. status[m] = "Loading" /\ \A c \in Clients : Loader(c, m) => c = d
      BY <1>2, <2>2 DEF IInv, SingleLoader
    <2> QED BY <2>2, <2>3
  <1>6. \A m \in Models : slack[m] \in Nat /\ slack[m] <= f[m]
    <2>1. \A m \in Models : slack[m] # 0 => slack[m] <= bytes[m][r]
      BY <1>1 DEF SlackFor
    <2> QED BY <1>3, <2>1
  <1> HIDE DEF f, R
  <1>7. /\ SumOver(f, R) \in Nat /\ SumOver(f, Models \ R) \in Nat
        /\ SumOver(f, Models) = SumOver(f, R) + SumOver(f, Models \ R)
    BY <1>3, <1>4, ModelsFinite, SumPart, ZenonT(30)
  <1>8. /\ SumOver(slack, Models \ R) \in Nat
        /\ SumOver(slack, Models) = SumOver(slack, R) + SumOver(slack, Models \ R)
    BY <1>4, <1>6, ModelsFinite, SumPart
  <1>9. SumOver(slack, R) = 0
    BY <1>5, SumZero
  <1>10. SumOver(slack, Models \ R) <= SumOver(f, Models \ R)
    <2>1. IsFiniteSet(Models \ R)
      BY ModelsFinite, FS_Subset
    <2> QED BY <1>3, <1>6, <2>1, SumMonotone
  <1>11. used[r] = SumOver(f, Models) + DoomedBytes(r) /\ DoomedBytes(r) \in Nat
    <2>1. releasing[r] \in Nat
      BY <1>2, CountersTyped DEF CountersOK
    <2> QED BY <1>2, <2>1 DEF Accounting, SumBytes, f
  <1>12. budget.limit[r] \in Nat
    BY <1>2 DEF TypeOK, Budget, Bytes
  <1>13. SumOver(slack, Models) = SumOver(slack, Models \ R)
    BY ZenonT(30), <1>8, <1>9, ZeroPlus
  <1>14. (SumOver(f, R) + SumOver(f, Models \ R)) + DoomedBytes(r)
           <= budget.limit[r] + SumOver(slack, Models \ R)
    BY ZenonT(30), <1>1, <1>7, <1>11, <1>13
  <1>15. SumOver(f, R) + DoomedBytes(r) <= budget.limit[r]
    BY ZenonT(30), <1>7, <1>8, <1>10, <1>11, <1>12, <1>14, Remains
  <1> QED BY ZenonT(30), <1>4, <1>15

\* For any clients, models, specs and budgets: ram_used, vram_used and what is
\* releasing are exact at every release of the mutex, and while the budget and
\* the specs stay and no overcommit is allowed, what is in memory (loaded, being
\* loaded, or taken out and not destroyed) never exceeds the budget.
THEOREM BudgetIsKept == SettledSpec => []BudgetKept
  BY BudgetInvariance, WithinBudgetSuffices, PTL

\* For any clients, models, specs and budgets: a client in cv.wait of
\* acquire_model, unload_model or register_model has somebody who will notify
\* it, or waits for room that is not there.
THEOREM NoWakeupIsLost == SettledSpec => []NoLostWakeup
  <1>1. BudgetInv => NoLostWakeup
    BY DEF BudgetInv, WaitOK, NoLostWakeup, WaitersHaveWaker, BudgetWaitersCannotProceed
  <1> QED BY <1>1, BudgetInvariance, PTL
============================================================================
