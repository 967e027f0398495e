------------------------- MODULE OrchestratorProofs ------------------------
(* The orchestrator, for every suite of tests, every number of concurrent  *)
(* runs and of retries, and every order in which receivers end: recipients *)
(* are exclusive as long as no reservation outlives its TTL and come free, *)
(* and what the result of a run says is what happened in it, with a store  *)
(* that fails and reservations that expire.                                *)
EXTENDS Orchestrator, SequenceTheorems, FiniteSetTheorems, TLAPS

LEMMA PutIsTable ==
    ASSUME NEW K, NEW V, NEW f, IsTable(f, K, V), NEW k \in K, NEW v \in V
    PROVE  IsTable(Put(f, k, v), K, V)
  BY DEF IsTable, Put

LEMMA DropIsTable ==
    ASSUME NEW K, NEW V, NEW f, IsTable(f, K, V), NEW k
    PROVE  IsTable(Drop(f, k), K, V)
  BY DEF IsTable, Drop, Restrict

LEMMA BoundTyped == MaxDeposits \in Nat
  BY DefAssumption

LEMMA InInterval ==
    ASSUME NEW c \in Nat, NEW n \in Nat, c >= 1, c <= n
    PROVE  c \in 1 .. n
  OBVIOUS

(* The definitions that a run executes are well formed. *)
LEMMA DefTyped ==
    ASSUME NEW r \in Runs
    PROVE  /\ Triggers(r) \in Seq(TriggerConfigs)
           /\ Len(Triggers(r)) \in Nat
           /\ MaxAttempts(r) \in Nat
           /\ \A n \in 1 .. Len(Triggers(r)) :
                 /\ Triggers(r)[n] \in TriggerConfigs
                 /\ Triggers(r)[n].receivers \in Seq(ReceiverConfigs)
                 /\ Len(Triggers(r)[n].receivers) \in Nat
                 /\ \A i \in 1 .. Len(Triggers(r)[n].receivers) :
                       Triggers(r)[n].receivers[i] \in ReceiverConfigs
<1>1. Def[r] \in TestDefinitions
  BY DefAssumption
<1>2. Triggers(r) \in Seq(TriggerConfigs) /\ MaxAttempts(r) \in Nat
  BY <1>1 DEF TestDefinitions, Triggers, MaxAttempts
<1>3. \A n \in 1 .. Len(Triggers(r)) : Triggers(r)[n] \in TriggerConfigs
  BY <1>2, ElementOfSeq
<1>4. \A n \in 1 .. Len(Triggers(r)) : Triggers(r)[n].receivers \in Seq(ReceiverConfigs)
  BY <1>3 DEF TriggerConfigs
<1> QED
  BY <1>2, <1>3, <1>4, ElementOfSeq, LenProperties

(* A run changes its own locals and result only. *)
LEMMA FrameTypeOK ==
    ASSUME TypeOK, NEW r \in Runs, NEW l \in RunStates, NEW res \in Results,
           LoopsInRange(r, l),
           run' = [run EXCEPT ![r] = l],
           result' = [result EXCEPT ![r] = res],
           IsTable(reservations', ResKeys, Runs),
           IsTable(messages', MsgKeys, Payloads),
           deposits' \in 0 .. MaxDeposits
    PROVE  TypeOK'
  <1>1. \A s \in Runs : LoopsInRange(s, run'[s])
    BY DEF TypeOK
  <1>2. \A s \in Runs : LoopsInRange(s, run[s])'
    BY <1>1 DEF LoopsInRange, Triggers
  <1> QED
    BY <1>2 DEF TypeOK

(* What FrameTypeOK asks of the parts an action leaves alone. *)
LEMMA RunTyped ==
    ASSUME TypeOK, NEW r \in Runs
    PROVE  /\ run[r] \in RunStates
           /\ result[r] \in Results
           /\ LoopsInRange(r, run[r])
           /\ run = [run EXCEPT ![r] = run[r]]
           /\ result = [result EXCEPT ![r] = result[r]]
  BY DEF TypeOK

LEMMA FailResultTyped ==
    ASSUME TypeOK, NEW r \in Runs, NEW err \in Errors
    PROVE  /\ FailResult(r, err)[r] \in Results
           /\ FailResult(r, err) = [result EXCEPT ![r] = FailResult(r, err)[r]]
  BY RunTyped DEF FailResult, TypeOK, Results, Statuses

(* A receiver's goroutine ends with a status of an ended receiver. *)
LEMMA EndCollectorTyped ==
    ASSUME TypeOK, NEW r \in Runs, NEW i \in Nat, run[r].pc = "collect",
           NEW status \in {"passed", "failed", "error"},
           EndCollector(r, i, status),
           IsTable(messages', MsgKeys, Payloads),
           UNCHANGED <<reservations, deposits>>
    PROVE  TypeOK'
<1> DEFINE l == [run[r] EXCEPT !.waiting = @ \ {i}, !.got = {g \in @ : g[1] # i}]
<1> DEFINE res == Merged(result[r], status, run[r].step)
<1>1. run[r] \in RunStates /\ LoopsInRange(r, run[r]) /\ result[r] \in Results
  BY RunTyped
<1>2. l \in RunStates
  BY <1>1 DEF RunStates
<1>3. LoopsInRange(r, l)
  BY <1>1 DEF LoopsInRange, RunStates
<1>4. Append(result[r].receivers, [step |-> run[r].step, status |-> status])
          \in Seq([step : Nat, status : Statuses])
  BY <1>1, AppendProperties DEF RunStates, Results, Statuses
<1>5. res \in Results
  BY <1>1, <1>4 DEF Merged, Results, Statuses
<1>6. run' = [run EXCEPT ![r] = l]
  BY DEF EndCollector, TypeOK
<1>7. result' = [result EXCEPT ![r] = res]
  BY DEF EndCollector
<1> HIDE DEF l, res
<1> QED
  BY <1>2, <1>3, <1>5, <1>6, <1>7, FrameTypeOK DEF TypeOK

(* The actions that change nothing but the run's own locals. *)
LEMMA LocalTyped ==
    ASSUME TypeOK, NEW r \in Runs, NEW l \in RunStates, LoopsInRange(r, l),
           run' = [run EXCEPT ![r] = l],
           UNCHANGED <<result, reservations, messages, deposits>>
    PROVE  TypeOK'
<1>1. result' = [result EXCEPT ![r] = result[r]]
  BY RunTyped
<1>2. /\ IsTable(reservations', ResKeys, Runs)
      /\ IsTable(messages', MsgKeys, Payloads)
      /\ deposits' \in 0 .. MaxDeposits
  BY DEF TypeOK
<1> QED
  BY <1>1, <1>2, RunTyped, FrameTypeOK

(* The actions that change the run's locals and result, not the store. *)
LEMMA ResultTyped ==
    ASSUME TypeOK, NEW r \in Runs, NEW l \in RunStates, LoopsInRange(r, l),
           NEW res \in Results,
           run' = [run EXCEPT ![r] = l],
           result' = [result EXCEPT ![r] = res],
           UNCHANGED <<reservations, messages, deposits>>
    PROVE  TypeOK'
<1>1. /\ IsTable(reservations', ResKeys, Runs)
      /\ IsTable(messages', MsgKeys, Payloads)
      /\ deposits' \in 0 .. MaxDeposits
  BY DEF TypeOK
<1> QED
  BY <1>1, FrameTypeOK

(* The recipient of a receiver is a key of the reservation table. *)
LEMMA KeyTyped ==
    ASSUME TypeOK, NEW r \in Runs, Reserving(r),
           Receiver(r, run[r].cursor).recipient # ""
    PROVE  Key(Receiver(r, run[r].cursor)) \in ResKeys
<1>1. run[r] \in RunStates /\ LoopsInRange(r, run[r])
  BY RunTyped
<1>2. run[r].step \in 1 .. Len(Triggers(r)) /\ run[r].cursor \in 1 .. Len(Receivers(r))
  <2>1. run[r].pc = "reserve" /\ run[r].cursor <= Len(Receivers(r)) /\ run[r].cursor \in Nat
    BY <1>1 DEF Reserving, At, RunStates
  <2>2. run[r].step \in 1 .. Len(Triggers(r)) /\ run[r].cursor >= 1
    BY <1>1, <2>1 DEF LoopsInRange
  <2>3. Len(Receivers(r)) \in Nat
    BY <2>2, DefTyped DEF Receivers
  <2>4. run[r].cursor \in 1 .. Len(Receivers(r))
    BY <2>1, <2>2, <2>3, InInterval
  <2> QED
    BY <2>2, <2>4
<1>3. Receiver(r, run[r].cursor) \in ReceiverConfigs
  BY <1>2, DefTyped DEF Receiver, Receivers
<1> QED
  BY <1>3 DEF ReceiverConfigs, Key, ResKeys

LEMMA MainStepTyped ==
    ASSUME TypeOK, NEW r \in Runs, MainStep(r)
    PROVE  TypeOK'
<1>1. run[r] \in RunStates /\ LoopsInRange(r, run[r]) /\ result[r] \in Results
  BY RunTyped
<1>2. /\ Len(Triggers(r)) \in Nat
      /\ MaxAttempts(r) \in Nat
      /\ \A n \in 1 .. Len(Triggers(r)) : Len(Triggers(r)[n].receivers) \in Nat
  BY DefTyped
<1>3. run \in [Runs -> RunStates] /\ result \in [Runs -> Results]
  BY DEF TypeOK
<1>0. /\ run[r].step \in Nat /\ run[r].step + 1 \in Nat
      /\ run[r].attempt \in Nat /\ run[r].attempt + 1 \in Nat
      /\ run[r].cursor \in Nat /\ run[r].cursor + 1 \in Nat
      /\ run[r].step >= 1 => run[r].step + 1 >= 1
      /\ run[r].cursor >= 1 => run[r].cursor + 1 >= 1
      /\ result[r].attempts + 1 \in Nat
      /\ << >> \in Seq(ResKeys)
  <2>1. run[r].step \in Nat /\ run[r].attempt \in Nat /\ run[r].cursor \in Nat
    BY <1>1 DEF RunStates
  <2>2. result[r].attempts \in Nat
    BY <1>1 DEF Results
  <2>3. << >> \in Seq(ResKeys)
    BY EmptySeq
  <2> HIDE DEF RunStates, Results
  <2> QED
    BY <2>1, <2>2, <2>3
<1>4. CASE NextStep(r)
  <2> DEFINE l == [run[r] EXCEPT
                  !.pc = IF run[r].step > Len(Triggers(r)) THEN "release"
                         ELSE IF Triggers(r)[run[r].step].known THEN "reserve" ELSE "release",
                  !.cursor = IF run[r].step > Len(Triggers(r)) THEN @
                             ELSE IF Triggers(r)[run[r].step].known THEN 1 ELSE @]
  <2> DEFINE res == IF run[r].step > Len(Triggers(r)) \/ Triggers(r)[run[r].step].known
                    THEN result[r] ELSE FailResult(r, "create")[r]
  <2>1. l \in RunStates
    BY <1>4, <1>1, <1>2, <1>0 DEF NextStep, RunStates, PCs
  <2>2. LoopsInRange(r, l)
    <3>1. /\ run[r].pc = "step" /\ run[r].step >= 1
          /\ run[r].waiting = {} /\ run[r].got = {}
      BY <1>4, <1>1 DEF NextStep, At, LoopsInRange
    <3>2. /\ l.waiting = {} /\ l.got = {}
          /\ l.pc \in {"release", "reserve"}
          /\ l.step = run[r].step
      BY <3>1, <1>1 DEF RunStates
    <3>3. l.pc = "reserve" => ~(run[r].step > Len(Triggers(r))) /\ l.cursor = 1
      BY <1>1 DEF RunStates
    <3>4. l.pc = "reserve" => l.step \in 1 .. Len(Triggers(r))
      BY <3>1, <3>2, <3>3, <1>0, <1>2, InInterval
    <3> HIDE DEF l
    <3> QED
      BY <3>2, <3>3, <3>4 DEF LoopsInRange
  <2>3. run' = [run EXCEPT ![r] = l]
    BY <1>4, <1>3 DEF NextStep
  <2>4. res \in Results
    BY <1>4, <1>1, <1>0, FailResultTyped DEF NextStep, Results, Statuses, Errors
  <2>5. result' = [result EXCEPT ![r] = res]
    BY <1>4, <1>3, FailResultTyped DEF NextStep, Errors
  <2> HIDE DEF l, res
  <2> QED
    BY <1>4, <2>1, <2>2, <2>3, <2>4, <2>5, ResultTyped DEF NextStep
<1>5. CASE SkipEmptyRecipient(r)
  <2> DEFINE l == [run[r] EXCEPT !.cursor = @ + 1]
  <2>1. l \in RunStates
    BY <1>5, <1>1, <1>2, <1>0 DEF SkipEmptyRecipient, RunStates, PCs, Reserving
  <2>2. LoopsInRange(r, l)
    <3>1. run[r].pc = "reserve"
      BY <1>5 DEF SkipEmptyRecipient, Reserving, At
    <3>2. /\ l.pc = "reserve" /\ l.step = run[r].step /\ l.cursor = run[r].cursor + 1
          /\ l.waiting = run[r].waiting /\ l.got = run[r].got
      BY <3>1, <1>1 DEF RunStates
    <3> HIDE DEF l
    <3> QED
      BY <3>1, <3>2, <1>1, <1>0 DEF LoopsInRange
  <2>3. run' = [run EXCEPT ![r] = l]
    BY <1>5, <1>3 DEF SkipEmptyRecipient, Reserving
  <2> HIDE DEF l
  <2> QED
    BY <1>5, <2>1, <2>2, <2>3, LocalTyped DEF SkipEmptyRecipient
<1>6. CASE Reserve(r)
  <2> DEFINE l == [run[r] EXCEPT !.cursor = @ + 1, !.taken = Append(@, Key(Receiver(r, run[r].cursor)))]
  <2>0. Append(run[r].taken, Key(Receiver(r, run[r].cursor))) \in Seq(ResKeys)
    BY <1>6, <1>1, KeyTyped, AppendProperties DEF Reserve, RunStates
  <2>1. l \in RunStates
    BY <1>6, <1>1, <1>2, <1>0, <2>0 DEF Reserve, RunStates, PCs, Reserving
  <2>2. LoopsInRange(r, l)
    <3>1. run[r].pc = "reserve"
      BY <1>6 DEF Reserve, Reserving, At
    <3>2. /\ l.pc = "reserve" /\ l.step = run[r].step /\ l.cursor = run[r].cursor + 1
          /\ l.waiting = run[r].waiting /\ l.got = run[r].got
      BY <3>1, <1>1 DEF RunStates
    <3> HIDE DEF l
    <3> QED
      BY <3>1, <3>2, <1>1, <1>0 DEF LoopsInRange
  <2>3. run' = [run EXCEPT ![r] = l]
    BY <1>6, <1>3 DEF Reserve, Reserving
  <2> HIDE DEF l
  <2>6. IsTable(reservations', ResKeys, Runs)
    BY <1>6, KeyTyped, PutIsTable DEF Reserve, TypeOK
  <2> QED
    BY <1>6, <2>1, <2>2, <2>3, <1>1, RunTyped, <2>6, FrameTypeOK DEF Reserve, TypeOK
<1>7. CASE ReserveFails(r)
  <2> DEFINE l == [run[r] EXCEPT !.pc = "release", !.taken = << >>]
  <2> DEFINE res == FailResult(r, "reserve")[r]
  <2>1. l \in RunStates
    BY <1>7, <1>1, <1>2, <1>0 DEF ReserveFails, RunStates, PCs, Reserving
  <2>2. LoopsInRange(r, l)
    BY <1>7, <1>1, <1>2, <1>0 DEF ReserveFails, LoopsInRange, RunStates, At, Reserving
  <2>3. run' = [run EXCEPT ![r] = l]
    BY <1>7, <1>3 DEF ReserveFails, Reserving
  <2>4. res \in Results
    BY <1>7, <1>1, <1>0, FailResultTyped DEF ReserveFails, Results, Statuses, Errors
  <2>5. result' = [result EXCEPT ![r] = res]
    BY <1>7, <1>3, FailResultTyped DEF ReserveFails, Errors
  <2> HIDE DEF l, res
  <2>6. IsTable(reservations', ResKeys, Runs)
    <3>1. IsTable(reservations, ResKeys, Runs)
      BY DEF TypeOK
    <3>2. Key(Receiver(r, run[r].cursor)) \in ResKeys
      BY <1>7, KeyTyped DEF ReserveFails
    <3>3. \/ reservations' = reservations
          \/ reservations' = Put(reservations, Key(Receiver(r, run[r].cursor)), r)
      BY <1>7 DEF ReserveFails
    <3> QED
      BY <3>1, <3>2, <3>3, PutIsTable
  <2> QED
    BY <1>7, <2>1, <2>2, <2>3, <2>4, <2>5, <2>6, FrameTypeOK DEF ReserveFails, TypeOK
<1>8. CASE DeferRelease(r)
  <2> DEFINE l == [run[r] EXCEPT !.pc = "attempt", !.attempt = 1, !.lastTriggerErr = FALSE,
                                  !.taken = << >>, !.deferred = run[r].taken \o @]
  <2>0. run[r].taken \o run[r].deferred \in Seq(ResKeys)
    BY <1>1, ConcatProperties DEF RunStates
  <2>1. l \in RunStates
    BY <1>8, <1>1, <1>2, <1>0, <2>0 DEF DeferRelease, RunStates, PCs
  <2>2. LoopsInRange(r, l)
    BY <1>8, <1>1, <1>2, <1>0 DEF DeferRelease, LoopsInRange, RunStates, At
  <2>3. run' = [run EXCEPT ![r] = l]
    BY <1>8, <1>3 DEF DeferRelease
  <2> HIDE DEF l
  <2> QED
    BY <1>8, <2>1, <2>2, <2>3, LocalTyped DEF DeferRelease
<1>9. CASE TriggerFails(r)
  <2> DEFINE l == [RetryOrGiveUp(r) EXCEPT !.lastTriggerErr = TRUE]
  <2> DEFINE res == [result[r] EXCEPT !.attempts = @ + 1]
  <2>1. l \in RunStates
    BY <1>9, <1>1, <1>2, <1>0 DEF TriggerFails, RunStates, PCs, RetryOrGiveUp
  <2>2. LoopsInRange(r, l)
    BY <1>9, <1>1, <1>2, <1>0 DEF TriggerFails, LoopsInRange, RunStates, At, RetryOrGiveUp
  <2>3. run' = [run EXCEPT ![r] = l]
    BY <1>9, <1>3 DEF TriggerFails, RetryOrGiveUp
  <2>4. res \in Results
    BY <1>9, <1>1, <1>0, FailResultTyped DEF TriggerFails, Results, Statuses, Errors, CountAttempt
  <2>5. result' = [result EXCEPT ![r] = res]
    BY <1>9, <1>3, FailResultTyped DEF TriggerFails, Errors, CountAttempt
  <2> HIDE DEF l, res
  <2> QED
    BY <1>9, <2>1, <2>2, <2>3, <2>4, <2>5, ResultTyped DEF TriggerFails
<1>10. CASE TriggerFires(r)
  <2> DEFINE l == IF NothingToWaitFor(r) THEN StepPassed(r)
                  ELSE [run[r] EXCEPT !.pc = "start", !.cursor = 1]
  <2> DEFINE res == [result[r] EXCEPT !.attempts = @ + 1,
                                      !.status = IF NothingToWaitFor(r) THEN "passed" ELSE @]
  <2>1. l \in RunStates
    BY <1>1, <1>0 DEF RunStates, PCs, StepPassed
  <2>2. LoopsInRange(r, l)
    BY <1>10, <1>1, <1>2, <1>0, SMTT(30) DEF TriggerFires, LoopsInRange, RunStates, At, StepPassed
  <2>3. run' = [run EXCEPT ![r] = l]
    BY <1>10, <1>3 DEF TriggerFires
  <2>4. res \in Results
    BY <1>1, <1>0 DEF Results, Statuses
  <2>5. result' = [result EXCEPT ![r] = res]
    <3>1. CASE NothingToWaitFor(r)
      BY <1>10, <1>3, <3>1 DEF TriggerFires, CountAttempt, Results
    <3>2. CASE ~NothingToWaitFor(r)
      BY <1>10, <1>3, <1>1, <3>2 DEF TriggerFires, CountAttempt, Results
    <3> QED
      BY <3>1, <3>2
  <2> HIDE DEF l, res
  <2> QED
    BY <1>10, <2>1, <2>2, <2>3, <2>4, <2>5, ResultTyped DEF TriggerFires
<1>11. CASE StartReceiver(r)
  <2> DEFINE l == [run[r] EXCEPT !.cursor = @ + 1,
                    !.open = @ \cup {<<run[r].step, run[r].attempt, run[r].cursor>>}]
  <2>0. run[r].open \cup {<<run[r].step, run[r].attempt, run[r].cursor>>}
            \in SUBSET (Nat \X Nat \X Nat)
    BY <1>1, <1>0 DEF RunStates
  <2>1. l \in RunStates
    BY <2>0, <1>1, <1>0 DEF StartReceiver, RunStates, PCs
  <2>2. LoopsInRange(r, l)
    BY <1>11, <1>1, <1>2, <1>0 DEF StartReceiver, LoopsInRange, RunStates, At
  <2>3. run' = [run EXCEPT ![r] = l]
    BY <1>11, <1>3 DEF StartReceiver
  <2> HIDE DEF l
  <2> QED
    BY <1>11, <2>1, <2>2, <2>3, LocalTyped DEF StartReceiver
<1>12. CASE StartFails(r)
  <2> DEFINE l == [run[r] EXCEPT !.pc = "giveup"]
  <2> DEFINE res == FailResult(r, "start")[r]
  <2>1. l \in RunStates
    BY <1>12, <1>1, <1>2, <1>0 DEF StartFails, RunStates, PCs
  <2>2. LoopsInRange(r, l)
    BY <1>12, <1>1, <1>2, <1>0 DEF StartFails, LoopsInRange, RunStates, At
  <2>3. run' = [run EXCEPT ![r] = l]
    BY <1>12, <1>3 DEF StartFails
  <2>4. res \in Results
    BY <1>12, <1>1, <1>0, FailResultTyped DEF StartFails, Results, Statuses, Errors
  <2>5. result' = [result EXCEPT ![r] = res]
    BY <1>12, <1>3, FailResultTyped DEF StartFails, Errors
  <2> HIDE DEF l, res
  <2> QED
    BY <1>12, <2>1, <2>2, <2>3, <2>4, <2>5, ResultTyped DEF StartFails
<1>13. CASE BeginCollect(r)
  <2> DEFINE l == [run[r] EXCEPT !.pc = "collect", !.waiting = 1 .. Len(Receivers(r))]
  <2>0. 1 .. Len(Receivers(r)) \in SUBSET Nat
    <3>1. run[r].step \in 1 .. Len(Triggers(r))
      BY <1>13, <1>1 DEF BeginCollect, At, LoopsInRange
    <3> QED
      BY <3>1, <1>2 DEF Receivers
  <2>1. l \in RunStates
    BY <2>0, <1>1 DEF RunStates, PCs
  <2>2. LoopsInRange(r, l)
    BY <1>13, <1>1, <1>2, <1>0 DEF BeginCollect, LoopsInRange, RunStates, At, Receivers
  <2>3. run' = [run EXCEPT ![r] = l]
    BY <1>13, <1>3 DEF BeginCollect, Receivers
  <2> HIDE DEF l
  <2> QED
    BY <1>13, <2>1, <2>2, <2>3, LocalTyped DEF BeginCollect
<1>14. CASE WaitAll(r)
  <2> DEFINE l == [run[r] EXCEPT !.pc = "stop"]
  <2> DEFINE res == [result[r] EXCEPT !.error =
                      IF @ = "" /\ result[r].status # "passed" THEN "receivers" ELSE @]
  <2>1. l \in RunStates
    BY <1>14, <1>1, <1>2, <1>0 DEF WaitAll, RunStates, PCs
  <2>2. LoopsInRange(r, l)
    BY <1>14, <1>1, <1>2, <1>0 DEF WaitAll, LoopsInRange, RunStates, At
  <2>3. run' = [run EXCEPT ![r] = l]
    BY <1>14, <1>3 DEF WaitAll
  <2>4. res \in Results
    BY <1>14, <1>1, <1>0, FailResultTyped, ZenonT(60) DEF WaitAll, Results, Statuses, Errors
  <2>5. result' = [result EXCEPT ![r] = res]
    BY <1>14, <1>3, FailResultTyped DEF WaitAll, Errors
  <2> HIDE DEF l, res
  <2> QED
    BY <1>14, <2>1, <2>2, <2>3, <2>4, <2>5, ResultTyped DEF WaitAll
<1>15. CASE StopReceivers(r)
  <2> DEFINE l == [IF result[r].status = "passed" THEN StepPassed(r) ELSE RetryOrGiveUp(r)
                     EXCEPT !.open = StillOpen(r)]
  <2>1. l \in RunStates
    BY <1>15, <1>1, <1>2, <1>0 DEF StopReceivers, RunStates, PCs, StepPassed, RetryOrGiveUp, StillOpen
  <2>2. LoopsInRange(r, l)
    BY <1>15, <1>1, <1>2, <1>0 DEF StopReceivers, LoopsInRange, RunStates, At, StepPassed, RetryOrGiveUp, StillOpen
  <2>3. run' = [run EXCEPT ![r] = l]
    BY <1>15, <1>3 DEF StopReceivers, StepPassed, RetryOrGiveUp, StillOpen
  <2> HIDE DEF l
  <2> QED
    BY <1>15, <2>1, <2>2, <2>3, LocalTyped DEF StopReceivers
<1>16. CASE GiveUp(r)
  <2> DEFINE l == [run[r] EXCEPT !.pc = "release"]
  <2> DEFINE res == IF run[r].lastTriggerErr THEN FailResult(r, "trigger")[r] ELSE result[r]
  <2>1. l \in RunStates
    BY <1>16, <1>1, <1>2, <1>0 DEF GiveUp, RunStates, PCs
  <2>2. LoopsInRange(r, l)
    BY <1>16, <1>1, <1>2, <1>0 DEF GiveUp, LoopsInRange, RunStates, At
  <2>3. run' = [run EXCEPT ![r] = l]
    BY <1>16, <1>3 DEF GiveUp
  <2>4. res \in Results
    BY <1>16, <1>1, <1>0, FailResultTyped DEF GiveUp, Results, Statuses, Errors
  <2>5. result' = [result EXCEPT ![r] = res]
    BY <1>16, <1>3, FailResultTyped DEF GiveUp, Errors
  <2> HIDE DEF l, res
  <2> QED
    BY <1>16, <2>1, <2>2, <2>3, <2>4, <2>5, ResultTyped DEF GiveUp
<1>17. CASE Release(r)
  <2> DEFINE l == [run[r] EXCEPT !.deferred = Tail(@)]
  <2>0. run[r].deferred # << >> => Tail(run[r].deferred) \in Seq(ResKeys)
    BY <1>1, HeadTailProperties DEF RunStates
  <2>1. l \in RunStates
    BY <1>17, <1>1, <1>2, <1>0, <2>0 DEF Release, RunStates, PCs
  <2>2. LoopsInRange(r, l)
    BY <1>17, <1>1, <1>2, <1>0 DEF Release, LoopsInRange, RunStates, At
  <2>3. run' = [run EXCEPT ![r] = l]
    BY <1>17, <1>3 DEF Release
  <2> HIDE DEF l
  <2>6. IsTable(reservations', ResKeys, Runs)
    BY <1>17, DropIsTable DEF Release, TypeOK
  <2> QED
    BY <1>17, <2>1, <2>2, <2>3, <2>6, <1>1, RunTyped, FrameTypeOK DEF Release, TypeOK
<1>18. CASE Finish(r)
  <2> DEFINE l == [run[r] EXCEPT !.pc = "deliver",
                    !.notify = IF result[r].status \in {"failed", "error"} THEN "spawned" ELSE @]
  <2>1. l \in RunStates
    BY <1>18, <1>1, <1>2, <1>0 DEF Finish, RunStates, PCs
  <2>2. LoopsInRange(r, l)
    BY <1>18, <1>1, <1>2, <1>0 DEF Finish, LoopsInRange, RunStates, At
  <2>3. run' = [run EXCEPT ![r] = l]
    BY <1>18, <1>3 DEF Finish
  <2> HIDE DEF l
  <2> QED
    BY <1>18, <2>1, <2>2, <2>3, LocalTyped DEF Finish
<1>19. CASE Deliver(r)
  <2> DEFINE l == [run[r] EXCEPT !.pc = "done"]
  <2>1. l \in RunStates
    BY <1>19, <1>1, <1>2, <1>0 DEF Deliver, RunStates, PCs
  <2>2. LoopsInRange(r, l)
    BY <1>19, <1>1, <1>2, <1>0 DEF Deliver, LoopsInRange, RunStates, At
  <2>3. run' = [run EXCEPT ![r] = l]
    BY <1>19, <1>3 DEF Deliver
  <2> HIDE DEF l
  <2> QED
    BY <1>19, <2>1, <2>2, <2>3, LocalTyped DEF Deliver
<1> QED
  BY <1>4, <1>5, <1>6, <1>7, <1>8, <1>9, <1>10, <1>11, <1>12, <1>13, <1>14, <1>15, <1>16, <1>17, <1>18, <1>19
     DEF MainStep

(* A receiver whose goroutine runs is one of the step's receivers. *)
LEMMA CollectorOfStep ==
    ASSUME TypeOK, NEW r \in Runs, NEW i,
           i \in run[r].waiting \/ \E m : <<i, m>> \in run[r].got
    PROVE  /\ run[r].pc = "collect"
           /\ i \in Nat
           /\ Receiver(r, i) \in ReceiverConfigs
<1>1. run[r] \in RunStates /\ LoopsInRange(r, run[r])
  BY RunTyped
<1>2. run[r].pc = "collect"
  BY <1>1 DEF LoopsInRange
<1>3. run[r].step \in 1 .. Len(Triggers(r))
  BY <1>1, <1>2 DEF LoopsInRange
<1>4. i \in 1 .. Len(Receivers(r))
  <2>1. \A g \in run[r].got : g[1] \in 1 .. Len(Receivers(r))
    BY <1>1, <1>2 DEF LoopsInRange, Receivers
  <2>2. run[r].waiting \subseteq 1 .. Len(Receivers(r))
    BY <1>1, <1>2 DEF LoopsInRange, Receivers
  <2> QED
    BY <2>1, <2>2
<1>5. Receiver(r, i) \in ReceiverConfigs
  BY <1>3, <1>4, DefTyped DEF Receiver, Receivers
<1> QED
  BY <1>2, <1>4, <1>5, <1>3, DefTyped DEF Receivers

(* Collect returns a message: the receiver's goroutine goes on with it. *)
LEMMA CollectedTyped ==
    ASSUME TypeOK, NEW r \in Runs, NEW i \in run[r].waiting, NEW m \in Payloads,
           run' = Collected(r, i, m),
           UNCHANGED <<result, reservations, messages, deposits>>
    PROVE  TypeOK'
<1> DEFINE l == [run[r] EXCEPT !.waiting = @ \ {i}, !.got = @ \cup {<<i, m>>}]
<1>1. run[r] \in RunStates /\ LoopsInRange(r, run[r])
  BY RunTyped
<1>2. run[r].pc = "collect" /\ i \in Nat
  BY CollectorOfStep
<1>3. run[r].got \cup {<<i, m>>} \in SUBSET (Nat \X Payloads)
  BY <1>1, <1>2 DEF RunStates
<1>4. l \in RunStates
  BY <1>1, <1>3 DEF RunStates
<1>5. LoopsInRange(r, l)
  BY <1>1, <1>2 DEF LoopsInRange, RunStates
<1>6. run' = [run EXCEPT ![r] = l]
  BY DEF Collected, TypeOK
<1> HIDE DEF l
<1> QED
  BY <1>4, <1>5, <1>6, LocalTyped

LEMMA CollectorTyped ==
    ASSUME TypeOK, NEW r \in Runs, CollectorStep(r) \/ OutsideAnswers(r)
    PROVE  TypeOK'
<1>1. CASE \E i \in run[r].waiting : ClaimMessage(r, i)
  <2>1. PICK i \in run[r].waiting : ClaimMessage(r, i)
    BY <1>1
  <2>2. messages[<<r, "webhook">>] \in Payloads
    BY <2>1 DEF ClaimMessage, TypeOK, IsTable
  <2> QED
    BY <2>1, <2>2, CollectedTyped DEF ClaimMessage
<1>2. CASE \E i \in run[r].waiting : PollSucceeds(r, i) \/ MailFound(r, i)
  BY <1>2, CollectedTyped DEF PollSucceeds, MailFound
<1>3. CASE \E i \in run[r].waiting : CollectTimesOut(r, i) \/ CollectFails(r, i)
  <2>1. PICK i \in run[r].waiting : CollectTimesOut(r, i) \/ CollectFails(r, i)
    BY <1>3
  <2>2. /\ EndCollector(r, i, "error")
        /\ UNCHANGED <<reservations, messages, deposits>>
    BY <2>1 DEF CollectTimesOut, CollectFails
  <2>3. run[r].pc = "collect" /\ i \in Nat
    BY CollectorOfStep
  <2> QED
    BY <2>2, <2>3, EndCollectorTyped DEF TypeOK
<1>4. CASE \E g \in run[r].got : AssertMessage(r, g[1], g[2])
  <2>1. PICK g \in run[r].got : AssertMessage(r, g[1], g[2])
    BY <1>4
  <2>2. g \in Nat \X Payloads
    BY RunTyped DEF RunStates
  <2>3. <<g[1], g[2]>> \in run[r].got
    BY <2>1 DEF AssertMessage
  <2>4. run[r].pc = "collect" /\ Receiver(r, g[1]) \in ReceiverConfigs
    BY <2>3, CollectorOfStep
  <2>5. Receiver(r, g[1]).verdict[g[2]] \in {"passed", "failed", "error"}
    BY <2>2, <2>4 DEF ReceiverConfigs
  <2>6. IsTable(messages', MsgKeys, Payloads)
    BY <2>1, DropIsTable DEF AssertMessage, TypeOK
  <2> QED
    BY <2>1, <2>2, <2>4, <2>5, <2>6, EndCollectorTyped DEF AssertMessage
<1> QED
  BY <1>1, <1>2, <1>3, <1>4 DEF CollectorStep, OutsideAnswers

LEMMA TypeStep ==
    ASSUME TypeOK, [Next]_vars
    PROVE  TypeOK'
<1>1. ASSUME NEW r \in Runs, Begin(r)
      PROVE  TypeOK'
  <2> DEFINE l == IF Def[r].enabled THEN [run[r] EXCEPT !.pc = "step", !.step = 1]
                  ELSE [run[r] EXCEPT !.pc = "deliver"]
  <2> DEFINE res == IF Def[r].enabled THEN result[r]
                    ELSE [result[r] EXCEPT !.status = "skipped"]
  <2>1. run[r] \in RunStates /\ result[r] \in Results /\ LoopsInRange(r, run[r])
    BY RunTyped
  <2>2. l \in RunStates /\ res \in Results
    BY <2>1 DEF RunStates, PCs, Results, Statuses
  <2>3. LoopsInRange(r, l)
    BY <2>1, <1>1 DEF Begin, At, LoopsInRange, RunStates
  <2>4. run' = [run EXCEPT ![r] = l] /\ result' = [result EXCEPT ![r] = res]
    BY <1>1 DEF Begin, TypeOK
  <2> HIDE DEF l, res
  <2> QED
    BY <1>1, <2>2, <2>3, <2>4, ResultTyped DEF Begin
<1>2. ASSUME NEW r \in Runs, Notify(r)
      PROVE  TypeOK'
  <2> DEFINE l == [run[r] EXCEPT !.notify = "sent"]
  <2>1. run[r] \in RunStates /\ LoopsInRange(r, run[r])
    BY RunTyped
  <2>2. l \in RunStates /\ LoopsInRange(r, l)
    BY <2>1 DEF RunStates, LoopsInRange
  <2>3. run' = [run EXCEPT ![r] = l]
    BY <1>2 DEF Notify, TypeOK
  <2> HIDE DEF l
  <2> QED
    BY <1>2, <2>2, <2>3, LocalTyped DEF Notify
<1>3. ASSUME NEW r \in Runs, NEW m \in Payloads, HandleWebhook(r, m)
      PROVE  TypeOK'
  <2>1. <<r, "webhook">> \in MsgKeys
    BY DEF MsgKeys, Types
  <2>2. IsTable(messages', MsgKeys, Payloads)
    BY <2>1, <1>3, PutIsTable DEF HandleWebhook, Ingest, TypeOK
  <2>3. deposits' \in 0 .. MaxDeposits
    <3>1. deposits \in 0 .. MaxDeposits /\ deposits < MaxDeposits /\ deposits' = deposits + 1
      BY <1>3 DEF HandleWebhook, TypeOK
    <3> QED
      BY <3>1, BoundTyped
  <2>4. \A s \in Runs : LoopsInRange(s, run[s])'
    BY <1>3 DEF HandleWebhook, TypeOK, LoopsInRange, Triggers
  <2> QED
    BY <1>3, <2>2, <2>3, <2>4 DEF HandleWebhook, TypeOK
<1>4. ASSUME NEW k \in ResKeys, ExpireReservation(k)
      PROVE  TypeOK'
  <2>1. IsTable(reservations', ResKeys, Runs)
    BY <1>4, DropIsTable DEF ExpireReservation, TypeOK
  <2> QED
    BY <1>4, <2>1 DEF ExpireReservation, TypeOK, LoopsInRange, Triggers
<1>5. CASE UNCHANGED vars
  BY <1>5 DEF vars, TypeOK, LoopsInRange, Triggers
<1> QED
  BY <1>1, <1>2, <1>3, <1>4, <1>5, MainStepTyped, CollectorTyped DEF Next, AllDone

LEMMA TypeInit == Init => TypeOK
<1> SUFFICES ASSUME Init PROVE TypeOK
  OBVIOUS
<1>1. NewRun \in RunStates
  BY EmptySeq DEF NewRun, RunStates, PCs
<1>2. NewResult \in Results
  BY EmptySeq DEF NewResult, Results, Statuses, Errors
<1>3. IsTable(EmptyTable, ResKeys, Runs) /\ IsTable(EmptyTable, MsgKeys, Payloads)
  BY DEF IsTable, EmptyTable
<1>4. \A r \in Runs : LoopsInRange(r, NewRun)
  BY DEF LoopsInRange, NewRun
<1>5. 0 \in 0 .. MaxDeposits
  BY BoundTyped
<1> QED
  BY <1>1, <1>2, <1>3, <1>4, <1>5 DEF Init, TypeOK

(* Whatever the tests, however many run at once, whatever fails: the       *)
(* locals of executeSequential and its collectors stay well typed, the     *)
(* loop indices stay inside the test definition, and no receiver goroutine *)
(* outlives the collect phase of the attempt that started it.              *)
THEOREM OrchestratorTypeCorrect == Spec => []TypeOK
<1>1. Init => TypeOK
  BY TypeInit
<1>2. TypeOK /\ [Next]_vars => TypeOK'
  BY TypeStep
<1> QED
  BY <1>1, <1>2, PTL DEF Spec

----------------------------------------------------------------------------
(* Reservations come free. *)
(* A step that touches no reservation and no run's list of them. *)
Quiet ==
    /\ reservations' = reservations
    /\ \A s \in Runs : /\ run'[s].taken = run[s].taken
                       /\ run'[s].deferred = run[s].deferred

(* A step of run r that changes its lists to t and d. *)
Lists(r, t, d) ==
    \A s \in Runs : /\ run'[s].taken = IF s = r THEN t ELSE run[s].taken
                    /\ run'[s].deferred = IF s = r THEN d ELSE run[s].deferred

QuietStep(r) ==
    \/ Begin(r) \/ NextStep(r) \/ SkipEmptyRecipient(r)
    \/ TriggerFails(r) \/ TriggerFires(r)
    \/ StartReceiver(r) \/ StartFails(r) \/ BeginCollect(r)
    \/ WaitAll(r) \/ StopReceivers(r) \/ GiveUp(r) \/ Finish(r) \/ Deliver(r)
    \/ CollectorStep(r) \/ OutsideAnswers(r) \/ Notify(r)

LEMMA QuietSteps ==
    ASSUME TypeOK, NEW r \in Runs, QuietStep(r)
    PROVE  Quiet
<1>1. run \in [Runs -> RunStates] /\ run[r] \in RunStates
  BY DEF TypeOK
<1>2. CASE Begin(r)
  <2>1. /\ reservations' = reservations
        /\ \/ run' = [run EXCEPT ![r].pc = "step", ![r].step = 1]
           \/ run' = [run EXCEPT ![r].pc = "deliver"]
    BY <1>2 DEF Begin
  <2>2. CASE run' = [run EXCEPT ![r].pc = "step", ![r].step = 1]
    BY <1>1, <2>1, <2>2 DEF Quiet, RunStates
  <2>3. CASE run' = [run EXCEPT ![r].pc = "deliver"]
    BY <1>1, <2>1, <2>3 DEF Quiet, RunStates
  <2> QED
    BY <2>1, <2>2, <2>3
<1>3. CASE NextStep(r)
  <2>1. /\ reservations' = reservations
        /\ \/ run' = [run EXCEPT ![r].pc = "reserve", ![r].cursor = 1]
           \/ run' = [run EXCEPT ![r].pc = "release"]
    BY <1>3 DEF NextStep
  <2>2. CASE run' = [run EXCEPT ![r].pc = "reserve", ![r].cursor = 1]
    BY <1>1, <2>1, <2>2 DEF Quiet, RunStates
  <2>3. CASE run' = [run EXCEPT ![r].pc = "release"]
    BY <1>1, <2>1, <2>3 DEF Quiet, RunStates
  <2> QED
    BY <2>1, <2>2, <2>3
<1>4. CASE SkipEmptyRecipient(r)
  BY <1>1, <1>4 DEF SkipEmptyRecipient, Quiet, RunStates
<1>5. CASE TriggerFails(r)
  BY <1>1, <1>5 DEF TriggerFails, Quiet, RunStates, RetryOrGiveUp
<1>6. CASE TriggerFires(r)
  <2>1. /\ reservations' = reservations
        /\ \/ run' = [run EXCEPT ![r] = StepPassed(r)]
           \/ run' = [run EXCEPT ![r].pc = "start", ![r].cursor = 1]
    BY <1>6 DEF TriggerFires
  <2>2. CASE run' = [run EXCEPT ![r] = StepPassed(r)]
    BY <1>1, <2>1, <2>2 DEF Quiet, RunStates, StepPassed
  <2>3. CASE run' = [run EXCEPT ![r].pc = "start", ![r].cursor = 1]
    BY <1>1, <2>1, <2>3 DEF Quiet, RunStates
  <2> QED
    BY <2>1, <2>2, <2>3
<1>7. CASE StartReceiver(r)
  BY <1>1, <1>7 DEF StartReceiver, Quiet, RunStates
<1>8. CASE StartFails(r)
  BY <1>1, <1>8 DEF StartFails, Quiet, RunStates
<1>9. CASE BeginCollect(r)
  BY <1>1, <1>9 DEF BeginCollect, Quiet, RunStates
<1>10. CASE WaitAll(r)
  BY <1>1, <1>10 DEF WaitAll, Quiet, RunStates
<1>11. CASE StopReceivers(r)
  BY <1>1, <1>11 DEF StopReceivers, Quiet, RunStates, StepPassed, RetryOrGiveUp
<1>12. CASE GiveUp(r)
  BY <1>1, <1>12 DEF GiveUp, Quiet, RunStates
<1>13. CASE Finish(r)
  BY <1>1, <1>13 DEF Finish, Quiet, RunStates
<1>14. CASE Deliver(r)
  BY <1>1, <1>14 DEF Deliver, Quiet, RunStates
<1>15. CASE Notify(r)
  BY <1>1, <1>15 DEF Notify, Quiet, RunStates
<1>16. CASE CollectorStep(r) \/ OutsideAnswers(r)
  <2>1. /\ reservations' = reservations
        /\ \E W, G : run' = [run EXCEPT ![r].waiting = W, ![r].got = G]
    <3>1. ASSUME NEW i, ClaimMessage(r, i) \/ PollSucceeds(r, i) \/ MailFound(r, i)
          PROVE  <2>1!:
      BY <3>1 DEF ClaimMessage, PollSucceeds, MailFound, Collected
    <3>2. ASSUME NEW i, NEW st, EndCollector(r, i, st)
          PROVE  \E W, G : run' = [run EXCEPT ![r].waiting = W, ![r].got = G]
      BY <3>2 DEF EndCollector
    <3>3. ASSUME NEW i, CollectTimesOut(r, i) \/ CollectFails(r, i)
          PROVE  <2>1!:
      BY <3>2, <3>3 DEF CollectTimesOut, CollectFails
    <3>4. ASSUME NEW i, NEW m, AssertMessage(r, i, m)
          PROVE  <2>1!:
      BY <3>2, <3>4 DEF AssertMessage
    <3> QED
      BY <1>16, <3>1, <3>3, <3>4 DEF CollectorStep, OutsideAnswers
  <2> QED
    BY <1>1, <2>1 DEF Quiet, RunStates
<1> QED
  BY <1>2, <1>3, <1>4, <1>5, <1>6, <1>7, <1>8, <1>9, <1>10, <1>11, <1>12, <1>13, <1>14, <1>15, <1>16
     DEF QuietStep

(* The four steps that do change the lists. *)
LEMMA ListSteps ==
    ASSUME TypeOK, NEW r \in Runs
    PROVE  /\ Reserve(r) => Lists(r, Append(run[r].taken, Key(Receiver(r, run[r].cursor))),
                                  run[r].deferred)
           /\ ReserveFails(r) => Lists(r, << >>, run[r].deferred)
           /\ DeferRelease(r) => Lists(r, << >>, run[r].taken \o run[r].deferred)
           /\ Release(r) => Lists(r, run[r].taken, Tail(run[r].deferred))
<1>1. run \in [Runs -> RunStates] /\ run[r] \in RunStates
  BY DEF TypeOK
<1>2. Reserve(r) => Lists(r, Append(run[r].taken, Key(Receiver(r, run[r].cursor))),
                          run[r].deferred)
  <2> DEFINE k == Key(Receiver(r, run[r].cursor))
  <2>1. Reserve(r) => run' = [run EXCEPT ![r].cursor = @ + 1, ![r].taken = Append(@, k)]
    BY DEF Reserve
  <2> HIDE DEF k
  <2>2. Reserve(r) => Lists(r, Append(run[r].taken, k), run[r].deferred)
    BY <1>1, <2>1 DEF Lists, RunStates
  <2> QED
    BY <2>2 DEF k
<1>3. ReserveFails(r) => Lists(r, << >>, run[r].deferred)
  <2>1. ReserveFails(r) => run' = [run EXCEPT ![r].pc = "release", ![r].taken = << >>]
    BY DEF ReserveFails
  <2> QED
    BY <1>1, <2>1 DEF Lists, RunStates
<1>4. DeferRelease(r) => Lists(r, << >>, run[r].taken \o run[r].deferred)
  BY <1>1 DEF DeferRelease, Lists, RunStates
<1>5. Release(r) => Lists(r, run[r].taken, Tail(run[r].deferred))
  BY <1>1 DEF Release, Lists, RunStates
<1> QED
  BY <1>2, <1>3, <1>4, <1>5

(* Every step of the orchestrator is one of these. *)
LEMMA StepKinds ==
    ASSUME TypeOK, [Next]_vars
    PROVE  \/ Quiet
           \/ \E r \in Runs : Reserve(r) \/ ReserveFails(r) \/ DeferRelease(r) \/ Release(r)
           \/ \E k \in ResKeys : ExpireReservation(k)
<1>1. ASSUME NEW r \in Runs, NEW m \in Payloads, HandleWebhook(r, m)
      PROVE  Quiet
  BY <1>1 DEF HandleWebhook, Quiet
<1>2. CASE UNCHANGED vars
  BY <1>2 DEF vars, Quiet
<1> QED
  BY <1>1, <1>2, QuietSteps DEF Next, MainStep, QuietStep, AllDone

----------------------------------------------------------------------------
(* Lists without repetitions. *)
LEMMA AppendFresh ==
    ASSUME NEW S, NEW q \in Seq(S), IsInjective(q), NEW k \in S, k \notin Range(q)
    PROVE  IsInjective(Append(q, k))
<1>1. /\ Append(q, k) \in Seq(S) /\ Len(q) \in Nat
      /\ DOMAIN q = 1 .. Len(q)
      /\ DOMAIN Append(q, k) = 1 .. Len(q) + 1
      /\ \A i \in 1 .. Len(q) : Append(q, k)[i] = q[i]
      /\ Append(q, k)[Len(q) + 1] = k
  BY AppendProperties, LenProperties
<1>2. \A i \in 1 .. Len(q) + 1 : i \in 1 .. Len(q) \/ i = Len(q) + 1
  BY <1>1
<1>3. \A i \in 1 .. Len(q) : q[i] # k
  BY <1>1 DEF Range
<1>4. IsInjective(Append(q, k))
  BY <1>1, <1>2, <1>3 DEF IsInjective
<1> QED
  BY <1>4

LEMMA RangeAppend ==
    ASSUME NEW S, NEW q \in Seq(S), NEW k \in S
    PROVE  Range(Append(q, k)) = Range(q) \cup {k}
<1>1. /\ Len(q) \in Nat
      /\ DOMAIN q = 1 .. Len(q)
      /\ DOMAIN Append(q, k) = 1 .. Len(q) + 1
      /\ \A i \in 1 .. Len(q) : Append(q, k)[i] = q[i]
      /\ Append(q, k)[Len(q) + 1] = k
  BY AppendProperties, LenProperties
<1>2. 1 .. Len(q) + 1 = (1 .. Len(q)) \cup {Len(q) + 1}
  BY <1>1
<1> QED
  BY <1>1, <1>2 DEF Range

LEMMA ConcatDisjoint ==
    ASSUME NEW S, NEW p \in Seq(S), NEW q \in Seq(S), IsInjective(p), IsInjective(q),
           Range(p) \cap Range(q) = {}
    PROVE  /\ IsInjective(p \o q)
           /\ Range(p \o q) = Range(p) \cup Range(q)
<1>1. /\ Len(p) \in Nat /\ Len(q) \in Nat
      /\ DOMAIN p = 1 .. Len(p) /\ DOMAIN q = 1 .. Len(q)
      /\ DOMAIN (p \o q) = 1 .. Len(p) + Len(q)
      /\ \A i \in 1 .. Len(p) + Len(q) :
            (p \o q)[i] = IF i <= Len(p) THEN p[i] ELSE q[i - Len(p)]
  BY ConcatProperties, LenProperties
<1>2. \A i \in 1 .. Len(p) + Len(q) :
         IF i <= Len(p) THEN i \in 1 .. Len(p) ELSE i - Len(p) \in 1 .. Len(q)
  BY <1>1
<1>3. \A i \in 1 .. Len(p), j \in 1 .. Len(q) : p[i] # q[j]
  BY <1>1 DEF Range
<1>4. ASSUME NEW i \in 1 .. Len(p) + Len(q), NEW j \in 1 .. Len(p) + Len(q),
             (p \o q)[i] = (p \o q)[j]
      PROVE  i = j
  <2>1. CASE i <= Len(p) /\ j <= Len(p)
    BY <2>1, <1>1, <1>2, <1>4 DEF IsInjective
  <2>2. CASE ~(i <= Len(p)) /\ ~(j <= Len(p))
    <3>1. q[i - Len(p)] = q[j - Len(p)]
      BY <2>2, <1>1, <1>4
    <3>2. i - Len(p) = j - Len(p)
      BY <2>2, <3>1, <1>1, <1>2 DEF IsInjective
    <3> QED
      BY <3>2, <1>1
  <2>3. ~(i <= Len(p) /\ ~(j <= Len(p))) /\ ~(~(i <= Len(p)) /\ j <= Len(p))
    BY <1>1, <1>2, <1>3, <1>4
  <2> QED
    BY <2>1, <2>2, <2>3
<1>5. IsInjective(p \o q)
  BY <1>1, <1>4 DEF IsInjective
<1> QED
  BY <1>5, RangeConcatenation

LEMMA TailKeepsRest ==
    ASSUME NEW S, NEW q \in Seq(S), q # << >>
    PROVE  \A k : k \in Range(q) /\ k # Head(q) => k \in Range(Tail(q))
<1>1. /\ Len(q) \in Nat /\ Len(q) >= 1
      /\ DOMAIN q = 1 .. Len(q)
      /\ Head(q) = q[1]
      /\ DOMAIN Tail(q) = 1 .. Len(q) - 1
      /\ \A i \in 1 .. Len(q) - 1 : Tail(q)[i] = q[i + 1]
  BY HeadTailProperties, LenProperties, EmptySeq
<1>2. ASSUME NEW i \in 1 .. Len(q), q[i] # Head(q)
      PROVE  \E j \in 1 .. Len(q) - 1 : Tail(q)[j] = q[i]
  <2>1. i - 1 \in 1 .. Len(q) - 1 /\ (i - 1) + 1 = i
    BY <1>2, <1>1
  <2> QED
    BY <2>1, <1>1
<1>3. Range(q) = {q[i] : i \in 1 .. Len(q)}
  BY <1>1 DEF Range
<1>4. Range(Tail(q)) = {Tail(q)[i] : i \in 1 .. Len(q) - 1}
  BY <1>1 DEF Range
<1> QED
  BY <1>2, <1>3, <1>4

LEMMA TailWithoutHead ==
    ASSUME NEW S, NEW q \in Seq(S), IsInjective(q), q # << >>
    PROVE  /\ Head(q) \in Range(q)
           /\ IsInjective(Tail(q))
           /\ Range(Tail(q)) = Range(q) \ {Head(q)}
<1>1. /\ Len(q) \in Nat /\ Len(q) >= 1
      /\ DOMAIN q = 1 .. Len(q)
      /\ Head(q) = q[1]
      /\ Tail(q) \in Seq(S) /\ Len(Tail(q)) = Len(q) - 1
      /\ DOMAIN Tail(q) = 1 .. Len(q) - 1
      /\ \A i \in 1 .. Len(q) - 1 : Tail(q)[i] = q[i + 1]
  BY HeadTailProperties, LenProperties, EmptySeq
<1>2. \A i \in 1 .. Len(q) - 1 : i + 1 \in 1 .. Len(q) /\ i + 1 # 1
  BY <1>1
<1>4. 1 \in 1 .. Len(q)
  BY <1>1
<1>5. Head(q) \in Range(q)
  BY <1>1, <1>4 DEF Range
<1>6. ASSUME NEW i \in 1 .. Len(q) - 1, NEW j \in 1 .. Len(q) - 1, Tail(q)[i] = Tail(q)[j]
      PROVE  i = j
  <2>1. i + 1 = j + 1
    BY <1>1, <1>2, <1>6 DEF IsInjective
  <2> QED
    BY <2>1, <1>1
<1>7. IsInjective(Tail(q))
  BY <1>1, <1>6 DEF IsInjective
<1>8. \A k : k \in Range(Tail(q)) => k \in Range(q) /\ k # Head(q)
  BY <1>1, <1>2, <1>4 DEF Range, IsInjective
<1>9. \A k : k \in Range(q) /\ k # Head(q) => k \in Range(Tail(q))
  BY TailKeepsRest
<1> QED
  BY <1>5, <1>7, <1>8, <1>9

LEMMA HeadInRange ==
    ASSUME NEW S, NEW q \in Seq(S), q # << >>
    PROVE  Head(q) \in Range(q)
<1>1. Len(q) \in Nat /\ Len(q) >= 1 /\ DOMAIN q = 1 .. Len(q) /\ Head(q) = q[1]
  BY HeadTailProperties, LenProperties, EmptySeq
<1>2. 1 \in DOMAIN q
  BY <1>1
<1> QED
  BY <1>1, <1>2 DEF Range

LEMMA EmptyList == IsInjective(<< >>) /\ Range(<< >>) = {}
  BY DEF IsInjective, Range

----------------------------------------------------------------------------
(* The lists of a run, for the lemmas above. *)
LEMMA ListsTyped ==
    ASSUME TypeOK, NEW r \in Runs
    PROVE  /\ run[r].taken \in Seq(ResKeys)
           /\ run[r].deferred \in Seq(ResKeys)
  BY RunTyped DEF RunStates

(* As long as no reservation expires, each run owns what it holds, and     *)
(* holds it once, whatever the other runs reserve and release.             *)
LEMMA OwnershipStep ==
    ASSUME ~ReservationsExpire, TypeOK, HoldersOwn, HoldsOnce, [Next]_vars
    PROVE  HoldersOwn' /\ HoldsOnce'
<1>1. CASE Quiet
  BY <1>1 DEF Quiet, HoldersOwn, HoldsOnce, Holds
<1>2. ASSUME NEW r \in Runs, Reserve(r)
      PROVE  HoldersOwn' /\ HoldsOnce'
  <2> DEFINE k == Key(Receiver(r, run[r].cursor))
  <2>1. k \in ResKeys
    BY <1>2, KeyTyped DEF Reserve
  <2>2. k \notin DOMAIN reservations /\ reservations' = Put(reservations, k, r)
    BY <1>2 DEF Reserve
  <2>3. Lists(r, Append(run[r].taken, k), run[r].deferred)
    BY <1>2, ListSteps
  <2> HIDE DEF k
  <2>4. \A s \in Runs : k \notin Holds(s)
    BY <2>2 DEF HoldersOwn
  <2>5. /\ IsInjective(Append(run[r].taken, k))
        /\ Range(Append(run[r].taken, k)) = Range(run[r].taken) \cup {k}
    BY <2>1, <2>4, ListsTyped, AppendFresh, RangeAppend DEF Holds, HoldsOnce
  <2>6. HoldsOnce'
    BY <2>3, <2>4, <2>5 DEF Lists, HoldsOnce, Holds
  <2>7. \A s \in Runs : Holds(s)' = IF s = r THEN Holds(r) \cup {k} ELSE Holds(s)
    BY <2>3, <2>5 DEF Lists, Holds
  <2>8. HoldersOwn'
    BY <2>2, <2>4, <2>7 DEF HoldersOwn, Put
  <2> QED
    BY <2>6, <2>8
<1>3. ASSUME NEW r \in Runs, ReserveFails(r)
      PROVE  HoldersOwn' /\ HoldsOnce'
  <2> DEFINE k == Key(Receiver(r, run[r].cursor))
  <2>1. \/ reservations' = reservations
        \/ k \notin DOMAIN reservations /\ reservations' = Put(reservations, k, r)
    BY <1>3 DEF ReserveFails
  <2>2. Lists(r, << >>, run[r].deferred)
    BY <1>3, ListSteps
  <2> HIDE DEF k
  <2>3. HoldsOnce'
    BY <2>2, EmptyList DEF Lists, HoldsOnce
  <2>4. \A s \in Runs : Holds(s)' \subseteq Holds(s)
    BY <2>2, EmptyList DEF Lists, Holds
  <2>5. HoldersOwn'
    BY <2>1, <2>4 DEF HoldersOwn, Put
  <2> QED
    BY <2>3, <2>5
<1>4. ASSUME NEW r \in Runs, DeferRelease(r)
      PROVE  HoldersOwn' /\ HoldsOnce'
  <2>1. Lists(r, << >>, run[r].taken \o run[r].deferred) /\ reservations' = reservations
    BY <1>4, ListSteps DEF DeferRelease
  <2>2. /\ IsInjective(run[r].taken \o run[r].deferred)
        /\ Range(run[r].taken \o run[r].deferred) = Holds(r)
    <3>1. /\ IsInjective(run[r].taken) /\ IsInjective(run[r].deferred)
          /\ Range(run[r].taken) \cap Range(run[r].deferred) = {}
      BY DEF HoldsOnce
    <3>2. run[r].taken \in Seq(ResKeys) /\ run[r].deferred \in Seq(ResKeys)
      BY ListsTyped
    <3>3. /\ IsInjective(run[r].taken \o run[r].deferred)
          /\ Range(run[r].taken \o run[r].deferred)
                = Range(run[r].taken) \cup Range(run[r].deferred)
      BY <3>1, <3>2, ConcatDisjoint
    <3> QED
      BY <3>3 DEF Holds
  <2>3. HoldsOnce'
    BY <2>1, <2>2, EmptyList DEF Lists, HoldsOnce
  <2>4. \A s \in Runs : Holds(s)' = Holds(s)
    BY <2>1, <2>2, EmptyList DEF Lists, Holds
  <2>5. HoldersOwn'
    BY <2>1, <2>4 DEF HoldersOwn
  <2> QED
    BY <2>3, <2>5
<1>5. ASSUME NEW r \in Runs, Release(r)
      PROVE  HoldersOwn' /\ HoldsOnce'
  <2> DEFINE k == Head(run[r].deferred)
  <2>1. \/ reservations' = reservations
        \/ reservations' = Drop(reservations, k)
    BY <1>5 DEF Release
  <2>2. Lists(r, run[r].taken, Tail(run[r].deferred))
    BY <1>5, ListSteps
  <2>3. /\ k \in Range(run[r].deferred)
        /\ IsInjective(Tail(run[r].deferred))
        /\ Range(Tail(run[r].deferred)) = Range(run[r].deferred) \ {k}
    BY <1>5, ListsTyped, TailWithoutHead DEF Release, HoldsOnce
  <2> HIDE DEF k
  <2>4. HoldsOnce'
    BY <2>2, <2>3 DEF Lists, HoldsOnce
  <2>5. \A s \in Runs : Holds(s)' = IF s = r THEN Holds(r) \ {k} ELSE Holds(s)
    BY <2>2, <2>3 DEF Lists, Holds, HoldsOnce
  <2>6. k \in Holds(r)
    BY <2>3 DEF Holds
  <2>7. \A s \in Runs : k \notin Holds(s)'
    BY <2>5, <2>6 DEF HoldersOwn
  <2>8. \A s \in Runs : \A j \in Holds(s)' : j \in Holds(s) /\ j # k
    BY <2>5, <2>7
  <2>9. \A j \in DOMAIN reservations :
           j # k => j \in DOMAIN reservations' /\ reservations'[j] = reservations[j]
    BY <2>1 DEF Drop, Restrict
  <2>10. HoldersOwn'
    BY <2>8, <2>9 DEF HoldersOwn
  <2> QED
    BY <2>4, <2>10
<1>6. \A k \in ResKeys : ~ExpireReservation(k)
  BY DEF ExpireReservation
<1> QED
  BY <1>1, <1>2, <1>3, <1>4, <1>5, <1>6, StepKinds

LEMMA OwnershipInit == Init => HoldersOwn /\ HoldsOnce
  BY EmptyList DEF Init, NewRun, HoldersOwn, HoldsOnce, Holds

LEMMA OwnershipInvariant ==
    ASSUME ~ReservationsExpire
    PROVE  Spec => [](TypeOK /\ HoldersOwn /\ HoldsOnce)
<1>1. Init => TypeOK /\ HoldersOwn /\ HoldsOnce
  BY TypeInit, OwnershipInit
<1>2. TypeOK /\ HoldersOwn /\ HoldsOnce /\ [Next]_vars
          => (TypeOK /\ HoldersOwn /\ HoldsOnce)'
  BY TypeStep, OwnershipStep
<1> QED
  BY <1>1, <1>2, PTL DEF Spec

(* Release looks at no owner, and still each run's Release removes its own *)
(* reservation only: what a run believes it holds, the store records under *)
(* its name.                                                               *)
THEOREM RunsOwnWhatTheyHold ==
    ASSUME ~ReservationsExpire
    PROVE  Spec => []HoldersOwn
  BY OwnershipInvariant, PTL

(* No two runs hold the same recipient of the same channel, for any tests, *)
(* any number of runs, and any failures of the store.                      *)
THEOREM RecipientsAreExclusive ==
    ASSUME ~ReservationsExpire
    PROVE  Spec => []ExclusiveRecipients
<1>1. HoldersOwn => ExclusiveRecipients
  BY DEF HoldersOwn, ExclusiveRecipients
<1> QED
  BY <1>1, OwnershipInvariant, PTL

(* A reservation disappears only in the deferred releases of the run that  *)
(* made it.                                                                *)
THEOREM ReservationsLastUntilRelease ==
    ASSUME ~ReservationsExpire
    PROVE  Spec => OnlyOwnerReleases
<1>1. ASSUME TypeOK, HoldersOwn, [Next]_vars
      PROVE  \A k \in DOMAIN reservations :
                 k \notin DOMAIN reservations' => run[reservations[k]].pc = "release"
  <2>1. CASE Quiet
    BY <2>1 DEF Quiet
  <2>2. ASSUME NEW r \in Runs, Reserve(r) \/ ReserveFails(r) \/ DeferRelease(r)
        PROVE  DOMAIN reservations \subseteq DOMAIN reservations'
    BY <2>2 DEF Reserve, ReserveFails, DeferRelease, Put
  <2>3. ASSUME NEW r \in Runs, Release(r)
        PROVE  \A k \in DOMAIN reservations :
                   k \notin DOMAIN reservations' => run[reservations[k]].pc = "release"
    <3>1. Head(run[r].deferred) \in Range(run[r].deferred)
      BY <1>1, <2>3, ListsTyped, HeadInRange DEF Release
    <3>2. reservations[Head(run[r].deferred)] = r
      BY <1>1, <3>1 DEF HoldersOwn, Holds
    <3>3. \A k \in DOMAIN reservations :
             k \notin DOMAIN reservations' => k = Head(run[r].deferred)
      BY <2>3 DEF Release, Drop, Restrict
    <3> QED
      BY <2>3, <3>2, <3>3 DEF Release, At
  <2>4. \A k \in ResKeys : ~ExpireReservation(k)
    BY DEF ExpireReservation
  <2> QED
    BY <1>1, <2>1, <2>2, <2>3, <2>4, StepKinds
<1> QED
  BY <1>1, OwnershipInvariant, PTL DEF OnlyOwnerReleases, Spec

----------------------------------------------------------------------------
(* No leak.  How a step that touches no list moves its run onward: it does *)
(* not leave reserveRecipients, it leaves executeSequential with nothing   *)
(* left to release, and a failed reservation stays the run's error.        *)
Ended == {"release", "deliver", "done"}

Onward(r) ==
    /\ \A s \in Runs : s # r => /\ run'[s].pc = run[s].pc
                               /\ result'[s].error = result[s].error
    /\ run[r].pc = "reserve" => run'[r].pc = "reserve"
    /\ run'[r].pc \in {"new", "deliver", "done"} =>
           run[r].pc \in {"new", "deliver", "done"} \/ run[r].deferred = << >>
    /\ run[r].pc \in Ended => run'[r].pc \in Ended /\ result'[r].error = result[r].error
    /\ result'[r].error = "reserve" => result[r].error = "reserve"

LEMMA QuietOnward ==
    ASSUME TypeOK, NEW r \in Runs, QuietStep(r)
    PROVE  Onward(r)
<1>1. /\ run \in [Runs -> RunStates] /\ run[r] \in RunStates
      /\ result \in [Runs -> Results] /\ result[r] \in Results
  BY DEF TypeOK
<1> USE DEF Onward, Ended, At
<1>2. CASE Begin(r)
  BY <1>1, <1>2, SMTT(30) DEF Begin, RunStates, Results
<1>3. CASE NextStep(r)
  BY <1>1, <1>3, SMTT(30) DEF NextStep, RunStates, Results, FailResult
<1>4. CASE SkipEmptyRecipient(r)
  BY <1>1, <1>4 DEF SkipEmptyRecipient, RunStates, Results, Reserving
<1>5. CASE TriggerFails(r)
  BY <1>1, <1>5 DEF TriggerFails, RunStates, Results, RetryOrGiveUp, CountAttempt
<1>6. CASE TriggerFires(r)
  <2>1. CASE NothingToWaitFor(r)
    <3>1. /\ run[r].pc = "attempt"
          /\ run' = [run EXCEPT ![r] = StepPassed(r)]
          /\ result' = [CountAttempt(r) EXCEPT ![r].status = "passed"]
      BY <1>6, <2>1 DEF TriggerFires
    <3>2. run'[r].pc = "step" /\ \A s \in Runs : s # r => run'[s] = run[s]
      BY <1>1, <3>1 DEF RunStates, StepPassed
    <3>3. \A s \in Runs : result'[s].error = result[s].error
      BY <1>1, <3>1 DEF Results, CountAttempt
    <3> QED
      BY <3>1, <3>2, <3>3
  <2>2. CASE ~NothingToWaitFor(r)
    BY <1>1, <1>6, <2>2 DEF TriggerFires, RunStates, Results, CountAttempt
  <2> QED
    BY <2>1, <2>2
<1>7. CASE StartReceiver(r)
  BY <1>1, <1>7 DEF StartReceiver, RunStates, Results
<1>8. CASE StartFails(r)
  BY <1>1, <1>8 DEF StartFails, RunStates, Results, FailResult
<1>9. CASE BeginCollect(r)
  BY <1>1, <1>9 DEF BeginCollect, RunStates, Results
<1>10. CASE WaitAll(r)
  BY <1>1, <1>10 DEF WaitAll, RunStates, Results
<1>11. CASE StopReceivers(r)
  BY <1>1, <1>11 DEF StopReceivers, RunStates, Results, StepPassed, RetryOrGiveUp
<1>12. CASE GiveUp(r)
  BY <1>1, <1>12 DEF GiveUp, RunStates, Results, FailResult
<1>13. CASE Finish(r)
  BY <1>1, <1>13 DEF Finish, RunStates, Results
<1>14. CASE Deliver(r)
  BY <1>1, <1>14 DEF Deliver, RunStates, Results
<1>15. CASE Notify(r)
  BY <1>1, <1>15 DEF Notify, RunStates, Results
<1>16. CASE CollectorStep(r) \/ OutsideAnswers(r)
  <2>1. ASSUME NEW i, i \in run[r].waiting, NEW m, run' = Collected(r, i, m), result' = result
        PROVE  Onward(r)
    <3>1. run[r].pc = "collect"
      BY <2>1, CollectorOfStep
    <3> QED
      BY <1>1, <2>1, <3>1 DEF Collected, RunStates
  <2>2. ASSUME NEW i, NEW st, EndCollector(r, i, st), run[r].pc = "collect"
        PROVE  Onward(r)
    BY <1>1, <2>2 DEF EndCollector, Merged, RunStates, Results
  <2>3. ASSUME NEW i, i \in run[r].waiting, ClaimMessage(r, i) \/ PollSucceeds(r, i) \/ MailFound(r, i)
        PROVE  Onward(r)
    BY <2>1, <2>3 DEF ClaimMessage, PollSucceeds, MailFound
  <2>4. ASSUME NEW i, i \in run[r].waiting, CollectTimesOut(r, i) \/ CollectFails(r, i)
        PROVE  Onward(r)
    BY <2>2, <2>4, CollectorOfStep DEF CollectTimesOut, CollectFails
  <2>5. ASSUME NEW i, NEW m, AssertMessage(r, i, m)
        PROVE  Onward(r)
    BY <2>2, <2>5, CollectorOfStep DEF AssertMessage
  <2> QED
    BY <1>16, <2>3, <2>4, <2>5 DEF CollectorStep, OutsideAnswers
<1> QED
  BY <1>2, <1>3, <1>4, <1>5, <1>6, <1>7, <1>8, <1>9, <1>10, <1>11, <1>12, <1>13, <1>14, <1>15, <1>16
     DEF QuietStep

(* How the other four move their run. *)
LEMMA ListStepPhases ==
    ASSUME TypeOK, NEW r \in Runs
    PROVE  /\ Reserve(r) => run[r].pc = "reserve" /\ run'[r].pc = "reserve" /\ result' = result
           /\ ReserveFails(r) => run'[r].pc = "release" /\ result'[r].error = "reserve"
           /\ DeferRelease(r) => /\ run[r].pc = "reserve" /\ run'[r].pc = "attempt"
                                /\ result' = result
           /\ Release(r) => run[r].pc = "release" /\ run'[r].pc = "release" /\ result' = result
           /\ Reserve(r) \/ ReserveFails(r) \/ DeferRelease(r) \/ Release(r)
                 => \A s \in Runs : s # r => run'[s] = run[s] /\ result'[s] = result[s]
<1>1. /\ run \in [Runs -> RunStates] /\ run[r] \in RunStates
      /\ result \in [Runs -> Results] /\ result[r] \in Results
  BY DEF TypeOK
<1>2. Reserve(r) => /\ run[r].pc = "reserve" /\ run'[r].pc = "reserve" /\ result' = result
                    /\ \A s \in Runs : s # r => run'[s] = run[s]
  BY <1>1 DEF Reserve, Reserving, At, RunStates
<1>3. ReserveFails(r) => /\ run'[r].pc = "release" /\ result'[r].error = "reserve"
                         /\ \A s \in Runs : s # r => run'[s] = run[s] /\ result'[s] = result[s]
  <2>1. ReserveFails(r) =>
            /\ run' = [run EXCEPT ![r].pc = "release", ![r].taken = << >>]
            /\ result' = [result EXCEPT ![r].status = "error", ![r].error = "reserve"]
    BY DEF ReserveFails, FailResult
  <2> QED
    BY <1>1, <2>1 DEF RunStates, Results
<1>4. DeferRelease(r) => /\ run[r].pc = "reserve" /\ run'[r].pc = "attempt"
                         /\ result' = result
                         /\ \A s \in Runs : s # r => run'[s] = run[s]
  BY <1>1 DEF DeferRelease, At, RunStates
<1>5. Release(r) => /\ run[r].pc = "release" /\ run'[r].pc = "release" /\ result' = result
                    /\ \A s \in Runs : s # r => run'[s] = run[s]
  BY <1>1 DEF Release, At, RunStates
<1> QED
  BY <1>2, <1>3, <1>4, <1>5

LEMMA LeakStep ==
    ASSUME ~StoreMayFail, TypeOK, ReservingPhases, Accounted, [Next]_vars
    PROVE  ReservingPhases' /\ Accounted'
<1>0. \A k \in DOMAIN reservations : reservations[k] \in Runs
  BY DEF TypeOK, IsTable
<1>1. ASSUME NEW r \in Runs, QuietStep(r)
      PROVE  ReservingPhases' /\ Accounted'
  <2>1. Quiet /\ Onward(r)
    BY <1>1, QuietSteps, QuietOnward
  <2>2. ReservingPhases'
    BY <2>1 DEF ReservingPhases, Quiet, Onward, Ended, At
  <2>3. \A s \in Runs : result[s].error = "reserve" => result'[s].error = "reserve"
    BY <2>1 DEF ReservingPhases, Onward, Ended
  <2>4. \A s \in Runs : Holds(s)' = Holds(s)
    BY <2>1 DEF Quiet, Holds
  <2>5. Accounted'
    BY <1>0, <2>1, <2>3, <2>4 DEF Quiet, Accounted
  <2> QED
    BY <2>2, <2>5
<1>2. ASSUME NEW r \in Runs, Reserve(r)
      PROVE  ReservingPhases' /\ Accounted'
  <2> DEFINE k == Key(Receiver(r, run[r].cursor))
  <2>1. k \in ResKeys /\ reservations' = Put(reservations, k, r)
    BY <1>2, KeyTyped DEF Reserve
  <2>2. Lists(r, Append(run[r].taken, k), run[r].deferred)
    BY <1>2, ListSteps
  <2> HIDE DEF k
  <2>3. ReservingPhases'
    BY <1>2, <2>2, ListStepPhases DEF ReservingPhases, Lists, At
  <2>4. Range(Append(run[r].taken, k)) = Range(run[r].taken) \cup {k}
    BY <2>1, ListsTyped, RangeAppend
  <2>5. Holds(r)' = Holds(r) \cup {k} /\ \A s \in Runs : s # r => Holds(s)' = Holds(s)
    BY <2>2, <2>4 DEF Lists, Holds
  <2>6. Accounted'
    BY <1>0, <1>2, <2>1, <2>5, ListStepPhases DEF Accounted, Put
  <2> QED
    BY <2>3, <2>6
<1>3. ASSUME NEW r \in Runs, ReserveFails(r)
      PROVE  ReservingPhases' /\ Accounted'
  <2>1. reservations' = reservations
    BY <1>3 DEF ReserveFails
  <2>2. Lists(r, << >>, run[r].deferred)
    BY <1>3, ListSteps
  <2>3. /\ run'[r].pc = "release" /\ result'[r].error = "reserve"
        /\ \A s \in Runs : s # r => run'[s] = run[s] /\ result'[s] = result[s]
    BY <1>3, ListStepPhases
  <2>4. ReservingPhases'
    BY <2>2, <2>3 DEF ReservingPhases, Lists, At
  <2>5. \A s \in Runs : s # r => Holds(s)' = Holds(s)
    BY <2>3 DEF Holds
  <2>6. Accounted'
    BY <1>0, <2>1, <2>3, <2>5 DEF Accounted
  <2> QED
    BY <2>4, <2>6
<1>4. ASSUME NEW r \in Runs, DeferRelease(r)
      PROVE  ReservingPhases' /\ Accounted'
  <2>1. Lists(r, << >>, run[r].taken \o run[r].deferred) /\ reservations' = reservations
    BY <1>4, ListSteps DEF DeferRelease
  <2>2. /\ run[r].pc = "reserve" /\ run'[r].pc = "attempt" /\ result' = result
        /\ \A s \in Runs : s # r => run'[s] = run[s]
    BY <1>4, ListStepPhases
  <2>3. ReservingPhases'
    BY <2>1, <2>2 DEF ReservingPhases, Lists, At
  <2>4. Range(run[r].taken \o run[r].deferred) = Holds(r)
    BY ListsTyped, RangeConcatenation DEF Holds
  <2>5. \A s \in Runs : Holds(s)' = Holds(s)
    BY <2>1, <2>4, EmptyList DEF Lists, Holds
  <2>6. Accounted'
    BY <1>0, <2>1, <2>2, <2>5 DEF Accounted
  <2> QED
    BY <2>3, <2>6
<1>5. ASSUME NEW r \in Runs, Release(r)
      PROVE  ReservingPhases' /\ Accounted'
  <2> DEFINE k == Head(run[r].deferred)
  <2>1. reservations' = Drop(reservations, k) /\ run[r].deferred # << >>
    BY <1>5 DEF Release
  <2>2. Lists(r, run[r].taken, Tail(run[r].deferred))
    BY <1>5, ListSteps
  <2>3. /\ run[r].pc = "release" /\ run'[r].pc = "release" /\ result' = result
        /\ \A s \in Runs : s # r => run'[s] = run[s]
    BY <1>5, ListStepPhases
  <2>4. ReservingPhases'
    BY <2>2, <2>3 DEF ReservingPhases, Lists, At
  <2>5. \A j : j \in Range(run[r].deferred) /\ j # k => j \in Range(Tail(run[r].deferred))
    BY <2>1, ListsTyped, TailKeepsRest
  <2> HIDE DEF k
  <2>6. \A s \in Runs : \A j \in Holds(s) : j # k => j \in Holds(s)'
    BY <2>2, <2>5 DEF Lists, Holds
  <2>7. \A j \in DOMAIN reservations' :
           j \in DOMAIN reservations /\ j # k /\ reservations'[j] = reservations[j]
    BY <2>1 DEF Drop, Restrict
  <2>8. Accounted'
    BY <1>0, <2>3, <2>6, <2>7 DEF Accounted
  <2> QED
    BY <2>4, <2>8
<1>6. ASSUME NEW k \in ResKeys, ExpireReservation(k)
      PROVE  ReservingPhases' /\ Accounted'
  <2>1. run' = run /\ result' = result
    BY <1>6 DEF ExpireReservation
  <2>2. \A j \in DOMAIN reservations' :
           j \in DOMAIN reservations /\ reservations'[j] = reservations[j]
    BY <1>6 DEF ExpireReservation, Drop, Restrict
  <2> QED
    BY <2>1, <2>2 DEF ReservingPhases, Accounted, Holds, At
<1>7. CASE run' = run /\ result' = result /\ reservations' = reservations
  BY <1>7 DEF ReservingPhases, Accounted, Holds, At
<1>8. ASSUME NEW r \in Runs, NEW m \in Payloads, HandleWebhook(r, m)
      PROVE  run' = run /\ result' = result /\ reservations' = reservations
  BY <1>8 DEF HandleWebhook
<1>9. UNCHANGED vars => run' = run /\ result' = result /\ reservations' = reservations
  BY DEF vars
<1> QED
  BY <1>1, <1>2, <1>3, <1>4, <1>5, <1>6, <1>7, <1>8, <1>9
     DEF Next, MainStep, QuietStep, AllDone

(* With a store that does not fail, a run that has ended leaves a          *)
(* recipient reserved only if it ended because it could not reserve,       *)
(* whether or not reservations expire meanwhile: every other return of     *)
(* executeSequential releases all that its steps reserved.                 *)
THEOREM OnlyFailedReservationsLeak ==
    ASSUME ~StoreMayFail
    PROVE  Spec => []OnlyFailedReserveLeaks
<1>1. Init => TypeOK /\ ReservingPhases /\ Accounted
  <2>1. Init => ReservingPhases /\ Accounted
    <3>1. Init => ReservingPhases
      <4>1. Init => \A r \in Runs : run[r] = NewRun /\ result[r] = NewResult
        BY DEF Init
      <4>2. /\ NewRun.pc = "new" /\ NewRun.taken = << >> /\ NewRun.deferred = << >>
            /\ NewResult.error = ""
        BY DEF NewRun, NewResult
      <4> QED
        BY <4>1, <4>2 DEF ReservingPhases, At
    <3>2. Init => DOMAIN reservations = {}
      BY DEF Init, EmptyTable
    <3> QED
      BY <3>1, <3>2 DEF Accounted
  <2> QED
    BY <2>1, TypeInit
<1>2. TypeOK /\ ReservingPhases /\ Accounted /\ [Next]_vars
          => (TypeOK /\ ReservingPhases /\ Accounted)'
  BY TypeStep, LeakStep
<1>3. TypeOK /\ ReservingPhases /\ Accounted => OnlyFailedReserveLeaks
  <2>1. ASSUME TypeOK, ReservingPhases, Accounted, NEW k \in DOMAIN reservations,
               run[reservations[k]].pc \in {"deliver", "done"}
        PROVE  result[reservations[k]].error = "reserve"
    <3>1. reservations[k] \in Runs
      BY <2>1 DEF TypeOK, IsTable
    <3>2. run[reservations[k]].taken = << >> /\ run[reservations[k]].deferred = << >>
      BY <2>1, <3>1 DEF ReservingPhases, At
    <3>3. k \notin Holds(reservations[k])
      BY <3>2, EmptyList DEF Holds
    <3> QED
      BY <2>1, <3>3 DEF Accounted
  <2> QED
    BY <2>1 DEF OnlyFailedReserveLeaks
<1> QED
  BY <1>1, <1>2, <1>3, PTL DEF Spec

----------------------------------------------------------------------------
(* What a result says. *)
(* The results of step t, their statuses, the number a step gives if it    *)
(* passes at its only collecting attempt, and the receivers whose          *)
(* goroutine has not ended.                                                *)
ResultsOf(res, t) == {n \in DOMAIN res.receivers : res.receivers[n].step = t}

RecordedStatuses(res) == {res.receivers[n].status : n \in DOMAIN res.receivers}

Expected(r, t) == IF Triggers(r)[t].wait THEN Len(Triggers(r)[t].receivers) ELSE 0

Pending(l) == l.waiting \cup {g[1] : g \in l.got}

Executing == {"step", "reserve", "attempt", "start", "collect", "stop"}

Fired == {"start", "collect", "stop"}

Ending == {"release", "deliver", "done"}

(* A step of the test is left only when all is well, and a step that waits *)
(* for nothing does not spoil anything.                                    *)
StatusIsWorst(r, l, res) ==
    /\ RecordedStatuses(res) \subseteq {"passed", "failed", "error"}
    /\ l.pc = "new" => res.status = "passed" /\ res.receivers = << >>
    /\ l.pc \in Executing => res.status = Worst(RecordedStatuses(res))
    /\ l.pc \in {"step", "reserve"} => res.status = "passed"
    /\ l.pc = "attempt" /\ Expected(r, l.step) = 0 => res.status = "passed"
    /\ l.pc = "giveup" /\ res.status = "passed" => l.lastTriggerErr

(* While a run has passed so far it has the results of the steps before    *)
(* this one, those of this step's goroutines that have ended, and no more. *)
ResultsCounted(r, l, res) ==
    /\ l.pc = "new" => res.receivers = << >>
    /\ l.pc \in Executing /\ res.status = "passed" =>
          \A t \in DOMAIN Triggers(r) :
              Cardinality(ResultsOf(res, t)) =
                  IF t < l.step THEN Expected(r, t)
                  ELSE IF t = l.step /\ l.pc \in {"collect", "stop"}
                       THEN Expected(r, t) - Cardinality(Pending(l))
                  ELSE 0

(* Every step that was left has fired its trigger, and only a step that    *)
(* waits for receivers starts any.                                         *)
TriggersFired(r, l, res) ==
    /\ l.pc \in Executing => res.attempts + 1 >= l.step
    /\ l.pc \in Fired => res.attempts >= l.step /\ Expected(r, l.step) > 0

(* What PassedMeansAllPassed says of a result. *)
AllPassed(r, res) ==
    /\ res.attempts >= Len(Triggers(r))
    /\ \A n \in DOMAIN res.receivers : res.receivers[n].status = "passed"
    /\ \A t \in DOMAIN Triggers(r) : Cardinality(ResultsOf(res, t)) = Expected(r, t)

EndsPassed(r, l, res) == l.pc \in Ending /\ res.status = "passed" => AllPassed(r, res)

Outcome(r, l, res) ==
    /\ StatusIsWorst(r, l, res)
    /\ ResultsCounted(r, l, res)
    /\ TriggersFired(r, l, res)
    /\ EndsPassed(r, l, res)

OutcomeInv == \A r \in Runs : Outcome(r, run[r], result[r])

----------------------------------------------------------------------------
(* The steps of a run.  Its next locals, but for those of its goroutines;  *)
(* and its next result, but for the receivers' results.                    *)
Locals(r, pc, step, attempt, triggerErr, open) ==
    /\ run'[r].pc = pc /\ run'[r].step = step /\ run'[r].attempt = attempt
    /\ run'[r].lastTriggerErr = triggerErr /\ run'[r].open = open
    /\ \A s \in Runs \ {r} : run'[s] = run[s]

Reports(r, status, error, attempts) ==
    /\ result'[r].status = status /\ result'[r].error = error
    /\ result'[r].attempts = attempts /\ result'[r].receivers = result[r].receivers
    /\ \A s \in Runs \ {r} : result'[s] = result[s]

(* The rest of the locals, or of the result, is as it was. *)
Goes(r, pc) == Locals(r, pc, run[r].step, run[r].attempt, run[r].lastTriggerErr, run[r].open)

SameReport == result' = result

Errs(r, error) == Reports(r, "error", error, result[r].attempts)

LEMMA SameReports ==
    ASSUME NEW r, SameReport
    PROVE  Reports(r, result[r].status, result[r].error, result[r].attempts)
BY DEF SameReport, Reports

LEMMA FailReports ==
    ASSUME TypeOK, NEW r \in Runs, NEW err, result' = FailResult(r, err)
    PROVE  Errs(r, err)
BY DEF TypeOK, FailResult, Results, Errs, Reports

(* The steps that only go on. *)
LEMMA GoingSteps ==
    ASSUME TypeOK, NEW r \in Runs
    PROVE  /\ SkipEmptyRecipient(r) \/ Reserve(r) => At(r, "reserve") /\ Goes(r, "reserve") /\ SameReport
           /\ Release(r) => At(r, "release") /\ Goes(r, "release") /\ SameReport
           /\ Finish(r) => At(r, "release") /\ Goes(r, "deliver") /\ SameReport
           /\ Deliver(r) => At(r, "deliver") /\ Goes(r, "done") /\ SameReport
           /\ Notify(r) => /\ Goes(r, run[r].pc) /\ SameReport
                           /\ run'[r].waiting = run[r].waiting /\ run'[r].got = run[r].got
           /\ ReserveFails(r) => At(r, "reserve") /\ Goes(r, "release") /\ Errs(r, "reserve")
           /\ StartFails(r) => At(r, "start") /\ Goes(r, "giveup") /\ Errs(r, "start")
<1>1. run \in [Runs -> RunStates] /\ run[r] \in RunStates
  BY DEF TypeOK
<1>2. SkipEmptyRecipient(r) => At(r, "reserve") /\ Goes(r, "reserve") /\ SameReport
  <2>1. SkipEmptyRecipient(r) => /\ run' = [run EXCEPT ![r].cursor = @ + 1]
                                 /\ At(r, "reserve") /\ SameReport
    BY DEF SkipEmptyRecipient, Reserving, SameReport
  <2> QED
    BY <1>1, <2>1 DEF At, Goes, Locals, RunStates
<1>3. Reserve(r) => At(r, "reserve") /\ Goes(r, "reserve") /\ SameReport
  <2> DEFINE k == Key(Receiver(r, run[r].cursor))
  <2>1. Reserve(r) => /\ run' = [run EXCEPT ![r].cursor = @ + 1, ![r].taken = Append(@, k)]
                      /\ At(r, "reserve") /\ SameReport
    BY DEF Reserve, Reserving, SameReport
  <2> HIDE DEF k
  <2> QED
    BY <1>1, <2>1 DEF At, Goes, Locals, RunStates
<1>4. Release(r) => At(r, "release") /\ Goes(r, "release") /\ SameReport
  BY <1>1 DEF Release, At, Goes, Locals, SameReport, RunStates
<1>5. Finish(r) => At(r, "release") /\ Goes(r, "deliver") /\ SameReport
  BY <1>1 DEF Finish, At, Goes, Locals, SameReport, RunStates
<1>6. Deliver(r) => At(r, "deliver") /\ Goes(r, "done") /\ SameReport
  BY <1>1 DEF Deliver, At, Goes, Locals, SameReport, RunStates
<1>7. Notify(r) => /\ Goes(r, run[r].pc) /\ SameReport
                   /\ run'[r].waiting = run[r].waiting /\ run'[r].got = run[r].got
  BY <1>1 DEF Notify, Goes, Locals, SameReport, RunStates
<1>8. ReserveFails(r) => At(r, "reserve") /\ Goes(r, "release") /\ Errs(r, "reserve")
  <2>1. ReserveFails(r) => /\ run' = [run EXCEPT ![r].pc = "release", ![r].taken = << >>]
                           /\ At(r, "reserve") /\ result' = FailResult(r, "reserve")
    BY DEF ReserveFails, Reserving
  <2> QED
    BY <1>1, <2>1, FailReports DEF At, Goes, Locals, RunStates
<1>9. StartFails(r) => At(r, "start") /\ Goes(r, "giveup") /\ Errs(r, "start")
  <2>1. StartFails(r) => /\ run' = [run EXCEPT ![r].pc = "giveup"]
                         /\ At(r, "start") /\ result' = FailResult(r, "start")
    BY DEF StartFails
  <2> QED
    BY <1>1, <2>1, FailReports DEF At, Goes, Locals, RunStates
<1> QED
  BY <1>2, <1>3, <1>4, <1>5, <1>6, <1>7, <1>8, <1>9

(* The steps that take a decision. *)
LEMMA DecidingSteps ==
    ASSUME TypeOK, NEW r \in Runs
    PROVE  /\ Begin(r) => /\ At(r, "new")
                          /\ \/ /\ Locals(r, "step", 1, run[r].attempt, run[r].lastTriggerErr, run[r].open)
                                /\ SameReport
                             \/ /\ Goes(r, "deliver")
                                /\ Reports(r, "skipped", result[r].error, result[r].attempts)
           /\ NextStep(r) => /\ At(r, "step")
                             /\ \/ run[r].step > Len(Triggers(r)) /\ Goes(r, "release") /\ SameReport
                                \/ Goes(r, "reserve") /\ SameReport
                                \/ Goes(r, "release") /\ Errs(r, "create")
           /\ DeferRelease(r) => /\ At(r, "reserve") /\ SameReport
                                 /\ Locals(r, "attempt", run[r].step, 1, FALSE, run[r].open)
           /\ StartReceiver(r) =>
                 /\ At(r, "start") /\ SameReport
                 /\ Locals(r, "start", run[r].step, run[r].attempt, run[r].lastTriggerErr,
                           run[r].open \cup {<<run[r].step, run[r].attempt, run[r].cursor>>})
           /\ GiveUp(r) => /\ At(r, "giveup") /\ Goes(r, "release")
                           /\ IF run[r].lastTriggerErr THEN Errs(r, "trigger") ELSE SameReport
<1>1. /\ run \in [Runs -> RunStates] /\ run[r] \in RunStates
      /\ result \in [Runs -> Results] /\ result[r] \in Results
  BY DEF TypeOK
<1> USE DEF At, Goes, Locals, SameReport
<1>2. ASSUME Begin(r), Def[r].enabled
      PROVE  /\ At(r, "new") /\ SameReport
             /\ Locals(r, "step", 1, run[r].attempt, run[r].lastTriggerErr, run[r].open)
  BY <1>1, <1>2 DEF Begin, RunStates
<1>3. ASSUME Begin(r), ~Def[r].enabled
      PROVE  /\ At(r, "new") /\ Goes(r, "deliver")
             /\ Reports(r, "skipped", result[r].error, result[r].attempts)
  BY <1>1, <1>3 DEF Begin, RunStates, Results, Reports
<1>4. ASSUME NextStep(r)
      PROVE  /\ At(r, "step")
             /\ \/ run[r].step > Len(Triggers(r)) /\ Goes(r, "release") /\ SameReport
                \/ Goes(r, "reserve") /\ SameReport
                \/ Goes(r, "release") /\ Errs(r, "create")
  <2>1. /\ At(r, "step")
        /\ \/ /\ run[r].step > Len(Triggers(r))
              /\ run' = [run EXCEPT ![r].pc = "release"] /\ SameReport
           \/ run' = [run EXCEPT ![r].pc = "reserve", ![r].cursor = 1] /\ SameReport
           \/ run' = [run EXCEPT ![r].pc = "release"] /\ result' = FailResult(r, "create")
    BY <1>4 DEF NextStep
  <2>2. run' = [run EXCEPT ![r].pc = "release"] => Goes(r, "release")
    BY <1>1 DEF RunStates
  <2>3. run' = [run EXCEPT ![r].pc = "reserve", ![r].cursor = 1] => Goes(r, "reserve")
    BY <1>1 DEF RunStates
  <2> HIDE DEF Goes
  <2> QED
    BY <2>1, <2>2, <2>3, FailReports
<1>5. ASSUME DeferRelease(r)
      PROVE  /\ At(r, "reserve") /\ SameReport
             /\ Locals(r, "attempt", run[r].step, 1, FALSE, run[r].open)
  BY <1>1, <1>5 DEF DeferRelease, RunStates
<1>6. ASSUME StartReceiver(r)
      PROVE  /\ At(r, "start") /\ SameReport
             /\ Locals(r, "start", run[r].step, run[r].attempt, run[r].lastTriggerErr,
                       run[r].open \cup {<<run[r].step, run[r].attempt, run[r].cursor>>})
  BY <1>1, <1>6 DEF StartReceiver, RunStates
<1>7. ASSUME GiveUp(r)
      PROVE  /\ At(r, "giveup") /\ Goes(r, "release")
             /\ IF run[r].lastTriggerErr THEN Errs(r, "trigger") ELSE SameReport
  <2>1. At(r, "giveup") /\ Goes(r, "release")
    BY <1>1, <1>7 DEF GiveUp, RunStates
  <2>2. IF run[r].lastTriggerErr THEN result' = FailResult(r, "trigger") ELSE SameReport
    BY <1>7 DEF GiveUp
  <2> QED
    BY <2>1, <2>2, FailReports
<1> QED
  BY <1>2, <1>3, <1>4, <1>5, <1>6, <1>7

(* The steps of an attempt. *)
LEMMA AttemptSteps ==
    ASSUME TypeOK, NEW r \in Runs
    PROVE  /\ TriggerFails(r) =>
                 /\ At(r, "attempt")
                 /\ \E pc \in {"attempt", "giveup"}, n \in Nat :
                       Locals(r, pc, run[r].step, n, TRUE, run[r].open)
                 /\ Reports(r, result[r].status, result[r].error, result[r].attempts + 1)
           /\ TriggerFires(r) /\ NothingToWaitFor(r) =>
                 /\ At(r, "attempt")
                 /\ Locals(r, "step", run[r].step + 1, run[r].attempt, run[r].lastTriggerErr, run[r].open)
                 /\ Reports(r, "passed", result[r].error, result[r].attempts + 1)
           /\ TriggerFires(r) /\ ~NothingToWaitFor(r) =>
                 /\ At(r, "attempt") /\ Goes(r, "start")
                 /\ Reports(r, result[r].status, result[r].error, result[r].attempts + 1)
           /\ WaitAll(r) =>
                 /\ At(r, "collect") /\ run[r].waiting = {} /\ run[r].got = {} /\ Goes(r, "stop")
                 /\ \E err \in Errors : Reports(r, result[r].status, err, result[r].attempts)
           /\ StopReceivers(r) /\ result[r].status = "passed" =>
                 /\ At(r, "stop") /\ SameReport
                 /\ Locals(r, "step", run[r].step + 1, run[r].attempt, run[r].lastTriggerErr, StillOpen(r))
           /\ StopReceivers(r) /\ result[r].status # "passed" =>
                 /\ At(r, "stop") /\ SameReport
                 /\ \E pc \in {"attempt", "giveup"}, n \in Nat :
                       Locals(r, pc, run[r].step, n, run[r].lastTriggerErr, StillOpen(r))
<1>1. /\ run \in [Runs -> RunStates] /\ run[r] \in RunStates
      /\ result \in [Runs -> Results] /\ result[r] \in Results
  BY DEF TypeOK
<1>2. run[r].attempt \in Nat /\ run[r].attempt + 1 \in Nat
  <2>1. run[r].attempt \in Nat
    BY <1>1 DEF RunStates
  <2> QED
    BY <2>1
<1>3. result' = CountAttempt(r) =>
          Reports(r, result[r].status, result[r].error, result[r].attempts + 1)
  BY <1>1 DEF CountAttempt, Reports, Results
<1>4. ASSUME TriggerFails(r)
      PROVE  /\ At(r, "attempt")
             /\ \E pc \in {"attempt", "giveup"}, n \in Nat :
                   Locals(r, pc, run[r].step, n, TRUE, run[r].open)
             /\ Reports(r, result[r].status, result[r].error, result[r].attempts + 1)
  <2>1. CASE run[r].attempt < MaxAttempts(r)
    <3>1. Locals(r, "attempt", run[r].step, run[r].attempt + 1, TRUE, run[r].open)
      BY <1>1, <1>4, <2>1 DEF TriggerFails, RetryOrGiveUp, Locals, RunStates
    <3> QED
      BY <1>2, <1>3, <1>4, <3>1 DEF TriggerFails
  <2>2. CASE ~(run[r].attempt < MaxAttempts(r))
    <3>1. Locals(r, "giveup", run[r].step, run[r].attempt, TRUE, run[r].open)
      BY <1>1, <1>4, <2>2 DEF TriggerFails, RetryOrGiveUp, Locals, RunStates
    <3> QED
      BY <1>2, <1>3, <1>4, <3>1 DEF TriggerFails
  <2> QED
    BY <2>1, <2>2
<1>5. ASSUME TriggerFires(r), NothingToWaitFor(r)
      PROVE  /\ At(r, "attempt")
             /\ Locals(r, "step", run[r].step + 1, run[r].attempt, run[r].lastTriggerErr, run[r].open)
             /\ Reports(r, "passed", result[r].error, result[r].attempts + 1)
  <2>1. /\ At(r, "attempt") /\ run' = [run EXCEPT ![r] = StepPassed(r)]
        /\ result' = [CountAttempt(r) EXCEPT ![r].status = "passed"]
    BY <1>5 DEF TriggerFires
  <2>2. Locals(r, "step", run[r].step + 1, run[r].attempt, run[r].lastTriggerErr, run[r].open)
    BY <1>1, <2>1 DEF StepPassed, Locals, RunStates
  <2>3. Reports(r, "passed", result[r].error, result[r].attempts + 1)
    BY <1>1, <2>1 DEF CountAttempt, Reports, Results
  <2> QED
    BY <2>1, <2>2, <2>3
<1>6. ASSUME TriggerFires(r), ~NothingToWaitFor(r)
      PROVE  /\ At(r, "attempt") /\ Goes(r, "start")
             /\ Reports(r, result[r].status, result[r].error, result[r].attempts + 1)
  <2>1. /\ At(r, "attempt") /\ run' = [run EXCEPT ![r].pc = "start", ![r].cursor = 1]
        /\ result' = CountAttempt(r)
    BY <1>6 DEF TriggerFires
  <2>2. Goes(r, "start")
    BY <1>1, <2>1 DEF Goes, Locals, RunStates
  <2> QED
    BY <1>3, <2>1, <2>2
<1>7. ASSUME WaitAll(r)
      PROVE  /\ At(r, "collect") /\ run[r].waiting = {} /\ run[r].got = {} /\ Goes(r, "stop")
             /\ \E err \in Errors : Reports(r, result[r].status, err, result[r].attempts)
  <2> DEFINE e == IF result[r].error = "" /\ result[r].status # "passed"
                  THEN "receivers" ELSE result[r].error
  <2>1. e \in Errors
    BY <1>1 DEF Results, Errors
  <2>2. result' = [result EXCEPT ![r].error = e]
    BY <1>7 DEF WaitAll
  <2> HIDE DEF e
  <2>3. Reports(r, result[r].status, e, result[r].attempts)
    BY <1>1, <2>2 DEF Reports, Results
  <2>4. /\ At(r, "collect") /\ run[r].waiting = {} /\ run[r].got = {} /\ Goes(r, "stop")
    BY <1>1, <1>7 DEF WaitAll, Goes, Locals, RunStates
  <2> QED
    BY <2>1, <2>3, <2>4
<1>8. ASSUME StopReceivers(r), result[r].status = "passed"
      PROVE  /\ At(r, "stop") /\ SameReport
             /\ Locals(r, "step", run[r].step + 1, run[r].attempt, run[r].lastTriggerErr, StillOpen(r))
  <2> DEFINE o == StillOpen(r)
  <2>1. /\ At(r, "stop") /\ SameReport
        /\ run' = [run EXCEPT ![r] = [StepPassed(r) EXCEPT !.open = o]]
    BY <1>8 DEF StopReceivers, SameReport
  <2> HIDE DEF o
  <2>2. Locals(r, "step", run[r].step + 1, run[r].attempt, run[r].lastTriggerErr, o)
    BY <1>1, <2>1 DEF StepPassed, Locals, RunStates
  <2> QED
    BY <2>1, <2>2 DEF o
<1>9. ASSUME StopReceivers(r), result[r].status # "passed"
      PROVE  /\ At(r, "stop") /\ SameReport
             /\ \E pc \in {"attempt", "giveup"}, n \in Nat :
                   Locals(r, pc, run[r].step, n, run[r].lastTriggerErr, StillOpen(r))
  <2> DEFINE o == StillOpen(r)
  <2>1. /\ At(r, "stop") /\ SameReport
        /\ run' = [run EXCEPT ![r] = [RetryOrGiveUp(r) EXCEPT !.open = o]]
    BY <1>9 DEF StopReceivers, SameReport
  <2> HIDE DEF o
  <2>2. \/ Locals(r, "attempt", run[r].step, run[r].attempt + 1, run[r].lastTriggerErr, o)
        \/ Locals(r, "giveup", run[r].step, run[r].attempt, run[r].lastTriggerErr, o)
    BY <1>1, <2>1 DEF RetryOrGiveUp, Locals, RunStates
  <2> QED
    BY <1>2, <2>1, <2>2 DEF o
<1> QED
  BY <1>4, <1>5, <1>6, <1>7, <1>8, <1>9

(* The steps of the receivers' goroutines: each of them ends once. *)
LEMMA CollectingSteps ==
    ASSUME TypeOK, NEW r \in Runs
    PROVE  /\ BeginCollect(r) =>
                 /\ At(r, "start") /\ Goes(r, "collect") /\ SameReport
                 /\ Pending(run'[r]) = 1 .. Len(Receivers(r))
           /\ \A i \in run[r].waiting : \A m :
                 run' = Collected(r, i, m) =>
                     Goes(r, run[r].pc) /\ Pending(run'[r]) = Pending(run[r])
           /\ \A i \in Pending(run[r]) : \A status :
                 EndCollector(r, i, status) =>
                     /\ Goes(r, run[r].pc)
                     /\ Pending(run'[r]) = Pending(run[r]) \ {i}
                     /\ result'[r] = Merged(result[r], status, run[r].step)
                     /\ \A s \in Runs \ {r} : result'[s] = result[s]
<1>1. /\ run \in [Runs -> RunStates] /\ run[r] \in RunStates
      /\ result \in [Runs -> Results] /\ result[r] \in Results /\ LoopsInRange(r, run[r])
  BY DEF TypeOK
<1>2. ASSUME BeginCollect(r)
      PROVE  /\ At(r, "start") /\ Goes(r, "collect") /\ SameReport
             /\ Pending(run'[r]) = 1 .. Len(Receivers(r))
  <2> DEFINE w == 1 .. Len(Receivers(r))
  <2>1. At(r, "start") /\ SameReport /\ run' = [run EXCEPT ![r].pc = "collect", ![r].waiting = w]
    BY <1>2 DEF BeginCollect, SameReport
  <2> HIDE DEF w
  <2>2. run[r].got = {}
    BY <1>1, <2>1 DEF LoopsInRange, At
  <2>3. Goes(r, "collect") /\ run'[r].waiting = w /\ run'[r].got = {}
    BY <1>1, <2>1, <2>2 DEF Goes, Locals, RunStates
  <2> QED
    BY <2>1, <2>3 DEF Pending, w
<1>3. ASSUME NEW i \in run[r].waiting, NEW m, run' = Collected(r, i, m)
      PROVE  Goes(r, run[r].pc) /\ Pending(run'[r]) = Pending(run[r])
  <2>1. /\ Goes(r, run[r].pc) /\ run'[r].waiting = run[r].waiting \ {i}
        /\ run'[r].got = run[r].got \cup {<<i, m>>}
    BY <1>1, <1>3 DEF Collected, Goes, Locals, RunStates
  <2>2. <<i, m>>[1] = i
    OBVIOUS
  <2> QED
    BY <2>1, <2>2 DEF Pending
<1>4. ASSUME NEW i \in Pending(run[r]), NEW status, EndCollector(r, i, status)
      PROVE  /\ Goes(r, run[r].pc)
             /\ Pending(run'[r]) = Pending(run[r]) \ {i}
             /\ result'[r] = Merged(result[r], status, run[r].step)
             /\ \A s \in Runs \ {r} : result'[s] = result[s]
  <2>1. /\ Goes(r, run[r].pc) /\ run'[r].waiting = run[r].waiting \ {i}
        /\ run'[r].got = {g \in run[r].got : g[1] # i}
    BY <1>1, <1>4 DEF EndCollector, Goes, Locals, RunStates
  <2>2. Pending(run'[r]) = Pending(run[r]) \ {i}
    BY <2>1 DEF Pending
  <2>3. result' = [result EXCEPT ![r] = Merged(result[r], status, run[r].step)]
    BY <1>4 DEF EndCollector
  <2> QED
    BY <1>1, <2>1, <2>2, <2>3
<1> QED
  BY <1>2, <1>3, <1>4

----------------------------------------------------------------------------
LEMMA StepTyped ==
    ASSUME TypeOK, NEW r \in Runs
    PROVE  /\ DOMAIN Triggers(r) = 1 .. Len(Triggers(r)) /\ Len(Triggers(r)) \in Nat
           /\ \A t \in DOMAIN Triggers(r) : Expected(r, t) \in Nat
           /\ run[r].step \in Nat /\ result[r].attempts \in Nat
           /\ run[r].pc \in Executing \ {"step"} => run[r].step \in DOMAIN Triggers(r)
           /\ run[r].pc # "collect" => Pending(run[r]) = {}
<1>1. DOMAIN Triggers(r) = 1 .. Len(Triggers(r)) /\ Len(Triggers(r)) \in Nat
  BY DefTyped, LenProperties
<1>2. \A t \in DOMAIN Triggers(r) : Expected(r, t) \in Nat
  BY <1>1, DefTyped DEF Expected
<1>3. run[r] \in RunStates /\ result[r] \in Results /\ LoopsInRange(r, run[r])
  BY RunTyped
<1>4. run[r].step \in Nat /\ result[r].attempts \in Nat
  BY <1>3 DEF RunStates, Results
<1>5. run[r].pc \in Executing \ {"step"} => run[r].step \in DOMAIN Triggers(r)
  BY <1>1, <1>3 DEF LoopsInRange, Executing
<1>6. run[r].pc # "collect" => Pending(run[r]) = {}
  BY <1>3 DEF LoopsInRange, Pending
<1> QED
  BY <1>1, <1>2, <1>4, <1>5, <1>6

(* A step that adds no result of a receiver. *)
LEMMA SameRecords ==
    ASSUME NEW r, NEW status, NEW error, NEW attempts, Reports(r, status, error, attempts)
    PROVE  /\ RecordedStatuses(result'[r]) = RecordedStatuses(result[r])
           /\ \A t : ResultsOf(result'[r], t) = ResultsOf(result[r], t)
           /\ result'[r].receivers = result[r].receivers
BY DEF Reports, RecordedStatuses, ResultsOf

(* A result is spoilt for good: how a run that is past its steps goes on,  *)
(* or one that is not passed any more.                                     *)
LEMMA SpoiltOutcome ==
    ASSUME NEW r \in Runs, Outcome(r, run[r], result[r]),
           NEW pc \in {"giveup"} \cup Ending, Goes(r, pc),
           NEW status, NEW error, Reports(r, status, error, result[r].attempts),
           status # "passed"
    PROVE  Outcome(r, run'[r], result'[r])
<1>1. RecordedStatuses(result'[r]) = RecordedStatuses(result[r])
  BY SameRecords
<1>2. run'[r].pc = pc /\ result'[r].status = status /\ result'[r].error = error
  BY DEF Goes, Locals, Reports
<1>3. pc \notin Executing /\ pc # "new" /\ pc \notin Fired
  BY DEF Executing, Fired, Ending
<1>4. StatusIsWorst(r, run'[r], result'[r])
  BY <1>1, <1>2, <1>3 DEF Outcome, StatusIsWorst, Executing
<1>5. ResultsCounted(r, run'[r], result'[r]) /\ TriggersFired(r, run'[r], result'[r])
  BY <1>2, <1>3 DEF ResultsCounted, TriggersFired
<1>6. EndsPassed(r, run'[r], result'[r])
  BY <1>2 DEF EndsPassed
<1> QED
  BY <1>4, <1>5, <1>6 DEF Outcome

(* Steps that leave the result alone, and the run at a place like the one  *)
(* where it was.                                                           *)
LEMMA SameOutcome ==
    ASSUME NEW r \in Runs, Outcome(r, run[r], result[r]), SameReport,
           NEW pc, Goes(r, pc), Pending(run'[r]) = Pending(run[r]),
           pc = run[r].pc \/ {pc, run[r].pc} \subseteq Ending
    PROVE  Outcome(r, run'[r], result'[r])
<1>1. /\ run'[r].pc = pc /\ run'[r].step = run[r].step /\ run'[r].attempt = run[r].attempt
      /\ run'[r].lastTriggerErr = run[r].lastTriggerErr /\ run'[r].open = run[r].open
      /\ result'[r] = result[r]
  BY DEF Goes, Locals, SameReport
<1>2. CASE pc = run[r].pc
  BY <1>1, <1>2 DEF Outcome, StatusIsWorst, ResultsCounted, TriggersFired, EndsPassed
<1>3. CASE {pc, run[r].pc} \subseteq Ending
  <2>1. /\ pc \in Ending /\ run[r].pc \in Ending
        /\ \A x \in Ending : x \notin Executing /\ x \notin Fired /\ x \notin {"new", "giveup"}
    BY <1>3 DEF Executing, Fired, Ending
  <2>2. StatusIsWorst(r, run'[r], result'[r])
    BY <1>1, <2>1 DEF Outcome, StatusIsWorst, Executing
  <2>3. ResultsCounted(r, run'[r], result'[r]) /\ TriggersFired(r, run'[r], result'[r])
    BY <1>1, <2>1 DEF ResultsCounted, TriggersFired
  <2>4. EndsPassed(r, run'[r], result'[r])
    BY <1>1, <2>1 DEF Outcome, EndsPassed
  <2> QED
    BY <2>2, <2>3, <2>4 DEF Outcome
<1> QED
  BY <1>2, <1>3

(* From one step of the test to the next. *)
LEMMA StepOutcome ==
    ASSUME TypeOK, NEW r \in Runs, Outcome(r, run[r], result[r])
    PROVE  /\ Begin(r) => Outcome(r, run'[r], result'[r])
           /\ NextStep(r) => Outcome(r, run'[r], result'[r])
           /\ DeferRelease(r) => Outcome(r, run'[r], result'[r])
<1> USE DEF At
<1>1. ASSUME Begin(r)
      PROVE  Outcome(r, run'[r], result'[r])
  <2>1. run[r].pc = "new"
    BY <1>1, DecidingSteps
  <2>2. CASE /\ Locals(r, "step", 1, run[r].attempt, run[r].lastTriggerErr, run[r].open)
             /\ SameReport
    <3>1. /\ run'[r].pc = "step" /\ run'[r].step = 1 /\ result'[r] = result[r]
          /\ result[r].status = "passed" /\ result[r].receivers = << >>
      BY <2>1, <2>2 DEF Locals, SameReport, Outcome, StatusIsWorst
    <3>2. RecordedStatuses(result[r]) = {} /\ \A t : ResultsOf(result[r], t) = {}
      BY <3>1 DEF RecordedStatuses, ResultsOf
    <3>3. StatusIsWorst(r, run'[r], result'[r])
      BY <3>1, <3>2 DEF StatusIsWorst, Worst
    <3>4. ResultsCounted(r, run'[r], result'[r])
      <4>1. \A t \in DOMAIN Triggers(r) : ~(t < 1)
        BY StepTyped
      <4> QED
        BY <3>1, <3>2, <4>1, FS_EmptySet DEF ResultsCounted
    <3>5. TriggersFired(r, run'[r], result'[r])
      <4>1. result[r].attempts + 1 >= 1
        BY StepTyped
      <4> QED
        BY <3>1, <4>1 DEF TriggersFired, Fired
    <3>6. EndsPassed(r, run'[r], result'[r])
      BY <3>1 DEF EndsPassed, Ending
    <3> QED
      BY <3>3, <3>4, <3>5, <3>6 DEF Outcome
  <2>3. CASE /\ Goes(r, "deliver")
             /\ Reports(r, "skipped", result[r].error, result[r].attempts)
    <3>1. "deliver" \in {"giveup"} \cup Ending
      BY DEF Ending
    <3> QED
      BY <2>1, <2>3, <3>1, SpoiltOutcome
  <2> QED
    BY <1>1, <2>2, <2>3, DecidingSteps
<1>2. ASSUME NextStep(r)
      PROVE  Outcome(r, run'[r], result'[r])
  <2>1. run[r].pc = "step" /\ "step" \in Executing
    BY <1>2, DecidingSteps DEF Executing
  <2>2. result[r].status = "passed" /\ Worst(RecordedStatuses(result[r])) = "passed"
    BY <2>1 DEF Outcome, StatusIsWorst
  <2>3. CASE run[r].step > Len(Triggers(r)) /\ Goes(r, "release") /\ SameReport
    <3>1. run'[r].pc = "release" /\ result'[r] = result[r]
      BY <2>1, <2>3 DEF Goes, Locals, SameReport
    <3>2. AllPassed(r, result[r])
      <4>1. result[r].attempts >= Len(Triggers(r))
        <5>1. result[r].attempts + 1 >= run[r].step
          BY <2>1 DEF Outcome, TriggersFired
        <5> QED
          BY <2>3, <5>1, StepTyped
      <4>2. \A n \in DOMAIN result[r].receivers : result[r].receivers[n].status = "passed"
        BY <2>2 DEF Outcome, StatusIsWorst, Worst, RecordedStatuses
      <4>3. \A t \in DOMAIN Triggers(r) : t < run[r].step
        BY <2>3, StepTyped
      <4>4. \A t \in DOMAIN Triggers(r) : Cardinality(ResultsOf(result[r], t)) = Expected(r, t)
        BY <2>1, <2>2, <4>3 DEF Outcome, ResultsCounted
      <4> QED
        BY <4>1, <4>2, <4>4 DEF AllPassed
    <3>3. StatusIsWorst(r, run'[r], result'[r])
      BY <3>1 DEF Outcome, StatusIsWorst, Executing
    <3>4. ResultsCounted(r, run'[r], result'[r]) /\ TriggersFired(r, run'[r], result'[r])
      BY <3>1 DEF ResultsCounted, TriggersFired, Executing, Fired
    <3>5. EndsPassed(r, run'[r], result'[r])
      BY <3>1, <3>2 DEF EndsPassed
    <3> QED
      BY <3>3, <3>4, <3>5 DEF Outcome
  <2>4. CASE Goes(r, "reserve") /\ SameReport
    <3>1. /\ run'[r].pc = "reserve" /\ run'[r].step = run[r].step
          /\ result'[r] = result[r]
      BY <2>1, <2>4 DEF Goes, Locals, SameReport
    <3>2. StatusIsWorst(r, run'[r], result'[r])
      BY <2>1, <2>2, <3>1 DEF Outcome, StatusIsWorst
    <3>3. ResultsCounted(r, run'[r], result'[r])
      BY <2>1, <3>1 DEF Outcome, ResultsCounted
    <3>4. TriggersFired(r, run'[r], result'[r])
      BY <2>1, <3>1 DEF Outcome, TriggersFired, Fired
    <3>5. EndsPassed(r, run'[r], result'[r])
      BY <3>1 DEF EndsPassed, Ending
    <3> QED
      BY <3>2, <3>3, <3>4, <3>5 DEF Outcome
  <2>5. CASE Goes(r, "release") /\ Errs(r, "create")
    <3>1. "release" \in {"giveup"} \cup Ending
      BY DEF Ending
    <3> QED
      BY <2>1, <2>5, <3>1, SpoiltOutcome DEF Errs
  <2> QED
    BY <1>2, <2>3, <2>4, <2>5, DecidingSteps
<1>3. ASSUME DeferRelease(r)
      PROVE  Outcome(r, run'[r], result'[r])
  <2>1. /\ run[r].pc = "reserve" /\ "reserve" \in Executing /\ SameReport
        /\ Locals(r, "attempt", run[r].step, 1, FALSE, run[r].open)
    BY <1>3, DecidingSteps DEF Executing
  <2>2. /\ run'[r].pc = "attempt" /\ run'[r].step = run[r].step
        /\ result'[r] = result[r]
    BY <2>1 DEF Locals, SameReport
  <2>3. StatusIsWorst(r, run'[r], result'[r])
    BY <2>1, <2>2 DEF Outcome, StatusIsWorst
  <2>4. ResultsCounted(r, run'[r], result'[r])
    BY <2>1, <2>2 DEF Outcome, ResultsCounted
  <2>5. TriggersFired(r, run'[r], result'[r])
    BY <2>1, <2>2 DEF Outcome, TriggersFired, Fired
  <2>6. EndsPassed(r, run'[r], result'[r])
    BY <2>2 DEF EndsPassed, Ending
  <2> QED
    BY <2>3, <2>4, <2>5, <2>6 DEF Outcome
<1> QED
  BY <1>1, <1>2, <1>3

(* A step of the test is left when it has all its results. *)
LEMMA StepLeft ==
    ASSUME TypeOK, NEW r \in Runs, Outcome(r, run[r], result[r]),
           run[r].pc \in {"attempt", "stop"}, result[r].status = "passed",
           Cardinality(ResultsOf(result[r], run[r].step)) = Expected(r, run[r].step),
           NEW attempt, NEW triggerErr, NEW open,
           Locals(r, "step", run[r].step + 1, attempt, triggerErr, open),
           NEW attempts \in Nat, attempts >= run[r].step,
           Reports(r, "passed", result[r].error, attempts)
    PROVE  Outcome(r, run'[r], result'[r])
<1>1. /\ run'[r].pc = "step" /\ run'[r].step = run[r].step + 1
      /\ result'[r].status = "passed" /\ result'[r].attempts = attempts
  BY DEF Locals, Reports
<1>2. /\ RecordedStatuses(result'[r]) = RecordedStatuses(result[r])
      /\ \A t : ResultsOf(result'[r], t) = ResultsOf(result[r], t)
  BY SameRecords
<1>3. run[r].pc \in Executing
  BY DEF Executing
<1>4. StatusIsWorst(r, run'[r], result'[r])
  BY <1>1, <1>2, <1>3 DEF Outcome, StatusIsWorst
<1>5. ResultsCounted(r, run'[r], result'[r])
  <2>1. \A t \in DOMAIN Triggers(r) : t \in Nat /\ run[r].step \in Nat
    BY StepTyped
  <2>2. ASSUME NEW t \in DOMAIN Triggers(r)
        PROVE  Cardinality(ResultsOf(result'[r], t)) = IF t < run[r].step + 1 THEN Expected(r, t) ELSE 0
    <3>1. CASE t = run[r].step
      BY <1>2, <2>1, <3>1
    <3>2. CASE t # run[r].step
      <4>1. Cardinality(ResultsOf(result[r], t)) = IF t < run[r].step THEN Expected(r, t) ELSE 0
        BY <1>3, <3>2 DEF Outcome, ResultsCounted
      <4>2. t < run[r].step + 1 <=> t < run[r].step
        BY <2>1, <3>2
      <4> QED
        BY <1>2, <4>1, <4>2
    <3> QED
      BY <3>1, <3>2
  <2> QED
    BY <1>1, <2>2 DEF ResultsCounted
<1>6. TriggersFired(r, run'[r], result'[r])
  <2>1. attempts + 1 >= run[r].step + 1
    BY StepTyped
  <2> QED
    BY <1>1, <2>1 DEF TriggersFired, Fired
<1>7. EndsPassed(r, run'[r], result'[r])
  BY <1>1 DEF EndsPassed, Ending
<1> QED
  BY <1>4, <1>5, <1>6, <1>7 DEF Outcome

LEMMA TriggerOutcome ==
    ASSUME TypeOK, NEW r \in Runs, Outcome(r, run[r], result[r])
    PROVE  TriggerFails(r) \/ TriggerFires(r) => Outcome(r, run'[r], result'[r])
<1> USE DEF At
<1>1. TriggerFails(r) \/ TriggerFires(r) =>
          run[r].pc = "attempt" /\ run[r].pc \in Executing
  <2>1. TriggerFails(r) \/ TriggerFires(r) => run[r].pc = "attempt"
    BY DEF TriggerFails, TriggerFires
  <2> QED
    BY <2>1 DEF Outcome, Fired, Ending, Executing
<1>2. /\ run[r].step \in Nat /\ result[r].attempts \in Nat
      /\ \A t \in DOMAIN Triggers(r) : Expected(r, t) \in Nat
      /\ run[r].pc = "attempt" => run[r].step \in DOMAIN Triggers(r)
  BY StepTyped DEF Executing
<1>3. ASSUME TriggerFails(r)
      PROVE  Outcome(r, run'[r], result'[r])
  <2>1. PICK pc \in {"attempt", "giveup"}, n \in Nat :
            Locals(r, pc, run[r].step, n, TRUE, run[r].open)
    BY <1>3, AttemptSteps
  <2>2. Reports(r, result[r].status, result[r].error, result[r].attempts + 1)
    BY <1>3, AttemptSteps
  <2>3. /\ run'[r].pc = pc /\ run'[r].step = run[r].step /\ run'[r].lastTriggerErr
        /\ result'[r].status = result[r].status /\ result'[r].attempts = result[r].attempts + 1
    BY <1>1, <1>3, <2>1, <2>2 DEF Locals, Reports
  <2>4. /\ RecordedStatuses(result'[r]) = RecordedStatuses(result[r])
        /\ \A t : ResultsOf(result'[r], t) = ResultsOf(result[r], t)
    BY <2>2, SameRecords
  <2>5. StatusIsWorst(r, run'[r], result'[r])
    BY <1>1, <1>3, <2>3, <2>4 DEF Outcome, StatusIsWorst, Executing
  <2>6. ResultsCounted(r, run'[r], result'[r])
    BY <1>1, <1>3, <2>3, <2>4 DEF Outcome, ResultsCounted, Executing
  <2>7. TriggersFired(r, run'[r], result'[r])
    <3>1. result[r].attempts + 1 >= run[r].step
      BY <1>1, <1>3 DEF Outcome, TriggersFired
    <3>2. result[r].attempts + 1 + 1 >= run[r].step
      BY <1>2, <3>1
    <3> QED
      BY <2>3, <3>2 DEF TriggersFired, Fired
  <2>8. EndsPassed(r, run'[r], result'[r])
    BY <2>3 DEF EndsPassed, Ending
  <2> QED
    BY <2>5, <2>6, <2>7, <2>8 DEF Outcome
<1>4. ASSUME TriggerFires(r), NothingToWaitFor(r)
      PROVE  Outcome(r, run'[r], result'[r])
  <2>1. /\ Locals(r, "step", run[r].step + 1, run[r].attempt, run[r].lastTriggerErr, run[r].open)
        /\ Reports(r, "passed", result[r].error, result[r].attempts + 1)
    BY <1>1, <1>4, AttemptSteps
  <2>2. Expected(r, run[r].step) = 0
    BY <1>4 DEF NothingToWaitFor, Expected, Receivers
  <2>3. result[r].status = "passed"
    BY <1>1, <1>4, <2>2 DEF Outcome, StatusIsWorst
  <2>4. Cardinality(ResultsOf(result[r], run[r].step)) = 0
    <3>1. ~(run[r].step < run[r].step)
      BY <1>2
    <3> QED
      BY <1>1, <1>2, <1>4, <2>3, <3>1 DEF Outcome, ResultsCounted
  <2>5. result[r].attempts + 1 >= run[r].step /\ result[r].attempts + 1 \in Nat
    BY <1>1, <1>2, <1>4 DEF Outcome, TriggersFired
  <2> QED
    BY <1>1, <1>4, <2>1, <2>2, <2>3, <2>4, <2>5, StepLeft
<1>5. ASSUME TriggerFires(r), ~NothingToWaitFor(r)
      PROVE  Outcome(r, run'[r], result'[r])
  <2>1. /\ Goes(r, "start")
        /\ Reports(r, result[r].status, result[r].error, result[r].attempts + 1)
    BY <1>5, AttemptSteps
  <2>2. /\ run'[r].pc = "start" /\ run'[r].step = run[r].step
        /\ result'[r].status = result[r].status /\ result'[r].attempts = result[r].attempts + 1
    BY <1>1, <1>5, <2>1 DEF Goes, Locals, Reports
  <2>3. /\ RecordedStatuses(result'[r]) = RecordedStatuses(result[r])
        /\ \A t : ResultsOf(result'[r], t) = ResultsOf(result[r], t)
    BY <2>1, SameRecords
  <2>4. StatusIsWorst(r, run'[r], result'[r])
    BY <1>1, <1>5, <2>2, <2>3 DEF Outcome, StatusIsWorst
  <2>5. ResultsCounted(r, run'[r], result'[r])
    BY <1>1, <1>5, <2>2, <2>3 DEF Outcome, ResultsCounted
  <2>6. Expected(r, run[r].step) > 0
    <3>1. Triggers(r)[run[r].step].wait /\ Triggers(r)[run[r].step].receivers # << >>
      BY <1>5 DEF NothingToWaitFor, Receivers
    <3>2. Triggers(r)[run[r].step].receivers \in Seq(ReceiverConfigs)
      BY <1>1, <1>2, <1>5, DefTyped, StepTyped
    <3>3. Len(Triggers(r)[run[r].step].receivers) # 0
      BY <3>1, <3>2, EmptySeq
    <3> QED
      BY <1>1, <1>2, <1>5, <3>1, <3>3 DEF Expected
  <2>7. TriggersFired(r, run'[r], result'[r])
    <3>1. result[r].attempts + 1 >= run[r].step
      BY <1>1, <1>5 DEF Outcome, TriggersFired
    <3>2. result[r].attempts + 1 + 1 >= run[r].step
      BY <1>2, <3>1
    <3> QED
      BY <2>2, <2>6, <3>1, <3>2 DEF TriggersFired
  <2>8. EndsPassed(r, run'[r], result'[r])
    BY <2>2 DEF EndsPassed, Ending
  <2> QED
    BY <2>4, <2>5, <2>7, <2>8 DEF Outcome
<1> QED
  BY <1>3, <1>4, <1>5

(* From the first receiver that is started to the last that is stopped. *)
LEMMA ReceiverOutcome ==
    ASSUME TypeOK, NEW r \in Runs, Outcome(r, run[r], result[r])
    PROVE  /\ StartReceiver(r) => Outcome(r, run'[r], result'[r])
           /\ BeginCollect(r) => Outcome(r, run'[r], result'[r])
           /\ WaitAll(r) => Outcome(r, run'[r], result'[r])
           /\ StopReceivers(r) => Outcome(r, run'[r], result'[r])
<1> USE DEF At
<1>1. /\ run[r].step \in Nat /\ result[r].attempts \in Nat
      /\ \A t \in DOMAIN Triggers(r) : Expected(r, t) \in Nat
      /\ run[r].pc \in Fired => run[r].step \in DOMAIN Triggers(r)
      /\ run[r].pc # "collect" => Pending(run[r]) = {}
      /\ Fired \subseteq Executing
  BY StepTyped DEF Executing, Fired
<1>2. ASSUME run[r].pc \in Fired
      PROVE  /\ Expected(r, run[r].step) > 0 /\ result[r].attempts >= run[r].step
  BY <1>2 DEF Outcome, TriggersFired, Fired, Ending
<1>3. ASSUME StartReceiver(r)
      PROVE  Outcome(r, run'[r], result'[r])
  <2> DEFINE o == <<run[r].step, run[r].attempt, run[r].cursor>>
  <2>1. /\ run[r].pc = "start" /\ run[r].pc \in Fired /\ SameReport
        /\ Locals(r, "start", run[r].step, run[r].attempt, run[r].lastTriggerErr,
                  run[r].open \cup {o})
    BY <1>3, DecidingSteps DEF Fired
  <2> HIDE DEF o
  <2>3. /\ run'[r].pc = "start" /\ run'[r].step = run[r].step /\ run'[r].attempt = run[r].attempt
        /\ result'[r] = result[r]
    BY <2>1 DEF Locals, SameReport
  <2>5. StatusIsWorst(r, run'[r], result'[r])
    BY <2>1, <2>3 DEF Outcome, StatusIsWorst
  <2>6. ResultsCounted(r, run'[r], result'[r]) /\ TriggersFired(r, run'[r], result'[r])
    BY <2>1, <2>3 DEF Outcome, ResultsCounted, TriggersFired
  <2>7. EndsPassed(r, run'[r], result'[r])
    BY <2>3 DEF EndsPassed, Ending
  <2> QED
    BY <2>5, <2>6, <2>7 DEF Outcome
<1>4. ASSUME NEW pc \in {"collect", "stop"}, run[r].pc \in Fired, Goes(r, pc),
             NEW error, Reports(r, result[r].status, error, result[r].attempts),
             ResultsCounted(r, run'[r], result'[r])
      PROVE  Outcome(r, run'[r], result'[r])
  <2>1. /\ run'[r].pc = pc /\ pc \in Fired /\ run'[r].step = run[r].step
        /\ run'[r].attempt = run[r].attempt /\ run'[r].open = run[r].open
        /\ result'[r].status = result[r].status /\ result'[r].attempts = result[r].attempts
    BY <1>4 DEF Goes, Locals, Reports, Fired
  <2>2. RecordedStatuses(result'[r]) = RecordedStatuses(result[r])
    BY <1>4, SameRecords
  <2>3. StatusIsWorst(r, run'[r], result'[r])
    BY <1>1, <1>4, <2>1, <2>2 DEF Outcome, StatusIsWorst
  <2>4. TriggersFired(r, run'[r], result'[r])
    BY <1>1, <1>4, <2>1 DEF Outcome, TriggersFired
  <2>6. EndsPassed(r, run'[r], result'[r])
    BY <2>1 DEF EndsPassed, Ending, Fired
  <2> QED
    BY <1>4, <2>3, <2>4, <2>6 DEF Outcome
<1>5. ASSUME BeginCollect(r)
      PROVE  Outcome(r, run'[r], result'[r])
  <2>1. /\ run[r].pc = "start" /\ run[r].pc \in Fired /\ run[r].pc \in Executing
        /\ Goes(r, "collect") /\ SameReport /\ Pending(run'[r]) = 1 .. Len(Receivers(r))
    BY <1>5, CollectingSteps DEF Fired, Executing
  <2>2. Expected(r, run[r].step) = Len(Receivers(r)) /\ Expected(r, run[r].step) \in Nat
    BY <1>1, <1>2, <2>1 DEF Expected, Receivers
  <2>3. Cardinality(Pending(run'[r])) = Expected(r, run[r].step)
    <3>1. Cardinality(1 .. Len(Receivers(r))) = Len(Receivers(r))
      <4> DEFINE n == Len(Receivers(r))
      <4>1. n \in Nat /\ (1 > n => n = 0) /\ n - 1 + 1 = n
        BY <2>2
      <4> HIDE DEF n
      <4>2. Cardinality(1 .. n) = n
        BY <4>1, FS_Interval
      <4> QED
        BY <4>2 DEF n
    <3> QED
      BY <2>1, <2>2, <3>1
  <2>4. ResultsCounted(r, run'[r], result'[r])
    <3>1. /\ run'[r].pc = "collect" /\ run'[r].step = run[r].step /\ result'[r] = result[r]
      BY <2>1 DEF Goes, Locals, SameReport
    <3>2. \A t \in DOMAIN Triggers(r) : t = run[r].step =>
              Expected(r, t) - Cardinality(Pending(run'[r])) = 0
      BY <1>1, <2>3
    <3> QED
      BY <2>1, <3>1, <3>2 DEF Outcome, ResultsCounted
  <2> QED
    BY <1>4, <2>1, <2>4, SameReports
<1>6. ASSUME WaitAll(r)
      PROVE  Outcome(r, run'[r], result'[r])
  <2>1. /\ run[r].pc = "collect" /\ run[r].pc \in Fired /\ run[r].pc \in Executing
        /\ Goes(r, "stop") /\ run[r].waiting = {} /\ run[r].got = {}
    BY <1>6, AttemptSteps DEF Fired, Executing
  <2>2. PICK err \in Errors : Reports(r, result[r].status, err, result[r].attempts)
    BY <1>6, AttemptSteps
  <2>3. Pending(run'[r]) = Pending(run[r])
    <3>1. run'[r].waiting = {} /\ run'[r].got = {}
      BY <1>6, <2>1 DEF WaitAll, TypeOK, RunStates
    <3> QED
      BY <2>1, <3>1 DEF Pending
  <2>4. ResultsCounted(r, run'[r], result'[r])
    <3>1. /\ run'[r].pc = "stop" /\ run'[r].step = run[r].step
          /\ result'[r].status = result[r].status
      BY <2>1, <2>2 DEF Goes, Locals, Reports
    <3>2. \A t : ResultsOf(result'[r], t) = ResultsOf(result[r], t)
      BY <2>2, SameRecords
    <3> QED
      BY <2>1, <2>3, <3>1, <3>2 DEF Outcome, ResultsCounted
  <2> QED
    BY <1>4, <2>1, <2>2, <2>4
<1>7. ASSUME StopReceivers(r)
      PROVE  Outcome(r, run'[r], result'[r])
  <2>1. run[r].pc = "stop" /\ run[r].pc \in Fired /\ run[r].pc \in Executing
    BY <1>7 DEF StopReceivers, Fired, Executing
  <2>3. CASE result[r].status = "passed"
    <3>1. /\ SameReport
          /\ Locals(r, "step", run[r].step + 1, run[r].attempt, run[r].lastTriggerErr, StillOpen(r))
      BY <1>7, <2>3, AttemptSteps
    <3>2. Reports(r, "passed", result[r].error, result[r].attempts)
      BY <2>3, <3>1, SameReports
    <3>3. Cardinality(ResultsOf(result[r], run[r].step)) = Expected(r, run[r].step)
      <4>1. Cardinality(Pending(run[r])) = 0
        BY <1>1, <2>1, FS_EmptySet
      <4>2. run[r].step \in DOMAIN Triggers(r) /\ ~(run[r].step < run[r].step)
        BY <1>1, <2>1
      <4>3. Cardinality(ResultsOf(result[r], run[r].step)) = Expected(r, run[r].step) - 0
        BY <2>1, <2>3, <4>1, <4>2 DEF Outcome, ResultsCounted
      <4> QED
        BY <1>1, <4>2, <4>3
    <3>4. result[r].attempts >= run[r].step /\ result[r].attempts \in Nat
      BY <1>1, <1>2, <2>1
    <3> QED
      BY <2>1, <2>3, <3>1, <3>2, <3>3, <3>4, StepLeft
  <2>4. CASE result[r].status # "passed"
    <3>1. SameReport
      BY <1>7, <2>4, AttemptSteps
    <3>2. PICK pc \in {"attempt", "giveup"}, n \in Nat :
              Locals(r, pc, run[r].step, n, run[r].lastTriggerErr, StillOpen(r))
      BY <1>7, <2>4, AttemptSteps
    <3>3. /\ run'[r].pc = pc /\ run'[r].step = run[r].step
          /\ result'[r] = result[r]
      BY <3>1, <3>2 DEF Locals, SameReport
    <3>4. StatusIsWorst(r, run'[r], result'[r])
      <4>1. Expected(r, run[r].step) # 0
        BY <1>1, <1>2, <2>1
      <4> QED
        BY <2>1, <2>4, <3>3, <4>1 DEF Outcome, StatusIsWorst, Executing
    <3>5. ResultsCounted(r, run'[r], result'[r])
      BY <2>4, <3>3 DEF ResultsCounted
    <3>6. TriggersFired(r, run'[r], result'[r])
      BY <2>1, <3>3 DEF Outcome, TriggersFired, Fired
    <3>7. EndsPassed(r, run'[r], result'[r])
      BY <2>4, <3>3 DEF EndsPassed
    <3> QED
      BY <3>4, <3>5, <3>6, <3>7 DEF Outcome
  <2> QED
    BY <2>3, <2>4
<1> QED
  BY <1>3, <1>5, <1>6, <1>7

(* Under mu: the goroutine's result is one more, of this step, and the     *)
(* worse of the statuses stays, whoever comes first.                       *)
LEMMA MergedRecords ==
    ASSUME NEW res \in Results, NEW status \in {"passed", "failed", "error"}, NEW step \in Nat
    PROVE  LET m == Merged(res, status, step) IN
           /\ RecordedStatuses(m) = RecordedStatuses(res) \cup {status}
           /\ \A t : t # step => ResultsOf(m, t) = ResultsOf(res, t)
           /\ IsFiniteSet(ResultsOf(res, step))
           /\ Cardinality(ResultsOf(m, step)) = Cardinality(ResultsOf(res, step)) + 1
           /\ m.attempts = res.attempts /\ m.error = res.error
           /\ m.status = IF status = "error" THEN "error"
                         ELSE IF status = "failed" /\ res.status = "passed" THEN "failed"
                         ELSE res.status
<1> DEFINE e == [step |-> step, status |-> status]
           s == res.receivers
           m == Merged(res, status, step)
<1>1. e \in [step : Nat, status : Statuses] /\ s \in Seq([step : Nat, status : Statuses])
      /\ e.step = step /\ e.status = status
  BY DEF Results, Statuses
<1>2. /\ m.receivers = Append(s, e) /\ m.attempts = res.attempts /\ m.error = res.error
      /\ m.status = IF status = "error" THEN "error"
                    ELSE IF status = "failed" /\ res.status = "passed" THEN "failed"
                    ELSE res.status
  BY DEF Merged, Results
<1> HIDE DEF e
<1>3. /\ Append(s, e) \in Seq([step : Nat, status : Statuses]) /\ Len(Append(s, e)) = Len(s) + 1
      /\ \A i \in 1 .. Len(s) : Append(s, e)[i] = s[i]
      /\ Append(s, e)[Len(s) + 1] = e
  BY <1>1, AppendProperties
<1>4. /\ Len(s) \in Nat /\ DOMAIN s = 1 .. Len(s) /\ DOMAIN Append(s, e) = 1 .. Len(s) + 1
  BY <1>1, <1>3, LenProperties
<1> HIDE DEF s, m
<1>5. /\ DOMAIN m.receivers = DOMAIN s \cup {Len(s) + 1} /\ Len(s) + 1 \notin DOMAIN s
      /\ m.receivers[Len(s) + 1] = e
      /\ \A n \in DOMAIN s : m.receivers[n] = s[n]
  BY <1>2, <1>3, <1>4
<1>6. RecordedStatuses(m) = RecordedStatuses(res) \cup {status}
  BY <1>1, <1>5 DEF RecordedStatuses, s
<1>7. \A t : t # step => ResultsOf(m, t) = ResultsOf(res, t)
  BY <1>1, <1>5 DEF ResultsOf, s
<1>8. ResultsOf(m, step) = ResultsOf(res, step) \cup {Len(s) + 1} /\ Len(s) + 1 \notin ResultsOf(res, step)
  BY <1>1, <1>5 DEF ResultsOf, s
<1>9. IsFiniteSet(ResultsOf(res, step))
  <2>1. IsFiniteSet(1 .. Len(s)) /\ ResultsOf(res, step) \in SUBSET (1 .. Len(s))
    BY <1>4, FS_Interval DEF ResultsOf, s
  <2> QED
    BY <2>1, FS_Subset
<1>10. Cardinality(ResultsOf(m, step)) = Cardinality(ResultsOf(res, step)) + 1
  BY <1>8, <1>9, FS_AddElement
<1> QED
  BY <1>2, <1>6, <1>7, <1>9, <1>10 DEF m

LEMMA WorstOfMore ==
    ASSUME NEW S, S \subseteq {"passed", "failed", "error"}, NEW status \in {"passed", "failed", "error"}
    PROVE  Worst(S \cup {status}) = IF status = "error" THEN "error"
                                    ELSE IF status = "failed" /\ Worst(S) = "passed" THEN "failed"
                                    ELSE Worst(S)
BY DEF Worst

LEMMA EndOutcome ==
    ASSUME TypeOK, NEW r \in Runs, Outcome(r, run[r], result[r]), run[r].pc = "collect",
           NEW i \in Pending(run[r]), NEW status \in {"passed", "failed", "error"},
           EndCollector(r, i, status)
    PROVE  Outcome(r, run'[r], result'[r])
<1>1. /\ Goes(r, run[r].pc) /\ Pending(run'[r]) = Pending(run[r]) \ {i}
      /\ result'[r] = Merged(result[r], status, run[r].step)
  BY CollectingSteps
<1>2. /\ run'[r].pc = "collect" /\ run'[r].step = run[r].step /\ run'[r].attempt = run[r].attempt
      /\ run'[r].open = run[r].open /\ "collect" \in Executing /\ "collect" \in Fired
      /\ "collect" \notin Ending
  BY <1>1 DEF Goes, Locals, Executing, Fired, Ending
<1>3. /\ run[r].step \in Nat /\ run[r].step \in DOMAIN Triggers(r)
      /\ \A t \in DOMAIN Triggers(r) : Expected(r, t) \in Nat
  BY <1>2, StepTyped DEF Executing
<1>4. result[r] \in Results
  BY DEF TypeOK
<1>5. /\ RecordedStatuses(result'[r]) = RecordedStatuses(result[r]) \cup {status}
      /\ \A t : t # run[r].step => ResultsOf(result'[r], t) = ResultsOf(result[r], t)
      /\ IsFiniteSet(ResultsOf(result[r], run[r].step))
      /\ Cardinality(ResultsOf(result'[r], run[r].step))
             = Cardinality(ResultsOf(result[r], run[r].step)) + 1
  BY <1>1, <1>3, <1>4, MergedRecords
<1>6. /\ result'[r].attempts = result[r].attempts /\ result'[r].error = result[r].error
      /\ result'[r].status = IF status = "error" THEN "error"
                             ELSE IF status = "failed" /\ result[r].status = "passed" THEN "failed"
                             ELSE result[r].status
  BY <1>1, <1>3, <1>4, MergedRecords
<1>7. StatusIsWorst(r, run'[r], result'[r])
  <2>1. /\ RecordedStatuses(result[r]) \subseteq {"passed", "failed", "error"}
        /\ result[r].status = Worst(RecordedStatuses(result[r]))
    BY <1>2 DEF Outcome, StatusIsWorst
  <2>2. result'[r].status = Worst(RecordedStatuses(result'[r]))
    <3> DEFINE S == RecordedStatuses(result[r])
    <3>1. S \subseteq {"passed", "failed", "error"}
      BY <2>1
    <3> HIDE DEF S
    <3>2. Worst(S \cup {status}) = IF status = "error" THEN "error"
                                   ELSE IF status = "failed" /\ Worst(S) = "passed" THEN "failed"
                                   ELSE Worst(S)
      BY <3>1, WorstOfMore
    <3> QED
      BY <1>5, <1>6, <2>1, <3>2 DEF S
  <2>3. RecordedStatuses(result'[r]) \subseteq {"passed", "failed", "error"}
    BY <1>5, <2>1
  <2> QED
    BY <1>2, <2>2, <2>3 DEF StatusIsWorst
<1>8. ResultsCounted(r, run'[r], result'[r])
  <2> SUFFICES ASSUME result'[r].status = "passed", NEW t \in DOMAIN Triggers(r)
               PROVE  Cardinality(ResultsOf(result'[r], t)) =
                          IF t < run[r].step THEN Expected(r, t)
                          ELSE IF t = run[r].step THEN Expected(r, t) - Cardinality(Pending(run'[r]))
                          ELSE 0
    BY <1>2 DEF ResultsCounted
  <2>1. Cardinality(ResultsOf(result[r], t)) =
            IF t < run[r].step THEN Expected(r, t)
            ELSE IF t = run[r].step THEN Expected(r, t) - Cardinality(Pending(run[r]))
            ELSE 0
    BY <1>2, <1>6 DEF Outcome, ResultsCounted
  <2>2. Cardinality(Pending(run[r])) \in Nat
        /\ Cardinality(Pending(run'[r])) = Cardinality(Pending(run[r])) - 1
    <3>1. Pending(run[r]) \in SUBSET (1 .. Len(Receivers(r))) /\ Len(Receivers(r)) \in Nat
      <4>1. LoopsInRange(r, run[r])
        BY RunTyped
      <4>2. Len(Receivers(r)) \in Nat
        BY <1>3, DefTyped, StepTyped DEF Receivers
      <4> QED
        BY <4>1, <4>2 DEF LoopsInRange, Pending, Receivers
    <3>2. IsFiniteSet(Pending(run[r]))
      <4>1. IsFiniteSet(1 .. Len(Receivers(r)))
        BY <3>1, FS_Interval
      <4> QED
        BY <3>1, <4>1, FS_Subset
    <3> QED
      BY <1>1, <3>2, FS_RemoveElement, FS_CardinalityType
  <2>3. CASE t = run[r].step
    <3>1. ~(t < run[r].step)
      BY <1>3, <2>3
    <3>2. Cardinality(ResultsOf(result'[r], t)) = Expected(r, t) - Cardinality(Pending(run[r])) + 1
      BY <1>5, <2>1, <2>3, <3>1
    <3>3. Expected(r, t) - Cardinality(Pending(run[r])) + 1
              = Expected(r, t) - (Cardinality(Pending(run[r])) - 1)
      BY <1>3, <2>2
    <3> QED
      BY <2>2, <2>3, <3>1, <3>2, <3>3
  <2>4. CASE t # run[r].step
    BY <1>5, <2>1, <2>4
  <2> QED
    BY <2>3, <2>4
<1>9. TriggersFired(r, run'[r], result'[r])
  BY <1>2, <1>6 DEF Outcome, TriggersFired
<1>10. EndsPassed(r, run'[r], result'[r])
  BY <1>2 DEF EndsPassed, Ending
<1> QED
  BY <1>7, <1>8, <1>9, <1>10 DEF Outcome

LEMMA CollectorOutcome ==
    ASSUME TypeOK, NEW r \in Runs, Outcome(r, run[r], result[r]),
           CollectorStep(r) \/ OutsideAnswers(r)
    PROVE  /\ Outcome(r, run'[r], result'[r])
           /\ \A s \in Runs \ {r} : run'[s] = run[s] /\ result'[s] = result[s]
<1>1. ASSUME NEW i \in run[r].waiting, NEW m, run' = Collected(r, i, m), result' = result
      PROVE  /\ Outcome(r, run'[r], result'[r])
             /\ \A s \in Runs \ {r} : run'[s] = run[s] /\ result'[s] = result[s]
  <2>1. Goes(r, run[r].pc) /\ Pending(run'[r]) = Pending(run[r]) /\ SameReport
    BY <1>1, CollectingSteps DEF SameReport
  <2> QED
    BY <1>1, <2>1, SameOutcome DEF Goes, Locals
<1>2. ASSUME NEW i \in Pending(run[r]), NEW status \in {"passed", "failed", "error"},
             run[r].pc = "collect", EndCollector(r, i, status)
      PROVE  /\ Outcome(r, run'[r], result'[r])
             /\ \A s \in Runs \ {r} : run'[s] = run[s] /\ result'[s] = result[s]
  <2>1. Goes(r, run[r].pc) /\ \A s \in Runs \ {r} : result'[s] = result[s]
    BY <1>2, CollectingSteps
  <2> QED
    BY <1>2, <2>1, EndOutcome DEF Goes, Locals
<1>3. CASE \E i \in run[r].waiting : ClaimMessage(r, i) \/ PollSucceeds(r, i) \/ MailFound(r, i)
  BY <1>1, <1>3 DEF ClaimMessage, PollSucceeds, MailFound
<1>4. CASE \E i \in run[r].waiting : CollectTimesOut(r, i) \/ CollectFails(r, i)
  <2>1. PICK i \in run[r].waiting : EndCollector(r, i, "error")
    BY <1>4 DEF CollectTimesOut, CollectFails
  <2>2. i \in Pending(run[r]) /\ run[r].pc = "collect"
    BY CollectorOfStep DEF Pending
  <2> QED
    BY <1>2, <2>1, <2>2
<1>5. CASE \E g \in run[r].got : AssertMessage(r, g[1], g[2])
  <2>1. PICK g \in run[r].got : AssertMessage(r, g[1], g[2])
    BY <1>5
  <2>2. g \in Nat \X Payloads /\ g[1] \in Pending(run[r])
    BY RunTyped DEF RunStates, Pending
  <2>3. <<g[1], g[2]>> \in run[r].got
    BY <2>1 DEF AssertMessage
  <2>4. run[r].pc = "collect" /\ Receiver(r, g[1]) \in ReceiverConfigs
    BY <2>3, CollectorOfStep
  <2>5. Receiver(r, g[1]).verdict[g[2]] \in {"passed", "failed", "error"}
    BY <2>2, <2>4 DEF ReceiverConfigs
  <2> QED
    BY <1>2, <2>1, <2>2, <2>4, <2>5 DEF AssertMessage
<1> QED
  BY <1>3, <1>4, <1>5 DEF CollectorStep, OutsideAnswers

(* The steps of the run's own goroutine. *)
(* A run changes its own locals and result only. *)
LEMMA MainStepsAlone ==
    ASSUME TypeOK, NEW r \in Runs, Begin(r) \/ MainStep(r) \/ Notify(r)
    PROVE  \A s \in Runs \ {r} : run'[s] = run[s] /\ result'[s] = result[s]
<1> USE DEF At
<1>1. Goes(r, run'[r].pc) \/ (\E pc, st, at, te, op : Locals(r, pc, st, at, te, op)) =>
          \A s \in Runs \ {r} : run'[s] = run[s]
  BY DEF Goes, Locals
<1>2. SameReport \/ (\E err : Errs(r, err)) \/ (\E st, err, at : Reports(r, st, err, at)) =>
          \A s \in Runs \ {r} : result'[s] = result[s]
  BY DEF SameReport, Errs, Reports
<1> QED
  BY <1>1, <1>2, GoingSteps, DecidingSteps, AttemptSteps, CollectingSteps, ZenonT(60) DEF MainStep, Goes

LEMMA MainOutcome ==
    ASSUME TypeOK, TypeOK', NEW r \in Runs, Outcome(r, run[r], result[r]),
           Begin(r) \/ MainStep(r) \/ Notify(r)
    PROVE  /\ Outcome(r, run'[r], result'[r])
           /\ \A s \in Runs \ {r} : run'[s] = run[s] /\ result'[s] = result[s]
<1> USE DEF At
<1>1. /\ {"release", "giveup"} \subseteq {"giveup"} \cup Ending
      /\ {"release", "deliver", "done"} \subseteq Ending
  BY DEF Ending
<1>2. /\ run[r].pc # "collect" => Pending(run[r]) = {}
      /\ run'[r].pc # "collect" => Pending(run'[r]) = {}
  BY RunTyped DEF TypeOK, LoopsInRange, Pending
<1>3. ASSUME NEW pc, Goes(r, pc), SameReport, pc # "collect", run[r].pc # "collect",
             pc = run[r].pc \/ {pc, run[r].pc} \subseteq Ending
      PROVE  Outcome(r, run'[r], result'[r])
  <2>1. Pending(run'[r]) = Pending(run[r])
    BY <1>2, <1>3 DEF Goes, Locals
  <2> QED
    BY <1>3, <2>1, SameOutcome
<1>4. ASSUME SkipEmptyRecipient(r) \/ Reserve(r)
      PROVE  Outcome(r, run'[r], result'[r])
  BY <1>3, <1>4, GoingSteps
<1>5. ASSUME Release(r) \/ Finish(r) \/ Deliver(r)
      PROVE  Outcome(r, run'[r], result'[r])
  BY <1>1, <1>3, <1>5, GoingSteps
<1>6. ASSUME Notify(r)
      PROVE  Outcome(r, run'[r], result'[r])
  BY <1>6, GoingSteps, SameOutcome DEF Pending
<1>7. ASSUME ReserveFails(r)
      PROVE  Outcome(r, run'[r], result'[r])
  BY <1>1, <1>7, GoingSteps, SpoiltOutcome DEF Errs
<1>8. ASSUME StartFails(r)
      PROVE  Outcome(r, run'[r], result'[r])
  BY <1>1, <1>8, GoingSteps, SpoiltOutcome DEF Errs
<1>9. ASSUME GiveUp(r)
      PROVE  Outcome(r, run'[r], result'[r])
  <2>1. run[r].pc = "giveup" /\ Goes(r, "release")
    BY <1>9, DecidingSteps
  <2>2. result[r].status = "passed" => run[r].lastTriggerErr
    BY <2>1 DEF Outcome, StatusIsWorst
  <2>3. CASE run[r].lastTriggerErr
    <3>1. Errs(r, "trigger")
      BY <1>9, <2>3, DecidingSteps
    <3> QED
      BY <1>1, <2>1, <3>1, SpoiltOutcome DEF Errs
  <2>4. CASE ~run[r].lastTriggerErr
    <3>1. SameReport /\ result[r].status # "passed"
      BY <1>9, <2>2, <2>4, DecidingSteps
    <3> QED
      BY <1>1, <2>1, <2>2, <3>1, SameReports, SpoiltOutcome
  <2> QED
    BY <2>3, <2>4
<1>10. ASSUME Begin(r) \/ NextStep(r) \/ DeferRelease(r)
       PROVE  Outcome(r, run'[r], result'[r])
  BY <1>10, StepOutcome
<1>11. ASSUME TriggerFails(r) \/ TriggerFires(r)
       PROVE  Outcome(r, run'[r], result'[r])
  BY <1>11, TriggerOutcome
<1>12. ASSUME StartReceiver(r) \/ BeginCollect(r) \/ WaitAll(r) \/ StopReceivers(r)
       PROVE  Outcome(r, run'[r], result'[r])
  BY <1>12, ReceiverOutcome
<1>13. \A s \in Runs \ {r} : run'[s] = run[s] /\ result'[s] = result[s]
  BY MainStepsAlone
<1> QED
  BY <1>4, <1>5, <1>6, <1>7, <1>8, <1>9, <1>10, <1>11, <1>12, <1>13 DEF MainStep

----------------------------------------------------------------------------
LEMMA OutcomeStep ==
    ASSUME TypeOK, OutcomeInv, [Next]_vars
    PROVE  OutcomeInv'
<1>1. TypeOK'
  BY TypeStep
<1>2. CASE UNCHANGED <<run, result>>
  BY <1>2 DEF OutcomeInv
<1>3. ASSUME NEW r \in Runs, Outcome(r, run'[r], result'[r]),
             \A s \in Runs \ {r} : run'[s] = run[s] /\ result'[s] = result[s]
      PROVE  OutcomeInv'
  BY <1>3 DEF OutcomeInv
<1>4. ASSUME NEW r \in Runs, Begin(r) \/ MainStep(r) \/ Notify(r)
      PROVE  OutcomeInv'
  <2>1. Outcome(r, run[r], result[r])
    BY DEF OutcomeInv
  <2> QED
    BY <1>1, <1>3, <1>4, <2>1, MainOutcome
<1>5. ASSUME NEW r \in Runs, CollectorStep(r) \/ OutsideAnswers(r)
      PROVE  OutcomeInv'
  <2>1. Outcome(r, run[r], result[r])
    BY DEF OutcomeInv
  <2> QED
    BY <1>3, <1>5, <2>1, CollectorOutcome
<1>6. ASSUME NEW r \in Runs, NEW m \in Payloads, HandleWebhook(r, m)
      PROVE  OutcomeInv'
  BY <1>2, <1>6 DEF HandleWebhook
<1>7. ASSUME NEW k \in ResKeys, ExpireReservation(k)
      PROVE  OutcomeInv'
  BY <1>2, <1>7 DEF ExpireReservation
<1>8. CASE UNCHANGED vars
  BY <1>2, <1>8 DEF vars
<1> QED
  BY <1>4, <1>5, <1>6, <1>7, <1>8 DEF Next, AllDone

LEMMA OutcomeInit == Init => OutcomeInv
<1> SUFFICES ASSUME Init, NEW r \in Runs PROVE Outcome(r, run[r], result[r])
  BY DEF OutcomeInv
<1>1. /\ run[r].pc = "new"
      /\ result[r].status = "passed" /\ result[r].receivers = << >>
  BY DEF Init, NewRun, NewResult
<1>2. RecordedStatuses(result[r]) = {}
  BY <1>1 DEF RecordedStatuses
<1> QED
  BY <1>1, <1>2 DEF Outcome, StatusIsWorst, ResultsCounted, TriggersFired, EndsPassed,
                    Executing, Fired, Ending

(* The bookkeeping of a run, from the first trigger to the result. *)
THEOREM OutcomeInvariant == Spec => []OutcomeInv
<1>1. Init => OutcomeInv
  BY OutcomeInit
<1>2. TypeOK /\ OutcomeInv /\ [Next]_vars => OutcomeInv'
  BY OutcomeStep
<1> QED
  BY <1>1, <1>2, OrchestratorTypeCorrect, PTL DEF Spec

(* collectAndAssertAll's merge under mu: the status of a run is the worst  *)
(* of what its receivers say, in whatever order their goroutines end.      *)
THEOREM StatusCorrect == Spec => []WorstResultWins
<1>1. OutcomeInv => WorstResultWins
  BY DEF OutcomeInv, Outcome, StatusIsWorst, WorstResultWins, RecordedStatuses, Executing
<1> QED
  BY <1>1, OutcomeInvariant, PTL

(* executeSequential: a run that is reported as passed has fired every     *)
(* trigger and has one passed result of each receiver it had to wait for.  *)
THEOREM PassedCorrect == Spec => []PassedMeansAllPassed
<1>1. OutcomeInv => PassedMeansAllPassed
  BY DEF OutcomeInv, Outcome, EndsPassed, AllPassed, PassedMeansAllPassed, ResultsOf, Expected, Ending
<1> QED
  BY <1>1, OutcomeInvariant, PTL

----------------------------------------------------------------------------
(* What is open.  Receivers are open only in the attempt that started      *)
(* them, until one fails to start; from then on the loop's cursor stays at *)
(* the one that failed.                                                    *)
Prefix(l) == {<<l.step, l.attempt, i>> : i \in 1 .. l.cursor - 1}

StoppedShort(r, l) ==
    /\ l.cursor \in DOMAIN Triggers(r)[l.step].receivers
    /\ CanFailToStart(Triggers(r)[l.step].receivers[l.cursor])
    /\ l.open = Prefix(l)

OpenWhere(r, l, error) ==
    \/ l.open = {}
    \/ l.pc = "start" /\ l.open = Prefix(l)
    \/ l.pc \in {"collect", "stop"} /\ \A o \in l.open : o[1] = l.step /\ o[2] = l.attempt
    \/ l.pc = "giveup" /\ StoppedShort(r, l) /\ error = "start"
    \/ /\ l.pc \in Ending /\ StoppedShort(r, l)
       /\ error = IF l.lastTriggerErr THEN "trigger" ELSE "start"

(* In startReceivers the ones before the cursor are open, also when there  *)
(* are none.                                                               *)
OpenKept(r, l, error) ==
    /\ OpenWhere(r, l, error)
    /\ l.pc = "start" => l.cursor >= 1 /\ l.open = Prefix(l)

OpenInv == \A r \in Runs : OpenKept(r, run[r], result[r].error)

(* The parts of a run's locals that OpenKept reads. *)
SameOpen(r) ==
    /\ run'[r].pc = run[r].pc /\ run'[r].step = run[r].step /\ run'[r].attempt = run[r].attempt
    /\ run'[r].cursor = run[r].cursor /\ run'[r].lastTriggerErr = run[r].lastTriggerErr
    /\ run'[r].open = run[r].open /\ result'[r].error = result[r].error

LEMMA OpenFrame ==
    ASSUME NEW r \in Runs, OpenKept(r, run[r], result[r].error), SameOpen(r)
    PROVE  OpenKept(r, run'[r], result'[r].error)
BY DEF OpenKept, OpenWhere, StoppedShort, Prefix, SameOpen

(* Where nothing is open and nothing is opened. *)
LEMMA NothingOpened ==
    ASSUME NEW r \in Runs, run'[r].open = {}, run'[r].pc # "start"
    PROVE  OpenKept(r, run'[r], result'[r].error)
BY DEF OpenKept, OpenWhere

LEMMA OpenMainStep ==
    ASSUME TypeOK, NEW r \in Runs, OpenKept(r, run[r], result[r].error), Begin(r) \/ MainStep(r) \/ Notify(r)
    PROVE  OpenKept(r, run'[r], result'[r].error)
<1> USE DEF At
<1>1. /\ run \in [Runs -> RunStates] /\ run[r] \in RunStates
      /\ result \in [Runs -> Results] /\ result[r] \in Results
  BY DEF TypeOK
<1>2. /\ run[r].pc \in {"new", "step", "reserve", "attempt"} => run[r].open = {}
      /\ run[r].pc = "start" => run[r].cursor >= 1 /\ run[r].open = Prefix(run[r])
  BY DEF OpenKept, OpenWhere, Ending
<1>3. CASE Begin(r) \/ NextStep(r)
  <2>1. run[r].pc \in {"new", "step"} /\ run'[r].open = run[r].open /\ run'[r].pc # "start"
    BY <1>1, <1>3 DEF Begin, NextStep, RunStates
  <2> QED
    BY <1>2, <2>1, NothingOpened
<1>4. CASE SkipEmptyRecipient(r) \/ Reserve(r) \/ ReserveFails(r) \/ DeferRelease(r)
  <2>1. run[r].pc = "reserve" /\ run'[r].open = run[r].open /\ run'[r].pc # "start"
    <3>1. CASE SkipEmptyRecipient(r) \/ Reserve(r)
      BY <3>1, GoingSteps DEF Goes, Locals
    <3>2. CASE ReserveFails(r) \/ DeferRelease(r)
      BY <3>2, GoingSteps, DecidingSteps DEF Goes, Locals
    <3> QED
      BY <1>4, <3>1, <3>2
  <2> QED
    BY <1>2, <2>1, NothingOpened
<1>5. CASE TriggerFails(r)
  <2>1. run[r].pc = "attempt" /\ run'[r].open = run[r].open /\ run'[r].pc # "start"
    BY <1>1, <1>5 DEF TriggerFails, RetryOrGiveUp, RunStates
  <2> QED
    BY <1>2, <2>1, NothingOpened
<1>6. CASE TriggerFires(r)
  <2>1. CASE NothingToWaitFor(r)
    <3>1. run[r].pc = "attempt" /\ run'[r].open = run[r].open /\ run'[r].pc # "start"
      <4>1. run[r].pc = "attempt" /\ run' = [run EXCEPT ![r] = StepPassed(r)]
        BY <1>6, <2>1 DEF TriggerFires
      <4>2. StepPassed(r).open = run[r].open /\ StepPassed(r).pc = "step"
        BY <1>1 DEF StepPassed, RunStates
      <4>3. run'[r] = StepPassed(r)
        BY <1>1, <4>1
      <4> QED
        BY <4>1, <4>2, <4>3
    <3> QED
      BY <1>2, <3>1, NothingOpened
  <2>2. CASE ~NothingToWaitFor(r)
    <3>1. run[r].pc = "attempt" /\ run'[r].open = run[r].open /\ run'[r].pc = "start" /\ run'[r].cursor = 1
      BY <1>1, <1>6, <2>2 DEF TriggerFires, RunStates
    <3>2. Prefix(run'[r]) = {}
      BY <3>1 DEF Prefix
    <3> QED
      BY <1>2, <3>1, <3>2 DEF OpenKept, OpenWhere
  <2> QED
    BY <2>1, <2>2
<1>7. CASE StartReceiver(r)
  <2>1. /\ run[r].pc = "start" /\ run'[r].pc = "start" /\ run'[r].cursor = run[r].cursor + 1
        /\ run'[r].step = run[r].step /\ run'[r].attempt = run[r].attempt
        /\ run'[r].open = run[r].open \cup {<<run[r].step, run[r].attempt, run[r].cursor>>}
    BY <1>1, <1>7 DEF StartReceiver, RunStates
  <2>2. run[r].cursor \in Nat \ {0}
    BY <1>1, <1>2, <2>1 DEF RunStates
  <2>3. 1 .. run'[r].cursor - 1 = (1 .. run[r].cursor - 1) \cup {run[r].cursor}
    BY <2>1, <2>2
  <2>4. Prefix(run'[r]) = run'[r].open
    BY <1>2, <2>1, <2>3 DEF Prefix
  <2>5. run'[r].cursor >= 1
    BY <2>1, <2>2
  <2> QED
    BY <2>1, <2>4, <2>5 DEF OpenKept, OpenWhere
<1>8. CASE StartFails(r)
  <2>1. /\ run[r].pc = "start" /\ run'[r].pc = "giveup" /\ run'[r].cursor = run[r].cursor
        /\ run'[r].step = run[r].step /\ run'[r].attempt = run[r].attempt
        /\ run'[r].open = run[r].open /\ result'[r].error = "start"
        /\ run[r].cursor <= Len(Receivers(r)) /\ CanFailToStart(Receiver(r, run[r].cursor))
    BY <1>1, <1>8 DEF StartFails, FailResult, RunStates, Results
  <2>2. run[r].step \in 1 .. Len(Triggers(r))
    BY <2>1 DEF TypeOK, LoopsInRange
  <2>3. run[r].cursor \in DOMAIN Triggers(r)[run[r].step].receivers
    BY <1>1, <1>2, <2>1, <2>2, DefTyped DEF RunStates, Receivers
  <2>4. StoppedShort(r, run'[r])
    BY <1>2, <2>1, <2>3 DEF StoppedShort, Prefix, Receiver, Receivers
  <2> QED
    BY <2>1, <2>4 DEF OpenKept, OpenWhere
<1>9. CASE BeginCollect(r) \/ WaitAll(r)
  <2>1. /\ run[r].pc \in {"start", "collect"} /\ run'[r].pc \in {"collect", "stop"}
        /\ run'[r].step = run[r].step /\ run'[r].attempt = run[r].attempt
        /\ run'[r].open = run[r].open
    BY <1>1, <1>9, CollectingSteps, AttemptSteps DEF Goes, Locals
  <2>2. \A o \in run[r].open : o[1] = run[r].step /\ o[2] = run[r].attempt
    BY <2>1 DEF OpenKept, OpenWhere, Prefix, Ending
  <2> QED
    BY <2>1, <2>2 DEF OpenKept, OpenWhere
<1>10. CASE StopReceivers(r)
  <2>1. run[r].pc = "stop" /\ run'[r].open = StillOpen(r) /\ run'[r].pc # "start"
    BY <1>1, <1>10 DEF StopReceivers, StepPassed, RetryOrGiveUp, RunStates
  <2>2. StillOpen(r) = {}
    BY <2>1 DEF OpenKept, OpenWhere, StillOpen, Ending
  <2> QED
    BY <2>1, <2>2, NothingOpened
<1>11. CASE GiveUp(r)
  <2>1. /\ run[r].pc = "giveup" /\ run'[r].pc = "release" /\ run'[r].cursor = run[r].cursor
        /\ run'[r].step = run[r].step /\ run'[r].attempt = run[r].attempt
        /\ run'[r].open = run[r].open /\ run'[r].lastTriggerErr = run[r].lastTriggerErr
        /\ result'[r].error = IF run[r].lastTriggerErr THEN "trigger" ELSE result[r].error
    BY <1>1, <1>11 DEF GiveUp, FailResult, RunStates, Results
  <2>2. CASE run[r].open = {}
    BY <2>1, <2>2, NothingOpened
  <2>3. CASE StoppedShort(r, run[r]) /\ result[r].error = "start"
    <3>1. StoppedShort(r, run'[r])
      BY <2>1, <2>3 DEF StoppedShort, Prefix
    <3> QED
      BY <2>1, <2>3, <3>1 DEF OpenKept, OpenWhere, Ending
  <2> QED
    BY <2>1, <2>2, <2>3 DEF OpenKept, OpenWhere, Ending
<1>12. CASE Release(r) \/ Finish(r) \/ Deliver(r)
  <2>1. /\ run[r].pc \in Ending /\ run'[r].pc \in Ending /\ run'[r].cursor = run[r].cursor
        /\ run'[r].step = run[r].step /\ run'[r].attempt = run[r].attempt
        /\ run'[r].open = run[r].open /\ run'[r].lastTriggerErr = run[r].lastTriggerErr
        /\ result' = result
    BY <1>1, <1>12 DEF Release, Finish, Deliver, RunStates, Ending
  <2> QED
    BY <2>1 DEF OpenKept, OpenWhere, StoppedShort, Prefix, Ending
<1>13. CASE Notify(r)
  <2>1. SameOpen(r)
    BY <1>1, <1>13 DEF Notify, SameOpen, RunStates
  <2> QED
    BY <2>1, OpenFrame
<1> QED
  BY <1>3, <1>4, <1>5, <1>6, <1>7, <1>8, <1>9, <1>10, <1>11, <1>12, <1>13 DEF MainStep

(* A receiver's goroutine opens and closes nothing. *)
LEMMA OpenCollector ==
    ASSUME TypeOK, NEW r \in Runs, CollectorStep(r) \/ OutsideAnswers(r)
    PROVE  SameOpen(r) /\ \A s \in Runs \ {r} : run'[s] = run[s] /\ result'[s] = result[s]
<1>1. /\ run \in [Runs -> RunStates] /\ run[r] \in RunStates
      /\ result \in [Runs -> Results] /\ result[r] \in Results
  BY DEF TypeOK
<1>2. ASSUME NEW i, NEW m, run' = Collected(r, i, m), result' = result
      PROVE  SameOpen(r) /\ \A s \in Runs \ {r} : run'[s] = run[s] /\ result'[s] = result[s]
  BY <1>1, <1>2 DEF Collected, SameOpen, RunStates
<1>3. ASSUME NEW i, NEW status, EndCollector(r, i, status)
      PROVE  SameOpen(r) /\ \A s \in Runs \ {r} : run'[s] = run[s] /\ result'[s] = result[s]
  BY <1>1, <1>3 DEF EndCollector, Merged, SameOpen, RunStates, Results
<1> QED
  BY <1>2, <1>3 DEF CollectorStep, OutsideAnswers, ClaimMessage, CollectTimesOut, AssertMessage,
                    PollSucceeds, MailFound, CollectFails

LEMMA OpenStep ==
    ASSUME TypeOK, OpenInv, [Next]_vars
    PROVE  OpenInv'
<1>1. CASE UNCHANGED <<run, result>>
  BY <1>1 DEF OpenInv
<1>2. ASSUME NEW r \in Runs, OpenKept(r, run'[r], result'[r].error),
             \A s \in Runs \ {r} : run'[s] = run[s] /\ result'[s] = result[s]
      PROVE  OpenInv'
  BY <1>2 DEF OpenInv
<1>3. ASSUME NEW r \in Runs, Begin(r) \/ MainStep(r) \/ Notify(r)
      PROVE  OpenInv'
  <2>1. \A s \in Runs \ {r} : run'[s] = run[s] /\ result'[s] = result[s]
    BY <1>3, MainStepsAlone
  <2>2. OpenKept(r, run'[r], result'[r].error)
    BY <1>3, OpenMainStep DEF OpenInv
  <2> QED
    BY <1>2, <2>1, <2>2
<1>4. ASSUME NEW r \in Runs, CollectorStep(r) \/ OutsideAnswers(r)
      PROVE  OpenInv'
  BY <1>2, <1>4, OpenCollector, OpenFrame DEF OpenInv
<1>5. ASSUME NEW r \in Runs, NEW m \in Payloads, HandleWebhook(r, m)
      PROVE  OpenInv'
  BY <1>1, <1>5 DEF HandleWebhook
<1>6. ASSUME NEW k \in ResKeys, ExpireReservation(k)
      PROVE  OpenInv'
  BY <1>1, <1>6 DEF ExpireReservation
<1>7. CASE UNCHANGED vars
  BY <1>1, <1>7 DEF vars
<1> QED
  BY <1>3, <1>4, <1>5, <1>6, <1>7 DEF Next, AllDone

(* stopReceivers closes what the attempt has opened: a run that has ended  *)
(* leaves open exactly the receivers started before one that failed to     *)
(* start, in the attempt it failed in, and otherwise none.                 *)
THEOREM OpenCorrect == Spec => []OnlyFailedStartLeavesOpen
<1>1. Init => OpenInv
  BY DEF Init, NewRun, OpenInv, OpenKept, OpenWhere
<1>2. TypeOK /\ OpenInv /\ [Next]_vars => OpenInv'
  BY OpenStep
<1>3. OpenInv => OnlyFailedStartLeavesOpen
  BY DEF OpenInv, OpenKept, OpenWhere, StoppedShort, Prefix, OnlyFailedStartLeavesOpen, StartedBefore,
         Receivers, Receiver, Ending, At
<1> QED
  BY <1>1, <1>2, <1>3, OrchestratorTypeCorrect, PTL DEF Spec
============================================================================
