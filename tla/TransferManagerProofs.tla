----------------------- MODULE TransferManagerProofs ------------------------
(***************************************************************************)
(* Theorems about TransferManager for any runs, transfers and nodes, any   *)
(* number of permits and any set of public calls.                          *)
(***************************************************************************)
EXTENDS TransferManager, FiniteSetTheorems, TLAPS

-----------------------------------------------------------------------------
(* The inductive invariant *)

\* What the place of a run says about its locals: a run has an id from its
\* registration to its last guard, a permit from the semaphore to its drop, and a
\* result once its transfer function has returned.
Placed(r) ==
    /\ r.at \in {"idle", "done"} <=> r.id = None
    /\ r.at \in {"count", "start", "drop", "notify", "permit"} => r.permit
    /\ r.permit => r.at \in {"count", "start", "nested", "check", "chunk", "unnest",
                             "report", "drop", "notify", "permit"}
    /\ r.at \in {"unnest", "report"} => r.result \in Finished

\* A new limit is announced by an operator that has no list to write.
OperatorPlaced == operator.call = "limit" => operator.id = None

\* The shutdown goes through the controls after it has changed the state.
ShutdownPlaced == stopper # "idle" => shutdown # "RUNNING"

\* A reader that waits, waits for a transfer.
ReaderPlaced == reader.at # "idle" => reader.id \in Transfers

Typed ==
    /\ TypeOK
    /\ \A k \in Runs : Placed(run[k])
    /\ OperatorPlaced
    /\ ShutdownPlaced
    /\ ReaderPlaced

\* The manager starts with no runs, no controls and nobody waiting.
LEMMA TypedInit == Init => Typed
BY TransferManagerAssumption DEF Init, Typed, TypeOK, Placed, OperatorPlaced, ShutdownPlaced, ReaderPlaced,
   Controls, NoControl, RunStates, NoRun, Places, Operators, NoCall, Readers, NoReader, Finished

\* register_owned: a new control, or one more owner of the control that is there.
LEMMA RegisterOwnedType ==
  ASSUME TypeOK, NEW t \in Transfers, NEW n \in Nodes \union {None}, RegisterOwned(t, n)
  PROVE  controls' \in [Transfers -> Controls]
<1> DEFINE old == controls[t]
           born == [NoControl EXCEPT !.owners = 1, !.node = n,
                                     !.cancelled = shutdown # "RUNNING"]
           joined == [old EXCEPT !.owners = old.owners + 1,
                                 !.node = IF old.node = None THEN n ELSE old.node]
<1>1. (shutdown # "RUNNING") \in BOOLEAN
  OBVIOUS
<1>2. born \in Controls
  BY <1>1 DEF Controls, NoControl
<1>3. joined \in Controls
  <2>1. old \in Controls
    BY DEF TypeOK
  <2>0. old.owners + 1 \in Nat
    BY <2>1 DEF Controls
  <2>2. (IF old.node = None THEN n ELSE old.node) \in Nodes \union {None}
    BY <2>1 DEF Controls
  <2>3. \A c \in Controls, i \in Nat, m \in Nodes \union {None} :
           [c EXCEPT !.owners = i, !.node = m] \in Controls
    BY DEF Controls
  <2> QED
    BY <2>0, <2>1, <2>2, <2>3
<1>4. controls' = [controls EXCEPT ![t] = IF old.owners > 0 THEN joined ELSE born]
  BY DEF RegisterOwned
<1> QED
  BY <1>2, <1>3, <1>4 DEF TypeOK

\* unregister: one owner less, or the control goes with its last owner.
LEMMA UnregisterType ==
  ASSUME TypeOK, NEW t \in Transfers, Unregister(t)
  PROVE  controls' \in [Transfers -> Controls]
BY DEF TypeOK, Unregister, Controls, NoControl

\* A write to the list notifies its reader, which stays where it is.
LEMMA SetStateType ==
  ASSUME TypeOK, NEW t \in Transfers, NEW s \in Finished \union Unfinished, SetState(t, s)
  PROVE  /\ table' \in [Transfers -> Finished \union Unfinished \union {"absent"}]
         /\ reader' \in Readers
         /\ reader'.at = reader.at /\ reader'.id = reader.id
BY DEF TypeOK, SetState, Readers

\* Forgetting finished transfers.
LEMMA CleanedType ==
  ASSUME TypeOK, table' \in Cleaned(table)
  PROVE  table' \in [Transfers -> Finished \union Unfinished \union {"absent"}]
BY DEF TypeOK, Cleaned

-----------------------------------------------------------------------------
(* Steps of a run *)

\* The run agrees with what it was, but for a notification it may have got.
Same(j) ==
    /\ run'[j].at = run[j].at
    /\ run'[j].id = run[j].id
    /\ run'[j].permit = run[j].permit
    /\ run'[j].result = run[j].result
    /\ run[j].woken => run'[j].woken

\* Run k moves to a well-formed place, the other runs keep theirs.
Advances(k) ==
    /\ run' \in [Runs -> RunStates]
    /\ \A j \in Runs \ {k} : Same(j)
    /\ Placed(run'[k])

\* A run whose locals are well formed may be put in place of run k.
LEMMA ReplaceAdvances ==
  ASSUME Typed, NEW k \in Runs, NEW r \in RunStates, Placed(r), run' = [run EXCEPT ![k] = r]
  PROVE  Advances(k)
BY DEF Typed, TypeOK, Advances, Same

\* The assignments to two locals of a run.
LEMMA RunFields ==
  ASSUME NEW r \in RunStates, NEW p \in Places, NEW b \in BOOLEAN,
         NEW v \in Finished \union {"none"}
  PROVE  /\ [r EXCEPT !.at = p, !.saw = b] \in RunStates
         /\ [r EXCEPT !.at = p, !.woken = b] \in RunStates
         /\ [r EXCEPT !.at = p, !.result = v] \in RunStates
BY DEF RunStates

\* A notification.
LEMMA WokenType == \A r \in RunStates : [r EXCEPT !.woken = TRUE] \in RunStates
BY DEF RunStates

\* Every step of a run moves this run alone, to a place with the locals of that place.
LEMMA RunStepAdvances ==
  ASSUME Typed, NEW k \in Runs, RunStep(k)
  PROVE  Advances(k)
<1> USE DEF Typed, TypeOK, Advances, Same, Placed
<1>0. run[k] \in RunStates
  OBVIOUS
<1>1. CASE BadArguments(k)
  BY <1>1 DEF RunStates, Places, BadArguments, Goto
<1>2. CASE ReadShutdown(k)
  <2> DEFINE b == shutdown = "RUNNING"
             r == [run[k] EXCEPT !.at = "read", !.saw = b]
  <2>1. run' = [run EXCEPT ![k] = r]
    BY <1>2 DEF ReadShutdown
  <2>2. b \in BOOLEAN /\ run[k] \in RunStates
    BY <1>0
  <2> HIDE DEF b
  <2>3. r \in RunStates
    BY <1>0, <2>2, RunFields DEF Places
  <2>4. Placed(r)
    BY <1>2, <2>2 DEF ReadShutdown, RunStates
  <2> QED
    BY <2>1, <2>3, <2>4, ReplaceAdvances
<1>3. CASE InsertSnapshot(k)
  <2> DEFINE r == [run[k] EXCEPT !.at = "queued", !.saw = FALSE]
  <2>1. run' = [run EXCEPT ![k] = r]
    BY <1>3 DEF InsertSnapshot
  <2>2. r \in RunStates
    BY <1>0, RunFields DEF Places
  <2>3. Placed(r)
    BY <1>3 DEF InsertSnapshot, RunStates
  <2> QED
    BY <2>1, <2>2, <2>3, ReplaceAdvances
<1>4. CASE Listen(k)
  <2> DEFINE r == [run[k] EXCEPT !.at = "limit", !.woken = FALSE]
  <2>1. run' = [run EXCEPT ![k] = r]
    BY <1>4 DEF Listen
  <2>2. r \in RunStates
    BY <1>0, RunFields DEF Places
  <2>3. Placed(r)
    BY <1>4 DEF Listen, RunStates
  <2> QED
    BY <2>1, <2>2, <2>3, ReplaceAdvances
<1>5. CASE CompareLimit(k)
  BY <1>5 DEF RunStates, Places, CompareLimit, Goto
<1>6. CASE WakeRun(k)
  BY <1>6 DEF RunStates, Places, WakeRun
<1>7. CASE TakePermit(k)
  BY <1>7 DEF RunStates, Places, TakePermit
<1>8. CASE CountPermit(k)
  BY <1>8 DEF RunStates, Places, CountPermit, Goto
<1>9. CASE MarkActive(k)
  BY <1>9 DEF RunStates, Places, MarkActive, Goto
<1>10. CASE RegisterNested(k)
  BY <1>10 DEF RunStates, Places, RegisterNested, Goto
<1>11. CASE CheckControl(k)
  <2> DEFINE verdict == Verdict(controls[run[k].id])
             place == IF verdict = "Ok" THEN "chunk" ELSE "unnest"
             result == IF verdict = "Ok" THEN "none" ELSE verdict
             r == [run[k] EXCEPT !.at = place, !.result = result]
  <2>1. run' = [run EXCEPT ![k] = r] /\ run[k].at = "check" /\ verdict # "wait"
    BY <1>11 DEF CheckControl
  <2>2. verdict \in {"Ok", "Cancelled", "Error"}
    BY <2>1 DEF Verdict
  <2>3. place \in Places /\ result \in Finished \union {"none"}
    BY <2>2 DEF Finished, Places
  <2>4. /\ place \in {"chunk", "unnest"}
        /\ place = "unnest" => result \in Finished
    BY <2>2 DEF Finished
  <2> HIDE DEF verdict, place, result
  <2>5. r \in RunStates
    BY <1>0, <2>3, RunFields
  <2>6. Placed(r)
    BY <2>1, <2>4 DEF RunStates
  <2> QED
    BY <2>1, <2>5, <2>6, ReplaceAdvances
<1>12. CASE MoveChunk(k)
  BY <1>12 DEF RunStates, Places, MoveChunk, Goto
<1>13. CASE EndData(k)
  <2>1. PICK result \in {"Completed", "Error"} :
           run' = [run EXCEPT ![k].at = "unnest", ![k].result = result]
    BY <1>13 DEF EndData
  <2> DEFINE r == [run[k] EXCEPT !.at = "unnest", !.result = result]
  <2>2. run' = [run EXCEPT ![k] = r] /\ result \in Finished
    BY <2>1 DEF Finished
  <2>3. r \in RunStates
    BY <1>0, <2>2, RunFields DEF Places
  <2>4. Placed(r)
    BY <1>13, <2>2 DEF EndData, RunStates
  <2> QED
    BY <2>2, <2>3, <2>4, ReplaceAdvances
<1>14. CASE DropNested(k)
  BY <1>14 DEF RunStates, Places, DropNested, Goto
<1>15. CASE Report(k)
  BY <1>15 DEF RunStates, Places, Report, Goto
<1>16. CASE DropPermit(k)
  BY <1>16 DEF RunStates, Places, DropPermit, Goto
<1>17. CASE NotifyDrop(k)
  <2>1. run' \in [Runs -> RunStates]
    <3>1. \A j \in Runs : [run[j] EXCEPT !.at = "permit"] \in RunStates
      BY DEF RunStates, Places
    <3>2. \A j \in Runs : [run[j] EXCEPT !.woken = TRUE] \in RunStates
      BY WokenType
    <3> QED
      BY <1>17, <3>1, <3>2 DEF NotifyDrop
  <2>2. run'[k] = [run[k] EXCEPT !.at = "permit"]
    BY <1>17 DEF NotifyDrop
  <2>3. \A j \in Runs \ {k} : run'[j] = run[j] \/ run'[j] = [run[j] EXCEPT !.woken = TRUE]
    BY <1>17 DEF NotifyDrop
  <2>4. Placed(run'[k])
    BY <1>17, <2>2 DEF NotifyDrop, RunStates
  <2>5. \A j \in Runs \ {k} : Same(j)
    BY <2>3 DEF RunStates
  <2> QED
    BY <2>1, <2>4, <2>5
<1>18. CASE ReleasePermit(k)
  BY <1>18 DEF RunStates, Places, ReleasePermit
<1>19. CASE DropGuard(k)
  BY <1>19 DEF RunStates, Places, DropGuard, NoRun
<1> QED
  BY <1>1, <1>2, <1>3, <1>4, <1>5, <1>6, <1>7, <1>8, <1>9, <1>10, <1>11, <1>12, <1>13, <1>14,
     <1>15, <1>16, <1>17, <1>18, <1>19 DEF RunStep

\* What a step of a run may change besides the runs.
LEMMA RunStepTypes ==
  ASSUME Typed, NEW k \in Runs, RunStep(k)
  PROVE  /\ controls' \in [Transfers -> Controls]
         /\ table' \in [Transfers -> Finished \union Unfinished \union {"absent"}]
         /\ progress' \in SUBSET Transfers
         /\ reader' \in Readers
         /\ reader'.at = reader.at /\ reader'.id = reader.id
         /\ active' \in Nat
         /\ semaphore' \in Nat
         /\ UNCHANGED <<calls, operator, limit, shutdown, stopper>>
<1> USE DEF Typed, TypeOK
<1>0. run[k].at \notin {"idle", "done"} => run[k].id \in Transfers
  BY DEF Placed, RunStates
<1>1. CASE \/ BadArguments(k) \/ Listen(k) \/ CompareLimit(k) \/ WakeRun(k)
           \/ CheckControl(k) \/ EndData(k) \/ NotifyDrop(k)
  BY <1>1 DEF BadArguments, Listen, CompareLimit, WakeRun, CheckControl, EndData, NotifyDrop
<1>2. CASE TakePermit(k) \/ CountPermit(k) \/ DropPermit(k) \/ ReleasePermit(k)
  BY <1>2 DEF TakePermit, CountPermit, DropPermit, ReleasePermit
<1>3. CASE MoveChunk(k)
  BY <1>0, <1>3 DEF MoveChunk
<1>4. CASE ReadShutdown(k)
  BY <1>4, CleanedType DEF ReadShutdown
<1>5. CASE InsertSnapshot(k)
  <2>1. (IF run[k].saw THEN "Pending" ELSE "Cancelled") \in Finished \union Unfinished
    BY DEF Finished, Unfinished
  <2> QED
    BY <1>0, <1>5, <2>1, SetStateType DEF InsertSnapshot
<1>6. CASE MarkActive(k)
  BY <1>0, <1>6, SetStateType DEF MarkActive, SetLive, Unfinished
<1>7. CASE RegisterNested(k)
  BY <1>0, <1>7, RegisterOwnedType DEF RegisterNested
<1>8. CASE DropNested(k) \/ DropGuard(k)
  BY <1>0, <1>8, UnregisterType DEF DropNested, DropGuard
<1>9. CASE Report(k)
  <2>1. run[k].result \in Finished /\ run[k].id \in Transfers
    BY <1>0, <1>9 DEF Report, Placed
  <2>2. \A b \in BOOLEAN : (IF b THEN "Cancelled" ELSE run[k].result) \in Finished \union Unfinished
    BY <2>1 DEF Finished
  <2> QED
    BY <1>9, <2>1, <2>2, SetStateType DEF Report
<1> QED
  BY <1>1, <1>2, <1>3, <1>4, <1>5, <1>6, <1>7, <1>8, <1>9 DEF RunStep

\* A run begins.
LEMMA BeginTypes ==
  ASSUME Typed, NEW k \in Runs, NEW t \in Transfers, NEW n \in Nodes, Begin(k, t, n)
  PROVE  Advances(k) /\ controls' \in [Transfers -> Controls]
<1> DEFINE r == [run[k] EXCEPT !.at = "owned", !.id = t]
<1>1. run' = [run EXCEPT ![k] = r] /\ run[k] \in RunStates
  BY DEF Begin, Typed, TypeOK
<1>2. r \in RunStates
  BY <1>1 DEF RunStates, Places
<1>3. Placed(r)
  BY <1>1, TransferManagerAssumption DEF Typed, Placed, Begin, RunStates
<1> QED
  BY <1>1, <1>2, <1>3, ReplaceAdvances, RegisterOwnedType DEF Begin, Typed

-----------------------------------------------------------------------------
(* Steps of the others *)

\* A notification of all runs that wait for a permit.
LEMMA NotifyAvailabilityTypes ==
  ASSUME Typed, NotifyAvailability
  PROVE  /\ run' \in [Runs -> RunStates]
         /\ \A j \in Runs : Same(j)
         /\ \A j \in Runs : run'[j].at \in {"limit", "asleep"} => run'[j].woken
<1>1. \A j \in Runs : run[j] \in RunStates
  BY DEF Typed, TypeOK
<1>2. \A j \in Runs : \/ run'[j] = run[j] /\ run[j].at \notin {"limit", "asleep"}
                      \/ run'[j] = [run[j] EXCEPT !.woken = TRUE]
  BY DEF NotifyAvailability
<1>3. \A j \in Runs : run'[j] \in RunStates
  BY <1>1, <1>2, WokenType
<1>4. run' \in [Runs -> RunStates]
  BY <1>3 DEF NotifyAvailability
<1> QED
  BY <1>1, <1>2, <1>4 DEF RunStates, Same

\* The steps of the operator, the readers, the progress task and the shutdown.
OtherStep ==
    \/ \E t \in Transfers :
          \/ DeliverProgress(t) \/ Cancel(t) \/ Interrupt(t) \/ Watch(t)
          \/ \E call \in {"pause", "resume"} : SetPause(t, call)
    \/ \E n \in Nodes : InterruptNode(n)
    \/ \E n \in 0..(Permits + 1) : StoreLimit(n)
    \/ OperatorStep \/ List \/ ReaderStep
    \/ BeginShutdown \/ StopperStep

\* They keep the types, the places and the shape of the operator's call.
LEMMA OtherStepTypes == ASSUME Typed, OtherStep PROVE Typed'
<1> USE DEF Typed
<1>1. ASSUME NEW t \in Transfers, DeliverProgress(t)
      PROVE  Typed'
  <2>1. /\ table' \in [Transfers -> Finished \union Unfinished \union {"absent"}]
        /\ reader' \in Readers /\ reader'.at = reader.at /\ reader'.id = reader.id
    BY <1>1, SetStateType DEF DeliverProgress, SetLive, Unfinished, TypeOK
  <2> QED
    BY <1>1, <2>1 DEF DeliverProgress, TypeOK, OperatorPlaced, ShutdownPlaced, ReaderPlaced
<1>2. ASSUME NEW t \in Transfers, Cancel(t)
      PROVE  Typed'
  BY <1>2 DEF Cancel, TypeOK, Controls, OperatorPlaced, ShutdownPlaced, ReaderPlaced
<1>3. ASSUME NEW t \in Transfers, NEW more \in SUBSET Transfers, InterruptControl(t, more)
      PROVE  Typed'
  <2>1. controls' \in [Transfers -> Controls]
    BY <1>3, ZenonT(30) DEF InterruptControl, TypeOK, Controls
  <2> QED
    BY <1>3, <2>1 DEF InterruptControl, TypeOK, Operators, OperatorPlaced, ShutdownPlaced, ReaderPlaced
<1>4. ASSUME NEW t \in Transfers, Watch(t)
      PROVE  Typed'
  BY <1>4 DEF Watch, TypeOK, Readers, OperatorPlaced, ShutdownPlaced, ReaderPlaced
<1>5. ASSUME NEW t \in Transfers, NEW call \in {"pause", "resume"}, SetPause(t, call)
      PROVE  Typed'
  <2>1. controls' \in [Transfers -> Controls]
    BY <1>5, ZenonT(30) DEF SetPause, TypeOK, Controls
  <2>2. operator' \in Operators /\ operator'.call # "limit"
    BY <1>5 DEF SetPause, TypeOK, Operators, NoCall
  <2> QED
    BY <1>5, <2>1, <2>2 DEF SetPause, TypeOK, OperatorPlaced, ShutdownPlaced, ReaderPlaced
<1>6. ASSUME NEW n \in Nodes, InterruptNode(n)
      PROVE  Typed'
  BY <1>6 DEF InterruptNode, TypeOK, Operators, OperatorPlaced, ShutdownPlaced, ReaderPlaced
<1>7. ASSUME NEW n \in 0..(Permits + 1), StoreLimit(n)
      PROVE  Typed'
  <2>1. limit' \in 1..Permits
    BY <1>7, TransferManagerAssumption DEF StoreLimit, Clamp
  <2>2. operator' \in Operators /\ operator'.id = None
    BY <1>7 DEF StoreLimit, TypeOK, Operators, NoCall
  <2> QED
    BY <1>7, <2>1, <2>2 DEF StoreLimit, TypeOK, OperatorPlaced, ShutdownPlaced, ReaderPlaced
<1>8. CASE InterruptNext
  <2>1. PICK t \in operator.more : InterruptControl(t, operator.more \ {t})
    BY <1>8 DEF InterruptNext
  <2>2. t \in Transfers /\ operator.more \ {t} \in SUBSET Transfers
    BY DEF TypeOK, Operators
  <2> QED
    BY <2>1, <2>2, <1>3
<1>9. CASE WriteTable
  <2>1. operator.id \in Transfers
    BY <1>9 DEF WriteTable, TypeOK, Operators
  <2>2. /\ table' \in [Transfers -> Finished \union Unfinished \union {"absent"}]
        /\ reader' \in Readers /\ reader'.at = reader.at /\ reader'.id = reader.id
    BY <1>9, <2>1, SetStateType DEF WriteTable, SetLive, Finished, Unfinished, TypeOK
  <2>3. operator' \in Operators /\ (operator'.call = "limit" => operator'.id = None)
    BY <1>9 DEF WriteTable, TypeOK, Operators, NoCall
  <2> QED
    BY <1>9, <2>2, <2>3 DEF WriteTable, TypeOK, OperatorPlaced, ShutdownPlaced, ReaderPlaced
<1>10. CASE NotifyLimit
  <2>1. run' \in [Runs -> RunStates] /\ \A j \in Runs : Same(j)
    BY <1>10, NotifyAvailabilityTypes DEF NotifyLimit
  <2>2. \A j \in Runs : Placed(run[j])'
    BY <2>1 DEF Same, Placed
  <2>3. operator' \in Operators /\ operator'.id = None
    BY <1>10 DEF NotifyLimit, Operators, NoCall
  <2> QED
    BY <1>10, <2>1, <2>2, <2>3 DEF NotifyLimit, TypeOK, OperatorPlaced, ShutdownPlaced, ReaderPlaced
<1>11. CASE List
  BY <1>11, CleanedType DEF List, TypeOK, OperatorPlaced, ShutdownPlaced, ReaderPlaced
<1>12. CASE Look
  <2>1. reader' \in Readers /\ (reader'.at # "idle" => reader'.id \in Transfers)
    BY <1>12 DEF Look, TypeOK, Readers, NoReader, ReaderPlaced
  <2> QED
    BY <1>12, <2>1, CleanedType DEF Look, TypeOK, OperatorPlaced, ShutdownPlaced, ReaderPlaced
<1>13. CASE WakeReader
  BY <1>13 DEF WakeReader, TypeOK, Readers, OperatorPlaced, ShutdownPlaced, ReaderPlaced
<1>14. CASE BeginShutdown \/ EndShutdown
  BY <1>14 DEF BeginShutdown, EndShutdown, TypeOK, OperatorPlaced, ShutdownPlaced, ReaderPlaced
<1>15. CASE CancelControls
  <2>1. controls' \in [Transfers -> Controls]
    BY <1>15 DEF CancelControls, TypeOK, Controls
  <2> QED
    BY <1>15, <2>1 DEF CancelControls, TypeOK, OperatorPlaced, ShutdownPlaced, ReaderPlaced
<1>16. CASE SweepTable
  <2>1. table' \in [Transfers -> Finished \union Unfinished \union {"absent"}]
    BY <1>16 DEF SweepTable, TypeOK, Finished
  <2>2. reader' \in Readers /\ reader'.at = reader.at /\ reader'.id = reader.id
    BY <1>16 DEF SweepTable, TypeOK, Readers
  <2> QED
    BY <1>16, <2>1, <2>2 DEF SweepTable, TypeOK, OperatorPlaced, ShutdownPlaced, ReaderPlaced
<1> QED
  BY <1>1, <1>2, <1>3, <1>4, <1>5, <1>6, <1>7, <1>8, <1>9, <1>10, <1>11, <1>12, <1>13, <1>14,
     <1>15, <1>16 DEF OtherStep, Interrupt, OperatorStep, ReaderStep, StopperStep

\* Every step is one of a run, the beginning of one, or one of the others.
LEMMA StepKinds ==
  ASSUME Next
  PROVE  \/ \E k \in Runs : RunStep(k)
         \/ \E k \in Runs, t \in Transfers, n \in Nodes : Begin(k, t, n)
         \/ OtherStep
BY DEF Next, OtherStep

\* Every step keeps the types and the places.
LEMMA TypedNext == Typed /\ [Next]_vars => Typed'
<1> SUFFICES ASSUME Typed, [Next]_vars PROVE Typed'
  OBVIOUS
<1>1. ASSUME NEW k \in Runs, Advances(k)
      PROVE  \A j \in Runs : Placed(run[j])'
  BY <1>1 DEF Typed, Advances, Same, Placed
<1>2. ASSUME NEW k \in Runs, RunStep(k)
      PROVE  Typed'
  BY <1>1, <1>2, RunStepAdvances, RunStepTypes
     DEF Typed, TypeOK, Advances, OperatorPlaced, ShutdownPlaced, ReaderPlaced
<1>3. ASSUME NEW k \in Runs, NEW t \in Transfers, NEW n \in Nodes, Begin(k, t, n)
      PROVE  Typed'
  BY <1>1, <1>3, BeginTypes DEF Begin, Typed, TypeOK, Advances, OperatorPlaced, ShutdownPlaced, ReaderPlaced
<1>4. CASE UNCHANGED vars
  BY <1>4 DEF vars, Typed, TypeOK, Placed, OperatorPlaced, ShutdownPlaced, ReaderPlaced
<1> QED
  BY <1>2, <1>3, <1>4, StepKinds, OtherStepTypes

\* The inductive invariant holds in every state of a behaviour.
LEMMA TypedAlways == Spec => []Typed
BY TypedInit, TypedNext, PTL DEF Spec

\* Type correctness of the transfer manager: every field of SftpTransferManager and
\* every local of a run keeps its type, in particular the limit stays within 1 and
\* MAX_SFTP_CONCURRENT_TRANSFERS and a listed state is never the missing result of a
\* run that has not ended.
THEOREM TypeCorrect == Spec => []TypeOK
<1>1. Typed => TypeOK
  BY DEF Typed
<1> QED
  BY <1>1, TypedAlways, PTL

-----------------------------------------------------------------------------
(* Permits *)

\* Cardinalities of a set of runs with one more and one less.
LEMMA OneMore ==
  ASSUME NEW S \in SUBSET Runs, NEW k \in Runs
  PROVE  /\ Cardinality(S) \in Nat
         /\ k \notin S => Cardinality(S \union {k}) = Cardinality(S) + 1
         /\ k \in S => Cardinality(S \ {k}) = Cardinality(S) - 1 /\ Cardinality(S) > 0
<1>1. IsFiniteSet(S)
  BY FS_Subset, TransferManagerAssumption
<1>2. k \in S => Cardinality(S \ {k}) \in Nat /\ IsFiniteSet(S \ {k})
  BY <1>1, FS_RemoveElement, FS_CardinalityType
<1> QED
  BY <1>1, <1>2, FS_CardinalityType, FS_AddElement, FS_RemoveElement

\* A run that moves without taking, counting or giving back a permit.
LEMMA PermitsKept ==
  ASSUME Typed, PermitsCounted, NEW k \in Runs, Advances(k),
         run'[k].permit = run[k].permit,
         run'[k].at \in {"count", "notify", "permit"} <=> run[k].at \in {"count", "notify", "permit"},
         UNCHANGED <<active, semaphore>>
  PROVE  PermitsCounted'
<1>1. Holding' = Holding
  BY DEF Holding, Advances, Same
<1>2. Counted' = Counted
  BY <1>1 DEF Counted, Holding, Advances, Same
<1> QED
  BY <1>1, <1>2 DEF PermitsCounted

\* Taking, counting and giving back a permit keep active_count, the semaphore and the
\* runs that hold a permit in step; no other step touches any of them.
LEMMA PermitsNext ==
  ASSUME Typed, PermitsCounted, [Next]_vars
  PROVE  PermitsCounted'
<1>0. Holding \in SUBSET Runs /\ Counted \in SUBSET Runs
  BY DEF Holding, Counted
<1>t. TypeOK /\ \A j \in Runs : Placed(run[j]) /\ run[j] \in RunStates
  BY DEF Typed, TypeOK
<1>1. ASSUME NEW k \in Runs, RunStep(k)
      PROVE  PermitsCounted'
  <2>0. Advances(k)
    BY <1>1, RunStepAdvances
  <2>1. CASE TakePermit(k)
    <3>1. run[k].at = "acquire" /\ run'[k].at = "count" /\ run'[k].permit
      BY <1>t, <2>1 DEF TakePermit, TypeOK, RunStates
    <3>2. k \notin Holding /\ Holding' = Holding \union {k} /\ Counted' = Counted
      BY <1>t, <2>0, <3>1 DEF Holding, Counted, Advances, Same, Placed
    <3> QED
      BY <1>0, <2>1, <3>2, OneMore, TransferManagerAssumption DEF TakePermit, PermitsCounted, Typed, TypeOK
  <2>2. CASE CountPermit(k)
    <3>1. run[k].at = "count" /\ run'[k].at = "start" /\ run'[k].permit = run[k].permit
      BY <1>t, <2>2 DEF CountPermit, Goto, TypeOK, RunStates
    <3>2. Holding' = Holding /\ k \notin Counted /\ Counted' = Counted \union {k}
      BY <1>t, <2>0, <3>1 DEF Holding, Counted, Advances, Same, Placed
    <3> QED
      BY <1>0, <2>2, <3>2, OneMore DEF CountPermit, PermitsCounted
  <2>3. CASE DropPermit(k)
    <3>1. run[k].at = "drop" /\ run'[k].at = "notify" /\ run'[k].permit = run[k].permit
      BY <1>t, <2>3 DEF DropPermit, Goto, TypeOK, RunStates
    <3>2. Holding' = Holding /\ k \in Counted /\ Counted' = Counted \ {k}
      BY <1>t, <2>0, <3>1 DEF Holding, Counted, Advances, Same, Placed
    <3> QED
      BY <1>0, <2>3, <3>2, OneMore DEF DropPermit, PermitsCounted
  <2>4. CASE ReleasePermit(k)
    <3>1. run[k].at = "permit" /\ run'[k].at = "release" /\ ~run'[k].permit
      BY <1>t, <2>4 DEF ReleasePermit, TypeOK, RunStates
    <3>2. k \in Holding /\ Holding' = Holding \ {k} /\ Counted' = Counted
      BY <1>t, <2>0, <3>1 DEF Holding, Counted, Advances, Same, Placed
    <3> QED
      BY <1>0, <2>4, <3>2, OneMore, TransferManagerAssumption
         DEF ReleasePermit, PermitsCounted, Typed, TypeOK
  <2>5. CASE \/ BadArguments(k) \/ RegisterNested(k) \/ MoveChunk(k) \/ DropNested(k)
             \/ MarkActive(k) \/ Report(k)
    <3>1. /\ run'[k].permit = run[k].permit
          /\ run[k].at \notin {"count", "notify", "permit"}
          /\ run'[k].at \notin {"count", "notify", "permit"}
      BY <1>t, <2>5 DEF BadArguments, RegisterNested, MoveChunk, DropNested, MarkActive, Report,
         Goto, TypeOK, RunStates
    <3>2. UNCHANGED <<active, semaphore>>
      BY <2>5 DEF BadArguments, RegisterNested, MoveChunk, DropNested, MarkActive, Report
    <3> QED
      BY <2>0, <3>1, <3>2, PermitsKept
  <2>6. CASE \/ ReadShutdown(k) \/ InsertSnapshot(k) \/ Listen(k) \/ CompareLimit(k)
             \/ WakeRun(k) \/ CheckControl(k) \/ EndData(k)
    <3>1. /\ run'[k].permit = run[k].permit
          /\ run[k].at \notin {"count", "notify", "permit"}
          /\ run'[k].at \notin {"count", "notify", "permit"}
      BY <1>t, <2>6 DEF ReadShutdown, InsertSnapshot, Listen, CompareLimit, WakeRun, CheckControl,
         EndData, Goto, TypeOK, RunStates
    <3>2. UNCHANGED <<active, semaphore>>
      BY <2>6 DEF ReadShutdown, InsertSnapshot, Listen, CompareLimit, WakeRun, CheckControl, EndData
    <3> QED
      BY <2>0, <3>1, <3>2, PermitsKept
  <2>7. CASE NotifyDrop(k)
    <3>1. run[k].at = "notify" /\ run'[k].at = "permit" /\ run'[k].permit = run[k].permit
      BY <1>t, <2>7 DEF NotifyDrop, TypeOK, RunStates
    <3> QED
      BY <2>0, <2>7, <3>1, PermitsKept DEF NotifyDrop
  <2>8. CASE DropGuard(k)
    <3>1. /\ run[k].at = "release" /\ ~run[k].permit
          /\ run'[k].at = "done" /\ run'[k].permit = FALSE
      BY <1>t, <2>8 DEF DropGuard, NoRun, TypeOK, RunStates, Placed
    <3>2. run'[k].permit = run[k].permit
      BY <1>t, <3>1 DEF RunStates
    <3> QED
      BY <2>0, <2>8, <3>1, <3>2, PermitsKept DEF DropGuard
  <2> QED
    BY <1>1, <2>1, <2>2, <2>3, <2>4, <2>5, <2>6, <2>7, <2>8 DEF RunStep
<1>2. ASSUME NEW k \in Runs, NEW t \in Transfers, NEW n \in Nodes, Begin(k, t, n)
      PROVE  PermitsCounted'
  <2>1. run[k].at = "idle" /\ run'[k].at = "owned" /\ run'[k].permit = run[k].permit
    BY <1>t, <1>2 DEF Begin, TypeOK, RunStates
  <2> QED
    BY <1>2, <2>1, BeginTypes, PermitsKept DEF Begin
<1>3. ASSUME OtherStep
      PROVE  PermitsCounted'
  <2>1. UNCHANGED <<active, semaphore>>
    BY <1>3 DEF OtherStep, DeliverProgress, Cancel, Interrupt, Watch, SetPause, InterruptNode,
       StoreLimit, OperatorStep, InterruptNext, InterruptControl, WriteTable, NotifyLimit, List,
       ReaderStep, Look, WakeReader, BeginShutdown, StopperStep, CancelControls, SweepTable,
       EndShutdown
  <2>2. UNCHANGED run \/ NotifyAvailability
    BY <1>3 DEF OtherStep, DeliverProgress, Cancel, Interrupt, Watch, SetPause, InterruptNode,
       StoreLimit, OperatorStep, InterruptNext, InterruptControl, WriteTable, NotifyLimit, List,
       ReaderStep, Look, WakeReader, BeginShutdown, StopperStep, CancelControls, SweepTable,
       EndShutdown
  <2>3. \A j \in Runs : run'[j].permit = run[j].permit /\ run'[j].at = run[j].at
    BY <2>2, NotifyAvailabilityTypes DEF Same
  <2>4. Holding' = Holding /\ Counted' = Counted
    BY <2>3 DEF Holding, Counted
  <2> QED
    BY <2>1, <2>4 DEF PermitsCounted
<1>4. CASE UNCHANGED vars
  BY <1>4 DEF vars, PermitsCounted, Holding, Counted
<1> QED
  BY <1>1, <1>2, <1>3, <1>4, StepKinds

\* acquire_permit and the drop of a permit never leak or forge a permit, whatever runs
\* interleave: active_count counts exactly the runs between fetch_add and fetch_sub,
\* the semaphore has exactly the permits that nobody holds.
THEOREM PermitsAreCounted == Spec => []PermitsCounted
<1>1. Init => PermitsCounted
  <2> SUFFICES ASSUME Init PROVE PermitsCounted
    OBVIOUS
  <2>1. Holding = {} /\ Counted = {}
    BY DEF Init, Holding, Counted, NoRun
  <2> QED
    BY <2>1, FS_EmptySet, TransferManagerAssumption DEF Init, PermitsCounted
<1>2. Typed /\ PermitsCounted /\ [Next]_vars => PermitsCounted'
  BY PermitsNext
<1> QED
  BY <1>1, <1>2, TypedAlways, PTL DEF Spec

-----------------------------------------------------------------------------
(* Controls *)

\* Nobody but the runs changes the number of owners of a control.
LEMMA OtherStepOwners ==
  ASSUME Typed, OtherStep
  PROVE  /\ \A t \in Transfers : controls'[t].owners = controls[t].owners
         /\ \A j \in Runs : run'[j].id = run[j].id /\ run'[j].at = run[j].at
<1>1. \/ UNCHANGED controls
      \/ \E t \in Transfers : controls' = [controls EXCEPT ![t].cancelled = TRUE]
      \/ \E t \in Transfers, b \in BOOLEAN : controls' = [controls EXCEPT ![t].paused = b]
      \/ \E t \in Transfers : \E more : InterruptControl(t, more)
      \/ CancelControls
  <2>1. OperatorStep => UNCHANGED controls \/ \E t \in Transfers : \E more : InterruptControl(t, more)
    <3>1. operator.more \subseteq Transfers
      BY DEF Typed, TypeOK, Operators
    <3> QED
      BY <3>1 DEF OperatorStep, InterruptNext, WriteTable, NotifyLimit
  <2>2. ASSUME NEW t \in Transfers, NEW call \in {"pause", "resume"}, SetPause(t, call)
        PROVE  \E b \in BOOLEAN : controls' = [controls EXCEPT ![t].paused = b]
    BY <2>2, (call = "pause") \in BOOLEAN DEF SetPause
  <2> QED
    BY <2>1, <2>2 DEF OtherStep, DeliverProgress, Cancel, Interrupt, Watch, InterruptNode, StoreLimit,
       List, ReaderStep, Look, WakeReader, BeginShutdown, StopperStep, SweepTable, EndShutdown
<1>2. \A t \in Transfers : controls'[t].owners = controls[t].owners
  <2>1. CASE \E t \in Transfers : controls' = [controls EXCEPT ![t].cancelled = TRUE]
    BY <2>1 DEF Typed, TypeOK, Controls
  <2>2. CASE \E t \in Transfers, b \in BOOLEAN : controls' = [controls EXCEPT ![t].paused = b]
    BY <2>2 DEF Typed, TypeOK, Controls
  <2>3. CASE \E t \in Transfers : \E more : InterruptControl(t, more)
    BY <2>3 DEF Typed, TypeOK, Controls, InterruptControl
  <2>4. CASE CancelControls
    BY <2>4 DEF Typed, TypeOK, Controls, CancelControls
  <2> QED
    BY <1>1, <2>1, <2>2, <2>3, <2>4
<1>3. UNCHANGED run \/ NotifyAvailability
  BY DEF OtherStep, DeliverProgress, Cancel, Interrupt, Watch, SetPause, InterruptNode,
     StoreLimit, OperatorStep, InterruptNext, InterruptControl, WriteTable, NotifyLimit, List,
     ReaderStep, Look, WakeReader, BeginShutdown, StopperStep, CancelControls, SweepTable,
     EndShutdown
<1> QED
  BY <1>2, <1>3, NotifyAvailabilityTypes DEF Same

\* register_owned and unregister change one count by one.
LEMMA RegisterCounts ==
  ASSUME Typed, NEW t \in Transfers, NEW n \in Nodes \union {None}, RegisterOwned(t, n)
  PROVE  /\ controls'[t].owners = controls[t].owners + 1
         /\ \A u \in Transfers \ {t} : controls'[u] = controls[u]
BY DEF RegisterOwned, NoControl, Typed, TypeOK, Controls

\* unregister counts down the owners of its transfer alone.
LEMMA UnregisterCounts ==
  ASSUME Typed, NEW t \in Transfers, Unregister(t), controls[t].owners > 0
  PROVE  /\ controls'[t].owners = controls[t].owners - 1
         /\ \A u \in Transfers \ {t} : controls'[u] = controls[u]
BY DEF Unregister, NoControl, Typed, TypeOK, Controls

\* The places of a run that holds the second registration.
Nested == {"check", "chunk", "unnest"}

\* Every step that registers or unregisters a run moves the run between the owners and
\* the others, so that the count of a control follows.
LEMMA ControlsNext ==
  ASSUME Typed, ControlsOwned, [Next]_vars
  PROVE  ControlsOwned'
<1>0. \A t \in Transfers : Owners(t) \in SUBSET Runs /\ NestedOwners(t) \in SUBSET Runs
  BY DEF Owners, NestedOwners
<1>n. \A t \in Transfers : controls[t].owners \in Nat
  BY DEF Typed, TypeOK, Controls
<1>t. TypeOK /\ \A j \in Runs : Placed(run[j]) /\ run[j] \in RunStates
  BY DEF Typed, TypeOK
<1>s. ASSUME NEW k \in Runs, Advances(k)
      PROVE  \A j \in Runs \ {k} : run'[j].id = run[j].id /\ run'[j].at = run[j].at
  BY <1>s DEF Advances, Same
<1>1. ASSUME NEW k \in Runs, RunStep(k)
      PROVE  ControlsOwned'
  <2>0. \A j \in Runs \ {k} : run'[j].id = run[j].id /\ run'[j].at = run[j].at
    BY <1>1, <1>s, RunStepAdvances
  <2>1. CASE RegisterNested(k)
    <3>0. PICK t \in Transfers : t = run[k].id
      BY <1>t, <2>1 DEF RegisterNested, TypeOK, RunStates, Placed
    <3>1. /\ run[k].at = "nested" /\ run[k].id = t
          /\ run'[k].at = "check" /\ run'[k].id = t
      BY <1>t, <2>1, <3>0 DEF RegisterNested, Goto, TypeOK, RunStates, Placed
    <3>2. \A u \in Transfers : Owners(u)' = Owners(u)
      BY <2>0, <3>1 DEF Owners
    <3>3. /\ k \notin NestedOwners(t) /\ NestedOwners(t)' = NestedOwners(t) \union {k}
          /\ \A u \in Transfers \ {t} : NestedOwners(u)' = NestedOwners(u)
      BY <2>0, <3>1, <3>2 DEF NestedOwners, Owners
    <3>4. /\ controls'[t].owners = controls[t].owners + 1
          /\ \A u \in Transfers \ {t} : controls'[u] = controls[u]
      BY <2>1, <3>1, RegisterCounts DEF RegisterNested
    <3>5. Cardinality(NestedOwners(t)') = Cardinality(NestedOwners(t)) + 1
      BY <1>0, <3>1, <3>3, OneMore
    <3>6. Cardinality(NestedOwners(t)) \in Nat /\ Cardinality(Owners(t)) \in Nat
      BY <1>0, <3>1, OneMore
    <3>7. controls'[t].owners = Cardinality(Owners(t)') + Cardinality(NestedOwners(t)')
      BY <3>1, <3>2, <3>4, <3>5, <3>6 DEF ControlsOwned
    <3>8. \A u \in Transfers \ {t} :
             controls'[u].owners = Cardinality(Owners(u)') + Cardinality(NestedOwners(u)')
      BY <3>2, <3>3, <3>4 DEF ControlsOwned
    <3> QED
      BY <3>7, <3>8 DEF ControlsOwned
  <2>2. CASE DropNested(k)
    <3>0. PICK t \in Transfers : t = run[k].id
      BY <1>t, <2>2 DEF DropNested, TypeOK, RunStates, Placed
    <3>1. /\ run[k].at = "unnest" /\ run[k].id = t
          /\ run'[k].at = "report" /\ run'[k].id = t
      BY <1>t, <2>2, <3>0 DEF DropNested, Goto, TypeOK, RunStates, Placed
    <3>2. \A u \in Transfers : Owners(u)' = Owners(u)
      BY <2>0, <3>1 DEF Owners
    <3>3. /\ k \in NestedOwners(t) /\ NestedOwners(t)' = NestedOwners(t) \ {k}
          /\ \A u \in Transfers \ {t} : NestedOwners(u)' = NestedOwners(u)
      BY <2>0, <3>1, <3>2 DEF NestedOwners, Owners
    <3>5. /\ Cardinality(NestedOwners(t)') = Cardinality(NestedOwners(t)) - 1
          /\ Cardinality(NestedOwners(t)) > 0
      BY <1>0, <3>1, <3>3, OneMore
    <3>6. Cardinality(NestedOwners(t)) \in Nat /\ Cardinality(Owners(t)) \in Nat
      BY <1>0, <3>1, OneMore
    <3>9. controls[t].owners > 0
      BY <3>1, <3>5, <3>6 DEF ControlsOwned
    <3>4. /\ controls'[t].owners = controls[t].owners - 1
          /\ \A u \in Transfers \ {t} : controls'[u] = controls[u]
      BY <2>2, <3>1, <3>9, UnregisterCounts DEF DropNested
    <3>7. controls'[t].owners = Cardinality(Owners(t)') + Cardinality(NestedOwners(t)')
      BY <3>1, <3>2, <3>4, <3>5, <3>6 DEF ControlsOwned
    <3>8. \A u \in Transfers \ {t} :
             controls'[u].owners = Cardinality(Owners(u)') + Cardinality(NestedOwners(u)')
      BY <3>2, <3>3, <3>4 DEF ControlsOwned
    <3> QED
      BY <3>7, <3>8 DEF ControlsOwned
  <2>3. CASE DropGuard(k)
    <3>0. PICK t \in Transfers : t = run[k].id
      BY <1>t, <2>3 DEF DropGuard, TypeOK, RunStates, Placed
    <3>1. /\ run[k].at = "release" /\ run[k].id = t
          /\ run'[k].at = "done" /\ run'[k].id = None
      BY <1>t, <2>3, <3>0 DEF DropGuard, NoRun, TypeOK, RunStates, Placed
    <3>2. /\ k \in Owners(t) /\ Owners(t)' = Owners(t) \ {k}
          /\ \A u \in Transfers \ {t} : Owners(u)' = Owners(u)
      BY <2>0, <3>1, TransferManagerAssumption DEF Owners
    <3>3. \A u \in Transfers : NestedOwners(u)' = NestedOwners(u)
      BY <2>0, <3>1, <3>2 DEF NestedOwners, Owners
    <3>5. /\ Cardinality(Owners(t)') = Cardinality(Owners(t)) - 1
          /\ Cardinality(Owners(t)) > 0
      BY <1>0, <3>1, <3>2, OneMore
    <3>6. Cardinality(NestedOwners(t)) \in Nat /\ Cardinality(Owners(t)) \in Nat
      BY <1>0, <3>1, OneMore
    <3>9. controls[t].owners > 0
      BY <3>1, <3>5, <3>6 DEF ControlsOwned
    <3>4. /\ controls'[t].owners = controls[t].owners - 1
          /\ \A u \in Transfers \ {t} : controls'[u] = controls[u]
      BY <2>3, <3>1, <3>9, UnregisterCounts DEF DropGuard
    <3>7. controls'[t].owners = Cardinality(Owners(t)') + Cardinality(NestedOwners(t)')
      BY <3>1, <3>3, <3>4, <3>5, <3>6 DEF ControlsOwned
    <3>8. \A u \in Transfers \ {t} :
             controls'[u].owners = Cardinality(Owners(u)') + Cardinality(NestedOwners(u)')
      BY <3>2, <3>3, <3>4 DEF ControlsOwned
    <3> QED
      BY <3>7, <3>8 DEF ControlsOwned
  <2>4. ASSUME UNCHANGED controls, run'[k].id = run[k].id,
               run'[k].at \in Nested <=> run[k].at \in Nested
        PROVE  ControlsOwned'
    <3>1. \A u \in Transfers : Owners(u)' = Owners(u) /\ NestedOwners(u)' = NestedOwners(u)
      BY <2>0, <2>4 DEF Owners, NestedOwners, Nested
    <3> QED
      BY <2>4, <3>1 DEF ControlsOwned
  <2>5. CASE \/ BadArguments(k) \/ CountPermit(k) \/ MarkActive(k) \/ MoveChunk(k)
             \/ Report(k) \/ DropPermit(k)
    <3>1. run'[k].id = run[k].id /\ (run'[k].at \in Nested <=> run[k].at \in Nested)
      BY <1>t, <2>5 DEF BadArguments, CountPermit, MarkActive, MoveChunk, Report, DropPermit, Goto,
         TypeOK, RunStates, Nested
    <3> QED
      BY <2>4, <2>5, <3>1 DEF BadArguments, CountPermit, MarkActive, MoveChunk, Report, DropPermit
  <2>6. CASE \/ ReadShutdown(k) \/ InsertSnapshot(k) \/ Listen(k) \/ CompareLimit(k) \/ WakeRun(k)
             \/ TakePermit(k)
    <3>1. run'[k].id = run[k].id /\ (run'[k].at \in Nested <=> run[k].at \in Nested)
      BY <1>t, <2>6 DEF ReadShutdown, InsertSnapshot, Listen, CompareLimit, WakeRun, TakePermit, Goto,
         TypeOK, RunStates, Nested
    <3> QED
      BY <2>4, <2>6, <3>1 DEF ReadShutdown, InsertSnapshot, Listen, CompareLimit, WakeRun, TakePermit
  <2>7. CASE CheckControl(k) \/ EndData(k) \/ NotifyDrop(k) \/ ReleasePermit(k)
    <3>1. run'[k].id = run[k].id /\ (run'[k].at \in Nested <=> run[k].at \in Nested)
      BY <1>t, <2>7 DEF CheckControl, EndData, NotifyDrop, ReleasePermit, TypeOK, RunStates, Nested
    <3> QED
      BY <2>4, <2>7, <3>1 DEF CheckControl, EndData, NotifyDrop, ReleasePermit
  <2> QED
    BY <1>1, <2>1, <2>2, <2>3, <2>5, <2>6, <2>7 DEF RunStep
<1>2. ASSUME NEW k \in Runs, NEW t \in Transfers, NEW n \in Nodes, Begin(k, t, n)
      PROVE  ControlsOwned'
  <2>0. \A j \in Runs \ {k} : run'[j].id = run[j].id /\ run'[j].at = run[j].at
    BY <1>2, <1>s, BeginTypes
  <2>1. run[k].at = "idle" /\ run[k].id = None /\ run'[k].at = "owned" /\ run'[k].id = t
    BY <1>t, <1>2 DEF Begin, TypeOK, RunStates, Placed
  <2>2. /\ k \notin Owners(t) /\ Owners(t)' = Owners(t) \union {k}
        /\ \A u \in Transfers \ {t} : Owners(u)' = Owners(u)
    BY <2>0, <2>1, TransferManagerAssumption DEF Owners
  <2>3. \A u \in Transfers : NestedOwners(u)' = NestedOwners(u)
    BY <2>0, <2>1, TransferManagerAssumption DEF NestedOwners, Owners
  <2>4. /\ controls'[t].owners = controls[t].owners + 1
        /\ \A u \in Transfers \ {t} : controls'[u] = controls[u]
    BY <1>2, RegisterCounts DEF Begin
  <2>5. Cardinality(Owners(t)') = Cardinality(Owners(t)) + 1
    BY <1>0, <2>2, OneMore
  <2>6. Cardinality(NestedOwners(t)) \in Nat /\ Cardinality(Owners(t)) \in Nat
    BY <1>0, OneMore
  <2>7. controls'[t].owners = Cardinality(Owners(t)') + Cardinality(NestedOwners(t)')
    BY <2>3, <2>4, <2>5, <2>6 DEF ControlsOwned
  <2>8. \A u \in Transfers \ {t} :
           controls'[u].owners = Cardinality(Owners(u)') + Cardinality(NestedOwners(u)')
    BY <2>2, <2>3, <2>4 DEF ControlsOwned
  <2> QED
    BY <2>7, <2>8 DEF ControlsOwned
<1>3. CASE OtherStep
  <2>1. \A u \in Transfers : Owners(u)' = Owners(u) /\ NestedOwners(u)' = NestedOwners(u)
    BY <1>3, OtherStepOwners DEF Owners, NestedOwners
  <2> QED
    BY <1>3, <2>1, OtherStepOwners DEF ControlsOwned
<1>4. CASE UNCHANGED vars
  BY <1>4 DEF vars, ControlsOwned, Owners, NestedOwners
<1> QED
  BY <1>1, <1>2, <1>3, <1>4, StepKinds

\* A control lives exactly as long as the guards of the runs that share it: a cancel,
\* a pause or an interruption finds it until the last owner is gone, and none outlives
\* its runs, although two runs of one id register, nest and unregister in any order.
THEOREM ControlsAreOwned == Spec => []ControlsOwned
<1>1. Init => ControlsOwned
  <2> SUFFICES ASSUME Init PROVE ControlsOwned
    OBVIOUS
  <2>1. \A t \in Transfers : Owners(t) = {} /\ NestedOwners(t) = {}
    BY TransferManagerAssumption DEF Init, Owners, NestedOwners, NoRun
  <2>2. Cardinality({}) = 0
    BY FS_EmptySet
  <2>3. \A t \in Transfers : controls[t].owners = 0
    BY DEF Init, NoControl
  <2> QED
    BY <2>1, <2>2, <2>3 DEF ControlsOwned
<1>2. Typed /\ ControlsOwned /\ [Next]_vars => ControlsOwned'
  BY ControlsNext
<1> QED
  BY <1>1, <1>2, TypedAlways, PTL DEF Spec

-----------------------------------------------------------------------------
(* Wake-ups of the runs that wait for a permit *)

\* A step of a run that neither makes room nor notifies, and does not fall asleep
\* below the limit, gives no sleeper a new reason to wait.
LEMMA SleepersKept ==
  ASSUME Typed, SleeperHasReason, NEW k \in Runs, Advances(k),
         UNCHANGED <<operator, limit>>, active' >= active, active' \in Int,
         run[k].at # "notify",
         run'[k].at = "asleep" => active >= limit
  PROVE  SleeperHasReason'
<1> SUFFICES ASSUME NEW j \in Runs, run'[j].at = "asleep", ~run'[j].woken, active' < limit'
             PROVE  operator'.call = "limit" \/ \E i \in Runs : run'[i].at = "notify"
  BY DEF SleeperHasReason
<1>1. active \in Int /\ limit \in Int
  BY DEF Typed, TypeOK
<1>2. active < limit
  BY <1>1
<1>3. j # k
  BY <1>1, <1>2
<1>4. run[j].at = "asleep" /\ ~run[j].woken
  BY <1>3 DEF Advances, Same
<1>5. operator.call = "limit" \/ \E i \in Runs : run[i].at = "notify"
  BY <1>2, <1>4 DEF SleeperHasReason
<1> QED
  BY <1>5 DEF Advances, Same

\* Whatever makes room below the limit leaves somebody behind who will notify.
LEMMA SleeperNext ==
  ASSUME Typed, SleeperHasReason, [Next]_vars
  PROVE  SleeperHasReason'
<1>t. TypeOK /\ \A j \in Runs : run[j] \in RunStates
  BY DEF Typed, TypeOK
<1>i. active \in Int /\ limit \in Int
  BY DEF Typed, TypeOK
<1>1. ASSUME NEW k \in Runs, RunStep(k)
      PROVE  SleeperHasReason'
  <2>0. Advances(k) /\ UNCHANGED <<operator, limit>>
    BY <1>1, RunStepAdvances, RunStepTypes
  <2>1. CASE DropPermit(k)
    <3>1. run'[k].at = "notify"
      BY <1>t, <2>1 DEF DropPermit, Goto, TypeOK, RunStates
    <3> QED
      BY <3>1 DEF SleeperHasReason
  <2>2. CASE NotifyDrop(k)
    <3>1. \A j \in Runs : run'[j].at = "asleep" => run'[j].woken
      BY <1>t, <2>2 DEF NotifyDrop, TypeOK, RunStates
    <3> QED
      BY <3>1 DEF SleeperHasReason
  <2>3. CASE CompareLimit(k)
    <3>1. /\ run[k].at = "limit" /\ UNCHANGED active
          /\ run'[k].at = "asleep" => active >= limit
      BY <1>t, <1>i, <2>3 DEF CompareLimit, Goto, TypeOK, RunStates
    <3> QED
      BY <1>i, <2>0, <3>1, SleepersKept
  <2>4. CASE \/ BadArguments(k) \/ CountPermit(k) \/ MarkActive(k) \/ MoveChunk(k)
             \/ Report(k) \/ RegisterNested(k) \/ DropNested(k) \/ DropGuard(k)
    <3>1. run[k].at # "notify" /\ run'[k].at # "asleep"
      BY <1>t, <2>4 DEF BadArguments, CountPermit, MarkActive, MoveChunk, Report, RegisterNested,
         DropNested, DropGuard, Goto, NoRun, TypeOK, RunStates
    <3>2. active' \in Int /\ active' >= active
      BY <1>i, <2>4 DEF BadArguments, CountPermit, MarkActive, MoveChunk, Report, RegisterNested,
         DropNested, DropGuard
    <3> QED
      BY <2>0, <3>1, <3>2, SleepersKept
  <2>5. CASE \/ ReadShutdown(k) \/ InsertSnapshot(k) \/ Listen(k) \/ WakeRun(k) \/ TakePermit(k)
             \/ CheckControl(k) \/ EndData(k) \/ ReleasePermit(k)
    <3>1. run[k].at # "notify" /\ run'[k].at # "asleep"
      BY <1>t, <2>5 DEF ReadShutdown, InsertSnapshot, Listen, WakeRun, TakePermit, CheckControl,
         EndData, ReleasePermit, TypeOK, RunStates
    <3>2. UNCHANGED active
      BY <2>5 DEF ReadShutdown, InsertSnapshot, Listen, WakeRun, TakePermit, CheckControl,
         EndData, ReleasePermit
    <3> QED
      BY <1>i, <2>0, <3>1, <3>2, SleepersKept
  <2> QED
    BY <1>1, <2>1, <2>2, <2>3, <2>4, <2>5 DEF RunStep
<1>2. ASSUME NEW k \in Runs, NEW t \in Transfers, NEW n \in Nodes, Begin(k, t, n)
      PROVE  SleeperHasReason'
  <2>1. run[k].at = "idle" /\ run'[k].at = "owned"
    BY <1>t, <1>2 DEF Begin, TypeOK, RunStates
  <2>2. Advances(k) /\ UNCHANGED <<operator, limit, active>>
    BY <1>2, BeginTypes DEF Begin
  <2>3. active' >= active /\ active' \in Int
    BY <1>i, <2>2
  <2> QED
    BY <2>1, <2>2, <2>3, SleepersKept
<1>3. CASE OtherStep
  <2>1. CASE NotifyLimit
    BY <2>1, NotifyAvailabilityTypes DEF NotifyLimit, SleeperHasReason
  <2>2. CASE \E n \in 0..(Permits + 1) : StoreLimit(n)
    BY <2>2 DEF StoreLimit, NoCall, SleeperHasReason
  <2>3. CASE InterruptNext \/ WriteTable
    <3>1. operator.call # "limit" /\ UNCHANGED <<run, active, limit>>
      BY <2>3 DEF InterruptNext, InterruptControl, WriteTable, Typed, OperatorPlaced
    <3> QED
      BY <3>1 DEF SleeperHasReason
  <2>4. CASE (\E t \in Transfers : Interrupt(t) \/ \E call \in {"pause", "resume"} : SetPause(t, call))
             \/ \E n \in Nodes : InterruptNode(n)
    <3>1. operator = NoCall /\ UNCHANGED <<run, active, limit>>
      BY <2>4 DEF Interrupt, InterruptControl, SetPause, InterruptNode
    <3>2. operator.call # "limit"
      BY <3>1 DEF NoCall
    <3> QED
      BY <3>1, <3>2 DEF SleeperHasReason
  <2>5. CASE \/ \E t \in Transfers : DeliverProgress(t) \/ Cancel(t) \/ Watch(t)
             \/ List \/ ReaderStep \/ BeginShutdown \/ StopperStep
    <3>1. UNCHANGED <<operator, run, active, limit>>
      BY <2>5 DEF DeliverProgress, Cancel, Watch, List, ReaderStep, Look, WakeReader, BeginShutdown,
         StopperStep, CancelControls, SweepTable, EndShutdown
    <3> QED
      BY <3>1 DEF SleeperHasReason
  <2> QED
    BY <1>3, <2>1, <2>2, <2>3, <2>4, <2>5 DEF OtherStep, OperatorStep
<1>4. CASE UNCHANGED vars
  BY <1>4 DEF vars, SleeperHasReason
<1> QED
  BY <1>1, <1>2, <1>3, <1>4, StepKinds

\* acquire_permit loses no wake-up: its Notified future exists before the comparison,
\* and whoever makes room below the limit still has its notify_waiters to call.
THEOREM NoSleeperIsForgotten == Spec => []SleeperHasReason
<1>1. Init => SleeperHasReason
  BY DEF Init, NoRun, SleeperHasReason
<1>2. Typed /\ SleeperHasReason /\ [Next]_vars => SleeperHasReason'
  BY SleeperNext
<1> QED
  BY <1>1, <1>2, TypedAlways, PTL DEF Spec

-----------------------------------------------------------------------------
(* The list *)

\* A listed transfer that is not finished is moved on.
Moved(t) ==
    /\ IsLive(t)
    /\ \E s \in {"Active", "Paused", "Error"} \union (IF table[t] = "Paused" THEN {"Pending"} ELSE {}) :
          SetState(t, s)

\* What each step does to the list and to a reader.
LEMMA RunStepTable ==
  ASSUME Typed, NEW k \in Runs, RunStep(k)
  PROVE  \/ UNCHANGED <<table, reader>>
         \/ InsertSnapshot(k)
         \/ Report(k)
         \/ MarkActive(k) /\ Moved(run[k].id)
         \/ ReadShutdown(k)
<1>1. CASE MarkActive(k)
  <2>1. CASE IsLive(run[k].id)
    BY <1>1, <2>1 DEF MarkActive, SetLive, Moved
  <2>2. CASE ~IsLive(run[k].id)
    BY <1>1, <2>2 DEF MarkActive, SetLive
  <2> QED
    BY <2>1, <2>2
<1> QED
  BY <1>1 DEF RunStep, BadArguments, Listen, CompareLimit, WakeRun, TakePermit, CountPermit,
     RegisterNested, CheckControl, MoveChunk, EndData, DropNested, DropPermit, NotifyDrop,
     ReleasePermit, DropGuard

\* What the steps of everybody else do to the list.
LEMMA OtherStepTable ==
  ASSUME Typed, OtherStep
  PROVE  \/ UNCHANGED <<table, reader>>
         \/ UNCHANGED table /\ reader'.at = "look"
         \/ \E t \in Transfers : Moved(t)
         \/ table' \in Cleaned(table) /\ UNCHANGED reader
         \/ Look
         \/ SweepTable
<1>1. ASSUME NEW t \in Transfers, NEW s \in {"Active", "Paused", "Error"}, SetLive(t, s)
      PROVE  UNCHANGED <<table, reader>> \/ \E u \in Transfers : Moved(u)
  <2>1. CASE IsLive(t)
    BY <1>1, <2>1 DEF SetLive, Moved
  <2>2. CASE ~IsLive(t)
    BY <1>1, <2>2 DEF SetLive
  <2> QED
    BY <2>1, <2>2
<1>2. ASSUME NEW t \in Transfers, DeliverProgress(t)
      PROVE  UNCHANGED <<table, reader>> \/ \E u \in Transfers : Moved(u)
  BY <1>1, <1>2 DEF DeliverProgress
<1>3. CASE WriteTable
  <2>0. operator.id \in Transfers
    BY <1>3 DEF WriteTable, Typed, TypeOK, Operators
  <2>1. CASE operator.call = "resume"
    <3>1. CASE table[operator.id] = "Paused"
      BY <1>3, <2>0, <2>1, <3>1 DEF WriteTable, Moved, IsLive, Unfinished
    <3>2. CASE table[operator.id] # "Paused"
      BY <1>3, <2>1, <3>2 DEF WriteTable
    <3> QED
      BY <3>1, <3>2
  <2>2. CASE operator.call # "resume"
    BY <1>1, <1>3, <2>0, <2>2 DEF WriteTable
  <2> QED
    BY <2>1, <2>2
<1>4. ASSUME NEW t \in Transfers, Watch(t)
      PROVE  UNCHANGED table /\ reader'.at = "look"
  BY <1>4 DEF Watch
<1>5. CASE WakeReader
  BY <1>5 DEF WakeReader, Typed, TypeOK, Readers
<1>6. CASE List
  BY <1>6 DEF List
<1> QED
  BY <1>2, <1>3, <1>4, <1>5, <1>6 DEF OtherStep, Cancel, Interrupt, SetPause, InterruptNode,
     StoreLimit, OperatorStep, InterruptNext, InterruptControl, NotifyLimit, ReaderStep,
     BeginShutdown, StopperStep, CancelControls, EndShutdown

\* A write to the list wakes the reader.
LEMMA SetStateWakes ==
  ASSUME Typed, NEW t, NEW s, SetState(t, s)
  PROVE  reader'.at = "asleep" => reader'.woken
BY DEF SetState, Typed, TypeOK, Readers

\* Forgetting finished transfers does not touch the others.
LEMMA CleanedKeeps ==
  ASSUME Typed, table' \in Cleaned(table), NEW t \in Transfers, IsLive(t)
  PROVE  IsLive(t)'
BY DEF Cleaned, IsLive, Finished, Unfinished

\* Whatever changes the list of a transfer wakes the reader that waits for it.
LEMMA ReaderNext ==
  ASSUME Typed, ReaderHasReason, [Next]_vars
  PROVE  ReaderHasReason'
<1>1. ASSUME NEW t, NEW s, SetState(t, s)
      PROVE  ReaderHasReason'
  BY <1>1, SetStateWakes DEF ReaderHasReason
<1>2. CASE UNCHANGED <<table, reader>>
  BY <1>2 DEF ReaderHasReason, IsLive
<1>3. CASE table' \in Cleaned(table) /\ UNCHANGED reader
  BY <1>3, CleanedKeeps DEF ReaderHasReason, Typed, ReaderPlaced, IsLive
<1>4. ASSUME NEW k \in Runs, RunStep(k)
      PROVE  ReaderHasReason'
  BY <1>1, <1>2, <1>3, <1>4, RunStepTable DEF InsertSnapshot, Report, Moved, ReadShutdown
<1>5. CASE OtherStep
  <2>1. CASE Look
    BY <2>1 DEF Look, ReaderHasReason, IsLive, NoReader, Typed, TypeOK, Readers
  <2>2. CASE SweepTable
    BY <2>2 DEF SweepTable, ReaderHasReason, Typed, TypeOK, Readers
  <2>3. CASE reader'.at = "look"
    BY <2>3 DEF ReaderHasReason
  <2> QED
    BY <1>1, <1>2, <1>3, <1>5, <2>1, <2>2, <2>3, OtherStepTable DEF Moved
<1>6. ASSUME NEW k \in Runs, NEW t \in Transfers, NEW n \in Nodes, Begin(k, t, n)
      PROVE  ReaderHasReason'
  BY <1>2, <1>6 DEF Begin
<1> QED
  BY <1>2, <1>4, <1>5, <1>6, StepKinds DEF vars

\* wait_background_transfer_finished loses no wake-up: whatever ends, cancels or
\* forgets the transfer it waits for has notified its future.
THEOREM NoReaderIsForgotten == Spec => []ReaderHasReason
<1>1. Init => ReaderHasReason
  BY DEF Init, NoReader, ReaderHasReason
<1>2. Typed /\ ReaderHasReason /\ [Next]_vars => ReaderHasReason'
  BY ReaderNext
<1> QED
  BY <1>1, <1>2, TypedAlways, PTL DEF Spec

-----------------------------------------------------------------------------
(* Shutdown *)

\* A control that exists after the shutdown has begun keeps being cancelled, and a new
\* one is born cancelled.
LEMMA LateNext ==
  ASSUME Typed, LateWorkIsCancelled, [Next]_vars
  PROVE  LateWorkIsCancelled'
<1> DEFINE Late == stopper \in {"sweep", "drain", "done"}
<1>t. controls \in [Transfers -> Controls] /\ (Late => shutdown # "RUNNING")
  BY DEF Typed, TypeOK, ShutdownPlaced
<1>1. ASSUME NEW t \in Transfers, NEW n \in Nodes \union {None}, RegisterOwned(t, n),
             UNCHANGED stopper
      PROVE  LateWorkIsCancelled'
  <2> SUFFICES ASSUME Late, NEW u \in Transfers, controls'[u].owners > 0
               PROVE  controls'[u].cancelled
    BY <1>1 DEF LateWorkIsCancelled, Registered
  <2>1. CASE u # t
    BY <1>1, <1>t, <2>1 DEF RegisterOwned, LateWorkIsCancelled, Registered
  <2>2. CASE u = t /\ controls[t].owners > 0
    <3>1. controls'[t].cancelled = controls[t].cancelled
      BY <1>1, <1>t, <2>2 DEF RegisterOwned, Controls
    <3> QED
      BY <2>2, <3>1 DEF LateWorkIsCancelled, Registered
  <2>3. CASE u = t /\ ~(controls[t].owners > 0)
    BY <1>1, <1>t, <2>3 DEF RegisterOwned, NoControl
  <2> QED
    BY <2>1, <2>2, <2>3
<1>2. ASSUME NEW t \in Transfers, Unregister(t), UNCHANGED stopper
      PROVE  LateWorkIsCancelled'
  BY <1>2, <1>t DEF Unregister, NoControl, Controls, LateWorkIsCancelled, Registered
<1>3. ASSUME UNCHANGED stopper,
             \A u \in Transfers : /\ controls'[u].owners = controls[u].owners
                                  /\ controls[u].cancelled => controls'[u].cancelled
      PROVE  LateWorkIsCancelled'
  BY <1>3 DEF LateWorkIsCancelled, Registered
<1>4. ASSUME NEW k \in Runs, RunStep(k)
      PROVE  LateWorkIsCancelled'
  <2>0. run[k].at \notin {"idle", "done"} => run[k].id \in Transfers
    BY DEF Typed, TypeOK, Placed, RunStates
  <2>1. CASE RegisterNested(k)
    BY <1>1, <2>0, <2>1 DEF RegisterNested
  <2>2. CASE DropNested(k) \/ DropGuard(k)
    BY <1>2, <2>0, <2>2 DEF DropNested, DropGuard
  <2>3. CASE ~RegisterNested(k) /\ ~DropNested(k) /\ ~DropGuard(k)
    <3>1. UNCHANGED <<controls, stopper>>
      BY <1>4, <2>3 DEF RunStep, BadArguments, ReadShutdown, InsertSnapshot, Listen, CompareLimit,
         WakeRun, TakePermit, CountPermit, MarkActive, CheckControl, MoveChunk, EndData, Report,
         DropPermit, NotifyDrop, ReleasePermit
    <3> QED
      BY <1>3, <3>1
  <2> QED
    BY <2>1, <2>2, <2>3
<1>5. ASSUME NEW k \in Runs, NEW t \in Transfers, NEW n \in Nodes, Begin(k, t, n)
      PROVE  LateWorkIsCancelled'
  BY <1>1, <1>5 DEF Begin
<1>6. CASE OtherStep
  <2>1. CASE CancelControls
    BY <1>t, <2>1 DEF CancelControls, LateWorkIsCancelled, Registered, Controls
  <2>2. CASE BeginShutdown
    BY <2>2 DEF BeginShutdown, LateWorkIsCancelled
  <2>3. CASE SweepTable \/ EndShutdown
    BY <2>3 DEF SweepTable, EndShutdown, LateWorkIsCancelled, Registered
  <2>4. ASSUME NEW t \in Transfers,
               Cancel(t) \/ \E call \in {"pause", "resume"} : SetPause(t, call)
        PROVE  LateWorkIsCancelled'
    <3>1. \A u \in Transfers : /\ controls'[u].owners = controls[u].owners
                               /\ controls[u].cancelled => controls'[u].cancelled
      BY <1>t, <2>4 DEF Cancel, SetPause, Controls
    <3> QED
      BY <1>3, <2>4, <3>1 DEF Cancel, SetPause
  <2>5. ASSUME NEW t \in Transfers, NEW more, InterruptControl(t, more)
        PROVE  LateWorkIsCancelled'
    <3>1. \A u \in Transfers : /\ controls'[u].owners = controls[u].owners
                               /\ controls[u].cancelled => controls'[u].cancelled
      BY <1>t, <2>5 DEF InterruptControl, Controls
    <3> QED
      BY <1>3, <2>5, <3>1 DEF InterruptControl
  <2>6. CASE InterruptNext
    <3>1. operator.more \subseteq Transfers
      BY DEF Typed, TypeOK, Operators
    <3> QED
      BY <2>5, <2>6, <3>1 DEF InterruptNext
  <2>7. CASE UNCHANGED <<controls, stopper>>
    BY <1>3, <2>7
  <2> QED
    BY <1>6, <2>1, <2>2, <2>3, <2>4, <2>5, <2>6, <2>7 DEF OtherStep, DeliverProgress, Interrupt, Watch,
       InterruptNode, StoreLimit, OperatorStep, WriteTable, NotifyLimit, List, ReaderStep, Look,
       WakeReader, StopperStep
<1>7. CASE UNCHANGED vars
  BY <1>7 DEF vars, LateWorkIsCancelled, Registered
<1> QED
  BY <1>4, <1>5, <1>6, <1>7, StepKinds

\* "A producer racing final session shutdown must not start new work": once
\* shutdown_session_transfers has gone through the controls, every control in the map
\* is cancelled, whenever it was or will be registered.
THEOREM NoWorkAfterShutdown == Spec => []LateWorkIsCancelled
<1>1. Init => LateWorkIsCancelled
  BY DEF Init, LateWorkIsCancelled
<1>2. Typed /\ LateWorkIsCancelled /\ [Next]_vars => LateWorkIsCancelled'
  BY LateNext
<1> QED
  BY <1>1, <1>2, TypedAlways, PTL DEF Spec

-----------------------------------------------------------------------------
(* The manager implements TransferLifecycle *)

\* The refinement mapping's second variable.
Out == [t \in Transfers |-> Cardinality(Reporting(t))]

\* Places of a run that is not listed yet or has reported.
Away == {"idle", "done", "owned", "read", "drop", "notify", "permit", "release"}

\* A run counts as out from its insertion into the list until it has reported.
LEMMA ReportingPlaces ==
  ASSUME Typed, NEW t \in Transfers
  PROVE  Reporting(t) = {k \in Runs : run[k].id = t /\ run[k].at \notin Away}
BY TransferManagerAssumption DEF Reporting, Owners, Away, Typed, Placed

\* A step after which every run is listed under the same id as before leaves Out alone.
LEMMA OutKept ==
  ASSUME Typed, Typed',
         \A j \in Runs : /\ run'[j].at \in Away <=> run[j].at \in Away
                         /\ run[j].at \notin Away => run'[j].id = run[j].id
  PROVE  UNCHANGED Out
<1>1. \A t \in Transfers : Reporting(t)' = {k \in Runs : run'[k].id = t /\ run'[k].at \notin Away}
  BY TransferManagerAssumption DEF Reporting, Owners, Away, Typed, Placed
<1>2. \A t \in Transfers : Reporting(t)' = Reporting(t)
  BY <1>1, ReportingPlaces
<1> QED
  BY <1>2 DEF Out

\* Steps on the list as steps of the life cycle, with Out unchanged.
LEMMA MovedIsMove ==
  ASSUME Typed, NEW t \in Transfers, Moved(t), UNCHANGED Out
  PROVE  Lifecycle!Move(t)
<1>1. table[t] \in Lifecycle!Live
  BY DEF Moved, IsLive, Unfinished, Lifecycle!Live
<1> QED
  BY <1>1 DEF Moved, SetState, Lifecycle!Move, Out

\* cleanup_finished forgets finished transfers only.
LEMMA CleanedIsForget ==
  ASSUME Typed, table' \in Cleaned(table), UNCHANGED Out
  PROVE  Lifecycle!Forget
BY DEF Cleaned, Finished, Lifecycle!Forget, Lifecycle!Finished, Out

\* Every step of the manager is a step of the life cycle, or changes nothing of it.
LEMMA LifecycleStep ==
  ASSUME Typed, Typed', [Next]_vars
  PROVE  [Lifecycle!LifecycleNext]_<<table, Out>>
<1>t. TypeOK /\ \A j \in Runs : run[j] \in RunStates
  BY DEF Typed, TypeOK
<1>1. ASSUME NEW k \in Runs, RunStep(k)
      PROVE  [Lifecycle!LifecycleNext]_<<table, Out>>
  <2>0. /\ Advances(k)
        /\ \A j \in Runs \ {k} : run'[j].at = run[j].at /\ run'[j].id = run[j].id
    BY <1>1, RunStepAdvances DEF Advances, Same
  <2>1. CASE InsertSnapshot(k)
    <3>0. PICK t \in Transfers : t = run[k].id
      BY <1>t, <2>1 DEF InsertSnapshot, RunStates, Typed, Placed
    <3>1. /\ run[k].at = "read" /\ run[k].id = t
          /\ run'[k].at = "queued" /\ run'[k].id = t
      BY <1>t, <2>1, <3>0 DEF InsertSnapshot, TypeOK, RunStates
    <3>2. /\ k \notin Reporting(t) /\ Reporting(t)' = Reporting(t) \union {k}
          /\ \A u \in Transfers \ {t} : Reporting(u)' = Reporting(u)
      BY <2>0, <3>1 DEF Reporting, Owners
    <3>3. Cardinality(Reporting(t)') = Cardinality(Reporting(t)) + 1
      BY <3>2, OneMore DEF Reporting, Owners
    <3>4. Out' = [Out EXCEPT ![t] = @ + 1]
      BY <3>2, <3>3 DEF Out
    <3>5. \E s \in {"Pending", "Cancelled"} : table' = [table EXCEPT ![t] = s]
      BY <2>1, <3>1 DEF InsertSnapshot, SetState
    <3>6. Lifecycle!Enter(t)
      BY <3>4, <3>5 DEF Lifecycle!Enter, Out
    <3> QED
      BY <3>6 DEF Lifecycle!LifecycleNext
  <2>2. CASE Report(k)
    <3>0. PICK t \in Transfers : t = run[k].id
      BY <1>t, <2>2 DEF Report, RunStates, Typed, Placed
    <3>1. /\ run[k].at = "report" /\ run[k].id = t
          /\ run'[k].at \in {"drop", "release"} /\ run'[k].id = t
      BY <1>t, <2>2, <3>0 DEF Report, Goto, TypeOK, RunStates
    <3>2. /\ k \in Reporting(t) /\ Reporting(t)' = Reporting(t) \ {k}
          /\ \A u \in Transfers \ {t} : Reporting(u)' = Reporting(u)
      BY <2>0, <3>1 DEF Reporting, Owners
    <3>3. /\ Cardinality(Reporting(t)') = Cardinality(Reporting(t)) - 1
          /\ Cardinality(Reporting(t)) > 0
      BY <3>2, OneMore DEF Reporting, Owners
    <3>4. Out' = [Out EXCEPT ![t] = @ - 1] /\ Out[t] > 0
      BY <3>2, <3>3 DEF Out
    <3>5. run[k].result \in Finished
      BY <3>1 DEF Typed, Placed
    <3>6. \/ table[t] = "absent" /\ UNCHANGED table
          \/ table[t] # "absent" /\ \E s \in Finished : table' = [table EXCEPT ![t] = s]
      BY <2>2, <3>1, <3>5 DEF Report, SetState, Finished
    <3>7. Lifecycle!Leave(t)
      BY <3>4, <3>6 DEF Lifecycle!Leave, Lifecycle!Finished, Finished, Out
    <3> QED
      BY <3>7 DEF Lifecycle!LifecycleNext
  <2>3. CASE ~InsertSnapshot(k) /\ ~Report(k)
    <3>1. /\ run'[k].at \in Away <=> run[k].at \in Away
          /\ run[k].at \notin Away => run'[k].id = run[k].id
      <4>1. CASE \/ BadArguments(k) \/ CountPermit(k) \/ MarkActive(k) \/ MoveChunk(k)
                 \/ DropPermit(k) \/ RegisterNested(k) \/ DropNested(k) \/ DropGuard(k)
        BY <1>t, <4>1 DEF BadArguments, CountPermit, MarkActive, MoveChunk, DropPermit, RegisterNested,
           DropNested, DropGuard, Goto, NoRun, TypeOK, RunStates, Away
      <4>2. CASE \/ ReadShutdown(k) \/ Listen(k) \/ CompareLimit(k) \/ WakeRun(k) \/ TakePermit(k)
                 \/ CheckControl(k) \/ EndData(k) \/ NotifyDrop(k) \/ ReleasePermit(k)
        BY <1>t, <4>2 DEF ReadShutdown, Listen, CompareLimit, WakeRun, TakePermit, CheckControl, EndData,
           NotifyDrop, ReleasePermit, Goto, TypeOK, RunStates, Away
      <4> QED
        BY <1>1, <2>3, <4>1, <4>2 DEF RunStep
    <3>2. UNCHANGED Out
      BY <2>0, <3>1, OutKept
    <3>3. CASE UNCHANGED table
      BY <3>2, <3>3
    <3>4. CASE MarkActive(k) /\ Moved(run[k].id)
      <4>1. run[k].id \in Transfers
        BY <1>t, <3>4 DEF MarkActive, RunStates, Typed, Placed
      <4> QED
        BY <3>2, <3>4, <4>1, MovedIsMove DEF Lifecycle!LifecycleNext
    <3>5. CASE ReadShutdown(k)
      BY <3>2, <3>5, CleanedIsForget DEF ReadShutdown, Lifecycle!LifecycleNext
    <3> QED
      BY <1>1, <2>3, <3>3, <3>4, <3>5, RunStepTable
  <2> QED
    BY <2>1, <2>2, <2>3
<1>2. ASSUME NEW k \in Runs, NEW t \in Transfers, NEW n \in Nodes, Begin(k, t, n)
      PROVE  [Lifecycle!LifecycleNext]_<<table, Out>>
  <2>1. \A j \in Runs \ {k} : run'[j].at = run[j].at /\ run'[j].id = run[j].id
    BY <1>2, BeginTypes DEF Advances, Same
  <2>2. run[k].at = "idle" /\ run'[k].at = "owned"
    BY <1>t, <1>2 DEF Begin, TypeOK, RunStates
  <2>3. UNCHANGED Out
    BY <2>1, <2>2, OutKept DEF Away
  <2> QED
    BY <1>2, <2>3 DEF Begin
<1>3. CASE OtherStep
  <2>1. UNCHANGED Out
    BY <1>3, OtherStepOwners, OutKept
  <2>2. CASE UNCHANGED table
    BY <2>1, <2>2
  <2>3. CASE \E t \in Transfers : Moved(t)
    BY <2>1, <2>3, MovedIsMove DEF Lifecycle!LifecycleNext
  <2>4. CASE table' \in Cleaned(table)
    BY <2>1, <2>4, CleanedIsForget DEF Lifecycle!LifecycleNext
  <2>5. CASE SweepTable
    <3>1. Lifecycle!Sweep
      BY <2>1, <2>5 DEF SweepTable, IsLive, Unfinished, Lifecycle!Sweep, Lifecycle!Live, Out
    <3> QED
      BY <3>1 DEF Lifecycle!LifecycleNext
  <2> QED
    BY <1>3, <2>2, <2>3, <2>4, <2>5, OtherStepTable DEF Look
<1>4. CASE UNCHANGED vars
  BY <1>4 DEF vars, Out, Reporting, Owners
<1> QED
  BY <1>1, <1>2, <1>3, <1>4, StepKinds

\* The transfer manager implements the life cycle its readers rely on: a finished
\* transfer stays as it is until a run that is still out reports, no late progress,
\* pause or interruption revives it, and only a run's own report completes it.
THEOREM ManagerImplementsLifecycle == Spec => LifecycleKept
<1>1. Init => Lifecycle!LifecycleInit
  <2> SUFFICES ASSUME Init PROVE Lifecycle!LifecycleInit
    OBVIOUS
  <2>1. \A t \in Transfers : Reporting(t) = {}
    BY TransferManagerAssumption DEF Init, Reporting, Owners, NoRun
  <2>2. Cardinality({}) = 0
    BY FS_EmptySet
  <2> QED
    BY <2>1, <2>2 DEF Init, Lifecycle!LifecycleInit
<1>2. Typed /\ Typed' /\ [Next]_vars => [Lifecycle!LifecycleNext]_<<table, Out>>
  BY LifecycleStep
<1> QED
  BY <1>1, <1>2, TypedAlways, PTL DEF Spec, LifecycleKept, Lifecycle!LifecycleSpec, Out
=============================================================================
