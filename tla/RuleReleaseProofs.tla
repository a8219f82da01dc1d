-------------------------- MODULE RuleReleaseProofs --------------------------
(***************************************************************************)
(* For any number of processes, run ids, inputs, loads and faults: the     *)
(* records of batch runs are true, Redis holds one validated artifact or   *)
(* none, the engine decides by it, and every user gets TopK candidates.    *)
(***************************************************************************)
EXTENDS RuleRelease, FiniteSetTheorems, TLAPS

USE BatchAssumption

-----------------------------------------------------------------------------
(* The inductive invariant of the batch runs.                              *)

Begun == Outputs \cup {"counts", "finally", "stop"}   \* stages with a run directory
Trying == Outputs \cup {"counts"}

(* What is listed, and what is complete on disk, when a stage is reached.  *)
ListedBefore ==
  [stg \in Trying |->
     CASE stg = "validation_json" -> {}
       [] stg \in {"baskets_parquet", "baskets_json"} -> {"validation_json"}
       [] stg \in {"rules_parquet", "rules_json"} ->
            {"validation_json", "baskets_parquet", "baskets_json"}
       [] stg = "rules_serving_csv" -> Required \ {"rules_serving_csv"}
       [] OTHER -> Required]

HalfBefore ==
  [stg \in Trying |->
     CASE stg = "baskets_json" -> {"baskets_parquet"}
       [] stg = "rules_json" -> {"rules_parquet"}
       [] stg = "als_json" -> {"als_parquet"}
       [] OTHER -> {}]

(* A process at work owns its run directory, which no manifest describes   *)
(* before the finally block.                                               *)
OwnsItsRun(p) ==
  stage[p] \in Begun =>
    /\ run[p] \in taken
    /\ \A q \in Processes \ {p} : stage[q] \in Begun => run[q] # run[p]
    /\ stage[p] # "stop" => manifest[run[p]] = NoManifest

InOrder(p) ==
  /\ stage[p] \in Trying =>
       /\ status[p] = "running" /\ torn[run[p]] = {}
       /\ ListedBefore[stage[p]] \subseteq listed[p]
       /\ stage[p] # "counts" => listed[p] = ListedBefore[stage[p]]
       /\ HalfBefore[stage[p]] \subseteq disk[run[p]]
  /\ stage[p] = "mkdir" => status[p] = "running" /\ listed[p] = {}
  /\ stage[p] = "idle" => status[p] = "running" /\ listed[p] = {}
  /\ stage[p] \in Begun => listed[p] \subseteq disk[run[p]] \ torn[run[p]]

(* What the end of a run, and its exit code, rest on. *)
EndsTruly(p) ==
  /\ stage[p] \in Begun /\ status[p] = "succeeded" => Required \subseteq listed[p]
  /\ stage[p] = "stop" /\ manifest[run[p]] # NoManifest =>
       manifest[run[p]].status = status[p]
  /\ exit[p] = "0" => stage[p] = "ended"
  /\ stage[p] # "idle" => run[p] \in RunIds /\ input[p] \in Sources

Untaken ==
  \A r \in RunIds \ taken : disk[r] = {} /\ torn[r] = {} /\ manifest[r] = NoManifest

RunInvariant ==
  /\ BatchTypeOK
  /\ \A p \in Processes : OwnsItsRun(p) /\ InOrder(p) /\ EndsTruly(p)
  /\ Untaken
  /\ RunRecordsAreTrue

LEMMA RunInit == BatchInit => RunInvariant
BY DEF BatchInit, RunInvariant, BatchTypeOK, OwnsItsRun, InOrder, EndsTruly, Untaken,
       RunRecordsAreTrue, Begun, Trying, Outputs, Stages, Statuses

-----------------------------------------------------------------------------
(* A step of one process: what it leaves alone.                            *)

OthersStay(p) ==
  \A q \in Processes \ {p} :
    /\ run'[q] = run[q] /\ input'[q] = input[q] /\ stage'[q] = stage[q]
    /\ status'[q] = status[q] /\ listed'[q] = listed[q] /\ exit'[q] = exit[q]

OwnRunOnly(p) ==
  \A r \in RunIds : ~(stage[p] \in Begun \ {"stop"} /\ r = run[p]) =>
    disk'[r] = disk[r] /\ torn'[r] = torn[r] /\ manifest'[r] = manifest[r]

Local(p) ==
  /\ OthersStay(p)
  /\ OwnRunOnly(p)
  /\ taken \subseteq taken'
  /\ stage'[p] \in Begun =>
       /\ run'[p] = run[p]
       /\ run[p] \in taken'
       /\ stage[p] \in Begun \/ (stage[p] = "mkdir" /\ run[p] \notin taken)

(* The other processes do not notice it. *)
LEMMA OthersUndisturbed ==
  ASSUME RunInvariant, NEW p \in Processes, Local(p)
  PROVE  \A q \in Processes \ {p} : OwnsItsRun(q)' /\ InOrder(q)' /\ EndsTruly(q)'
<1> SUFFICES ASSUME NEW q \in Processes \ {p}
             PROVE  OwnsItsRun(q)' /\ InOrder(q)' /\ EndsTruly(q)'
  OBVIOUS
<1>1. /\ run'[q] = run[q] /\ input'[q] = input[q] /\ stage'[q] = stage[q]
      /\ status'[q] = status[q] /\ listed'[q] = listed[q] /\ exit'[q] = exit[q]
  BY DEF Local, OthersStay
<1>2. OwnsItsRun(q) /\ OwnsItsRun(p) /\ InOrder(q) /\ EndsTruly(q)
  BY DEF RunInvariant
<1>3. stage[q] # "idle" => run[q] \in RunIds
  BY <1>2 DEF EndsTruly
<1>4. stage[q] \in Begun =>
        disk'[run[q]] = disk[run[q]] /\ torn'[run[q]] = torn[run[q]]
        /\ manifest'[run[q]] = manifest[run[q]]
  <2> SUFFICES ASSUME stage[q] \in Begun PROVE ~(stage[p] \in Begun /\ run[q] = run[p])
    BY <1>3 DEF Local, OwnRunOnly, Begun, Outputs
  <2>1. QED
    BY <1>2 DEF OwnsItsRun
<1>5. OwnsItsRun(q)'
  <2> SUFFICES ASSUME stage[q] \in Begun
               PROVE  /\ run[q] \in taken'
                      /\ \A o \in Processes \ {q} : stage'[o] \in Begun => run'[o] # run[q]
                      /\ stage[q] # "stop" => manifest'[run[q]] = NoManifest
    BY <1>1 DEF OwnsItsRun
  <2>1. run[q] \in taken /\ (stage[q] # "stop" => manifest[run[q]] = NoManifest)
    BY <1>2 DEF OwnsItsRun
  <2>2. ASSUME NEW o \in Processes \ {q}, stage'[o] \in Begun PROVE run'[o] # run[q]
    <3>1. CASE o = p
      BY <1>2, <2>1, <2>2, <3>1 DEF Local, OwnsItsRun
    <3>2. CASE o # p
      BY <1>2, <2>2, <3>2 DEF Local, OthersStay, OwnsItsRun
    <3>3. QED
      BY <3>1, <3>2
  <2>3. QED
    BY <1>4, <2>1, <2>2 DEF Local
<1>6. InOrder(q)'
  BY <1>1, <1>2, <1>4 DEF InOrder, Begun, Trying
<1>7. EndsTruly(q)'
  BY <1>1, <1>2, <1>4 DEF EndsTruly, Begun
<1>8. QED
  BY <1>5, <1>6, <1>7

(* Records stay true as long as the run at work has none yet.              *)
LEMMA RecordsUndisturbed ==
  ASSUME RunInvariant, NEW p \in Processes, Local(p), NEW r \in RunIds,
         manifest'[r] = manifest[r], manifest[r] # NoManifest
  PROVE  /\ manifest'[r].outputs \subseteq disk'[r] \ torn'[r]
         /\ manifest'[r].status = "succeeded" => Required \subseteq manifest'[r].outputs
<1>1. ~(stage[p] \in Begun \ {"stop"} /\ r = run[p])
  BY DEF RunInvariant, OwnsItsRun
<1>2. disk'[r] = disk[r] /\ torn'[r] = torn[r]
  BY <1>1 DEF Local, OwnRunOnly
<1>3. QED
  BY <1>2 DEF RunInvariant, RunRecordsAreTrue

-----------------------------------------------------------------------------
(* Each action of a process preserves the invariant.                       *)

LEMMA LaunchPreserves ==
  ASSUME RunInvariant, NEW p \in Processes, NEW r \in RunIds, NEW source \in Sources, Launch(p, r, source)
  PROVE  RunInvariant'
<1>0. BatchTypeOK /\ OwnsItsRun(p) /\ InOrder(p) /\ EndsTruly(p)
  BY DEF RunInvariant
<1>1. BatchTypeOK'
  BY <1>0 DEF Launch, BatchTypeOK, Stages, Statuses, Manifests
<1>2. Local(p)
  BY DEF Launch, Local, OthersStay, OwnRunOnly, Begun, Outputs
<1>3. \A q \in Processes \ {p} : OwnsItsRun(q)' /\ InOrder(q)' /\ EndsTruly(q)'
  BY <1>2, OthersUndisturbed
<1>4. OwnsItsRun(p)'
  BY DEF Launch, OwnsItsRun, Begun, Outputs
<1>5. InOrder(p)'
  BY <1>0, <1>1 DEF Launch, InOrder, Begun, Trying, Outputs
<1>6. EndsTruly(p)'
  BY <1>0 DEF Launch, BatchTypeOK, EndsTruly, Begun, Outputs
<1>7. Untaken'
  BY DEF Launch, RunInvariant, Untaken
<1>8. RunRecordsAreTrue'
  BY <1>5, <1>6, RecordsUndisturbed DEF Launch, RunInvariant, RunRecordsAreTrue, InOrder, EndsTruly
<1>9. QED
  BY <1>1, <1>3, <1>4, <1>5, <1>6, <1>7, <1>8 DEF RunInvariant

LEMMA MakeDirectoryPreserves ==
  ASSUME RunInvariant, NEW p \in Processes, MakeDirectory(p)
  PROVE  RunInvariant'
<1>0. BatchTypeOK /\ OwnsItsRun(p) /\ InOrder(p) /\ EndsTruly(p)
  BY DEF RunInvariant
<1>1. BatchTypeOK'
  BY <1>0 DEF MakeDirectory, BatchTypeOK, Begun, Outputs, Stages, Statuses, Manifests, EndsTruly
<1>2. Local(p)
  BY DEF MakeDirectory, Local, OthersStay, OwnRunOnly, Begun, Outputs
<1>3. \A q \in Processes \ {p} : OwnsItsRun(q)' /\ InOrder(q)' /\ EndsTruly(q)'
  BY <1>2, OthersUndisturbed
<1>4. OwnsItsRun(p)'
  BY <1>1, <1>2, <1>3 DEF MakeDirectory, BatchTypeOK, OwnsItsRun, Begun, Outputs, Stages, Statuses, Untaken, RunInvariant
<1>5. InOrder(p)'
  BY <1>0, <1>1 DEF MakeDirectory, BatchTypeOK, InOrder, Begun, Trying, Outputs, Stages, Statuses, ListedBefore, HalfBefore, Required, RunInvariant, Untaken
<1>6. EndsTruly(p)'
  BY <1>0 DEF MakeDirectory, EndsTruly, OwnsItsRun, InOrder
<1>7. Untaken'
  BY DEF MakeDirectory, RunInvariant, Untaken
<1>8. RunRecordsAreTrue'
  BY <1>6, RecordsUndisturbed DEF MakeDirectory, RunInvariant, RunRecordsAreTrue
<1>9. QED
  BY <1>1, <1>3, <1>4, <1>5, <1>6, <1>7, <1>8 DEF RunInvariant

LEMMA WritePreserves ==
  ASSUME RunInvariant, NEW p \in Processes, Write(p)
  PROVE  RunInvariant'
<1>0. BatchTypeOK /\ OwnsItsRun(p) /\ InOrder(p) /\ EndsTruly(p)
  BY DEF RunInvariant
<1>1. BatchTypeOK'
  <2>1. stage[p] \in Outputs /\ run[p] \in RunIds /\ input[p] \in Sources
    BY <1>0 DEF Write, EndsTruly, Outputs
  <2>2. After[stage[p]] \in Stages
    BY <2>1 DEF After, Outputs, Stages
  <2>3. NextStage(p) \in Stages
    BY <2>2 DEF NextStage, Stages
  <2>4. Lists[stage[p]] \subseteq Outputs
    BY <2>1 DEF Lists, Outputs
  <2>5. stage' \in [Processes -> Stages]
    BY <1>0, <2>3 DEF Write, BatchTypeOK
  <2>6. status' \in [Processes -> Statuses]
    BY <1>0 DEF Write, BatchTypeOK, Statuses
  <2>7. /\ listed' \in [Processes -> SUBSET Outputs]
        /\ disk' \in [RunIds -> SUBSET Outputs]
        /\ mined' \in [RunIds -> Sources \cup {NoRun}]
    <3>1. CASE Exists(p)
      BY <1>0, <3>1 DEF Write, BatchTypeOK
    <3>2. CASE ~Exists(p)
      BY <1>0, <2>1, <2>4, <3>2 DEF Write, BatchTypeOK
    <3>3. QED
      BY <3>1, <3>2
  <2>8. QED
    BY <1>0, <2>5, <2>6, <2>7 DEF Write, BatchTypeOK
<1>2. Local(p)
  BY <1>0 DEF Write, NextStage, Exists, Rejected, BatchTypeOK, Local, OthersStay, OwnRunOnly, Begun, Outputs, OwnsItsRun, EndsTruly
<1>3. \A q \in Processes \ {p} : OwnsItsRun(q)' /\ InOrder(q)' /\ EndsTruly(q)'
  BY <1>2, OthersUndisturbed
<1>4. OwnsItsRun(p)'
  BY <1>0 DEF Write, NextStage, Exists, Rejected, OwnsItsRun, Begun, Outputs
<1>5. InOrder(p)'
  <2>1. /\ stage[p] \in Outputs /\ run[p] \in RunIds /\ run'[p] = run[p]
        /\ stage'[p] = NextStage(p) /\ torn'[run[p]] = torn[run[p]]
    BY <1>0 DEF Write, EndsTruly, BatchTypeOK, Outputs
  <2>2. /\ status[p] = "running" /\ torn[run[p]] = {} /\ listed[p] = ListedBefore[stage[p]]
        /\ HalfBefore[stage[p]] \subseteq disk[run[p]] /\ listed[p] \subseteq disk[run[p]]
    BY <1>0, <2>1 DEF InOrder, Trying, Begun, Outputs
  <2>3. NextStage(p) \in Outputs \cup {"counts", "finally"}
    BY <2>1 DEF NextStage, After, Outputs
  <2>4. CASE Exists(p)
    <3>1. stage[p] # "rules_serving_csv"
      BY <2>4 DEF Exists, PartFiles
    <3>2. NextStage(p) = "finally"
      BY <2>4, <3>1 DEF NextStage
    <3>3. QED
      BY <2>1, <2>2, <2>4, <3>2 DEF Write, InOrder, Trying, Begun, Outputs
  <2>5. CASE ~Exists(p)
    <3>1. disk'[run[p]] = disk[run[p]] \cup {stage[p]}
      BY <1>0, <2>1, <2>5 DEF Write, BatchTypeOK
    <3>2. listed'[p] = listed[p] \cup Lists[stage[p]]
      BY <1>0, <2>5 DEF Write, BatchTypeOK
    <3>3. Lists[stage[p]] \subseteq HalfBefore[stage[p]] \cup {stage[p]}
      BY <2>1 DEF Lists, HalfBefore, Trying, Outputs
    <3>4. listed'[p] \subseteq disk'[run'[p]] \ torn'[run'[p]]
      BY <2>1, <2>2, <3>1, <3>2, <3>3
    <3>5. CASE NextStage(p) = "finally"
      BY <2>1, <3>4, <3>5 DEF InOrder, Trying, Begun, Outputs
    <3>6. CASE NextStage(p) # "finally"
      <4>1. status'[p] = "running"
        BY <1>0, <2>2, <3>6 DEF Write, BatchTypeOK
      <4>2. \/ NextStage(p) = After[stage[p]]
            \/ NextStage(p) = "counts" /\ stage[p] = "rules_serving_csv"
        BY <3>6 DEF NextStage
      <4>3. ListedBefore[NextStage(p)] \subseteq listed'[p]
        BY <2>1, <2>2, <3>2, <4>2 DEF ListedBefore, Lists, After, Trying, Outputs, Required
      <4>4. NextStage(p) # "counts" => listed'[p] = ListedBefore[NextStage(p)]
        BY <2>1, <2>2, <3>2, <4>2 DEF ListedBefore, Lists, After, Trying, Outputs, Required
      <4>5. HalfBefore[NextStage(p)] \subseteq disk'[run[p]]
        BY <2>1, <2>2, <3>1, <4>2 DEF HalfBefore, After, Trying, Outputs
      <4>6. QED
        BY <2>1, <2>2, <2>3, <3>4, <4>1, <4>3, <4>4, <4>5
           DEF InOrder, Trying, Begun, Outputs
    <3>7. QED
      BY <3>5, <3>6
  <2>6. QED
    BY <2>4, <2>5
<1>6. EndsTruly(p)'
  BY <1>0 DEF Write, NextStage, Exists, Rejected, BatchTypeOK, EndsTruly, OwnsItsRun, InOrder, Begun, Outputs
<1>7. Untaken'
  BY DEF Write, BatchTypeOK, RunInvariant, Untaken, OwnsItsRun, Begun, Outputs
<1>8. RunRecordsAreTrue'
  BY <1>2, <1>6, RecordsUndisturbed DEF Write, BatchTypeOK, RunInvariant, RunRecordsAreTrue, Stages, Statuses, Manifests
<1>9. QED
  BY <1>1, <1>3, <1>4, <1>5, <1>6, <1>7, <1>8 DEF RunInvariant

LEMMA SucceedPreserves ==
  ASSUME RunInvariant, NEW p \in Processes, Succeed(p)
  PROVE  RunInvariant'
<1>0. BatchTypeOK /\ OwnsItsRun(p) /\ InOrder(p) /\ EndsTruly(p)
  BY DEF RunInvariant
<1>1. BatchTypeOK'
  BY <1>0 DEF Succeed, BatchTypeOK, Stages, Statuses, Manifests
<1>2. Local(p)
  BY <1>0 DEF Succeed, Local, OthersStay, OwnRunOnly, Begun, Outputs, OwnsItsRun, EndsTruly
<1>3. \A q \in Processes \ {p} : OwnsItsRun(q)' /\ InOrder(q)' /\ EndsTruly(q)'
  BY <1>2, OthersUndisturbed
<1>4. OwnsItsRun(p)'
  BY <1>0 DEF Succeed, OwnsItsRun, Begun, Outputs
<1>5. InOrder(p)'
  BY <1>0, <1>1 DEF Succeed, BatchTypeOK, InOrder, Begun, Trying, Outputs
<1>6. EndsTruly(p)'
  BY <1>0, <1>1 DEF Succeed, EndsTruly, OwnsItsRun, InOrder, Trying, ListedBefore, Required
<1>7. Untaken'
  BY DEF Succeed, RunInvariant, Untaken
<1>8. RunRecordsAreTrue'
  BY <1>6, RecordsUndisturbed DEF Succeed, RunInvariant, RunRecordsAreTrue
<1>9. QED
  BY <1>1, <1>3, <1>4, <1>5, <1>6, <1>7, <1>8 DEF RunInvariant

LEMMA RaisePreserves ==
  ASSUME RunInvariant, NEW p \in Processes, NEW recorded \in BOOLEAN, Raise(p, recorded)
  PROVE  RunInvariant'
<1>0. BatchTypeOK /\ OwnsItsRun(p) /\ InOrder(p) /\ EndsTruly(p)
  BY DEF RunInvariant
<1>1. BatchTypeOK'
  BY <1>0 DEF Raise, Fault, CutOff, BatchTypeOK, Stages, Statuses, PartFiles, Manifests
<1>2. Local(p)
  BY <1>0 DEF Raise, Fault, CutOff, BatchTypeOK, Local, OthersStay, OwnRunOnly, Begun, Outputs, OwnsItsRun, EndsTruly
<1>3. \A q \in Processes \ {p} : OwnsItsRun(q)' /\ InOrder(q)' /\ EndsTruly(q)'
  BY <1>2, OthersUndisturbed
<1>4. OwnsItsRun(p)'
  BY <1>0 DEF Raise, Fault, CutOff, OwnsItsRun, Begun, Outputs
<1>5. InOrder(p)'
  BY <1>0, <1>1 DEF Raise, Fault, CutOff, BatchTypeOK, InOrder, Begun, Trying, Outputs, PartFiles, ListedBefore, HalfBefore, Required, RunInvariant
<1>6. EndsTruly(p)'
  BY <1>0 DEF Raise, Fault, CutOff, EndsTruly, Begun, Outputs
<1>7. Untaken'
  BY <1>0 DEF Raise, Fault, CutOff, BatchTypeOK, RunInvariant, Untaken, OwnsItsRun, Begun, Outputs
<1>8. RunRecordsAreTrue'
  BY <1>0, <1>1, <1>2, <1>5, <1>6, RecordsUndisturbed DEF Raise, Fault, CutOff, BatchTypeOK, RunInvariant, RunRecordsAreTrue, Begun, Trying, Outputs, Stages, Statuses, Manifests, InOrder, EndsTruly
<1>9. QED
  BY <1>1, <1>3, <1>4, <1>5, <1>6, <1>7, <1>8 DEF RunInvariant

LEMMA WriteManifestPreserves ==
  ASSUME RunInvariant, NEW p \in Processes, WriteManifest(p)
  PROVE  RunInvariant'
<1>0. BatchTypeOK /\ OwnsItsRun(p) /\ InOrder(p) /\ EndsTruly(p)
  BY DEF RunInvariant
<1>1. BatchTypeOK'
  BY <1>0 DEF WriteManifest, BatchTypeOK, Stages, Statuses, Manifests
<1>2. Local(p)
  BY <1>0 DEF WriteManifest, BatchTypeOK, Local, OthersStay, OwnRunOnly, Begun, Outputs, Stages, Statuses, OwnsItsRun, EndsTruly
<1>3. \A q \in Processes \ {p} : OwnsItsRun(q)' /\ InOrder(q)' /\ EndsTruly(q)'
  BY <1>2, OthersUndisturbed
<1>4. OwnsItsRun(p)'
  BY <1>0, <1>2 DEF WriteManifest, BatchTypeOK, OwnsItsRun, Begun, Outputs
<1>5. InOrder(p)'
  BY <1>0, <1>1 DEF WriteManifest, InOrder, Begun, Trying, Outputs
<1>6. EndsTruly(p)'
  BY <1>0 DEF WriteManifest, BatchTypeOK, EndsTruly, Begun, Outputs
<1>7. Untaken'
  BY DEF WriteManifest, RunInvariant, Untaken, OwnsItsRun, Begun, Outputs
<1>8. RunRecordsAreTrue'
  <2>1. ASSUME NEW r \in RunIds, manifest'[r] # NoManifest
        PROVE  /\ manifest'[r].outputs \subseteq disk'[r] \ torn'[r]
               /\ manifest'[r].status = "succeeded" => Required \subseteq manifest'[r].outputs
    <3>1. CASE r = run[p]
      <4>1. manifest'[r] = [status |-> status[p], outputs |-> listed[p]]
        BY <1>0, <3>1 DEF WriteManifest, BatchTypeOK
      <4>2. listed[p] \subseteq disk[r] \ torn[r]
        BY <1>0, <3>1 DEF WriteManifest, InOrder, Begun
      <4>3. status[p] = "succeeded" => Required \subseteq listed[p]
        BY <1>0 DEF WriteManifest, EndsTruly, Begun
      <4>4. QED
        BY <4>1, <4>2, <4>3 DEF WriteManifest
    <3>2. CASE r # run[p]
      <4>1. manifest'[r] = manifest[r]
        BY <1>0, <3>2 DEF WriteManifest, BatchTypeOK
      <4>2. QED
        BY <1>2, <2>1, <4>1, RecordsUndisturbed
    <3>3. QED
      BY <3>1, <3>2
  <2>2. ASSUME NEW q \in Processes, exit'[q] = "0"
        PROVE  manifest'[run'[q]] # NoManifest /\ manifest'[run'[q]].status = "succeeded"
    <3>1. /\ exit[q] = "0" /\ run'[q] = run[q]
          /\ manifest[run[q]] # NoManifest /\ manifest[run[q]].status = "succeeded"
      BY <2>2 DEF WriteManifest, RunInvariant, RunRecordsAreTrue
    <3>2. run[q] # run[p]
      BY <1>0, <3>1 DEF WriteManifest, OwnsItsRun, Begun
    <3>3. run[q] \in RunIds
      BY <2>2, <3>1 DEF RunInvariant, EndsTruly
    <3>4. QED
      BY <1>0, <3>1, <3>2, <3>3 DEF WriteManifest, BatchTypeOK
  <2>3. QED
    BY <2>1, <2>2 DEF RunRecordsAreTrue
<1>9. QED
  BY <1>1, <1>3, <1>4, <1>5, <1>6, <1>7, <1>8 DEF RunInvariant

LEMMA ManifestRaisesPreserves ==
  ASSUME RunInvariant, NEW p \in Processes, ManifestRaises(p)
  PROVE  RunInvariant'
<1>0. BatchTypeOK /\ OwnsItsRun(p) /\ InOrder(p) /\ EndsTruly(p)
  BY DEF RunInvariant
<1>1. BatchTypeOK'
  BY <1>0 DEF ManifestRaises, Fault, BatchTypeOK, Stages, Statuses, Manifests
<1>2. Local(p)
  BY <1>0 DEF ManifestRaises, Fault, Local, OthersStay, OwnRunOnly, Begun, Outputs, OwnsItsRun, EndsTruly
<1>3. \A q \in Processes \ {p} : OwnsItsRun(q)' /\ InOrder(q)' /\ EndsTruly(q)'
  BY <1>2, OthersUndisturbed
<1>4. OwnsItsRun(p)'
  BY <1>0 DEF ManifestRaises, Fault, OwnsItsRun, Begun, Outputs
<1>5. InOrder(p)'
  BY <1>0, <1>1 DEF ManifestRaises, Fault, InOrder, Begun, Trying, Outputs
<1>6. EndsTruly(p)'
  BY <1>0 DEF ManifestRaises, Fault, EndsTruly, OwnsItsRun, InOrder, Begun, Outputs
<1>7. Untaken'
  BY DEF ManifestRaises, RunInvariant, Untaken
<1>8. RunRecordsAreTrue'
  BY <1>6, RecordsUndisturbed DEF ManifestRaises, RunInvariant, RunRecordsAreTrue
<1>9. QED
  BY <1>1, <1>3, <1>4, <1>5, <1>6, <1>7, <1>8 DEF RunInvariant

LEMMA StopPreserves ==
  ASSUME RunInvariant, NEW p \in Processes, Stop(p)
  PROVE  RunInvariant'
<1>0. BatchTypeOK /\ OwnsItsRun(p) /\ InOrder(p) /\ EndsTruly(p)
  BY DEF RunInvariant
<1>1. BatchTypeOK'
  BY <1>0 DEF Stop, BatchTypeOK, Stages, Statuses, Manifests
<1>2. Local(p)
  BY <1>0 DEF Stop, BatchTypeOK, Local, OthersStay, OwnRunOnly, Begun, Outputs
<1>3. \A q \in Processes \ {p} : OwnsItsRun(q)' /\ InOrder(q)' /\ EndsTruly(q)'
  BY <1>2, OthersUndisturbed
<1>4. OwnsItsRun(p)'
  BY <1>0 DEF Stop, OwnsItsRun, Begun, Outputs
<1>5. InOrder(p)'
  BY <1>0, <1>1 DEF Stop, InOrder, Begun, Trying, Outputs
<1>6. EndsTruly(p)'
  BY <1>0 DEF Stop, BatchTypeOK, EndsTruly, Begun, Outputs
<1>7. Untaken'
  BY DEF Stop, RunInvariant, Untaken
<1>8. RunRecordsAreTrue'
  BY <1>5, <1>6, RecordsUndisturbed DEF Stop, RunInvariant, RunRecordsAreTrue, InOrder, EndsTruly
<1>9. QED
  BY <1>1, <1>3, <1>4, <1>5, <1>6, <1>7, <1>8 DEF RunInvariant

LEMMA StopRaisesPreserves ==
  ASSUME RunInvariant, NEW p \in Processes, StopRaises(p)
  PROVE  RunInvariant'
<1>0. BatchTypeOK /\ OwnsItsRun(p) /\ InOrder(p) /\ EndsTruly(p)
  BY DEF RunInvariant
<1>1. BatchTypeOK'
  BY <1>0 DEF StopRaises, Fault, BatchTypeOK, Stages, Statuses, Manifests
<1>2. Local(p)
  BY <1>0 DEF StopRaises, Fault, BatchTypeOK, Local, OthersStay, OwnRunOnly, Begun, Outputs
<1>3. \A q \in Processes \ {p} : OwnsItsRun(q)' /\ InOrder(q)' /\ EndsTruly(q)'
  BY <1>2, OthersUndisturbed
<1>4. OwnsItsRun(p)'
  BY <1>0 DEF StopRaises, Fault, OwnsItsRun, Begun, Outputs
<1>5. InOrder(p)'
  BY <1>0, <1>1 DEF StopRaises, Fault, InOrder, Begun, Trying, Outputs
<1>6. EndsTruly(p)'
  BY <1>0 DEF StopRaises, Fault, EndsTruly, Begun, Outputs
<1>7. Untaken'
  BY DEF StopRaises, RunInvariant, Untaken
<1>8. RunRecordsAreTrue'
  BY <1>6, RecordsUndisturbed DEF StopRaises, RunInvariant, RunRecordsAreTrue
<1>9. QED
  BY <1>1, <1>3, <1>4, <1>5, <1>6, <1>7, <1>8 DEF RunInvariant

LEMMA KillPreserves ==
  ASSUME RunInvariant, NEW p \in Processes, Kill(p)
  PROVE  RunInvariant'
<1>0. BatchTypeOK /\ OwnsItsRun(p) /\ InOrder(p) /\ EndsTruly(p)
  BY DEF RunInvariant
<1>1. BatchTypeOK'
  BY <1>0 DEF Kill, Fault, CutOff, BatchTypeOK, Stages, Statuses, PartFiles, Manifests
<1>2. Local(p)
  BY <1>0 DEF Kill, Fault, CutOff, BatchTypeOK, Local, OthersStay, OwnRunOnly, Begun, Outputs, PartFiles
<1>3. \A q \in Processes \ {p} : OwnsItsRun(q)' /\ InOrder(q)' /\ EndsTruly(q)'
  BY <1>2, OthersUndisturbed
<1>4. OwnsItsRun(p)'
  BY <1>0 DEF Kill, Fault, CutOff, OwnsItsRun, Begun, Outputs
<1>5. InOrder(p)'
  BY <1>1 DEF Kill, BatchTypeOK, InOrder, Begun, Trying, Outputs
<1>6. EndsTruly(p)'
  BY <1>0 DEF Kill, Fault, CutOff, EndsTruly, Begun, Outputs
<1>7. Untaken'
  <2>1. run[p] \in taken \/ torn' = torn
    BY <1>0 DEF Kill, CutOff, OwnsItsRun, Begun, PartFiles
  <2>2. \A r \in RunIds \ taken : torn'[r] = torn[r]
    BY <2>1 DEF Kill, CutOff, BatchTypeOK, RunInvariant
  <2>3. QED
    BY <2>2 DEF Kill, RunInvariant, Untaken
<1>8. RunRecordsAreTrue'
  BY <1>2, <1>6, RecordsUndisturbed DEF Kill, BatchTypeOK, RunInvariant, RunRecordsAreTrue
<1>9. QED
  BY <1>1, <1>3, <1>4, <1>5, <1>6, <1>7, <1>8 DEF RunInvariant

LEMMA BatchPreserves ==
  ASSUME RunInvariant, NEW p \in Processes, BatchStep(p)
  PROVE  RunInvariant'
BY LaunchPreserves, MakeDirectoryPreserves, WritePreserves, SucceedPreserves, RaisePreserves,
   WriteManifestPreserves, ManifestRaisesPreserves, StopPreserves, StopRaisesPreserves,
   KillPreserves DEF BatchStep

(* An engine does not write, and a load writes in Redis only: a failure of *)
(* one counts among the faults.                                            *)
LEMMA ReleasePreserves ==
  ASSUME RunInvariant, Load \/ Decide \/ UNCHANGED vars
  PROVE  RunInvariant'
<1>1. UNCHANGED <<run, input, stage, status, listed, exit, taken, disk, torn, mined, manifest>>
  BY DEF Load, Decide, vars, LookUpCatalog, DeleteStale, Publish, LoadRaises, Begin, LookUp, batchVars
<1>2. faults' = faults \/ (faults < MaxFaults /\ faults' = faults + 1)
  BY DEF Load, Decide, vars, LookUpCatalog, DeleteStale, Publish, LoadRaises, Fault, Begin, LookUp,
         batchVars
<1>3. BatchTypeOK'
  BY <1>1, <1>2 DEF RunInvariant, BatchTypeOK
<1>4. QED
  BY <1>1, <1>3 DEF RunInvariant, OwnsItsRun, InOrder, EndsTruly, Untaken, RunRecordsAreTrue

LEMMA RunInvariantHolds == Spec => []RunInvariant
<1>1. Init => RunInvariant
  BY RunInit DEF Init
<1>2. RunInvariant /\ [Next]_vars => RunInvariant'
  BY BatchPreserves, ReleasePreserves DEF Next, Batch
<1>3. QED
  BY <1>1, <1>2, PTL DEF Spec

(* The state of a batch run has its type: run ids, outputs, statuses and   *)
(* manifests of spark_bootstrap.run.                                       *)
THEOREM BatchTypeCorrect == Spec => []BatchTypeOK
<1>1. RunInvariant => BatchTypeOK
  BY DEF RunInvariant
<1>2. QED
  BY <1>1, RunInvariantHolds, PTL

(* The manifest and the exit code of spark_bootstrap.py tell the truth,    *)
(* for any number of invocations, with equal run ids too, and wherever a   *)
(* run is cut off.                                                         *)
THEOREM RunRecordsTrue == Spec => []RunRecordsAreTrue
<1>1. RunInvariant => RunRecordsAreTrue
  BY DEF RunInvariant
<1>2. QED
  BY <1>1, RunInvariantHolds, PTL

-----------------------------------------------------------------------------
(* What Redis holds.                                                       *)

(* The files of a run come from the input of the process that writes them. *)
MinedAgrees ==
  \A p \in Processes :
    stage[p] \in Begun /\ disk[run[p]] # {} => mined[run[p]] = input[p]

(* A load that is about to publish has deleted every rule of the catalog   *)
(* it read.                                                                *)
LoadInvariant ==
  /\ loader \in {"idle", "delete", "publish"}
  /\ loader # "idle" => loading \in RunIds
  /\ loader = "delete" => stale = catalog
  /\ loader = "publish" => rules = {}

ReleaseInvariant == RunInvariant /\ MinedAgrees /\ LoadInvariant /\ SnapshotIsOneArtifact

(* A serving CSV is neither removed nor replaced. *)
LEMMA CsvIsStable ==
  ASSUME RunInvariant, MinedAgrees, NEW p \in Processes, BatchStep(p)
  PROVE  /\ MinedAgrees'
         /\ \A r \in RunIds : HasCsv(r) => HasCsv(r)' /\ mined'[r] = mined[r]
<1>0. /\ BatchTypeOK
      /\ \A q \in Processes : OwnsItsRun(q) /\ EndsTruly(q)
  BY DEF RunInvariant
<1>1. CASE Write(p)
  <2>1. /\ stage[p] \in Begun /\ stage' = [stage EXCEPT ![p] = NextStage(p)]
        /\ run' = run /\ input' = input /\ run[p] \in RunIds
    BY <1>0, <1>1 DEF Write, Begun, EndsTruly, Outputs
  <2>2. /\ \A r \in RunIds \ {run[p]} : disk'[r] = disk[r] /\ mined'[r] = mined[r]
        /\ disk[run[p]] \subseteq disk'[run[p]]
        /\ disk'[run[p]] # {} => mined'[run[p]] = input[p]
    <3>1. CASE Exists(p)
      BY <1>1, <2>1, <3>1 DEF Write, MinedAgrees
    <3>2. CASE ~Exists(p)
      BY <1>0, <1>1, <2>1, <3>2 DEF Write, BatchTypeOK
    <3>3. QED
      BY <3>1, <3>2
  <2>3. ASSUME NEW r \in RunIds, HasCsv(r) PROVE HasCsv(r)' /\ mined'[r] = mined[r]
    BY <2>1, <2>2, <2>3 DEF HasCsv, MinedAgrees
  <2>4. ASSUME NEW q \in Processes, stage'[q] \in Begun, disk'[run'[q]] # {}
        PROVE  mined'[run'[q]] = input'[q]
    <3>1. CASE q = p
      BY <2>1, <2>2, <2>4, <3>1
    <3>2. CASE q # p
      <4>1. stage[q] \in Begun
        BY <1>0, <2>1, <2>4, <3>2 DEF BatchTypeOK
      <4>2. run[q] \in RunIds /\ run[q] # run[p]
        BY <1>0, <2>1, <3>2, <4>1 DEF OwnsItsRun, EndsTruly, Begun, Outputs
      <4>3. QED
        BY <2>1, <2>2, <2>4, <4>1, <4>2 DEF MinedAgrees
    <3>3. QED
      BY <3>1, <3>2
  <2>5. QED
    BY <2>3, <2>4 DEF MinedAgrees
<1>2. CASE MakeDirectory(p)
  <2>1. ASSUME NEW q \in Processes, stage'[q] \in Begun, disk'[run'[q]] # {}
        PROVE  mined'[run'[q]] = input'[q]
    <3>1. CASE q = p
      <4>1. run[p] \in RunIds \ taken
        BY <1>0, <1>2, <2>1, <3>1 DEF MakeDirectory, BatchTypeOK, EndsTruly, Begun, Outputs
      <4>2. QED
        BY <1>2, <2>1, <3>1, <4>1 DEF MakeDirectory, RunInvariant, Untaken
    <3>2. CASE q # p
      BY <1>0, <1>2, <2>1, <3>2 DEF MakeDirectory, BatchTypeOK, MinedAgrees
    <3>3. QED
      BY <3>1, <3>2
  <2>2. QED
    BY <1>2, <2>1 DEF MakeDirectory, HasCsv, MinedAgrees
<1>3. CASE ~Write(p) /\ ~MakeDirectory(p)
  <2>1. /\ disk' = disk /\ mined' = mined
        /\ \A q \in Processes : stage'[q] \in Begun =>
              stage[q] \in Begun /\ run'[q] = run[q] /\ input'[q] = input[q]
    BY <1>0, <1>3 DEF BatchStep, BatchTypeOK, Begun, Outputs, Launch, Succeed, Raise, WriteManifest,
                      ManifestRaises, Stop, StopRaises, Kill
  <2>2. QED
    BY <2>1 DEF HasCsv, MinedAgrees
<1>4. QED
  BY <1>1, <1>2, <1>3

LEMMA LoadPreserves ==
  ASSUME ReleaseInvariant, Load
  PROVE  LoadInvariant' /\ SnapshotIsOneArtifact' /\ MinedAgrees'
<1>1. UNCHANGED <<run, input, stage, status, listed, exit, taken, disk, torn, mined, manifest>>
  BY DEF Load, LookUpCatalog, DeleteStale, Publish, LoadRaises, batchVars
<1>2. MinedAgrees' /\ \A r \in RunIds : HasCsv(r)' = HasCsv(r)
  BY <1>1 DEF MinedAgrees, HasCsv, ReleaseInvariant
<1>3. rules # {} => catalog = Antecedents(rules) /\ catalog # {}
  BY DEF ReleaseInvariant, SnapshotIsOneArtifact, Antecedents, Column
<1>4. ASSUME NEW r \in RunIds, LookUpCatalog(r)
      PROVE  LoadInvariant' /\ SnapshotIsOneArtifact'
  BY <1>1, <1>2, <1>3, <1>4 DEF LookUpCatalog, LoadInvariant, SnapshotIsOneArtifact, ReleaseInvariant
<1>5. CASE DeleteStale
  <2>1. rules' = {}
    BY <1>3, <1>5 DEF DeleteStale, LoadInvariant, ReleaseInvariant, Antecedents, Column
  <2>2. QED
    BY <1>2, <1>5, <2>1 DEF DeleteStale, LoadInvariant, SnapshotIsOneArtifact, ReleaseInvariant
<1>6. CASE Publish
  <2>1. rules = {} /\ loading \in RunIds
    BY <1>6 DEF Publish, LoadInvariant, ReleaseInvariant
  <2>2. CASE HasCsv(loading)
    <3>1. rules' = Snapshot[mined[loading]] /\ catalog' = Antecedents(rules')
      BY <1>6, <2>1, <2>2 DEF Publish
    <3>2. SnapshotIsOneArtifact'
      BY <1>1, <1>2, <2>1, <2>2, <3>1 DEF SnapshotIsOneArtifact, Antecedents, Column
    <3>3. QED
      BY <1>2, <1>6, <3>2 DEF Publish, LoadInvariant
  <2>3. CASE ~HasCsv(loading)
    BY <1>2, <1>6, <2>1, <2>3 DEF Publish, LoadInvariant, SnapshotIsOneArtifact
  <2>4. QED
    BY <2>2, <2>3
<1>7. CASE LoadRaises
  BY <1>1, <1>2, <1>7 DEF LoadRaises, LoadInvariant, SnapshotIsOneArtifact, ReleaseInvariant
<1>8. QED
  BY <1>2, <1>4, <1>5, <1>6, <1>7 DEF Load

LEMMA ReleaseInvariantHolds == Spec => []ReleaseInvariant
<1>1. Init => ReleaseInvariant
  BY RunInit DEF Init, ReleaseInvariant, MinedAgrees, LoadInvariant, SnapshotIsOneArtifact, BatchInit,
                 Begun, Outputs
<1>2. ReleaseInvariant /\ [Next]_vars => ReleaseInvariant'
  <2> SUFFICES ASSUME ReleaseInvariant, [Next]_vars PROVE ReleaseInvariant'
    OBVIOUS
  <2>1. RunInvariant'
    BY BatchPreserves, ReleasePreserves DEF Next, Batch, ReleaseInvariant
  <2>2. ASSUME NEW p \in Processes, Batch(p) PROVE ReleaseInvariant'
    <3>1. /\ MinedAgrees'
          /\ \A r \in RunIds : HasCsv(r) => HasCsv(r)' /\ mined'[r] = mined[r]
      BY <2>2, CsvIsStable DEF Batch, ReleaseInvariant
    <3>2. UNCHANGED releaseVars
      BY <2>2 DEF Batch
    <3>3. SnapshotIsOneArtifact'
      BY <3>1, <3>2 DEF SnapshotIsOneArtifact, ReleaseInvariant, releaseVars, Antecedents, Column
    <3>4. QED
      BY <2>1, <3>1, <3>2, <3>3 DEF ReleaseInvariant, LoadInvariant, releaseVars
  <2>3. CASE Load
    BY <2>1, <2>3, LoadPreserves DEF ReleaseInvariant
  <2>4. CASE Decide \/ UNCHANGED vars
    <3>1. UNCHANGED <<batchVars, rules, catalog, loader, stale, loading>>
      BY <2>4 DEF Decide, Begin, LookUp, vars, releaseVars
    <3>2. QED
      BY <2>1, <3>1 DEF ReleaseInvariant, MinedAgrees, LoadInvariant, SnapshotIsOneArtifact, HasCsv,
                        batchVars
  <2>5. QED
    BY <2>2, <2>3, <2>4 DEF Next
<1>3. QED
  BY <1>1, <1>2, PTL DEF Spec

(* load_rules leaves in Redis the rules of one artifact, all of them, or   *)
(* none, for any runs, inputs and failures, as long as loads do not        *)
(* overlap.                                                                *)
THEOREM SnapshotWhole == Spec => []SnapshotIsOneArtifact
<1>1. ReleaseInvariant => SnapshotIsOneArtifact
  BY DEF ReleaseInvariant
<1>2. QED
  BY <1>1, ReleaseInvariantHolds, PTL

-----------------------------------------------------------------------------
(* What the rows of an artifact say of its source. *)
LEMMA SliceTables ==
  ASSUME NEW source \in Sources
  PROVE  /\ Slice[source].products = Tables[source].products
         /\ Slice[source].orders \subseteq Tables[source].orders
         /\ Slice[source].prior \subseteq Tables[source].prior
         /\ Slice[source].train \subseteq Tables[source].train
<1> DEFINE t == Tables[source]
<1>1. t = [aisles |-> t.aisles, departments |-> t.departments, products |-> t.products,
           orders |-> t.orders, prior |-> t.prior, train |-> t.train]
  BY SourceAssumption
<1>2. Slice[source] = Bounded(t)
  BY DEF Slice
<1> HIDE DEF t
<1>3. /\ Bounded(t).products = t.products /\ Bounded(t).orders \subseteq t.orders
      /\ Bounded(t).prior \subseteq t.prior /\ Bounded(t).train \subseteq t.train
  BY <1>1 DEF Bounded
<1>4. QED
  BY <1>2, <1>3 DEF t

(* MineRules, with names for its parts. *)
BoughtIn(baskets) == UNION {b.items : b \in baskets}

Implied(baskets) ==
  {pair \in BoughtIn(baskets) \X BoughtIn(baskets) :
     [antecedent |-> {pair[1]}, consequent |-> {pair[2]}] \in AssociationRules(baskets)}

Until(baskets, a, c) ==
  {pair \in Implied(baskets) : pair[1] < a \/ (pair[1] = a /\ pair[2] =< c)}

RowFor(baskets, products, a, c) ==
  [line       |-> Cardinality(Until(baskets, a, c)),
   antecedent |-> NameOf(products, a), consequent |-> NameOf(products, c),
   support    |-> (100 * Frequency(baskets, {a, c})) \div Cardinality(baskets),
   confidence |-> (100 * Frequency(baskets, {a, c})) \div Frequency(baskets, {a}),
   lift       |-> (100 * Frequency(baskets, {a, c}) * Cardinality(baskets))
                    \div (Frequency(baskets, {a}) * Frequency(baskets, {c}))]

LEMMA MinedRows ==
  ASSUME NEW baskets, NEW products
  PROVE  MineRules(baskets, products) =
           {RowFor(baskets, products, pair[1], pair[2]) : pair \in Implied(baskets)}
BY Zenon DEF MineRules, RowFor, Until, Implied, BoughtIn

LEMMA RowNames ==
  ASSUME NEW baskets, NEW products, NEW w \in MineRules(baskets, products)
  PROVE  \E a, c \in BoughtIn(baskets) :
           w.antecedent = NameOf(products, a) /\ w.consequent = NameOf(products, c)
<1>1. PICK pair \in Implied(baskets) : w = RowFor(baskets, products, pair[1], pair[2])
  BY MinedRows
<1>2. pair[1] \in BoughtIn(baskets) /\ pair[2] \in BoughtIn(baskets)
  BY DEF Implied
<1>3. QED
  BY <1>1, <1>2 DEF RowFor

(* Items of baskets are products of lines of the source. *)
LEMMA BoughtIsOrdered ==
  ASSUME NEW source \in Sources,
         NEW id \in BoughtIn(Baskets(Facts[source]))
  PROVE  id \in Known(Facts[source]) /\ id \in Column(Tables[source].prior \cup Tables[source].train, "product_id")
<1>1. PICK x \in Facts[source] : id = x[4]
  BY DEF Baskets, BoughtIn
<1>2. Facts[source] = Transactions(Slice[source])
  BY DEF Facts
<1>3. PICK y \in Slice[source].orders \X (Slice[source].prior \cup Slice[source].train) :
        x = <<y[1].order_id, y[1].user_id, y[1].eval_set, y[2].product_id>>
  BY <1>1, <1>2 DEF Transactions
<1>4. y[2] \in Tables[source].prior \cup Tables[source].train /\ id = y[2].product_id
  BY <1>1, <1>3, SliceTables
<1>5. QED
  BY <1>1, <1>4 DEF Column, Known

(* Without dangling lines every row names products of the source. *)
LEMMA NamesAreProducts ==
  ASSUME NEW source \in Sources, Passes[source], NEW w \in Artifact[source]
  PROVE  Blank \notin {w.antecedent, w.consequent}
<1> DEFINE ids == Column(Tables[source].products, "product_id")
<1>1. ~Dangling(Tables[source])
  BY DEF Passes, Passed
<1>2. ASSUME NEW id \in BoughtIn(Baskets(Facts[source]))
      PROVE  NameOf(Slice[source].products, id) \in ids
  <2>1. PICK l \in Tables[source].prior \cup Tables[source].train : id = l.product_id
    BY BoughtIsOrdered DEF Column
  <2>2. id \in ids
    BY <1>1, <2>1 DEF Dangling
  <2>3. QED
    BY <2>2, SliceTables DEF NameOf
<1>3. w.antecedent \in ids /\ w.consequent \in ids
  <2>1. w \in MineRules(Baskets(Facts[source]), Slice[source].products)
    BY DEF Artifact
  <2>2. QED
    BY <1>2, <2>1, RowNames
<1>4. QED
  BY <1>3, SourceAssumption

-----------------------------------------------------------------------------
(* What is served was mined from a source that passed: ServedInv.          *)

(* Past its validation a run works on a source that passed; so does every  *)
(* run with a serving artifact.                                            *)
Checked ==
  /\ \A p \in Processes :
       Policy = "fail" /\ stage[p] \in Trying \ {"validation_json"} => Passes[input[p]]
  /\ \A r \in RunIds : HasCsv(r) =>
       mined[r] \in Sources /\ (Policy = "fail" => Passes[mined[r]])

IsServed(w) == \E r \in RunIds : HasCsv(r) /\ w \in Artifact[mined[r]]

EngineType == engine = [cart |-> engine.cart, product |-> engine.product,
                        unvisited |-> engine.unvisited, best |-> engine.best]

ServedInv ==
  /\ Checked
  /\ EngineType
  /\ engine.best # NoRule => IsServed(engine.best)

(* A step of a process keeps the books on what passed. *)
LEMMA CheckedStep ==
  ASSUME RunInvariant, MinedAgrees, Checked, NEW p \in Processes, BatchStep(p)
  PROVE  Checked'
<1>0. /\ BatchTypeOK /\ EndsTruly(p)
      /\ \A r \in RunIds : HasCsv(r) => HasCsv(r)' /\ mined'[r] = mined[r]
  BY CsvIsStable DEF RunInvariant
<1>1. CASE Write(p)
  <2>1. /\ stage[p] \in Outputs /\ run[p] \in RunIds /\ input[p] \in Sources
        /\ stage' = [stage EXCEPT ![p] = NextStage(p)] /\ run' = run /\ input' = input
    BY <1>0, <1>1 DEF Write, EndsTruly, Outputs
  <2>2. Policy = "fail" /\ (stage[p] # "validation_json" \/ NextStage(p) # "finally")
          => Passes[input[p]]
    <3>1. CASE stage[p] # "validation_json"
      BY <2>1, <3>1 DEF Checked, Trying
    <3>2. CASE stage[p] = "validation_json" /\ NextStage(p) # "finally"
      BY <3>2 DEF NextStage, Rejected
    <3>3. QED
      BY <3>1, <3>2
  <2>3. ASSUME NEW q \in Processes, Policy = "fail", stage'[q] \in Trying \ {"validation_json"}
        PROVE  Passes[input'[q]]
    <3>1. CASE q = p
      <4>1. stage'[p] = NextStage(p)
        BY <1>0, <2>1 DEF BatchTypeOK
      <4>2. NextStage(p) # "finally"
        BY <2>3, <3>1, <4>1 DEF Trying, Outputs
      <4>3. QED
        BY <2>1, <2>2, <2>3, <3>1, <4>2
    <3>2. CASE q # p
      BY <1>0, <2>1, <2>3, <3>2 DEF BatchTypeOK, Checked
    <3>3. QED
      BY <3>1, <3>2
  <2>4. ASSUME NEW r \in RunIds, HasCsv(r)'
        PROVE  mined'[r] \in Sources /\ (Policy = "fail" => Passes[mined'[r]])
    <3>1. CASE HasCsv(r)
      BY <1>0, <3>1 DEF Checked
    <3>2. CASE ~HasCsv(r)
      <4>1. ~Exists(p) /\ r = run[p] /\ stage[p] = "rules_serving_csv"
        BY <1>0, <1>1, <2>1, <2>4, <3>2 DEF Write, HasCsv, BatchTypeOK
      <4>2. mined'[r] = input[p]
        BY <1>0, <1>1, <2>1, <4>1 DEF Write, BatchTypeOK
      <4>3. QED
        BY <2>1, <2>2, <4>1, <4>2
    <3>3. QED
      BY <3>1, <3>2
  <2>5. QED
    BY <2>3, <2>4 DEF Checked
<1>2. CASE ~Write(p)
  <2>1. /\ disk' = disk /\ mined' = mined
        /\ \A q \in Processes : stage'[q] \in Trying \ {"validation_json"} =>
              stage[q] = stage'[q] /\ input'[q] = input[q]
    BY <1>0, <1>2 DEF BatchStep, BatchTypeOK, Trying, Outputs, Launch, MakeDirectory, Succeed,
                      Raise, WriteManifest, ManifestRaises, Stop, StopRaises, Kill
  <2>2. QED
    BY <2>1 DEF Checked, HasCsv
<1>3. QED
  BY <1>1, <1>2

(* The rules in Redis are rows of an artifact. *)
LEMMA RulesAreServed ==
  ASSUME ReleaseInvariant, Checked, NEW w \in rules
  PROVE  IsServed(w)
<1>1. PICK r \in RunIds : HasCsv(r) /\ rules = Snapshot[mined[r]]
  BY DEF ReleaseInvariant, SnapshotIsOneArtifact
<1>2. mined[r] \in Sources
  BY <1>1 DEF Checked
<1>3. Snapshot[mined[r]] = StrongestRows(Artifact[mined[r]], [lift |-> MinLift])
  BY <1>2 DEF Snapshot
<1>4. w \in Artifact[mined[r]]
  BY <1>1, <1>3 DEF StrongestRows, StrongestOf
<1>5. QED
  BY <1>1, <1>4 DEF IsServed

LEMMA ServedNext ==
  ReleaseInvariant /\ ServedInv /\ [Next]_vars => ServedInv'
<1> SUFFICES ASSUME ReleaseInvariant, ServedInv, [Next]_vars PROVE ServedInv'
  OBVIOUS
<1>1. ASSUME NEW p \in Processes, Batch(p) PROVE ServedInv'
  <2>1. Checked'
    BY <1>1, CheckedStep DEF Batch, ReleaseInvariant, ServedInv
  <2>2. \A r \in RunIds : HasCsv(r) => HasCsv(r)' /\ mined'[r] = mined[r]
    BY <1>1, CsvIsStable DEF Batch, ReleaseInvariant
  <2>3. engine' = engine
    BY <1>1 DEF Batch, releaseVars
  <2>4. \A w : IsServed(w) => IsServed(w)'
    BY <2>2 DEF IsServed
  <2>5. QED
    BY <2>1, <2>3, <2>4 DEF ServedInv, EngineType
<1>2. CASE Load \/ Decide \/ UNCHANGED vars
  <2>1. UNCHANGED <<input, stage, disk, mined>>
    BY <1>2 DEF Load, LookUpCatalog, DeleteStale, Publish, LoadRaises, Decide, Begin, LookUp,
                vars, batchVars
  <2>2. Checked' /\ \A w : IsServed(w) => IsServed(w)'
    BY <2>1 DEF ServedInv, Checked, HasCsv, IsServed
  <2>3. CASE engine' = engine
    BY <2>2, <2>3 DEF ServedInv, EngineType
  <2>4. ASSUME NEW view \in Views, Begin(view[1], view[2]) PROVE ServedInv'
    BY <2>2, <2>4 DEF Begin, ServedInv, EngineType
  <2>5. ASSUME NEW item \in engine.unvisited, LookUp(item) PROVE ServedInv'
    <3>1. engine'.best = engine.best \/ engine'.best \in rules
      BY <2>5 DEF LookUp, ServedInv, EngineType
    <3>2. EngineType'
      BY <2>5 DEF LookUp, ServedInv, EngineType
    <3>3. QED
      BY <2>2, <3>1, <3>2, RulesAreServed DEF ServedInv
  <2>6. QED
    BY <1>2, <2>3, <2>4, <2>5 DEF Load, LookUpCatalog, DeleteStale, Publish, LoadRaises, Decide,
                                 vars, releaseVars
<1>3. QED
  BY <1>1, <1>2 DEF Next

LEMMA ServedInit == Init => ServedInv
BY DEF Init, BatchInit, ServedInv, Checked, HasCsv, EngineType, Trying, Outputs

LEMMA ServedAreMined == ReleaseInvariant /\ ServedInv => RulesAreMined
<1> SUFFICES ASSUME ReleaseInvariant, ServedInv, Policy = "fail",
                    NEW w \in rules \cup ({engine.best} \ {NoRule})
             PROVE  /\ Blank \notin {w.antecedent, w.consequent}
                    /\ \E r \in RunIds : /\ HasCsv(r) /\ w \in Artifact[mined[r]]
                                        /\ Passes[mined[r]]
  BY DEF RulesAreMined
<1>1. IsServed(w)
  BY RulesAreServed DEF ServedInv
<1>2. PICK r \in RunIds : HasCsv(r) /\ w \in Artifact[mined[r]]
  BY <1>1 DEF IsServed
<1>3. mined[r] \in Sources /\ Passes[mined[r]]
  BY <1>2 DEF ServedInv, Checked
<1>4. QED
  BY <1>2, <1>3, NamesAreProducts

(* Under the policy "fail" only rules of validated inputs are ever served  *)
(* or support an offer, and they name products, whatever is cut off and    *)
(* whichever loads an evaluation spans.                                    *)
THEOREM ServedRulesAreMined == Spec => []RulesAreMined
<1>1. Init => ServedInv
  BY ServedInit
<1>2. ReleaseInvariant /\ ServedInv /\ [Next]_vars => ServedInv'
  BY ServedNext
<1>3. ReleaseInvariant /\ ServedInv => RulesAreMined
  BY ServedAreMined
<1>4. QED
  BY <1>1, <1>2, <1>3, ReleaseInvariantHolds, PTL DEF Spec

-----------------------------------------------------------------------------
(* Rows of an artifact are told apart by their lines.                      *)

(* Tables are finite, and what is computed from them is. *)
LEMMA FactsAreFinite ==
  ASSUME NEW source \in Sources
  PROVE  /\ IsFiniteSet(Facts[source])
         /\ IsFiniteSet(BoughtIn(Baskets(Facts[source])))
         /\ IsFiniteSet(Baskets(Facts[source]))
<1> DEFINE t == Slice[source]
           joined == {y \in t.orders \X (t.prior \cup t.train) : y[1].order_id = y[2].order_id}
           Fact(x) == <<x[1].order_id, x[1].user_id, x[1].eval_set, x[2].product_id>>
           facts == Facts[source]
           Basket(x) == [order |-> <<x[1], x[2], x[3]>>,
                         items |-> {y[4] : y \in {z \in facts : <<z[1], z[2], z[3]>> = <<x[1], x[2], x[3]>>}}]
<1>1. IsFiniteSet(joined)
  <2>1. IsFiniteSet(t.orders) /\ IsFiniteSet(t.prior) /\ IsFiniteSet(t.train)
    BY SliceTables, SourceAssumption, FS_Subset
  <2>2. IsFiniteSet(t.prior \cup t.train)
    BY <2>1, FS_Union
  <2>3. IsFiniteSet(t.orders \X (t.prior \cup t.train))
    BY <2>1, <2>2, FS_Product
  <2>4. QED
    BY <2>3, FS_Subset
<1>2. facts = {Fact(x) : x \in joined}
  BY DEF Facts, Transactions
<1>3. IsFiniteSet(facts)
  <2> DEFINE f == [x \in joined |-> Fact(x)]
  <2>1. f \in Surjection(joined, {Fact(x) : x \in joined})
    BY DEF Surjection
  <2>2. QED
    BY <1>1, <1>2, <2>1, FS_Surjection
<1>4. Baskets(facts) = {Basket(x) : x \in facts}
  BY DEF Baskets
<1> HIDE DEF facts
<1>5. IsFiniteSet(Baskets(facts))
  <2> DEFINE f == [x \in facts |-> Basket(x)]
  <2> HIDE DEF Basket
  <2>1. f \in Surjection(facts, {Basket(x) : x \in facts})
    BY DEF Surjection
  <2>2. QED
    BY <1>3, <1>4, <2>1, FS_Surjection
<1>6. IsFiniteSet(BoughtIn(Baskets(facts)))
  <2> DEFINE f == [x \in facts |-> x[4]]
  <2>1. f \in Surjection(facts, {x[4] : x \in facts})
    BY DEF Surjection
  <2>2. IsFiniteSet({x[4] : x \in facts})
    BY <1>3, <2>1, FS_Surjection
  <2>3. BoughtIn(Baskets(facts)) \subseteq {x[4] : x \in facts}
    BY DEF Baskets, BoughtIn
  <2>4. QED
    BY <2>2, <2>3, FS_Subset
<1>7. QED
  BY <1>3, <1>5, <1>6 DEF facts

(* Rows are written on lines of their own. *)
LEMMA LinesDiffer ==
  ASSUME NEW source \in Sources, NEW p \in Implied(Baskets(Facts[source])),
         NEW q \in Implied(Baskets(Facts[source])),
         Cardinality(Until(Baskets(Facts[source]), p[1], p[2])) =
           Cardinality(Until(Baskets(Facts[source]), q[1], q[2]))
  PROVE  p = q
<1> DEFINE baskets == Baskets(Facts[source])
           bought == BoughtIn(baskets)
<1>1. bought \subseteq Int /\ IsFiniteSet(bought)
  BY BoughtIsOrdered, FactsAreFinite, SourceAssumption
<1>2. Implied(baskets) \subseteq bought \X bought
  BY DEF Implied
<1>3. IsFiniteSet(Implied(baskets))
  BY <1>1, <1>2, FS_Product, FS_Subset
<1>4. ASSUME NEW x \in Implied(baskets), NEW y \in Implied(baskets),
             x[1] < y[1] \/ (x[1] = y[1] /\ x[2] < y[2])
      PROVE  Cardinality(Until(baskets, x[1], x[2])) # Cardinality(Until(baskets, y[1], y[2]))
  <2>0. x \in bought \X bought /\ y \in bought \X bought
    BY <1>2
  <2>1. \A z \in Implied(baskets) : z[1] \in Int /\ z[2] \in Int
    BY <1>1, <1>2
  <2>2. Until(baskets, x[1], x[2]) \subseteq Until(baskets, y[1], y[2])
    BY <1>4, <2>1 DEF Until
  <2>3. y \in Until(baskets, y[1], y[2]) /\ y \notin Until(baskets, x[1], x[2])
    BY <1>4, <2>1 DEF Until
  <2>4. IsFiniteSet(Until(baskets, y[1], y[2]))
    BY <1>3, FS_Subset DEF Until
  <2> DEFINE A == Until(baskets, x[1], x[2])
             B == Until(baskets, y[1], y[2])
  <2> HIDE DEF A, B
  <2>5. A \subseteq B /\ A # B /\ IsFiniteSet(B)
    BY <2>2, <2>3, <2>4 DEF A, B
  <2>6. Cardinality(A) < Cardinality(B) /\ Cardinality(A) \in Nat /\ Cardinality(B) \in Nat
    BY <2>5, FS_Subset, FS_CardinalityType
  <2>7. QED
    BY <2>6 DEF A, B
<1> HIDE DEF baskets
<1>5. p[1] \in Int /\ p[2] \in Int /\ q[1] \in Int /\ q[2] \in Int
       /\ p = <<p[1], p[2]>> /\ q = <<q[1], q[2]>> /\ p \in Implied(baskets) /\ q \in Implied(baskets)
  BY <1>1, <1>2 DEF baskets
<1>6. \/ p[1] < q[1] \/ (p[1] = q[1] /\ p[2] < q[2])
      \/ q[1] < p[1] \/ (q[1] = p[1] /\ q[2] < p[2])
      \/ p[1] = q[1] /\ p[2] = q[2]
  BY <1>5
<1>7. QED
  BY <1>4, <1>5, <1>6 DEF baskets

(* The metrics of a row are numbers. *)
LEMMA RowNumbers ==
  ASSUME NEW source \in Sources, NEW w \in Artifact[source]
  PROVE  w.lift \in Int /\ w.line \in Nat
<1> DEFINE baskets == Baskets(Facts[source])
<1>0. IsFiniteSet(baskets) /\ IsFiniteSet(BoughtIn(baskets))
  BY FactsAreFinite
<1>1. w \in MineRules(baskets, Slice[source].products)
  BY DEF Artifact
<1> HIDE DEF baskets
<1>2. PICK pair \in Implied(baskets) :
        w = RowFor(baskets, Slice[source].products, pair[1], pair[2])
  BY <1>1, MinedRows
<1>3. \A items : Frequency(baskets, items) \in Nat
  <2>1. \A items : IsFiniteSet({b \in baskets : items \subseteq b.items})
    BY <1>0, FS_Subset
  <2>2. QED
    BY <2>1, FS_CardinalityType DEF Frequency
<1>4. ASSUME NEW id \in BoughtIn(baskets) PROVE Frequency(baskets, {id}) > 0
  <2> DEFINE S == {b \in baskets : {id} \subseteq b.items}
  <2>1. S # {}
    BY DEF BoughtIn
  <2>2. IsFiniteSet(S)
    BY <1>0, FS_Subset
  <2> HIDE DEF S
  <2>3. Cardinality(S) # 0 /\ Cardinality(S) \in Nat
    BY <2>1, <2>2, FS_EmptySet, FS_CardinalityType
  <2>4. QED
    BY <2>3 DEF Frequency, S
<1>5. pair[1] \in BoughtIn(baskets) /\ pair[2] \in BoughtIn(baskets)
  BY DEF Implied
<1>6. Cardinality(baskets) \in Nat
  BY <1>0, FS_CardinalityType
<1>7. w.lift \in Int
  <2>1. w.lift = (100 * Frequency(baskets, {pair[1], pair[2]}) * Cardinality(baskets))
                    \div (Frequency(baskets, {pair[1]}) * Frequency(baskets, {pair[2]}))
    BY <1>2 DEF RowFor
  <2>2. \A x, y, c, d \in Nat : x > 0 /\ y > 0 => (100 * c * d) \div (x * y) \in Int
    <3>1. \A x, y \in Nat : x > 0 /\ y > 0 => x * y \in Nat /\ x * y > 0
      OBVIOUS
    <3>2. \A c, d \in Nat : 100 * c * d \in Int
      OBVIOUS
    <3>3. \A n \in Int, m \in Nat : m > 0 => n \div m \in Int
      OBVIOUS
    <3>4. QED
      BY <3>1, <3>2, <3>3
  <2>3. QED
    BY <1>3, <1>4, <1>5, <1>6, <2>1, <2>2
<1>8. w.line \in Nat
  <2>1. w.line = Cardinality(Until(baskets, pair[1], pair[2]))
    BY <1>2 DEF RowFor
  <2>2. IsFiniteSet(BoughtIn(baskets) \X BoughtIn(baskets))
    BY <1>0, FS_Product
  <2>3. Until(baskets, pair[1], pair[2]) \subseteq BoughtIn(baskets) \X BoughtIn(baskets)
    BY DEF Until, Implied
  <2>4. QED
    BY <2>1, <2>2, <2>3, FS_Subset, FS_CardinalityType
<1>9. QED
  BY <1>7, <1>8

(* A snapshot has one row of a pair of names, even if several products     *)
(* lack a name.                                                            *)
LEMMA OneRowPerPair ==
  ASSUME NEW source \in Sources, NEW v \in Snapshot[source], NEW w \in Snapshot[source],
         Pair(v) = Pair(w)
  PROVE  v = w
<1> DEFINE baskets == Baskets(Facts[source])
           products == Slice[source].products
           kept == {x \in Artifact[source] : x.antecedent # x.consequent /\ x.lift >= MinLift}
<1>1. v \in StrongestOf(kept) /\ w \in StrongestOf(kept)
  BY DEF Snapshot, StrongestRows
<1>2. v \in Artifact[source] /\ w \in Artifact[source] /\ v \in kept /\ w \in kept
  BY <1>1 DEF StrongestOf
<1>3. v.lift \in Int /\ w.lift \in Int /\ v.line \in Nat /\ w.line \in Nat
  BY <1>2, RowNumbers
<1>4. /\ v.lift < w.lift \/ (v.lift = w.lift /\ w.line =< v.line)
      /\ w.lift < v.lift \/ (w.lift = v.lift /\ v.line =< w.line)
  BY <1>1, <1>2 DEF StrongestOf
<1>5. v.line = w.line
  BY <1>3, <1>4
<1>6. v \in MineRules(baskets, products) /\ w \in MineRules(baskets, products)
  BY <1>2 DEF Artifact
<1>7. PICK p \in Implied(baskets) : v = RowFor(baskets, products, p[1], p[2])
  BY <1>6, MinedRows
<1>8. PICK q \in Implied(baskets) : w = RowFor(baskets, products, q[1], q[2])
  BY <1>6, MinedRows
<1>9. Cardinality(Until(baskets, p[1], p[2])) = Cardinality(Until(baskets, q[1], q[2]))
  BY <1>5, <1>7, <1>8 DEF RowFor
<1>10. p = q
  BY <1>9, LinesDiffer
<1>11. QED
  BY <1>7, <1>8, <1>10

-----------------------------------------------------------------------------
(* What an evaluation has found so far: DecisionInv.                       *)

Qualified(w) == w.lift >= MinLift /\ w.confidence >= LowestConfidence /\ w.support >= LowestSupport

(* Rules that support an offer from an item the engine has looked up. *)
Met ==
  {w \in rules : /\ w.antecedent \in engine.cart \ engine.unvisited
                 /\ w.consequent = engine.product
                 /\ Qualified(w)}

DecisionInv ==
  /\ engine.unvisited \subseteq engine.cart
  /\ steady => IF engine.best = NoRule THEN Met = {}
               ELSE /\ engine.best \in Met
                    /\ \A w \in Met : w.lift =< engine.best.lift

RulesAreRows ==
  /\ NoRule \notin rules
  /\ \A w \in rules : w.lift \in Int
  /\ \A v, w \in rules : Pair(v) = Pair(w) => v = w

(* What the engine reads are rows, one of a pair. *)
LEMMA ServedRows == ReleaseInvariant /\ ServedInv => RulesAreRows
<1> SUFFICES ASSUME ReleaseInvariant, ServedInv, rules # {} PROVE RulesAreRows
  BY DEF RulesAreRows
<1>1. PICK r \in RunIds : HasCsv(r) /\ rules = Snapshot[mined[r]]
  BY DEF ReleaseInvariant, SnapshotIsOneArtifact
<1>2. mined[r] \in Sources
  BY <1>1 DEF ServedInv, Checked
<1>3. rules \subseteq Artifact[mined[r]]
  BY <1>1, <1>2 DEF Snapshot, StrongestRows, StrongestOf
<1>4. QED
  BY <1>1, <1>2, <1>3, RowAssumption, RowNumbers, OneRowPerPair DEF RulesAreRows

(* One lookup takes the rule of its item into account. *)
LEMMA LookUpDecides ==
  ASSUME RulesAreRows, EngineType, DecisionInv, NEW item \in engine.unvisited, LookUp(item)
  PROVE  DecisionInv'
<1> DEFINE found == {w \in rules : Candidate(w, item)}
<1>1. /\ engine'.cart = engine.cart /\ engine'.product = engine.product
      /\ engine'.unvisited = engine.unvisited \ {item}
      /\ engine'.best = IF found = {} THEN engine.best ELSE CHOOSE w \in found : TRUE
      /\ rules' = rules /\ steady' = steady
  BY DEF LookUp, EngineType
<1>2. /\ engine.unvisited \subseteq engine.cart
      /\ engine'.unvisited \subseteq engine'.cart
      /\ item \in engine.cart
  BY <1>1 DEF DecisionInv
<1>3. \A w : w \in Met' <=> \/ w \in Met
                            \/ /\ w \in rules /\ w.antecedent = item
                               /\ w.consequent = engine.product /\ Qualified(w)
  BY <1>1, <1>2 DEF Met, Qualified
<1>4. CASE found = {}
  <2>1. engine'.best = engine.best
    BY <1>1, <1>4
  <2>2. ASSUME NEW w \in rules, w.antecedent = item, w.consequent = engine.product, Qualified(w)
        PROVE  engine.best # NoRule /\ ~(w.lift > engine.best.lift)
    BY <1>4, <2>2 DEF Candidate, Qualified
  <2>3. CASE steady /\ engine.best = NoRule
    <3>1. Met = {}
      BY <2>3 DEF DecisionInv
    <3>2. Met' = {}
      BY <1>3, <2>2, <2>3, <3>1
    <3>3. QED
      BY <1>2, <2>1, <2>3, <3>2 DEF DecisionInv
  <2>4. CASE steady /\ engine.best # NoRule
    <3>1. engine.best \in Met /\ \A w \in Met : w.lift =< engine.best.lift
      BY <2>4 DEF DecisionInv
    <3>2. engine.best \in rules
      BY <3>1 DEF Met
    <3>3. \A w \in Met' : w.lift =< engine.best.lift
      BY <1>3, <2>2, <3>1, <3>2 DEF RulesAreRows
    <3>4. engine.best \in Met'
      BY <1>3, <3>1
    <3>5. QED
      BY <1>2, <2>1, <2>4, <3>3, <3>4 DEF DecisionInv
  <2>5. CASE ~steady
    BY <1>1, <1>2, <2>5 DEF DecisionInv
  <2>6. QED
    BY <2>3, <2>4, <2>5
<1>5. CASE found # {}
  <2>1. engine'.best \in found
    BY <1>1, <1>5
  <2> DEFINE new == engine'.best
  <2> HIDE DEF new
  <2>2. new \in rules /\ Candidate(new, item)
    BY <2>1 DEF new
  <2>3. /\ new \in Met' /\ new # NoRule /\ new.lift \in Int
    BY <1>3, <2>2 DEF Candidate, Qualified, RulesAreRows
  <2>4. ASSUME NEW w \in rules, w.antecedent = item, w.consequent = engine.product
        PROVE  w = new
    <3>1. Pair(w) = Pair(new)
      BY <2>2, <2>4 DEF Candidate, Pair
    <3>2. QED
      BY <2>2, <3>1 DEF RulesAreRows
  <2>5. ASSUME steady, NEW w \in Met PROVE w.lift =< new.lift
    <3>1. engine.best \in Met /\ w.lift =< engine.best.lift /\ engine.best # NoRule
      BY <2>5 DEF DecisionInv
    <3>2. engine.best.lift \in Int /\ w.lift \in Int
      BY <2>5, <3>1 DEF Met, RulesAreRows
    <3>3. new.lift > engine.best.lift
      BY <2>2, <3>1 DEF Candidate
    <3>4. QED
      BY <2>3, <3>1, <3>2, <3>3
  <2>6. steady => \A w \in Met' : w.lift =< new.lift
    BY <1>3, <2>3, <2>4, <2>5
  <2>7. QED
    BY <1>1, <1>2, <2>3, <2>6 DEF DecisionInv, new
<1>6. QED
  BY <1>4, <1>5

LEMMA DecisionNext ==
  ReleaseInvariant /\ ServedInv /\ DecisionInv /\ [Next]_vars => DecisionInv'
<1> SUFFICES ASSUME ReleaseInvariant, ServedInv, DecisionInv, [Next]_vars PROVE DecisionInv'
  OBVIOUS
<1>1. CASE engine' = engine /\ (steady' => steady /\ rules' = rules)
  BY <1>1 DEF DecisionInv, Met, Qualified
<1>2. ASSUME NEW p \in Processes, Batch(p) PROVE DecisionInv'
  BY <1>1, <1>2 DEF Batch, releaseVars
<1>3. CASE Load
  BY <1>1, <1>3 DEF Load, LookUpCatalog, DeleteStale, Publish, LoadRaises
<1>4. ASSUME NEW view \in Views, Begin(view[1], view[2]) PROVE DecisionInv'
  BY <1>4 DEF Begin, DecisionInv, Met
<1>5. ASSUME NEW item \in engine.unvisited, LookUp(item) PROVE DecisionInv'
  BY <1>5, ServedRows, LookUpDecides DEF ServedInv
<1>6. CASE UNCHANGED vars
  BY <1>1, <1>6 DEF vars, releaseVars
<1>7. QED
  BY <1>2, <1>3, <1>4, <1>5, <1>6 DEF Next, Decide

LEMMA DecisionInit == Init => DecisionInv
BY DEF Init, DecisionInv, Met

(* The rule of a pair in the snapshot is the row of that pair. *)
LEMMA QualifiesAsRow ==
  ASSUME RulesAreRows, NEW item, NEW product
  PROVE  /\ Engine!Qualifies(item, product) <=>
              \E w \in rules : w.antecedent = item /\ w.consequent = product /\ Qualified(w)
         /\ \A w \in rules : w.antecedent = item /\ w.consequent = product =>
              w = (CHOOSE v \in rules : Pair(v) = <<item, product>>)
<1> DEFINE pairs == {Pair(w) : w \in rules}
           Row(pair) == CHOOSE w \in rules : Pair(w) = pair
           rule == [pair \in pairs |-> Row(pair)]
<1>1. ASSUME NEW w \in rules PROVE Row(Pair(w)) = w
  BY <1>1 DEF RulesAreRows
<1>2. ASSUME NEW w \in rules, w.antecedent = item, w.consequent = product
      PROVE  <<item, product>> \in pairs /\ Pair(w) = <<item, product>> /\ rule[<<item, product>>] = w
  BY <1>1, <1>2 DEF Pair
<1>3. Engine!Qualifies(item, product) <=>
        <<item, product>> \in pairs /\ Qualified(rule[<<item, product>>])
  BY DEF Engine!Qualifies, Engine!Confident, Engine!Associated, Qualified
<1>4. ASSUME <<item, product>> \in pairs
      PROVE  \E w \in rules : w.antecedent = item /\ w.consequent = product
  BY <1>4 DEF Pair
<1> HIDE DEF pairs, rule
<1>5. QED
  BY <1>1, <1>2, <1>3, <1>4 DEF Pair

(* After the last lookup the best rule is one of the strongest. *)
LEMMA DecisionIsPolicy ==
  RulesAreRows /\ DecisionInv => DecisionFollowsSnapshot
<1> SUFFICES ASSUME RulesAreRows, DecisionInv, steady, engine.unvisited = {}
             PROVE  IF Engine!Strongest(engine.cart, engine.product) = {}
                      THEN engine.best = NoRule
                      ELSE /\ engine.best \in rules
                           /\ engine.best.antecedent \in
                                Engine!Strongest(engine.cart, engine.product)
  BY DEF DecisionFollowsSnapshot
<1> DEFINE cart == engine.cart
           product == engine.product
           best == engine.best
           Q(item) == Engine!Qualifies(item, product)
           Lift(item) == (CHOOSE v \in rules : Pair(v) = <<item, product>>).lift
<1>1. Met = {w \in rules : w.antecedent \in cart /\ w.consequent = product /\ Qualified(w)}
  BY DEF Met
<1>2. \A item \in cart : Q(item) <=> \E w \in Met : w.antecedent = item
  BY <1>1, QualifiesAsRow
<1>3. ASSUME NEW w \in Met PROVE w.lift = Lift(w.antecedent)
  <2>1. w \in rules /\ w.consequent = product
    BY <1>1
  <2>2. w = (CHOOSE v \in rules : Pair(v) = <<w.antecedent, product>>)
    BY <2>1, QualifiesAsRow
  <2>3. QED
    BY <2>2
<1>4. ASSUME NEW item
      PROVE  item \in Engine!Strongest(cart, product) <=>
               item \in cart /\ Q(item) /\ \A other \in cart : Q(other) => Lift(other) =< Lift(item)
  <2> DEFINE rule == [pair \in {Pair(w) : w \in rules} |-> CHOOSE w \in rules : Pair(w) = pair]
  <2>1. item \in Engine!Strongest(cart, product) <=>
          /\ item \in cart /\ Q(item)
          /\ \A other \in cart : Q(other) =>
               rule[<<other, product>>].lift =< rule[<<item, product>>].lift
    BY Zenon DEF Engine!Strongest
  <2>2. ASSUME NEW i, Q(i) PROVE rule[<<i, product>>].lift = Lift(i)
    <3>1. <<i, product>> \in {Pair(w) : w \in rules}
      BY <2>2 DEF Engine!Qualifies, Engine!Confident, Engine!Associated
    <3>2. QED
      BY <3>1
  <2> HIDE DEF rule, Q, Lift
  <2>3. QED
    BY <2>1, <2>2
<1>5. CASE best = NoRule
  <2>1. Met = {}
    BY <1>5 DEF DecisionInv
  <2>2. Engine!Strongest(cart, product) = {}
    BY <1>2, <1>4, <2>1
  <2>3. QED
    BY <1>5, <2>2
<1>6. CASE best # NoRule
  <2>1. best \in Met /\ \A w \in Met : w.lift =< best.lift
    BY <1>6 DEF DecisionInv
  <2>2. best \in rules /\ best.antecedent \in cart
    BY <1>1, <2>1
  <2>3. Q(best.antecedent)
    BY <1>2, <2>1, <2>2
  <2>4. ASSUME NEW other \in cart, Q(other) PROVE Lift(other) =< Lift(best.antecedent)
    <3>1. PICK w \in Met : w.antecedent = other
      BY <1>2, <2>4
    <3>2. QED
      BY <1>3, <2>1, <3>1
  <2>5. best.antecedent \in Engine!Strongest(cart, product)
    BY <1>4, <2>2, <2>3, <2>4
  <2>6. QED
    BY <2>2, <2>5
<1>7. QED
  BY <1>5, <1>6

(* An evaluation that no load disturbs decides as CouponPolicy does on the *)
(* snapshot as a whole, in whatever order it looks the cart items up: for  *)
(* any inputs, carts and thresholds.                                       *)
THEOREM DecisionIsOfSnapshot == Spec => []DecisionFollowsSnapshot
<1>1. Init => ServedInv /\ DecisionInv
  BY ServedInit, DecisionInit
<1>2. ReleaseInvariant /\ ServedInv /\ DecisionInv /\ [Next]_vars => (ServedInv /\ DecisionInv)'
  BY ServedNext, DecisionNext
<1>3. ReleaseInvariant /\ ServedInv /\ DecisionInv => DecisionFollowsSnapshot
  BY ServedRows, DecisionIsPolicy
<1>4. QED
  BY <1>1, <1>2, <1>3, ReleaseInvariantHolds, PTL DEF Spec

-----------------------------------------------------------------------------
(* The pool asked of the model is large enough.                            *)

(* The numbers are well-founded. *)
LEMMA SmallestOf ==
  ASSUME NEW T \in SUBSET Nat, T # {}
  PROVE  \E m \in T : \A n \in T : m =< n
<1> DEFINE R == {x \in Nat \X Nat : x[1] < x[2]}
<1>1. IsWellFoundedOn(R, Nat)
  <2>1. OpToRel(<, Nat) = R
    BY DEF OpToRel
  <2>2. QED
    BY <2>1, NatLessThanWellFounded
<1> HIDE DEF R
<1>2. PICK m \in T : \A n \in T : <<n, m>> \notin R
  BY <1>1, WFMin
<1>3. ASSUME NEW n \in T PROVE m =< n
  <2>1. m \in Nat /\ n \in Nat /\ <<n, m>> \in Nat \X Nat
    OBVIOUS
  <2>2. ~(n < m)
    BY <1>2, <2>1 DEF R
  <2>3. QED
    BY <2>1, <2>2
<1>4. QED
  BY <1>3

(* A bounded set of numbers has a largest. *)
LEMMA LargestOf ==
  ASSUME NEW T \in SUBSET Nat, T # {}, NEW bound \in Nat, \A n \in T : n =< bound
  PROVE  \E m \in T : \A n \in T : n =< m
<1> DEFINE U == {m \in Nat : \A n \in T : n =< m}
<1>1. PICK m \in U : \A n \in U : m =< n
  <2>1. U \in SUBSET Nat /\ bound \in U
    OBVIOUS
  <2> HIDE DEF U
  <2>2. QED
    BY <2>1, SmallestOf
<1>2. m \in T
  <2> SUFFICES ASSUME m \notin T PROVE FALSE
    OBVIOUS
  <2>1. \A n \in T : n =< m /\ n # m /\ n \in Nat
    BY <1>1
  <2>2. m \in Nat /\ m > 0
    <3>1. PICK k : k \in T
      OBVIOUS
    <3>2. m \in Nat /\ k \in Nat /\ k =< m /\ k # m
      BY <1>1, <2>1, <3>1
    <3>3. QED
      BY <3>2
  <2>3. m - 1 \in U
    BY <2>1, <2>2
  <2>4. QED
    BY <1>1, <2>2, <2>3
<1>3. QED
  BY <1>1, <1>2

(* After the taken products are removed, the best n of the rest are found  *)
(* among the best size of all, if size leaves room for n besides those     *)
(* taken, or for everything.                                               *)
LEMMA BestOfTheRest ==
  ASSUME NEW all, IsFiniteSet(all), NEW gone \in SUBSET all, NEW n \in Nat, NEW size \in Nat,
         NEW place \in [all -> Int],
         size = Cardinality(all) \/ size >= n + Cardinality(gone)
  PROVE  Best(Best(all, place, size) \ gone, place, n) = Best(all \ gone, place, n)
<1> DEFINE Ahead(S, p) == {q \in S : place[q] < place[p]}
           pool == Best(all, place, size)
<1>0. /\ pool \subseteq all
      /\ \A p \in pool : Cardinality(Ahead(all, p)) < size
      /\ \A p \in all \ pool : ~(Cardinality(Ahead(all, p)) < size)
  BY DEF Best
<1>1. \A S \in SUBSET all, p \in all : IsFiniteSet(Ahead(S, p)) /\ Cardinality(Ahead(S, p)) \in Nat
  <2>1. \A S \in SUBSET all, p \in all : Ahead(S, p) \subseteq all
    OBVIOUS
  <2> HIDE DEF Ahead
  <2>2. QED
    BY <2>1, FS_Subset, FS_CardinalityType
<1>2. ASSUME NEW p \in pool PROVE Ahead(all \ gone, p) = Ahead(pool \ gone, p)
  <2>1. ASSUME NEW q \in all, place[q] < place[p] PROVE q \in pool
    <3>1. Ahead(all, q) \subseteq Ahead(all, p)
      BY <1>0, <2>1
    <3>2. IsFiniteSet(Ahead(all, p)) /\ Cardinality(Ahead(all, p)) < size
           /\ Cardinality(Ahead(all, q)) \in Nat /\ Cardinality(Ahead(all, p)) \in Nat
      BY <1>0, <1>1
    <3> DEFINE A == Ahead(all, q)  B == Ahead(all, p)
    <3> HIDE DEF A, B
    <3>3. Cardinality(A) =< Cardinality(B)
      <4>1. A \in SUBSET B /\ IsFiniteSet(B)
        BY <3>1, <3>2 DEF A, B
      <4>2. QED
        BY <4>1, FS_Subset
    <3>4. Cardinality(Ahead(all, q)) < size
      BY <3>2, <3>3 DEF A, B
    <3>5. QED
      BY <1>0, <3>4
  <2>2. QED
    BY <1>0, <2>1
<1>3. ASSUME NEW p \in (all \ gone) \ pool PROVE ~(Cardinality(Ahead(all \ gone, p)) < n)
  <2> DEFINE A == Ahead(all, p)  B == Ahead(all \ gone, p)
  <2>1. /\ IsFiniteSet(A) /\ Cardinality(A) \in Nat /\ IsFiniteSet(B) /\ Cardinality(B) \in Nat
        /\ Cardinality(A) >= size
    <3>1. all \in SUBSET all /\ all \ gone \in SUBSET all /\ p \in all /\ p \in all \ pool
      OBVIOUS
    <3>2. ~(Cardinality(A) < size)
      BY <1>0, <3>1
    <3> HIDE DEF Ahead
    <3>3. IsFiniteSet(A) /\ Cardinality(A) \in Nat
      BY <1>1, <3>1
    <3>4. IsFiniteSet(B) /\ Cardinality(B) \in Nat
      BY <1>1, <3>1
    <3> HIDE DEF A, B
    <3>5. QED
      BY <3>2, <3>3, <3>4
  <2>2. A \subseteq B \cup gone /\ A \subseteq all /\ p \in all /\ p \notin A
    OBVIOUS
  <2>3. IsFiniteSet(gone) /\ Cardinality(gone) \in Nat /\ Cardinality(all) \in Nat
    BY FS_Subset, FS_CardinalityType
  <2> HIDE DEF A, B
  <2>4. CASE size = Cardinality(all)
    <3>1. Cardinality(A) =< Cardinality(all) /\ (Cardinality(A) = Cardinality(all) => A = all)
      BY <2>2, FS_Subset
    <3>2. QED
      BY <2>1, <2>2, <2>3, <2>4, <3>1
  <2>5. CASE size >= n + Cardinality(gone)
    <3>1. IsFiniteSet(B \cup gone)
          /\ Cardinality(B \cup gone) =
               Cardinality(B) + Cardinality(gone) - Cardinality(B \cap gone)
      BY <2>1, <2>3, FS_Union
    <3>2. IsFiniteSet(B \cap gone) /\ Cardinality(B \cap gone) \in Nat
      BY <2>1, FS_Subset, FS_CardinalityType
    <3>3. Cardinality(A) =< Cardinality(B \cup gone)
      BY <2>2, <3>1, FS_Subset
    <3>4. Cardinality(A) =< Cardinality(B) + Cardinality(gone)
      BY <2>1, <2>3, <3>1, <3>2, <3>3
    <3>5. Cardinality(B) >= n
      BY <2>1, <2>3, <2>5, <3>4
    <3>6. QED
      BY <2>1, <3>5 DEF B
  <2>6. QED
    BY <2>4, <2>5
<1>4. Best(all \ gone, place, n) = {p \in all \ gone : Cardinality(Ahead(all \ gone, p)) < n}
  BY DEF Best
<1>5. Best(pool \ gone, place, n) = {p \in pool \ gone : Cardinality(Ahead(pool \ gone, p)) < n}
  BY DEF Best
<1> HIDE DEF Ahead, pool
<1>6. \A p : p \in Best(pool \ gone, place, n) <=> p \in Best(all \ gone, place, n)
  BY <1>0, <1>2, <1>3, <1>4, <1>5
<1>7. Best(pool \ gone, place, n) = Best(all \ gone, place, n)
  BY <1>6, <1>4, <1>5
<1>8. QED
  BY <1>7 DEF pool

(* Purchases are of known products, of which there are finitely many. *)
LEMMA KnownIsFinite ==
  ASSUME NEW facts, IsFiniteSet(facts)
  PROVE  /\ IsFiniteSet(Known(facts))
         /\ \A user : Bought(facts, user) \subseteq Known(facts)
<1> DEFINE f == [x \in facts |-> x[4]]
<1>1. f \in Surjection(facts, Known(facts))
  BY DEF Surjection, Known
<1>2. IsFiniteSet(Known(facts))
  BY <1>1, FS_Surjection
<1>3. QED
  BY <1>2 DEF Known, Bought

(* The pool leaves room for what any one user has bought. *)
LEMMA PoolSuffices ==
  ASSUME NEW facts, IsFiniteSet(facts), NEW user \in Users(facts)
  PROVE  /\ Pool(facts) \in Nat
         /\ \/ Pool(facts) = Cardinality(Known(facts))
            \/ Pool(facts) >= TopK + Cardinality(Bought(facts, user))
<1> DEFINE Count(u) == Cardinality(Bought(facts, u))
           counts == {Count(u) : u \in Users(facts)}
           most == CHOOSE m \in counts : \A k \in counts : k =< m
           bound == Cardinality(Known(facts))
<1>1. bound \in Nat
  BY KnownIsFinite, FS_CardinalityType
<1>2. ASSUME NEW u \in Users(facts) PROVE Count(u) \in Nat /\ Count(u) =< bound
  BY KnownIsFinite, FS_Subset, FS_CardinalityType
<1>3. Pool(facts) = Least(bound, TopK + most)
  BY Zenon DEF Pool
<1> HIDE DEF Count, bound
<1>4. counts \in SUBSET Nat /\ counts # {} /\ (\A m \in counts : m =< bound) /\ Count(user) \in counts
  BY <1>2
<1> HIDE DEF counts
<1>5. \E m \in counts : \A k \in counts : k =< m
  BY <1>1, <1>4, LargestOf
<1>6. most \in counts /\ \A k \in counts : k =< most
  BY <1>5
<1> HIDE DEF most
<1>7. most \in Nat /\ Count(user) \in Nat /\ Count(user) =< most /\ TopK \in Nat
  BY <1>4, <1>6, MiningAssumption
<1>8. /\ Pool(facts) \in Nat
      /\ Pool(facts) = bound \/ Pool(facts) >= TopK + Count(user)
  BY <1>1, <1>3, <1>7 DEF Least
<1>9. QED
  BY <1>8 DEF Count, bound

(* What the runs check per source holds of every source. *)
LEMMA TopKFilled ==
  ASSUME NEW source \in Sources
  PROVE  FillsTopK[source]
<1> DEFINE facts == Facts[source]
<1>1. IsFiniteSet(facts)
  BY FactsAreFinite
<1> HIDE DEF facts
<1>2. ASSUME NEW user \in Users(facts), NEW place \in Orders(Known(facts))
      PROVE  Candidates(facts, user, place) = Best(Known(facts) \ Bought(facts, user), place, TopK)
  <2>1. IsFiniteSet(Known(facts)) /\ Bought(facts, user) \in SUBSET Known(facts)
    BY <1>1, KnownIsFinite
  <2>2. place \in [Known(facts) -> Int]
    BY DEF Orders
  <2>3. TopK \in Nat
    BY MiningAssumption
  <2>4. Best(Best(Known(facts), place, Pool(facts)) \ Bought(facts, user), place, TopK)
          = Best(Known(facts) \ Bought(facts, user), place, TopK)
    <3>1. /\ Pool(facts) \in Nat
          /\ \/ Pool(facts) = Cardinality(Known(facts))
             \/ Pool(facts) >= TopK + Cardinality(Bought(facts, user))
      BY <1>1, PoolSuffices
    <3> DEFINE all == Known(facts)
               gone == Bought(facts, user)
               size == Pool(facts)
    <3> HIDE DEF all, gone, size
    <3>2. /\ IsFiniteSet(all) /\ gone \in SUBSET all /\ size \in Nat /\ place \in [all -> Int]
          /\ size = Cardinality(all) \/ size >= TopK + Cardinality(gone)
      BY <2>1, <2>2, <3>1 DEF all, gone, size
    <3>3. Best(Best(all, place, size) \ gone, place, TopK) = Best(all \ gone, place, TopK)
      BY <2>3, <3>2, BestOfTheRest
    <3>4. QED
      BY <3>3 DEF all, gone, size
  <2>5. QED
    BY <2>4 DEF Candidates
<1>3. QED
  BY <1>2 DEF FillsTopK, facts

(* Every user with enough products left gets TopK candidates, whatever the *)
(* scores, tables, purchases and TopK are: _export_als_candidates asks the *)
(* model for TopK and as many as the user with the most purchases has.     *)
THEOREM TopKAreFound == Spec => []EveryUserGetsTopK
<1>1. RunInvariant => EveryUserGetsTopK
  <2> SUFFICES ASSUME RunInvariant, NEW p \in Processes, stage[p] = "als_parquet"
               PROVE  FillsTopK[input[p]]
    BY DEF EveryUserGetsTopK
  <2>1. input[p] \in Sources
    BY DEF RunInvariant, EndsTruly
  <2>2. QED
    BY <2>1, TopKFilled
<1>2. QED
  BY <1>1, RunInvariantHolds, PTL
=============================================================================
