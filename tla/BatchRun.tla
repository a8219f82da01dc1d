------------------------------ MODULE BatchRun ------------------------------
(***************************************************************************)
(* pipeline/spark_bootstrap.py as a program: processes that were given run *)
(* ids take a run directory, check their input, write the artifacts one    *)
(* after the other, and in any case but a kill leave a manifest behind.    *)
(***************************************************************************)
EXTENDS BasketMining

CONSTANTS
  Processes,          \* invocations of the command
  RunIds,             \* values of --run-id
  Sources, Tables,    \* states of the input directory, and the tables of each
  Policy,             \* --validation-policy
  NoRun, NoManifest,  \* before a process is started; before a manifest exists
  MaxFaults           \* bound: exceptions, interrupts and kills of a behaviour

(* The outputs in the order in which they are written. *)
Outputs == {"validation_json", "baskets_parquet", "baskets_json", "rules_parquet",
            "rules_json", "rules_serving_csv", "als_parquet", "als_json"}
Required == Outputs \ {"als_parquet", "als_json"}
PartFiles == Outputs \ {"validation_json", "rules_serving_csv"}
Stages == Outputs \cup {"idle", "mkdir", "counts", "finally", "stop", "ended"}
Statuses == {"running", "succeeded", "validation_failed", "failed"}
Manifests == [status : Statuses, outputs : SUBSET Outputs]

ASSUME BatchAssumption ==
  /\ Policy \in {"fail", "warn"}
  /\ NoRun \notin RunIds /\ NoRun \notin Sources
  /\ NoManifest \notin Manifests
  /\ DOMAIN Tables = Sources
  /\ MaxFaults \in Nat

(* A source directory holds the six tables with integer identifiers        *)
(* (TABLE_SCHEMAS); a missing name is not the name of a product.           *)
ASSUME SourceAssumption ==
  \A source \in Sources :
    LET t == Tables[source]
    IN  /\ t = [aisles |-> t.aisles, departments |-> t.departments, products |-> t.products,
                orders |-> t.orders, prior |-> t.prior, train |-> t.train]
        /\ IsFiniteSet(t.orders) /\ IsFiniteSet(t.prior) /\ IsFiniteSet(t.train)
        /\ Column(t.prior \cup t.train, "product_id") \subseteq Int
        /\ Blank \notin Column(t.products, "product_id")

VARIABLES
  run, input,    \* the run id and the source tables of a process
  stage,         \* where its run is: the output it writes next, or a phase
  status,        \* manifest["status"] in memory
  listed,        \* manifest["outputs"] in memory
  exit,          \* "running", the exit code 0 or 1, or "killed"
  taken,         \* run directories that exist
  disk, torn,    \* outputs of a run directory that are complete, cut off
  mined,         \* the input that the files of a run directory come from
  manifest,      \* manifest.json of a run directory
  faults

batchVars == <<run, input, stage, status, listed, exit, taken, disk, torn, mined,
               manifest, faults>>

After == [validation_json |-> "baskets_parquet", baskets_parquet |-> "baskets_json",
          baskets_json |-> "rules_parquet",      rules_parquet |-> "rules_json",
          rules_json |-> "rules_serving_csv",    rules_serving_csv |-> "als_parquet",
          als_parquet |-> "als_json",            als_json |-> "counts"]

(* A wrong variant lists an output when it is begun. *)
ListsEarly == [o \in Outputs |-> {o} \cup (IF o = "rules_json" THEN {"rules_serving_csv"} ELSE {})]

(* What an output adds to the manifest: a pair is listed once both halves  *)
(* are written.                                                            *)
Lists == [o \in Outputs |->
            CASE o = "baskets_json" -> {"baskets_parquet", "baskets_json"}
              [] o = "rules_json"   -> {"rules_parquet", "rules_json"}
              [] o = "als_json"     -> {"als_parquet", "als_json"}
              [] o \in {"validation_json", "rules_serving_csv"} -> {o}
              [] OTHER -> {}]

BatchInit ==
  /\ run = [p \in Processes |-> NoRun] /\ input = [p \in Processes |-> NoRun]
  /\ stage = [p \in Processes |-> "idle"]
  /\ status = [p \in Processes |-> "running"]
  /\ listed = [p \in Processes |-> {}]
  /\ exit = [p \in Processes |-> "running"]
  /\ taken = {}
  /\ disk = [r \in RunIds |-> {}] /\ torn = [r \in RunIds |-> {}]
  /\ mined = [r \in RunIds |-> NoRun]
  /\ manifest = [r \in RunIds |-> NoManifest]
  /\ faults = 0

(* The slice of a source that a run works on, whether it passes the        *)
(* checks, and the transactions that its tables hold.                      *)
Slice  == [source \in Sources |-> Bounded(Tables[source])]
Passes == [source \in Sources |-> Passed(Slice[source], Tables[source])]
Facts  == [source \in Sources |-> Transactions(Slice[source])]

-----------------------------------------------------------------------------
(* main and the start of run. *)

(* An existing run directory is refused before anything is written. *)
Launch(p, r, source) ==
  /\ stage[p] = "idle"
  /\ run' = [run EXCEPT ![p] = r]
  /\ input' = [input EXCEPT ![p] = source]
  /\ stage' = [stage EXCEPT ![p] = IF r \in taken THEN "ended" ELSE "mkdir"]
  /\ exit' = [exit EXCEPT ![p] = IF r \in taken THEN "1" ELSE @]
  /\ UNCHANGED <<status, listed, taken, disk, torn, mined, manifest, faults>>

(* A wrong variant shares a directory that appeared since the check. *)
MakeDirectoryIfMissing(p) ==
  /\ stage[p] = "mkdir"
  /\ taken' = taken \cup {run[p]}
  /\ stage' = [stage EXCEPT ![p] = "validation_json"]
  /\ UNCHANGED <<run, input, status, listed, exit, disk, torn, mined, manifest, faults>>

(* mkdir without exist_ok: of two processes past the check one goes on. *)
MakeDirectory(p) ==
  /\ stage[p] = "mkdir"
  /\ taken' = taken \cup {run[p]}
  /\ stage' = [stage EXCEPT ![p] = IF run[p] \in taken THEN "ended" ELSE "validation_json"]
  /\ exit' = [exit EXCEPT ![p] = IF run[p] \in taken THEN "1" ELSE @]
  /\ UNCHANGED <<run, input, status, listed, disk, torn, mined, manifest, faults>>

-----------------------------------------------------------------------------
(* The try block. *)

(* mode("errorifexists"); JSON and CSV files are replaced. *)
Exists(p) == stage[p] \in PartFiles \cap (disk[run[p]] \cup torn[run[p]])

Rejected(p) == /\ stage[p] = "validation_json" /\ Policy = "fail"
               /\ ~Passes[input[p]]

(* The stage after an output: a directory in the way, a failed validation  *)
(* and an empty slice raise; without ALS candidates no pair is written.    *)
NextStage(p) ==
  CASE Exists(p) \/ Rejected(p) -> "finally"
    [] stage[p] = "validation_json" /\ Facts[input[p]] = {} -> "finally"
    [] stage[p] = "rules_serving_csv" /\ ~Trains(Facts[input[p]]) -> "counts"
    [] OTHER -> After[stage[p]]

(* An output is written and then listed. *)
Write(p) ==
  /\ stage[p] \in Outputs
  /\ IF Exists(p)
       THEN UNCHANGED <<disk, mined, listed>>
       ELSE /\ disk' = [disk EXCEPT ![run[p]] = @ \cup {stage[p]}]
            /\ mined' = [mined EXCEPT ![run[p]] = input[p]]
            /\ listed' = [listed EXCEPT ![p] = @ \cup Lists[stage[p]]]
  /\ stage' = [stage EXCEPT ![p] = NextStage(p)]
  /\ status' = [status EXCEPT ![p] = IF NextStage(p) # "finally" THEN @
                                     ELSE IF Rejected(p) THEN "validation_failed" ELSE "failed"]
  /\ UNCHANGED <<run, input, exit, taken, torn, manifest, faults>>

Succeed(p) ==
  /\ stage[p] = "counts"
  /\ status' = [status EXCEPT ![p] = "succeeded"]
  /\ stage' = [stage EXCEPT ![p] = "finally"]
  /\ UNCHANGED <<run, input, listed, exit, taken, disk, torn, mined, manifest, faults>>

(* What is left of an output that is cut off: nothing, or a directory of   *)
(* part files.  JSON and CSV files appear by renaming, never in part.      *)
CutOff(p) ==
  \/ UNCHANGED torn
  \/ /\ stage[p] \in PartFiles
     /\ torn' = [torn EXCEPT ![run[p]] = @ \cup {stage[p]}]

Fault == faults < MaxFaults /\ faults' = faults + 1

(* An exception is recorded, an interrupt is not: the status stays running. *)
Raise(p, recorded) ==
  /\ Fault
  /\ stage[p] \in Outputs \cup {"counts"}
  /\ CutOff(p)
  /\ status' = [status EXCEPT ![p] = IF recorded /\ @ = "running" THEN "failed" ELSE @]
  /\ stage' = [stage EXCEPT ![p] = "finally"]
  /\ UNCHANGED <<run, input, listed, exit, taken, disk, mined, manifest>>

-----------------------------------------------------------------------------
(* The finally block and the exit code. *)

WriteManifest(p) ==
  /\ stage[p] = "finally"
  /\ manifest' = [manifest EXCEPT ![run[p]] = [status |-> status[p], outputs |-> listed[p]]]
  /\ stage' = [stage EXCEPT ![p] = "stop"]
  /\ UNCHANGED <<run, input, status, listed, exit, taken, disk, torn, mined, faults>>

(* The manifest cannot be written: its exception replaces the first one. *)
ManifestRaises(p) ==
  /\ Fault
  /\ stage[p] = "finally"
  /\ stage' = [stage EXCEPT ![p] = "stop"]
  /\ UNCHANGED <<run, input, status, listed, exit, taken, disk, torn, mined, manifest>>

(* spark.stop(); the code is 0 only when nothing raised on the way out. *)
Stop(p) ==
  /\ stage[p] = "stop"
  /\ stage' = [stage EXCEPT ![p] = "ended"]
  /\ exit' = [exit EXCEPT ![p] =
                IF status[p] = "succeeded" /\ manifest[run[p]] # NoManifest THEN "0" ELSE "1"]
  /\ UNCHANGED <<run, input, status, listed, taken, disk, torn, mined, manifest, faults>>

StopRaises(p) ==
  /\ Fault
  /\ stage[p] = "stop"
  /\ stage' = [stage EXCEPT ![p] = "ended"]
  /\ exit' = [exit EXCEPT ![p] = "1"]
  /\ UNCHANGED <<run, input, status, listed, taken, disk, torn, mined, manifest>>

Kill(p) ==
  /\ Fault
  /\ stage[p] \notin {"idle", "ended"}
  /\ CutOff(p)
  /\ stage' = [stage EXCEPT ![p] = "ended"]
  /\ exit' = [exit EXCEPT ![p] = "killed"]
  /\ UNCHANGED <<run, input, status, listed, taken, disk, mined, manifest>>

BatchStep(p) ==
  \/ \E r \in RunIds, source \in Sources : Launch(p, r, source)
  \/ MakeDirectory(p)
  \/ Write(p)
  \/ Succeed(p)
  \/ \E recorded \in BOOLEAN : Raise(p, recorded)
  \/ WriteManifest(p)
  \/ ManifestRaises(p)
  \/ Stop(p)
  \/ StopRaises(p)
  \/ Kill(p)

-----------------------------------------------------------------------------
BatchTypeOK ==
  /\ run \in [Processes -> RunIds \cup {NoRun}]
  /\ input \in [Processes -> Sources \cup {NoRun}]
  /\ stage \in [Processes -> Stages]
  /\ status \in [Processes -> Statuses]
  /\ listed \in [Processes -> SUBSET Outputs]
  /\ exit \in [Processes -> {"running", "0", "1", "killed"}]
  /\ taken \subseteq RunIds
  /\ disk \in [RunIds -> SUBSET Outputs] /\ torn \in [RunIds -> SUBSET Outputs]
  /\ mined \in [RunIds -> Sources \cup {NoRun}]
  /\ manifest \in [RunIds -> Manifests \cup {NoManifest}]
  /\ faults \in 0..MaxFaults

(* A manifest ("makes every run auditable", spark_bootstrap.py:5) never    *)
(* lists an output that is missing or cut off, and one that says succeeded *)
(* lists every required output; exit code 0 is backed by such a manifest.  *)
(* Holds with processes that were given the same run id, and wherever a    *)
(* run is cut off.                                                         *)
RunRecordsAreTrue ==
  /\ \A r \in RunIds :
       manifest[r] # NoManifest =>
         /\ manifest[r].outputs \subseteq disk[r] \ torn[r]
         /\ manifest[r].status = "succeeded" => Required \subseteq manifest[r].outputs
  /\ \A p \in Processes :
       exit[p] = "0" => manifest[run[p]] # NoManifest /\ manifest[run[p]].status = "succeeded"

(* The ways in which a model can order products. *)
Orders(products) ==
  {f \in [products -> 1..Cardinality(products)] :
     \A x, y \in products : x # y => f[x] # f[y]}

FillsTopK == [source \in Sources |->
  LET facts == Facts[source]
      left(user) == Known(facts) \ Bought(facts, user)
  IN  \A user \in Users(facts), place \in Orders(Known(facts)) :
        Candidates(facts, user, place) = Best(left(user), place, TopK)]

(* Whatever the scores of the model, every user with enough products left  *)
(* gets TopK candidates, none of them bought before, when candidates are   *)
(* exported: the pool asked of the model is large enough for the user with *)
(* the most purchases.                                                     *)
EveryUserGetsTopK ==
  \A p \in Processes : stage[p] = "als_parquet" => FillsTopK[input[p]]
=============================================================================
