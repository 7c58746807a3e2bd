----------------------------- MODULE MechBuild -----------------------------
(***************************************************************************)
(* mechc, the staged build of a Mech program into an executable.           *)
(*                                                                         *)
(* Six stages.  "prepare" runs on the main thread, with a thread of its    *)
(* own that gathers the source files; "download" and "parse" run on a      *)
(* thread each and are joined; "project", "shim" and "package" run on the  *)
(* main thread.  "parse" receives paths through a channel, which closes    *)
(* when the last sender is dropped; one global flag cancels the build, and *)
(* a stage that finds it set does not run its task.                        *)
(*                                                                         *)
(* Nothing is sent through that channel: what "download" would do is       *)
(* commented out.  The program that is compiled is therefore empty, and    *)
(* the workers "parse" would start are not modelled.                       *)
(***************************************************************************)
EXTENDS Naturals, Sequences, SequencesExt

CONSTANTS
  Found,        (* Found[i]: what may be found under the i-th source path: the
                   sequences of its files                                   *)
  IndexFile,    (* index.mpkg                                               *)
  CargoOutputs, (* what cargo may write: sequences of "out" and "err"       *)
  PipeSize      (* bound: what a pipe holds before its writer blocks        *)

Stages == {"prepare", "download", "parse", "project", "shim", "package"}

ASSUME FoundAssumption ==
  Found \in Seq(SUBSET Seq(UNION {ToSet(files) : files \in UNION ToSet(Found)}))

ASSUME CargoAssumption ==
  /\ CargoOutputs \subseteq Seq({"out", "err"})
  /\ PipeSize \in Nat \ {0}

VARIABLES
  cancelled, (* CANCELLED                                                      *)
  message,   (* ERROR_MESSAGE                                                  *)
  status,    (* BuildStage.status of each stage                                *)
  at,        (* how far BuildStage::start is, for each stage                   *)
  gather,    (* the gather thread: the sources it has read, and its state      *)
  gathered,  (* the files it has found, which it sends to prepare_build        *)
  pathTx,    (* the stages that hold a sender of the channel of paths          *)
  bytecode,  (* BuildData.bytecode                                             *)
  cargo,     (* the cargo process and its two pipes                            *)
  shim,      (* the shim executable in the build directory                     *)
  artifact,  (* the file of the final executable                               *)
  outcome    (* what main reports                                              *)

vars == <<cancelled, message, status, at, gather, gathered, pathTx, bytecode, cargo, shim,
          artifact, outcome>>

sources == <<gather, gathered>>
built   == <<bytecode, cargo, shim, artifact>>

Statuses == {"Pending", "Running", "Completed", "Failed"}
Places   == {"waiting", "task", "end", "done"}

NoCargo == [todo |-> << >>, out |-> 0, err |-> 0, state |-> "none"]

(* The build directory may hold the shim and the executable of an earlier
   build. *)
Init ==
  /\ cancelled = FALSE /\ message = "none"
  /\ status = [s \in Stages |-> "Pending"]
  /\ at = [s \in Stages |-> "waiting"]
  /\ gather = [read |-> 0, state |-> "off"] /\ gathered = << >>
  /\ pathTx = {"prepare", "download"}
  /\ bytecode = "none"
  /\ cargo = NoCargo
  /\ shim \in {"none", "old"}
  /\ artifact \in {"none", "earlier"}
  /\ outcome = "none"

---------------------------------------------------------------------------
(* Stages and cancellation *)

CancelAll(reason) == cancelled' = TRUE /\ message' = reason

(* main's order: a stage is started when those before it are over; "download"
   and "parse" are started together. *)
Before(s) ==
  CASE s = "prepare" -> {}
    [] s \in {"download", "parse"} -> {"prepare"}
    [] s = "project" -> {"download", "parse"}
    [] s = "shim" -> {"project"}
    [] s = "package" -> {"shim"}

Alive == outcome = "none"

(* Plausible bugs of these operations. *)
MutStartAnyway(s) ==
  /\ Alive /\ at[s] = "waiting"
  /\ \A t \in Before(s) : at[t] = "done"
  /\ status' = [status EXCEPT ![s] = "Running"]
  /\ at' = [at EXCEPT ![s] = "task"]
  /\ UNCHANGED <<cancelled, message, sources, pathTx, built, outcome>>

Start(s) ==
  /\ Alive /\ at[s] = "waiting"
  /\ \A t \in Before(s) : at[t] = "done"
  /\ IF cancelled
       THEN /\ status' = [status EXCEPT ![s] = "Failed"]
            /\ at' = [at EXCEPT ![s] = "done"]
            /\ pathTx' = pathTx \ {s}
       ELSE /\ status' = [status EXCEPT ![s] = "Running"]
            /\ at' = [at EXCEPT ![s] = "task"]
            /\ UNCHANGED pathTx
  /\ UNCHANGED <<cancelled, message, sources, built, outcome>>

MutKeepSender(s) == at' = [at EXCEPT ![s] = "end"] /\ UNCHANGED pathTx

(* The closure of a stage is consumed by its call, and its sender with it. *)
Return(s) ==
  /\ at' = [at EXCEPT ![s] = "end"]
  /\ pathTx' = pathTx \ {s}

(* A task returns: what the flag says is what the stage comes to, whatever
   the task itself made of it. *)
End(s) ==
  /\ Alive /\ at[s] = "end"
  /\ status' = [status EXCEPT ![s] = IF cancelled THEN "Failed" ELSE "Completed"]
  /\ at' = [at EXCEPT ![s] = "done"]
  /\ UNCHANGED <<cancelled, message, sources, pathTx, built, outcome>>

InTask(s) == Alive /\ at[s] = "task"

Report ==
  /\ Alive /\ at["package"] = "done"
  /\ outcome' = IF cancelled THEN "failed" ELSE "succeeded"
  /\ UNCHANGED <<cancelled, message, status, at, sources, pathTx, built>>

---------------------------------------------------------------------------
(* prepare_build *)

Preparing == InTask("prepare") /\ UNCHANGED built

CreateBuildDir ==
  /\ Preparing /\ gather.state = "off"
  /\ \/ gather' = [gather EXCEPT !.state = "reading"] /\ UNCHANGED <<status, at, pathTx>>
     \/ status' = [status EXCEPT !["prepare"] = "Failed"] /\ Return("prepare") /\ UNCHANGED gather
  /\ UNCHANGED <<cancelled, message, gathered, outcome>>

GatherSource ==
  /\ Preparing /\ gather.state = "reading" /\ gather.read < Len(Found)
  /\ \/ /\ \E files \in Found[gather.read + 1] : gathered' = gathered \o files
        /\ gather' = [gather EXCEPT !.read = @ + 1]
        /\ UNCHANGED <<cancelled, message>>
     \/ /\ CancelAll("source")
        /\ gather' = [gather EXCEPT !.state = "over"]
        /\ UNCHANGED gathered
  /\ UNCHANGED <<status, at, pathTx, outcome>>

SendGathered ==
  /\ Preparing /\ gather.state = "reading" /\ gather.read = Len(Found)
  /\ gather' = [gather EXCEPT !.state = "sent"]
  /\ UNCHANGED <<cancelled, message, status, at, pathTx, gathered, outcome>>

(* recv().unwrap() on a channel closed without a message ends the program, and
   so does the todo!() for a package file. *)
ReceiveGathered ==
  /\ Preparing /\ gather.state \in {"sent", "over"}
  /\ IF gather.state = "over" \/ IndexFile \in ToSet(gathered)
       THEN outcome' = "panicked" /\ UNCHANGED <<at, pathTx>>
       ELSE Return("prepare") /\ UNCHANGED outcome
  /\ UNCHANGED <<cancelled, message, status, sources>>

---------------------------------------------------------------------------
(* download_packages, parse_packages and build_project *)

(* All that is left of download_packages is that it drops its sender. *)
DownloadPackages ==
  /\ InTask("download") /\ Return("download")
  /\ UNCHANGED <<cancelled, message, status, sources, built, outcome>>

(* The loop over the channel ends when it has no sender left. *)
ParsePackages ==
  /\ InTask("parse") /\ pathTx = {}
  /\ Return("parse")
  /\ UNCHANGED <<cancelled, message, status, sources, built, outcome>>

(* No tree is received: the program compiled has no statement. *)
CompileProgram ==
  /\ InTask("project") /\ Return("project")
  /\ \/ bytecode' = "compiled" /\ UNCHANGED <<cancelled, message>>
     \/ CancelAll("compile") /\ UNCHANGED bytecode
  /\ UNCHANGED <<status, sources, cargo, shim, artifact, outcome>>

---------------------------------------------------------------------------
(* compile_shim and cargo_build *)

InShim ==
  /\ InTask("shim")
  /\ UNCHANGED <<sources, bytecode, artifact, outcome>>

(* The project is written and cargo started, or one of them fails. *)
WriteShimProject ==
  /\ InShim /\ cargo.state = "none"
  /\ \/ /\ \E lines \in CargoOutputs : cargo' = [cargo EXCEPT !.todo = lines, !.state = "running"]
        /\ UNCHANGED <<cancelled, message, status, at, pathTx>>
     \/ /\ \E reason \in {"shim project", "cargo"} : CancelAll(reason)
        /\ status' = [status EXCEPT !["shim"] = "Failed"]
        /\ Return("shim")
        /\ UNCHANGED cargo
  /\ UNCHANGED shim

Pipe(kind) == IF kind = "out" THEN cargo.out ELSE cargo.err

CargoWrites ==
  /\ InShim /\ cargo.state = "running" /\ cargo.todo # << >>
  /\ Pipe(Head(cargo.todo)) < PipeSize
  /\ cargo' = [cargo EXCEPT !.todo = Tail(@),
                            !.out = IF Head(cargo.todo) = "out" THEN @ + 1 ELSE @,
                            !.err = IF Head(cargo.todo) = "err" THEN @ + 1 ELSE @]
  /\ UNCHANGED <<cancelled, message, status, at, pathTx, shim>>

CargoExits ==
  /\ InShim /\ cargo.state = "running" /\ cargo.todo = << >>
  /\ \/ cargo' = [cargo EXCEPT !.state = "built"] /\ shim' = "new"
     \/ cargo' = [cargo EXCEPT !.state = "failed"] /\ UNCHANGED shim
  /\ UNCHANGED <<cancelled, message, status, at, pathTx>>

(* A line that cannot be read leaves cargo_build by "?", without cancelling;
   cargo is not killed by it. *)
ReadLine ==
  /\ InShim /\ cargo.out > 0
  /\ \/ cargo' = [cargo EXCEPT !.out = @ - 1] /\ UNCHANGED <<status, at, pathTx>>
     \/ /\ cargo' = [cargo EXCEPT !.state = "left"]
        /\ status' = [status EXCEPT !["shim"] = "Failed"]
        /\ Return("shim")
  /\ UNCHANGED <<cancelled, message, shim>>

(* The cargo that was left may still finish, while later stages run. *)
LeftCargoExits ==
  /\ Alive /\ cargo.state = "left" /\ shim' = "new"
  /\ UNCHANGED <<cancelled, message, status, at, sources, pathTx, bytecode, cargo,
                 artifact, outcome>>

MutTrustCargo ==
  /\ InShim /\ cargo.state \in {"built", "failed"} /\ cargo.out = 0
  /\ Return("shim")
  /\ UNCHANGED <<cancelled, message, status, cargo, shim>>

(* Only when the standard output has ended is the error output read. *)
WaitWithOutput ==
  /\ InShim /\ cargo.state \in {"built", "failed"} /\ cargo.out = 0
  /\ Return("shim")
  /\ \/ cargo.state = "built" /\ UNCHANGED <<cancelled, message, status>>
     \/ CancelAll("cargo") /\ status' = [status EXCEPT !["shim"] = "Failed"]
  /\ UNCHANGED <<cargo, shim>>

---------------------------------------------------------------------------
(* package_artifacts *)

InPackage ==
  /\ InTask("package")
  /\ UNCHANGED <<sources, bytecode, cargo, shim, outcome>>
  /\ Return("package")

PackageArtifacts ==
  /\ InPackage /\ shim # "none"
  /\ artifact' = IF shim = "new" THEN "new" ELSE "stale"
  /\ status' = [status EXCEPT !["package"] = "Completed"]
  /\ UNCHANGED <<cancelled, message>>

(* The executable is truncated, then written in parts: a write that fails may
   leave a part of it, in place of what an earlier build left. *)
LeftBy(reason) == IF reason = "write" THEN {artifact, "partial"} ELSE {artifact}

PackageFails ==
  /\ InPackage
  /\ \E reason \in {"zip", "no shim", "write"} :
       /\ (shim = "none" => reason # "write") /\ (reason = "no shim" => shim = "none")
       /\ CancelAll(reason)
       /\ artifact' \in LeftBy(reason)
  /\ status' = [status EXCEPT !["package"] = "Failed"]

---------------------------------------------------------------------------

PrepareStep == CreateBuildDir \/ GatherSource \/ SendGathered \/ ReceiveGathered
ReaderStep  == WriteShimProject \/ ReadLine \/ WaitWithOutput
CargoStep   == CargoWrites \/ CargoExits
PackageStep == PackageArtifacts \/ PackageFails

Next ==
  \/ \E s \in Stages : Start(s) \/ End(s)
  \/ PrepareStep \/ DownloadPackages \/ ParsePackages \/ CompileProgram
  \/ ReaderStep \/ CargoStep \/ LeftCargoExits \/ PackageStep
  \/ Report

(* Every thread, and the cargo that is read, is run by the operating system. *)
Fairness ==
  /\ \A s \in Stages : WF_vars(Start(s) \/ End(s))
  /\ WF_vars(PrepareStep) /\ WF_vars(DownloadPackages) /\ WF_vars(ParsePackages)
  /\ WF_vars(CompileProgram) /\ WF_vars(ReaderStep) /\ WF_vars(CargoStep)
  /\ WF_vars(PackageStep) /\ WF_vars(Report)

Spec == Init /\ [][Next]_vars /\ Fairness

---------------------------------------------------------------------------
(* Properties *)

TypeOK ==
  /\ cancelled \in BOOLEAN
  /\ status \in [Stages -> Statuses] /\ at \in [Stages -> Places]
  /\ message \in {"none", "source", "compile", "shim project", "cargo", "zip", "no shim", "write"}
  /\ gather \in [read : 0..Len(Found), state : {"off", "reading", "sent", "over"}]
  /\ pathTx \subseteq {"prepare", "download"}
  /\ bytecode \in {"none", "compiled"}
  /\ cargo \in [todo : Seq({"out", "err"}), out : 0..PipeSize, err : 0..PipeSize,
                state : {"none", "running", "built", "failed", "left"}]
  /\ shim \in {"none", "old", "new"}
  /\ artifact \in {"none", "earlier", "partial", "stale", "new"}
  /\ outcome \in {"none", "panicked", "failed", "succeeded"}

(* A build that reports success has compiled a program, has gathered its sources
   or could not create the build directory, and has written an executable whose
   shim is the one its cargo built; unless it left cargo for a line it could not
   read, after which the shim may be that of an earlier build (main, cargo_build,
   package_artifacts). *)
SuccessIsBuilt ==
  outcome = "succeeded" =>
    /\ bytecode = "compiled" /\ gather.state \in {"off", "sent"}
    /\ artifact = "new" \/ (artifact = "stale" /\ cargo.state = "left")

(* What is over: a stage past its task.                                    *)
Over(s) == at[s] \in {"end", "done"}

(* What makes the properties inductive: the stages keep main's order ...   *)
StagesInOrder == \A s \in Stages : at[s] # "waiting" => \A t \in Before(s) : at[t] = "done"

(* ... a cancelled build writes no executable ...                          *)
CancelledBuildsNothing ==
  /\ artifact \in {"partial", "stale", "new"} => Over("package")
  /\ artifact \in {"stale", "new"} => ~ cancelled
  /\ artifact = "partial" => cancelled /\ message = "write"
  /\ at["package"] = "task" => ~ cancelled
  /\ cancelled => message # "none"
  /\ outcome = "failed" => cancelled

(* ... and each stage of a build that is not cancelled has done its part.  *)
PartsDone ==
  /\ ~ cancelled =>
       /\ gather.state # "over"
       /\ Over("prepare") => gather.state # "reading"
       /\ Over("project") => bytecode = "compiled"
       /\ Over("shim") => cargo.state \in {"built", "left"}
       /\ Over("package") => artifact = "new" \/ (artifact = "stale" /\ cargo.state = "left")
  /\ cargo.state = "built" => shim = "new"
  /\ outcome = "succeeded" => ~ cancelled /\ at["package"] = "done"

(* A build that reports failure has a reason and has written no executable: the
   file is as an earlier build left it, or, when writing it is what failed, cut
   short (cancel_all, BuildStage::start, write_final_exe). *)
FailureLeavesNoExecutable ==
  outcome = "failed" =>
    /\ message # "none" /\ artifact \notin {"stale", "new"}
    /\ artifact = "partial" => message = "write"

(* cargo waits to write an error line into a full pipe, which nobody reads before
   the standard output ends. *)
CargoBlocked ==
  /\ InTask("shim") /\ cargo.state = "running" /\ cargo.out = 0
  /\ cargo.todo # << >> /\ Head(cargo.todo) = "err" /\ cargo.err = PipeSize

(* The build comes to an end, whichever stage fails: no stage waits for a channel
   whose sender is held by a stage that is over, and no stage for another. Only
   cargo can hold it up, for ever, with more error lines than its pipe holds
   (parse_packages, cargo_build). *)
BuildEnds == <>(outcome # "none") \/ <>[]CargoBlocked

(* The build comes to an end. It does not, because of what BuildEnds excepts:
   cargo_build reads one pipe to its end before the other. *)
BuildAlwaysEnds == <>(outcome # "none")

(* src/src/bin/mechc.rs:751: "1. Open supplied source files, gather all the
   files that are contained", which a build is made of: a build that succeeds has
   built what it gathered. Nothing gathered is sent to parse_packages. *)
GatheredIsBuilt == outcome = "succeeded" => gathered = << >>

(* A stage that failed is not reported as completed. *)
FailureIsKept == [][\A s \in Stages : status[s] = "Failed" => status'[s] = "Failed"]_status
=============================================================================
