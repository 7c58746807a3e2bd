-------------------------- MODULE MechBuildProofs --------------------------
(***************************************************************************)
(* Theorems about the staged build, for every choice of sources, of cargo  *)
(* output and of the size of a pipe.                                       *)
(***************************************************************************)
EXTENDS MechBuild, BasicLemmas, TLAPS

(* TypeOK in parts: what controls the stages, what the threads pass to
   each other, and what they make.                                         *)
StageType == status \in [Stages -> Statuses] /\ at \in [Stages -> Places]

FlagType ==
  /\ cancelled \in BOOLEAN
  /\ message \in {"none", "source", "compile", "shim project", "cargo", "zip", "no shim", "write"}
  /\ pathTx \subseteq {"prepare", "download"}
  /\ outcome \in {"none", "panicked", "failed", "succeeded"}

GatherType == gather \in [read : 0..Len(Found), state : {"off", "reading", "sent", "over"}]

BuiltType ==
  /\ bytecode \in {"none", "compiled"}
  /\ shim \in {"none", "old", "new"}
  /\ artifact \in {"none", "earlier", "partial", "stale", "new"}

CargoType ==
  cargo \in [todo : Seq({"out", "err"}), out : 0..PipeSize, err : 0..PipeSize,
            state : {"none", "running", "built", "failed", "left"}]

Types == StageType /\ FlagType /\ GatherType /\ BuiltType /\ CargoType

Inv == Types /\ StagesInOrder /\ CancelledBuildsNothing /\ PartsDone

USE DEF Alive, sources, built

(* The first state is well formed, in order and has no executable of this
   build.                                                                  *)
LEMMA InitInv == Init => Inv
<1> SUFFICES ASSUME Init PROVE Inv
  OBVIOUS
<1> USE DEF Init
<1>1. StageType /\ FlagType
  BY DEF StageType, FlagType, Stages, Statuses, Places
<1>2. GatherType
  BY FoundAssumption DEF GatherType
<1>3. CargoType
  BY CargoAssumption DEF CargoType, NoCargo
<1>4. BuiltType
  BY DEF BuiltType
<1>5. StagesInOrder
  BY DEF StagesInOrder
<1>6. CancelledBuildsNothing
  BY DEF CancelledBuildsNothing, Stages
<1>7. PartsDone
  BY DEF PartsDone, Over, Stages, NoCargo
<1> QED BY <1>1, <1>2, <1>3, <1>4, <1>5, <1>6, <1>7 DEF Inv, Types

(* Every step keeps the types of the stages.                               *)
LEMMA StageStep ==
  ASSUME StageType, [Next]_vars
  PROVE  StageType'
<1> USE DEF StageType, Statuses, Places, Stages
<1>1. ASSUME NEW s \in Stages, Start(s)
      PROVE  StageType'
  BY <1>1 DEF Start
<1>2. ASSUME NEW s \in Stages, End(s)
      PROVE  StageType'
  BY <1>2 DEF End
<1>3. CASE CreateBuildDir
  BY <1>3 DEF CreateBuildDir, Preparing, InTask, Return, CancelAll
<1>4. CASE GatherSource
  BY <1>4 DEF GatherSource, Preparing, InTask, CancelAll
<1>5. CASE SendGathered
  BY <1>5 DEF SendGathered, Preparing, InTask
<1>6. CASE ReceiveGathered
  BY <1>6 DEF ReceiveGathered, Preparing, InTask, Return
<1>7. CASE DownloadPackages
  BY <1>7 DEF DownloadPackages, InTask, Return
<1>8. CASE ParsePackages
  BY <1>8 DEF ParsePackages, InTask, Return
<1>9. CASE CompileProgram
  BY <1>9 DEF CompileProgram, InTask, Return, CancelAll
<1>10. CASE WriteShimProject
  <2>1. CASE UNCHANGED <<cancelled, message, status, at, pathTx>>
    BY <1>10, <2>1 DEF WriteShimProject, InShim, InTask
  <2>2. ASSUME NEW reason \in {"shim project", "cargo"}, CancelAll(reason),
               status' = [status EXCEPT !["shim"] = "Failed"], Return("shim")
        PROVE  StageType'
    BY <1>10, <2>2 DEF WriteShimProject, InShim, InTask, Return, CancelAll
  <2> QED BY <1>10, <2>1, <2>2 DEF WriteShimProject
<1>11. CASE CargoWrites
  BY <1>11 DEF CargoWrites, InShim, InTask, Pipe
<1>12. CASE CargoExits
  BY <1>12 DEF CargoExits, InShim, InTask
<1>13. CASE ReadLine
  BY <1>13 DEF ReadLine, InShim, InTask, Return
<1>14. CASE WaitWithOutput
  BY <1>14 DEF WaitWithOutput, InShim, InTask, Return, CancelAll
<1>15. CASE LeftCargoExits
  BY <1>15 DEF LeftCargoExits
<1>16. CASE PackageArtifacts
  BY <1>16 DEF PackageArtifacts, InPackage, InTask, Return
<1>17. CASE PackageFails
  BY <1>17 DEF PackageFails, LeftBy, InPackage, InTask, Return, CancelAll
<1>18. CASE Report
  BY <1>18 DEF Report
<1>19. CASE UNCHANGED vars
  BY <1>19 DEF vars
<1> QED BY <1>1, <1>2, <1>3, <1>4, <1>5, <1>6, <1>7, <1>8, <1>9, <1>10, <1>11,
           <1>12, <1>13, <1>14, <1>15, <1>16, <1>17, <1>18, <1>19
        DEF Next, PrepareStep, ReaderStep, CargoStep, PackageStep

(* Every step keeps the types of the flags and of the outcome.             *)
LEMMA FlagStep ==
  ASSUME FlagType, [Next]_vars
  PROVE  FlagType'
<1> USE DEF FlagType
<1>1. ASSUME NEW s \in Stages, Start(s)
      PROVE  FlagType'
  BY <1>1 DEF Start
<1>2. ASSUME NEW s \in Stages, End(s)
      PROVE  FlagType'
  BY <1>2 DEF End
<1>3. CASE CreateBuildDir
  BY <1>3 DEF CreateBuildDir, Preparing, InTask, Return, CancelAll
<1>4. CASE GatherSource
  BY <1>4 DEF GatherSource, Preparing, InTask, CancelAll
<1>5. CASE SendGathered
  BY <1>5 DEF SendGathered, Preparing, InTask
<1>6. CASE ReceiveGathered
  BY <1>6 DEF ReceiveGathered, Preparing, InTask, Return
<1>7. CASE DownloadPackages
  BY <1>7 DEF DownloadPackages, InTask, Return
<1>8. CASE ParsePackages
  BY <1>8 DEF ParsePackages, InTask, Return
<1>9. CASE CompileProgram
  BY <1>9 DEF CompileProgram, InTask, Return, CancelAll
<1>10. CASE WriteShimProject
  BY <1>10 DEF WriteShimProject, InShim, InTask, Return, CancelAll
<1>11. CASE CargoWrites
  BY <1>11 DEF CargoWrites, InShim, InTask, Pipe
<1>12. CASE CargoExits
  BY <1>12 DEF CargoExits, InShim, InTask
<1>13. CASE ReadLine
  BY <1>13 DEF ReadLine, InShim, InTask, Return
<1>14. CASE WaitWithOutput
  BY <1>14 DEF WaitWithOutput, InShim, InTask, Return, CancelAll
<1>15. CASE LeftCargoExits
  BY <1>15 DEF LeftCargoExits
<1>16. CASE PackageArtifacts
  BY <1>16 DEF PackageArtifacts, InPackage, InTask, Return
<1>17. CASE PackageFails
  BY <1>17 DEF PackageFails, LeftBy, InPackage, InTask, Return, CancelAll
<1>18. CASE Report
  BY <1>18 DEF Report
<1>19. CASE UNCHANGED vars
  BY <1>19 DEF vars
<1> QED BY <1>1, <1>2, <1>3, <1>4, <1>5, <1>6, <1>7, <1>8, <1>9, <1>10, <1>11,
           <1>12, <1>13, <1>14, <1>15, <1>16, <1>17, <1>18, <1>19
        DEF Next, PrepareStep, ReaderStep, CargoStep, PackageStep

(* Every step keeps the type of the gather thread.                         *)
LEMMA GatherStep ==
  ASSUME GatherType, [Next]_vars
  PROVE  GatherType'
<1> USE DEF GatherType
<1>1. ASSUME NEW s \in Stages, Start(s)
      PROVE  GatherType'
  BY <1>1 DEF Start
<1>2. ASSUME NEW s \in Stages, End(s)
      PROVE  GatherType'
  BY <1>2 DEF End
<1>3. CASE CreateBuildDir
  BY <1>3 DEF CreateBuildDir, Preparing, InTask, Return, CancelAll
<1>4. CASE GatherSource
  BY <1>4 DEF GatherSource, Preparing, InTask, CancelAll
<1>5. CASE SendGathered
  BY <1>5 DEF SendGathered, Preparing, InTask
<1>6. CASE ReceiveGathered
  BY <1>6 DEF ReceiveGathered, Preparing, InTask, Return
<1>7. CASE DownloadPackages
  BY <1>7 DEF DownloadPackages, InTask, Return
<1>8. CASE ParsePackages
  BY <1>8 DEF ParsePackages, InTask, Return
<1>9. CASE CompileProgram
  BY <1>9 DEF CompileProgram, InTask, Return, CancelAll
<1>10. CASE WriteShimProject
  BY <1>10 DEF WriteShimProject, InShim, InTask, Return, CancelAll
<1>11. CASE CargoWrites
  BY <1>11 DEF CargoWrites, InShim, InTask, Pipe
<1>12. CASE CargoExits
  BY <1>12 DEF CargoExits, InShim, InTask
<1>13. CASE ReadLine
  BY <1>13 DEF ReadLine, InShim, InTask, Return
<1>14. CASE WaitWithOutput
  BY <1>14 DEF WaitWithOutput, InShim, InTask, Return, CancelAll
<1>15. CASE LeftCargoExits
  BY <1>15 DEF LeftCargoExits
<1>16. CASE PackageArtifacts
  BY <1>16 DEF PackageArtifacts, InPackage, InTask, Return
<1>17. CASE PackageFails
  BY <1>17 DEF PackageFails, LeftBy, InPackage, InTask, Return, CancelAll
<1>18. CASE Report
  BY <1>18 DEF Report
<1>19. CASE UNCHANGED vars
  BY <1>19 DEF vars
<1> QED BY <1>1, <1>2, <1>3, <1>4, <1>5, <1>6, <1>7, <1>8, <1>9, <1>10, <1>11,
           <1>12, <1>13, <1>14, <1>15, <1>16, <1>17, <1>18, <1>19
        DEF Next, PrepareStep, ReaderStep, CargoStep, PackageStep

(* Every step keeps cargo's pipes within their size.                       *)
LEMMA CargoTypeStep ==
  ASSUME CargoType, [Next]_vars
  PROVE  CargoType'
<1> USE DEF CargoType
<1>1. ASSUME NEW s \in Stages, Start(s)
      PROVE  CargoType'
  BY <1>1 DEF Start
<1>2. ASSUME NEW s \in Stages, End(s)
      PROVE  CargoType'
  BY <1>2 DEF End
<1>3. CASE CreateBuildDir
  BY <1>3 DEF CreateBuildDir, Preparing, InTask, Return, CancelAll
<1>4. CASE GatherSource
  BY <1>4 DEF GatherSource, Preparing, InTask, CancelAll
<1>5. CASE SendGathered
  BY <1>5 DEF SendGathered, Preparing, InTask
<1>6. CASE ReceiveGathered
  BY <1>6 DEF ReceiveGathered, Preparing, InTask, Return
<1>7. CASE DownloadPackages
  BY <1>7 DEF DownloadPackages, InTask, Return
<1>8. CASE ParsePackages
  BY <1>8 DEF ParsePackages, InTask, Return
<1>9. CASE CompileProgram
  BY <1>9 DEF CompileProgram, InTask, Return, CancelAll
<1>10. CASE WriteShimProject
  <2>1. ASSUME NEW lines \in CargoOutputs, cargo' = [cargo EXCEPT !.todo = lines, !.state = "running"]
        PROVE  CargoType'
    BY <2>1, CargoAssumption
  <2> QED BY <1>10, <2>1 DEF WriteShimProject
<1>11. CASE CargoWrites
  <2>1. Tail(cargo.todo) \in Seq({"out", "err"})
    BY <1>11 DEF CargoWrites
  <2>2. Head(cargo.todo) = "out" => cargo.out + 1 \in 0..PipeSize
    BY <1>11, CargoAssumption DEF CargoWrites, Pipe
  <2>3. Head(cargo.todo) = "err" => cargo.err + 1 \in 0..PipeSize
    BY <1>11, CargoAssumption DEF CargoWrites, Pipe
  <2>4. cargo'.out \in 0..PipeSize /\ cargo'.err \in 0..PipeSize
    BY <1>11, <2>2, <2>3 DEF CargoWrites
  <2> QED BY <1>11, <2>1, <2>4 DEF CargoWrites
<1>12. CASE CargoExits
  BY <1>12 DEF CargoExits, InShim, InTask
<1>13. CASE ReadLine
  <2>1. cargo.out > 0 => cargo.out - 1 \in 0..PipeSize
    BY CargoAssumption
  <2>2. CASE cargo' = [cargo EXCEPT !.out = cargo.out - 1]
    BY <1>13, <2>1, <2>2 DEF ReadLine
  <2>3. CASE cargo' = [cargo EXCEPT !.state = "left"]
    BY <2>3
  <2> QED BY <1>13, <2>2, <2>3 DEF ReadLine
<1>14. CASE WaitWithOutput
  BY <1>14 DEF WaitWithOutput, InShim, InTask, Return, CancelAll
<1>15. CASE LeftCargoExits
  BY <1>15 DEF LeftCargoExits
<1>16. CASE PackageArtifacts
  BY <1>16 DEF PackageArtifacts, InPackage, InTask, Return
<1>17. CASE PackageFails
  BY <1>17 DEF PackageFails, LeftBy, InPackage, InTask, Return, CancelAll
<1>18. CASE Report
  BY <1>18 DEF Report
<1>19. CASE UNCHANGED vars
  BY <1>19 DEF vars
<1> QED BY <1>1, <1>2, <1>3, <1>4, <1>5, <1>6, <1>7, <1>8, <1>9, <1>10, <1>11,
           <1>12, <1>13, <1>14, <1>15, <1>16, <1>17, <1>18, <1>19
        DEF Next, PrepareStep, ReaderStep, CargoStep, PackageStep

(* Every step keeps the types of what is built.                            *)
LEMMA BuiltStep ==
  ASSUME BuiltType, [Next]_vars
  PROVE  BuiltType'
<1> USE DEF BuiltType
<1>1. ASSUME NEW s \in Stages, Start(s)
      PROVE  BuiltType'
  BY <1>1 DEF Start
<1>2. ASSUME NEW s \in Stages, End(s)
      PROVE  BuiltType'
  BY <1>2 DEF End
<1>3. CASE CreateBuildDir
  BY <1>3 DEF CreateBuildDir, Preparing, InTask, Return, CancelAll
<1>4. CASE GatherSource
  BY <1>4 DEF GatherSource, Preparing, InTask, CancelAll
<1>5. CASE SendGathered
  BY <1>5 DEF SendGathered, Preparing, InTask
<1>6. CASE ReceiveGathered
  BY <1>6 DEF ReceiveGathered, Preparing, InTask, Return
<1>7. CASE DownloadPackages
  BY <1>7 DEF DownloadPackages, InTask, Return
<1>8. CASE ParsePackages
  BY <1>8 DEF ParsePackages, InTask, Return
<1>9. CASE CompileProgram
  BY <1>9 DEF CompileProgram, InTask, Return, CancelAll
<1>10. CASE WriteShimProject
  BY <1>10 DEF WriteShimProject, InShim, InTask, Return, CancelAll
<1>11. CASE CargoWrites
  BY <1>11 DEF CargoWrites, InShim, InTask, Pipe
<1>12. CASE CargoExits
  BY <1>12 DEF CargoExits, InShim, InTask
<1>13. CASE ReadLine
  BY <1>13 DEF ReadLine, InShim, InTask, Return
<1>14. CASE WaitWithOutput
  BY <1>14 DEF WaitWithOutput, InShim, InTask, Return, CancelAll
<1>15. CASE LeftCargoExits
  BY <1>15 DEF LeftCargoExits
<1>16. CASE PackageArtifacts
  BY <1>16 DEF PackageArtifacts, InPackage, InTask, Return
<1>17. CASE PackageFails
  BY <1>17 DEF PackageFails, LeftBy, InPackage, InTask, Return, CancelAll
<1>18. CASE Report
  BY <1>18 DEF Report
<1>19. CASE UNCHANGED vars
  BY <1>19 DEF vars
<1> QED BY <1>1, <1>2, <1>3, <1>4, <1>5, <1>6, <1>7, <1>8, <1>9, <1>10, <1>11,
           <1>12, <1>13, <1>14, <1>15, <1>16, <1>17, <1>18, <1>19
        DEF Next, PrepareStep, ReaderStep, CargoStep, PackageStep

(* Every step keeps main's order of the stages.                            *)
LEMMA OrderStep ==
  ASSUME StageType, StagesInOrder, [Next]_vars
  PROVE  StagesInOrder'
<1> USE DEF StageType, StagesInOrder, Before, Stages, Places
<1>1. ASSUME NEW s \in Stages, Start(s)
      PROVE  StagesInOrder'
  BY <1>1 DEF Start
<1>2. ASSUME NEW s \in Stages, End(s)
      PROVE  StagesInOrder'
  BY <1>2 DEF End
<1>3. CASE CreateBuildDir
  BY <1>3 DEF CreateBuildDir, Preparing, InTask, Return, CancelAll
<1>4. CASE GatherSource
  BY <1>4 DEF GatherSource, Preparing, InTask, CancelAll
<1>5. CASE SendGathered
  BY <1>5 DEF SendGathered, Preparing, InTask
<1>6. CASE ReceiveGathered
  BY <1>6 DEF ReceiveGathered, Preparing, InTask, Return
<1>7. CASE DownloadPackages
  BY <1>7 DEF DownloadPackages, InTask, Return
<1>8. CASE ParsePackages
  BY <1>8 DEF ParsePackages, InTask, Return
<1>9. CASE CompileProgram
  BY <1>9 DEF CompileProgram, InTask, Return, CancelAll
<1>10. CASE WriteShimProject
  <2>1. CASE UNCHANGED <<cancelled, message, status, at, pathTx>>
    BY <1>10, <2>1 DEF WriteShimProject, InShim, InTask
  <2>2. ASSUME NEW reason \in {"shim project", "cargo"}, CancelAll(reason),
               status' = [status EXCEPT !["shim"] = "Failed"], Return("shim")
        PROVE  StagesInOrder'
    BY <1>10, <2>2 DEF WriteShimProject, InShim, InTask, Return, CancelAll
  <2> QED BY <1>10, <2>1, <2>2 DEF WriteShimProject
<1>11. CASE CargoWrites
  BY <1>11 DEF CargoWrites, InShim, InTask, Pipe
<1>12. CASE CargoExits
  BY <1>12 DEF CargoExits, InShim, InTask
<1>13. CASE ReadLine
  BY <1>13 DEF ReadLine, InShim, InTask, Return
<1>14. CASE WaitWithOutput
  BY <1>14 DEF WaitWithOutput, InShim, InTask, Return, CancelAll
<1>15. CASE LeftCargoExits
  BY <1>15 DEF LeftCargoExits
<1>16. CASE PackageArtifacts
  BY <1>16 DEF PackageArtifacts, InPackage, InTask, Return
<1>17. CASE PackageFails
  BY <1>17 DEF PackageFails, LeftBy, InPackage, InTask, Return, CancelAll
<1>18. CASE Report
  BY <1>18 DEF Report
<1>19. CASE UNCHANGED vars
  BY <1>19 DEF vars
<1> QED BY <1>1, <1>2, <1>3, <1>4, <1>5, <1>6, <1>7, <1>8, <1>9, <1>10, <1>11,
           <1>12, <1>13, <1>14, <1>15, <1>16, <1>17, <1>18, <1>19
        DEF Next, PrepareStep, ReaderStep, CargoStep, PackageStep

(* A cancelled build writes no executable and has a reason: only the last
   stage writes, and it does not run once the flag is set.                 *)
LEMMA CancelStep ==
  ASSUME StageType, BuiltType, StagesInOrder, CancelledBuildsNothing, [Next]_vars
  PROVE  CancelledBuildsNothing'
<1> USE DEF StageType, StagesInOrder, CancelledBuildsNothing, Over, Before, Stages
<1>1. ASSUME NEW s \in Stages, Start(s)
      PROVE  CancelledBuildsNothing'
  BY <1>1 DEF Start
<1>2. ASSUME NEW s \in Stages, End(s)
      PROVE  CancelledBuildsNothing'
  BY <1>2 DEF End
<1>3. CASE CreateBuildDir
  BY <1>3 DEF CreateBuildDir, Preparing, InTask, Return, CancelAll
<1>4. CASE GatherSource
  BY <1>4 DEF GatherSource, Preparing, InTask, CancelAll
<1>5. CASE SendGathered
  BY <1>5 DEF SendGathered, Preparing, InTask
<1>6. CASE ReceiveGathered
  BY <1>6 DEF ReceiveGathered, Preparing, InTask, Return
<1>7. CASE DownloadPackages
  BY <1>7 DEF DownloadPackages, InTask, Return
<1>8. CASE ParsePackages
  BY <1>8 DEF ParsePackages, InTask, Return
<1>9. CASE CompileProgram
  BY <1>9 DEF CompileProgram, InTask, Return, CancelAll
<1>10. CASE WriteShimProject
  <2>1. CASE UNCHANGED <<cancelled, message, status, at, pathTx>>
    BY <1>10, <2>1 DEF WriteShimProject, InShim, InTask
  <2>2. ASSUME NEW reason \in {"shim project", "cargo"}, CancelAll(reason),
               status' = [status EXCEPT !["shim"] = "Failed"], Return("shim")
        PROVE  CancelledBuildsNothing'
    BY <1>10, <2>2 DEF WriteShimProject, InShim, InTask, Return, CancelAll
  <2> QED BY <1>10, <2>1, <2>2 DEF WriteShimProject
<1>11. CASE CargoWrites
  BY <1>11 DEF CargoWrites, InShim, InTask, Pipe
<1>12. CASE CargoExits
  BY <1>12 DEF CargoExits, InShim, InTask
<1>13. CASE ReadLine
  BY <1>13 DEF ReadLine, InShim, InTask, Return
<1>14. CASE WaitWithOutput
  BY <1>14 DEF WaitWithOutput, InShim, InTask, Return, CancelAll
<1>15. CASE LeftCargoExits
  BY <1>15 DEF LeftCargoExits
<1>16. CASE PackageArtifacts
  BY <1>16 DEF PackageArtifacts, InPackage, InTask, Return
<1>17. CASE PackageFails
  <2>1. PICK reason \in {"zip", "no shim", "write"} :
          /\ CancelAll(reason)
          /\ artifact' \in LeftBy(reason)
    BY <1>17 DEF PackageFails
  <2>2. InTask("package") /\ at' = [at EXCEPT !["package"] = "end"] /\ UNCHANGED <<gather, bytecode, cargo, shim, outcome>>
    BY <1>17 DEF PackageFails, InPackage, Return
  <2> QED BY <2>1, <2>2 DEF InTask, CancelAll, LeftBy
<1>18. CASE Report
  BY <1>18 DEF Report
<1>19. CASE UNCHANGED vars
  BY <1>19 DEF vars
<1> QED BY <1>1, <1>2, <1>3, <1>4, <1>5, <1>6, <1>7, <1>8, <1>9, <1>10, <1>11,
           <1>12, <1>13, <1>14, <1>15, <1>16, <1>17, <1>18, <1>19
        DEF Next, PrepareStep, ReaderStep, CargoStep, PackageStep

(* A stage that ends without setting the flag has done its part.            *)
LEMMA PartsStep ==
  ASSUME StageType, BuiltType, GatherType, CargoType, StagesInOrder, CancelledBuildsNothing, PartsDone, [Next]_vars
  PROVE  PartsDone'
<1> USE DEF StageType, GatherType, CargoType, StagesInOrder, PartsDone, Over, Before, Stages
<1>1. ASSUME NEW s \in Stages, Start(s)
      PROVE  PartsDone'
  BY <1>1 DEF Start
<1>2. ASSUME NEW s \in Stages, End(s)
      PROVE  PartsDone'
  BY <1>2 DEF End
<1>3. CASE CreateBuildDir
  BY <1>3 DEF CreateBuildDir, Preparing, InTask, Return, CancelAll
<1>4. CASE GatherSource
  BY <1>4 DEF GatherSource, Preparing, InTask, CancelAll
<1>5. CASE SendGathered
  BY <1>5 DEF SendGathered, Preparing, InTask
<1>6. CASE ReceiveGathered
  BY <1>6 DEF ReceiveGathered, Preparing, InTask, Return
<1>7. CASE DownloadPackages
  BY <1>7 DEF DownloadPackages, InTask, Return
<1>8. CASE ParsePackages
  BY <1>8 DEF ParsePackages, InTask, Return
<1>9. CASE CompileProgram
  BY <1>9 DEF CompileProgram, InTask, Return, CancelAll
<1>10. CASE WriteShimProject
  <2>1. CASE UNCHANGED <<cancelled, message, status, at, pathTx>>
    <3>1. PICK lines \in CargoOutputs : cargo' = [cargo EXCEPT !.todo = lines, !.state = "running"]
      BY <1>10, <2>1 DEF WriteShimProject, Return, InShim, InTask
    <3>2. cargo'.state = "running" /\ ~ Over("shim") /\ ~ Over("package")
      BY <1>10, <3>1 DEF WriteShimProject, InShim, InTask
    <3> QED BY <1>10, <2>1, <3>2 DEF WriteShimProject, InShim, InTask
  <2>2. ASSUME NEW reason \in {"shim project", "cargo"}, CancelAll(reason),
               status' = [status EXCEPT !["shim"] = "Failed"], Return("shim")
        PROVE  PartsDone'
    BY <1>10, <2>2 DEF WriteShimProject, InShim, InTask, Return, CancelAll
  <2> QED BY <1>10, <2>1, <2>2 DEF WriteShimProject
<1>11. CASE CargoWrites
  BY <1>11 DEF CargoWrites, InShim, InTask, Pipe
<1>12. CASE CargoExits
  BY <1>12 DEF CargoExits, InShim, InTask
<1>13. CASE ReadLine
  BY <1>13 DEF ReadLine, InShim, InTask, Return
<1>14. CASE WaitWithOutput
  BY <1>14 DEF WaitWithOutput, InShim, InTask, Return, CancelAll
<1>15. CASE LeftCargoExits
  BY <1>15 DEF LeftCargoExits
<1>16. CASE PackageArtifacts
  BY <1>16 DEF PackageArtifacts, InPackage, InTask, Return
<1>17. CASE PackageFails
  <2>1. PICK reason \in {"zip", "no shim", "write"} :
          /\ CancelAll(reason)
          /\ artifact' \in LeftBy(reason)
    BY <1>17 DEF PackageFails
  <2>2. InTask("package") /\ at' = [at EXCEPT !["package"] = "end"] /\ UNCHANGED <<gather, bytecode, cargo, shim, outcome>>
    BY <1>17 DEF PackageFails, InPackage, Return
  <2> QED BY <2>1, <2>2 DEF InTask, CancelAll, LeftBy
<1>18. CASE Report
  BY <1>18 DEF Report
<1>19. CASE UNCHANGED vars
  BY <1>19 DEF vars
<1> QED BY <1>1, <1>2, <1>3, <1>4, <1>5, <1>6, <1>7, <1>8, <1>9, <1>10, <1>11,
           <1>12, <1>13, <1>14, <1>15, <1>16, <1>17, <1>18, <1>19
        DEF Next, PrepareStep, ReaderStep, CargoStep, PackageStep

(* The invariant of every build.                                           *)
THEOREM InvHolds == Spec => []Inv
<1>1. Inv /\ [Next]_vars => Inv'
  BY StageStep, FlagStep, GatherStep, CargoTypeStep, BuiltStep, OrderStep, CancelStep, PartsStep
     DEF Inv, Types
<1> QED BY InitInv, <1>1, PTL DEF Spec

(* Every variable keeps its type, whatever fails.                          *)
THEOREM TypeCorrect == Spec => []TypeOK
<1>1. Inv => TypeOK
  BY DEF Inv, Types, StageType, FlagType, GatherType, CargoType, BuiltType, TypeOK
<1> QED BY InvHolds, <1>1, PTL

(* A build that reports failure has a reason and has written no executable: a
   failure in any thread is seen before the last stage runs, and when writing is
   what failed, what is left is a part.                                    *)
THEOREM FailureIsClean == Spec => []FailureLeavesNoExecutable
<1>1. Inv => FailureLeavesNoExecutable
  BY DEF Inv, CancelledBuildsNothing, FailureLeavesNoExecutable
<1> QED BY InvHolds, <1>1, PTL

(* A build that reports success has written the executable: of the shim that
   its cargo built, or, if it left that cargo, of one that was there.      *)
THEOREM SuccessIsComplete == Spec => []SuccessIsBuilt
<1>1. Inv => SuccessIsBuilt
  <2> SUFFICES ASSUME Inv, outcome = "succeeded" PROVE SuccessIsBuilt
    BY DEF SuccessIsBuilt
  <2>1. at["package"] = "done" /\ ~ cancelled
    BY DEF Inv, PartsDone
  <2>2. \A s \in Stages : at[s] = "done"
    BY <2>1 DEF Inv, StagesInOrder, Before, Stages
  <2> QED BY <2>1, <2>2 DEF Inv, Types, GatherType, PartsDone, Over, Stages, SuccessIsBuilt
<1> QED BY InvHolds, <1>1, PTL
=============================================================================
