----------------------------- MODULE UnitProofs -----------------------------
(***************************************************************************)
(* Proofs about four units that keep to themselves: what an OTA update     *)
(* leaves installed (OtaUpdate), what the visualizer leaves on the disk    *)
(* (FrameWriter), what the safety monitor answers (SafetyMonitor), and     *)
(* when the anti-loop guard lets a command pass (AntiLoop).                *)
(***************************************************************************)
EXTENDS OtaUpdate, FrameWriter, SafetyMonitor, AntiLoop,
        SequenceTheorems, FiniteSetTheorems, TLAPS

-----------------------------------------------------------------------------
(* OTA updates.                                                            *)
OtaPlaces == {"idle", "download", "backup", "copy", "create", "write", "sync",
              "chmod", "rename"}
Files     == [holds : Versions \cup {<<>>}, synced : BOOLEAN, runs : BOOLEAN]

OtaTyped == /\ doing \in OtaPlaces /\ offered \in Versions
            /\ binary \in Files /\ backup \in Files /\ temp \in Files

(* What is installed is on the medium, and what is about to replace it is  *)
(* so far whole, on the medium and allowed to run as its writing is.       *)
OtaSafe == /\ Exists(binary) => IsWhole(binary) /\ binary.runs /\ binary.synced
           /\ doing \in {"sync", "chmod", "rename"} => temp.holds = offered
           /\ doing \in {"chmod", "rename"} => temp.synced
           /\ doing = "rename" => temp.runs
           /\ Exists(binary) /\ doing \in {"create", "write", "sync", "chmod", "rename"} =>
                backup.holds = binary.holds /\ backup.runs

OtaInv == OtaTyped /\ OtaSafe

LEMMA FileOperations ==
  /\ None \in Files
  /\ \A f \in Files, b \in BOOLEAN, v \in Versions :
       /\ [f EXCEPT !.synced = b] \in Files /\ [f EXCEPT !.runs = b] \in Files
       /\ [f EXCEPT !.holds = v] \in Files
       /\ Torn(f) \in Files
       /\ [None EXCEPT !.synced = b, !.runs = f.runs] \in Files
  /\ \A f \in Files : AfterPowerLoss(f) \in Files
  /\ \A f \in Files : f.synced => AfterPowerLoss(f) = f
  /\ AfterPowerLoss(None) = None
BY DEF Files, None, Torn, AfterPowerLoss

LEMMA OtaStart == OtaInit => OtaInv
<1> SUFFICES ASSUME OtaInit PROVE OtaInv
  OBVIOUS
<1>1. PICK v \in Versions :
        /\ binary \in {None, [holds |-> v, synced |-> TRUE, runs |-> TRUE]}
        /\ backup = None /\ temp = None /\ doing = "idle" /\ offered = v
  BY DEF OtaInit
<1>2. PICK f : f = [holds |-> v, synced |-> TRUE, runs |-> TRUE]
  OBVIOUS
<1>3. f \in Files /\ f.holds = v /\ f.synced /\ f.runs
  BY <1>2 DEF Files
<1>4. OtaTyped
  BY <1>1, <1>2, <1>3, FileOperations DEF OtaTyped, OtaPlaces
<1>5. OtaSafe
  BY <1>1, <1>2, <1>3 DEF OtaSafe, Exists, IsWhole
<1> QED
  BY <1>4, <1>5 DEF OtaInv

LEMMA OtaStepKeeps == OtaInv /\ [OtaNext]_otaVars => OtaInv'
<1> SUFFICES ASSUME OtaInv, [OtaNext]_otaVars PROVE OtaInv'
  OBVIOUS
<1>0. /\ doing \in OtaPlaces /\ offered \in Versions
      /\ binary \in Files /\ backup \in Files /\ temp \in Files /\ OtaSafe
  BY DEF OtaInv, OtaTyped
<1>1. CASE \E v \in Versions : CheckForUpdate(v)
  BY <1>0, <1>1 DEF CheckForUpdate, OtaInv, OtaTyped, OtaSafe, OtaPlaces, Exists, IsWhole
<1>2. CASE DownloadFails \/ BackupFails \/ TempFails
  BY <1>0, <1>2 DEF DownloadFails, BackupFails, TempFails, GiveUp, OtaInv, OtaTyped,
                    OtaSafe, OtaPlaces, Exists, IsWhole
<1>3. CASE Verify
  BY <1>0, <1>3 DEF Verify, Step, OtaInv, OtaTyped, OtaSafe, OtaPlaces, Exists, IsWhole
<1>4. CASE CopyBackup
  <2>1. backup' \in Files
    BY <1>0, <1>4, FileOperations DEF CopyBackup
  <2> QED
    BY <1>0, <1>4, <2>1
       DEF CopyBackup, Step, OtaInv, OtaTyped, OtaSafe, OtaPlaces, Exists, IsWhole
<1>5. CASE BackupDone
  <2>1. backup' \in Files /\ backup'.holds = binary.holds /\ backup'.runs = binary.runs
    BY <1>0, <1>5, FileOperations, ZenonT(60) DEF BackupDone, Files
  <2> QED
    BY <1>0, <1>5, <2>1
       DEF BackupDone, Step, OtaInv, OtaTyped, OtaSafe, OtaPlaces, Exists, IsWhole
<1>6. CASE CreateTemp
  <2>1. temp' \in Files
    BY <1>0, <1>6, FileOperations DEF CreateTemp
  <2> QED
    BY <1>0, <1>6, <2>1
       DEF CreateTemp, Step, OtaInv, OtaTyped, OtaSafe, OtaPlaces, Exists, IsWhole
<1>7. CASE WriteTemp
  <2>1. temp' \in Files /\ temp'.holds = offered
    BY <1>0, <1>7, FileOperations DEF WriteTemp, Files
  <2> QED
    BY <1>0, <1>7, <2>1
       DEF WriteTemp, Step, OtaInv, OtaTyped, OtaSafe, OtaPlaces, Exists, IsWhole
<1>8. CASE SyncTemp
  <2>1. temp' \in Files /\ temp'.holds = temp.holds /\ temp'.synced
    BY <1>0, <1>8, FileOperations DEF SyncTemp, Files
  <2> QED
    BY <1>0, <1>8, <2>1
       DEF SyncTemp, Step, OtaInv, OtaTyped, OtaSafe, OtaPlaces, Exists, IsWhole
<1>9. CASE SetPermissions
  <2>1. temp' \in Files /\ temp'.holds = temp.holds /\ temp'.synced = temp.synced
        /\ temp'.runs
    BY <1>0, <1>9, FileOperations DEF SetPermissions, Files
  <2> QED
    BY <1>0, <1>9, <2>1
       DEF SetPermissions, Step, OtaInv, OtaTyped, OtaSafe, OtaPlaces, Exists, IsWhole
<1>10. CASE Rename
  <2>1. IsWhole(temp) /\ temp.synced /\ temp.runs
    BY <1>0, <1>10 DEF Rename, Step, OtaSafe, IsWhole
  <2>2. binary' = temp /\ temp' = None /\ doing' = "idle" /\ UNCHANGED <<backup, offered>>
    BY <1>10 DEF Rename, Step
  <2> QED
    BY <1>0, <2>1, <2>2, FileOperations
       DEF OtaInv, OtaTyped, OtaSafe, OtaPlaces, Exists, IsWhole
<1>11. CASE ProcessRestarts
  BY <1>0, <1>11 DEF ProcessRestarts, StartAgain, OtaInv, OtaTyped, OtaSafe, OtaPlaces,
                     Exists, IsWhole
<1>12. CASE PowerFails
  <2>1. PICK mode \in {temp.runs, FALSE} :
          StartAgain(<<AfterPowerLoss(binary), AfterPowerLoss(backup),
                       [AfterPowerLoss(temp) EXCEPT !.runs = mode]>>)
    BY <1>12 DEF PowerFails
  <2>2. PICK file : file = [AfterPowerLoss(temp) EXCEPT !.runs = mode]
    OBVIOUS
  <2>3. mode \in BOOLEAN /\ AfterPowerLoss(temp) \in Files
    BY <1>0, <2>1, FileOperations DEF Files
  <2>4. file \in Files
    <3>1. PICK t \in Files : t = AfterPowerLoss(temp)
      BY <2>3
    <3>2. file = [t EXCEPT !.runs = mode]
      BY <2>2, <3>1
    <3> QED BY <2>3, <3>1, <3>2 DEF Files
  <2>5. /\ doing' = "idle" /\ offered' = offered /\ binary' = AfterPowerLoss(binary)
        /\ backup' = AfterPowerLoss(backup) /\ temp' = file
    BY <2>1, <2>2 DEF StartAgain
  <2>6. binary' = binary
    BY <1>0, <2>5, FileOperations DEF OtaSafe, Exists
  <2> QED
    BY <1>0, <2>4, <2>5, <2>6, FileOperations
       DEF OtaInv, OtaTyped, OtaSafe, OtaPlaces, Exists, IsWhole
<1>13. CASE UNCHANGED otaVars
  BY <1>0, <1>13 DEF otaVars, OtaInv, OtaTyped, OtaSafe, Exists, IsWhole
<1> QED
  BY <1>1, <1>2, <1>3, <1>4, <1>5, <1>6, <1>7, <1>8, <1>9, <1>10, <1>11, <1>12, <1>13
     DEF OtaNext

\* Whatever is installed is whole, synced and may run, and what is about to
\* replace it is as far as its writing.
THEOREM UpdateInvariant == OtaSpec => []OtaInv
BY OtaStart, OtaStepKeeps, PTL DEF OtaSpec

\* What is installed can be started at every instant of an update, whatever
\* fails and whenever the power goes, and is backed up before it is replaced.
THEOREM UpdateIsWhole == OtaSpec => []BinaryIsWhole
<1>1. OtaInv => BinaryIsWhole
  BY DEF OtaInv, OtaSafe, BinaryIsWhole
<1> QED
  BY <1>1, UpdateInvariant, PTL

-----------------------------------------------------------------------------
(* The visualizer.                                                         *)
WriterPlaces == {"idle", "image", "draw", "picture", "bytes", "open", "line", "newline"}
Busy     == {"image", "draw", "picture", "bytes"}
Frames   == Nat \X Nat
Pieces   == ({"record"} \X Frames \X Nat) \cup {<<"newline">>, <<"part">>}
Pictures == (Frames \X Nat) \cup {NoPicture}

WriterTyped == /\ at \in WriterPlaces
               /\ counted \in 0..MaxSaves /\ saved \in Nat /\ run \in Nat
               /\ drawing \in [frame : Frames, found : Nat, drawn : Nat]
               /\ pictures \in [1..MaxSaves -> Pictures]
               /\ log \in Seq(Pieces)

(* The pictures of this run carry its frames, in order, none later than    *)
(* the last one counted - and that one only when it has been written.      *)
Numbered == /\ saved <= counted
            /\ at \in Busy => saved < counted
            /\ at # "idle" => drawing.frame = <<run, counted>>
            /\ \A k \in 1..saved :
                 /\ pictures[k] \in Frames \X Nat /\ pictures[k][1][1] = run
                 /\ pictures[k][1][2] <= counted
                 /\ at \in Busy => pictures[k][1][2] < counted
            /\ \A j, k \in 1..saved : j < k => pictures[j][1][2] < pictures[k][1][2]

(* What is about to be written is the whole of it, and what is about to be *)
(* noted has been written.                                                 *)
Drawn == /\ at \in {"picture", "bytes"} => drawing.drawn = drawing.found
         /\ at \in {"open", "line", "newline"} =>
              saved >= 1 /\ pictures[saved] = <<drawing.frame, drawing.found>>

IsNoted(piece) ==
  piece[1] = "record" =>
    /\ piece[2][1] <= run
    /\ piece[2][1] = run => \E k \in 1..saved : pictures[k] = <<piece[2], piece[3]>>
Noted == \A i \in DOMAIN log : IsNoted(log[i])

WriterInv == WriterTyped /\ Numbered /\ Drawn /\ Noted

LEMMA WriterStart == WriterInit => WriterInv
<1> SUFFICES ASSUME WriterInit PROVE WriterInv
  OBVIOUS
<1> USE DEF WriterInit
<1>0. <<>> \in Seq(Pieces) /\ DOMAIN <<>> = {} /\ 1..0 = {}
  OBVIOUS
<1>1. WriterTyped
  BY <1>0, WriterAssumption DEF WriterTyped, WriterPlaces, Blank, Pictures, Frames
<1>2. Numbered /\ Drawn /\ Noted
  BY <1>0 DEF Numbered, Drawn, Noted, Busy
<1> QED
  BY <1>1, <1>2 DEF WriterInv

(* Steps that leave the disk and the counters alone.                       *)
LEMMA SameDisk ==
  ASSUME WriterInv, UNCHANGED <<counted, saved, pictures, log, run>>,
         at' \in WriterPlaces, drawing' \in [frame : Frames, found : Nat, drawn : Nat],
         at' # "idle" => at # "idle" /\ drawing'.frame = drawing.frame,
         at' \in Busy => at \in Busy,
         Drawn'
  PROVE  WriterInv'
<1>1. WriterTyped'
  BY DEF WriterInv, WriterTyped
<1>2. Numbered'
  BY DEF WriterInv, Numbered
<1>3. Noted'
  BY DEF WriterInv, Noted, IsNoted
<1> QED
  BY <1>1, <1>2, <1>3 DEF WriterInv

LEMMA SaveKeeps ==
  ASSUME WriterInv, NEW found \in 0..MaxDetections, Save(found)
  PROVE  WriterInv'
<1>0. /\ at = "idle" /\ counted \in Nat /\ counted' = counted + 1 /\ counted' \in 0..MaxSaves
      /\ found \in Nat /\ run \in Nat
      /\ UNCHANGED <<saved, pictures, log, run>>
  BY WriterAssumption DEF Save, WriterInv, WriterTyped
<1>1. CASE UNCHANGED <<at, drawing>>
  <2>1. WriterTyped'
    BY <1>0, <1>1 DEF WriterInv, WriterTyped
  <2>2. Numbered'
    BY <1>0, <1>1, SMTT(30) DEF WriterInv, WriterTyped, Numbered, Busy, Frames
  <2>3. Drawn' /\ Noted'
    BY <1>0, <1>1 DEF WriterInv, Drawn, Noted, IsNoted
  <2> QED
    BY <2>1, <2>2, <2>3 DEF WriterInv
<1>2. CASE /\ at' = "image"
           /\ drawing' = [frame |-> <<run, counted'>>, found |-> found, drawn |-> 0]
  <2>1. WriterTyped'
    <3>1. drawing' \in [frame : Frames, found : Nat, drawn : Nat]
      BY <1>0, <1>2 DEF Frames
    <3> QED
      BY <1>0, <1>2, <3>1 DEF WriterInv, WriterTyped, WriterPlaces
  <2>2. Numbered'
    BY <1>0, <1>2, SMTT(30) DEF WriterInv, WriterTyped, Numbered, Busy, Frames
  <2>3. Drawn' /\ Noted'
    BY <1>0, <1>2 DEF WriterInv, Drawn, Noted, IsNoted
  <2> QED
    BY <2>1, <2>2, <2>3 DEF WriterInv
<1> QED
  BY <1>1, <1>2 DEF Save

LEMMA CreateKeeps == WriterInv /\ CreatePicture => WriterInv'
<1> SUFFICES ASSUME WriterInv, CreatePicture PROVE WriterInv'
  OBVIOUS
<1>0. /\ at = "picture" /\ at' = "bytes" /\ saved < counted /\ saved \in Nat
      /\ pictures' = [pictures EXCEPT ![saved + 1] = NoPicture]
      /\ pictures \in [1..MaxSaves -> Pictures]
      /\ UNCHANGED <<counted, saved, drawing, log, run>>
  BY DEF CreatePicture, WriterInv, WriterTyped, Numbered, Busy
<1>1. \A k \in 1..saved : pictures'[k] = pictures[k]
  BY <1>0
<1>2. WriterTyped'
  BY <1>0 DEF WriterInv, WriterTyped, WriterPlaces, Pictures
<1>3. Numbered'
  BY <1>0, <1>1 DEF WriterInv, Numbered, Busy
<1>4. Drawn'
  BY <1>0 DEF WriterInv, Drawn
<1>5. Noted'
  BY <1>0, <1>1, ZenonT(60) DEF WriterInv, Noted, IsNoted
<1> QED
  BY <1>2, <1>3, <1>4, <1>5 DEF WriterInv

LEMMA WriteKeeps == WriterInv /\ WritePicture => WriterInv'
<1> SUFFICES ASSUME WriterInv, WritePicture PROVE WriterInv'
  OBVIOUS
<1>0. /\ at = "bytes" /\ at' = "open" /\ saved < counted /\ saved \in Nat
      /\ counted \in 0..MaxSaves /\ counted \in Nat
      /\ pictures' = [pictures EXCEPT ![saved + 1] = <<drawing.frame, drawing.drawn>>]
      /\ pictures \in [1..MaxSaves -> Pictures]
      /\ saved' = saved + 1 /\ UNCHANGED <<counted, drawing, log, run>>
      /\ drawing.drawn = drawing.found /\ drawing.frame = <<run, counted>>
      /\ drawing \in [frame : Frames, found : Nat, drawn : Nat]
      /\ run \in Nat
  BY DEF WritePicture, WriterInv, WriterTyped, Numbered, Drawn, Busy
<1>1. /\ \A k \in 1..saved : pictures'[k] = pictures[k]
      /\ saved + 1 \in 1..MaxSaves
      /\ pictures'[saved + 1] = <<<<run, counted>>, drawing.found>>
  <2>1. saved + 1 \in 1..MaxSaves
    BY <1>0, WriterAssumption
  <2>2. pictures'[saved + 1] = <<drawing.frame, drawing.drawn>>
    BY <1>0, <2>1
  <2>3. \A k \in 1..saved : k \in 1..MaxSaves /\ k # saved + 1
    BY <1>0, <2>1, WriterAssumption
  <2>4. \A k \in 1..saved : pictures'[k] = pictures[k]
    BY <1>0, <2>3
  <2>5. <<drawing.frame, drawing.drawn>> = <<<<run, counted>>, drawing.found>>
    BY <1>0
  <2> QED
    BY <2>1, <2>2, <2>4, <2>5
<1>2. /\ <<<<run, counted>>, drawing.found>> \in Frames \X Nat
      /\ <<drawing.frame, drawing.drawn>> \in Pictures
  BY <1>0 DEF Frames, Pictures
<1>3. WriterTyped'
  <2>1. pictures' \in [1..MaxSaves -> Pictures]
    BY <1>0, <1>2
  <2> QED
    BY <1>0, <2>1 DEF WriterInv, WriterTyped, WriterPlaces
<1>4. Numbered'
  <2>1. saved' <= counted'
    BY <1>0
  <2>2. ASSUME NEW k \in 1..saved'
        PROVE  /\ pictures'[k] \in Frames \X Nat /\ pictures'[k][1][1] = run
               /\ pictures'[k][1][2] <= counted
               /\ k # saved + 1 => k \in 1..saved /\ pictures'[k][1][2] < counted
               /\ k = saved + 1 => pictures'[k][1][2] = counted
    <3>1. CASE k = saved + 1
      BY <1>0, <1>1, <1>2, <3>1
    <3>2. CASE k # saved + 1
      BY <1>0, <1>1, <3>2 DEF WriterInv, Numbered, Busy
    <3> QED
      BY <3>1, <3>2
  <2>3. ASSUME NEW j \in 1..saved', NEW k \in 1..saved', j < k
        PROVE  pictures'[j][1][2] < pictures'[k][1][2]
    <3>1. j \in 1..saved
      BY <1>0, <2>3
    <3>2. CASE k = saved + 1
      BY <1>0, <2>2, <2>3, <3>1, <3>2
    <3>3. CASE k # saved + 1
      <4>1. k \in 1..saved /\ pictures'[j] = pictures[j] /\ pictures'[k] = pictures[k]
        BY <1>0, <1>1, <3>1, <3>3
      <4> QED
        BY <2>3, <3>1, <4>1 DEF WriterInv, Numbered
    <3> QED
      BY <3>2, <3>3
  <2>4. at' \notin Busy /\ counted' = counted /\ run' = run
        /\ (at' # "idle" => drawing'.frame = <<run, counted>>)
    BY <1>0, Zenon DEF Busy
  <2>5. \A k \in 1..saved' :
          /\ pictures'[k] \in Frames \X Nat /\ pictures'[k][1][1] = run
          /\ pictures'[k][1][2] <= counted
    BY <2>2, Zenon
  <2> QED
    BY <2>1, <2>3, <2>4, <2>5 DEF Numbered
<1>5. Drawn'
  BY <1>0, <1>1 DEF Drawn
<1>6. Noted'
  <2>1. \A k \in 1..saved : k \in 1..saved'
    BY <1>0
  <2>2. ASSUME NEW piece, IsNoted(piece) PROVE IsNoted(piece)'
    <3> SUFFICES ASSUME piece[1] = "record"
                 PROVE  /\ piece[2][1] <= run
                        /\ piece[2][1] = run =>
                             \E k \in 1..saved' : pictures'[k] = <<piece[2], piece[3]>>
      BY <1>0 DEF IsNoted
    <3>1. CASE piece[2][1] = run
      <4>1. PICK k \in 1..saved : pictures[k] = <<piece[2], piece[3]>>
        BY <2>2, <3>1 DEF IsNoted
      <4>2. k \in 1..saved' /\ pictures'[k] = <<piece[2], piece[3]>>
        BY <1>1, <2>1, <4>1, Zenon
      <4> QED BY <1>0, <3>1, <4>2
    <3>2. CASE piece[2][1] # run
      BY <2>2, <3>2 DEF IsNoted
    <3> QED BY <3>1, <3>2
  <2> QED
    BY <1>0, <2>2 DEF WriterInv, Noted
<1> QED
  BY <1>3, <1>4, <1>5, <1>6 DEF WriterInv

(* The log grows.                                                          *)
LEMMA LogKeeps ==
  ASSUME WriterInv, NEW piece \in Pieces, log' = Append(log, piece),
         UNCHANGED <<counted, saved, drawing, pictures, run>>,
         at \in {"open", "line", "newline"}, at' \in {"newline", "idle"},
         IsNoted(piece)
  PROVE  WriterInv'
<1>1. log \in Seq(Pieces)
  BY DEF WriterInv, WriterTyped
<1>2. /\ Append(log, piece) \in Seq(Pieces)
      /\ \A i \in DOMAIN Append(log, piece) :
           \/ Append(log, piece)[i] = piece
           \/ i \in DOMAIN log /\ Append(log, piece)[i] = log[i]
  BY <1>1
<1>3. WriterTyped'
  BY <1>2 DEF WriterInv, WriterTyped, WriterPlaces
<1>4. Numbered' /\ Drawn'
  BY DEF WriterInv, Numbered, Drawn, Busy
<1>5. ASSUME NEW i \in DOMAIN log' PROVE IsNoted(log[i])'
  <2>1. PICK q : q = log'[i]
    OBVIOUS
  <2>2. IsNoted(q)
    BY <1>2, <2>1 DEF WriterInv, Noted
  <2>3. IsNoted(q)'
    BY <2>2 DEF IsNoted
  <2> QED
    BY <2>1, <2>3
<1> QED
  BY <1>3, <1>4, <1>5 DEF WriterInv, Noted

LEMMA WriterStepKeeps == WriterInv /\ [WriterNext]_writerVars => WriterInv'
<1> SUFFICES ASSUME WriterInv, [WriterNext]_writerVars PROVE WriterInv'
  OBVIOUS
<1>0. /\ at \in WriterPlaces /\ drawing \in [frame : Frames, found : Nat, drawn : Nat]
      /\ run \in Nat /\ counted \in Nat /\ Drawn /\ saved \in Nat
      /\ pictures \in [1..MaxSaves -> Pictures] /\ log \in Seq(Pieces)
  BY DEF WriterInv, WriterTyped
<1>1. CASE \E found \in 0..MaxDetections : Save(found)
  BY <1>1, SaveKeeps
<1>2. CASE NotAnImage \/ EncodeFails \/ WriteFails \/ (AppendFails /\ log' = log)
  BY <1>0, <1>2, SameDisk
     DEF NotAnImage, EncodeFails, WriteFails, AppendFails, FailAt, WriterPlaces, Busy, Drawn
<1>3. CASE FrameToRgbImage \/ EncodeJpeg
  BY <1>0, <1>3, SameDisk DEF FrameToRgbImage, EncodeJpeg, WriterPlaces, Busy, Drawn
<1>4. CASE DrawDetection
  <2>1. /\ drawing' \in [frame : Frames, found : Nat, drawn : Nat]
        /\ drawing'.frame = drawing.frame
    BY <1>0, <1>4 DEF DrawDetection
  <2> QED
    BY <1>0, <1>4, <2>1, SameDisk DEF DrawDetection, WriterPlaces, Busy, Drawn
<1>5. CASE OpenLog
  BY <1>0, <1>5, SameDisk DEF OpenLog, WriterPlaces, Busy, Drawn
<1>6. CASE AppendRecord
  <2>1. PICK piece : piece = LogRecord
    OBVIOUS
  <2>2. piece \in Pieces /\ piece[1] = "record" /\ piece[2] = drawing.frame
        /\ piece[3] = drawing.found
    BY <1>0, <2>1 DEF LogRecord, Pieces
  <2>3. drawing.frame = <<run, counted>> /\ saved >= 1
        /\ pictures[saved] = <<drawing.frame, drawing.found>>
    BY <1>6 DEF AppendRecord, WriterInv, Numbered, Drawn
  <2>4. IsNoted(piece)
    BY <1>0, <2>2, <2>3, SMTT(30) DEF IsNoted
  <2> QED
    BY <1>6, <2>1, <2>2, <2>4, LogKeeps DEF AppendRecord
<1>7. ASSUME NEW piece \in {<<"newline">>, <<"part">>}, log' = Append(log, piece),
             UNCHANGED <<counted, saved, drawing, pictures, run>>,
             at \in {"open", "line", "newline"}, at' = "idle"
      PROVE  WriterInv'
  <2>1. piece \in Pieces /\ piece[1] # "record"
    BY <1>7 DEF Pieces
  <2> QED
    BY <1>7, <2>1, LogKeeps DEF IsNoted
<1>8. CASE AppendNewline \/ (AppendFails /\ log' # log)
  BY <1>7, <1>8 DEF AppendNewline, AppendFails, FailAt
<1>9. CASE NewRun
  <2>0. /\ run' = run + 1 /\ at' = "idle" /\ counted' = 0 /\ saved' = 0
        /\ drawing' = Blank /\ UNCHANGED <<pictures, log>>
    BY <1>9 DEF NewRun
  <2>1. WriterTyped'
    BY <1>0, <2>0, WriterAssumption DEF WriterInv, WriterTyped, WriterPlaces, Blank, Frames
  <2>2. Numbered' /\ Drawn'
    BY <2>0 DEF Numbered, Drawn, Busy
  <2>3. ASSUME NEW i \in DOMAIN log, log[i][1] = "record"
        PROVE  log[i][2][1] <= run + 1 /\ log[i][2][1] # run + 1
    <3>1. log[i] \in Pieces
      BY <1>0
    <3>2. log[i][2] \in Frames
      BY <2>3, <3>1 DEF Pieces
    <3>3. log[i][2][1] \in Nat /\ log[i][2][1] <= run
      BY <2>3, <3>2 DEF Frames, WriterInv, Noted, IsNoted
    <3> QED
      BY <1>0, <3>3
  <2>4. Noted'
    BY <2>0, <2>3 DEF Noted, IsNoted
  <2> QED
    BY <2>1, <2>2, <2>4 DEF WriterInv
<1>10. CASE CreatePicture \/ WritePicture
  BY <1>10, CreateKeeps, WriteKeeps
<1>11. CASE UNCHANGED writerVars
  BY <1>0, <1>11, SameDisk DEF writerVars, Drawn
<1> QED
  BY <1>1, <1>2, <1>3, <1>4, <1>5, <1>6, <1>8, <1>9, <1>10, <1>11 DEF WriterNext

\* The pictures and the log of this run are as far as its counters say.
THEOREM WriterInvariant == WriterSpec => []WriterInv
BY WriterStart, WriterStepKeeps, PTL DEF WriterSpec

\* Every record this run got into the log has its whole picture, whatever
\* failed and wherever an earlier run died.
THEOREM LogHasItsPictures == WriterSpec => []LoggedFramesHavePictures
<1>1. WriterInv => LoggedFramesHavePictures
  <2> SUFFICES ASSUME WriterInv PROVE LoggedFramesHavePictures
    OBVIOUS
  <2>1. \A k \in 1..saved : IsPicture(k)
    <3> SUFFICES ASSUME NEW k \in 1..saved PROVE IsPicture(k)
      OBVIOUS
    <3>1. pictures[k] \in Frames \X Nat /\ pictures[k][1][1] = run
      BY DEF WriterInv, Numbered
    <3>2. pictures[k] # <<>>
      BY <3>1
    <3> QED
      BY <3>1, <3>2 DEF IsPicture, NoPicture
  <2> QED
    BY <2>1 DEF WriterInv, Numbered, Noted, IsNoted, LoggedFramesHavePictures
<1> QED
  BY <1>1, WriterInvariant, PTL

-----------------------------------------------------------------------------
(* The safety monitor: its reading of the battery is the last one, or there *)
(* is none; none is taken, here and of the position, by a watch that is    *)
(* switched off.                                                           *)
LastReading == /\ battery = {} \/ \E b : battery = {b}
               /\ "battery" \notin enabled => battery = {}
               /\ "geofence" \notin enabled => position = {}

LEMMA MonitorKeeps == LastReading /\ [MonitorNext]_monitorVars => LastReading'
BY DEF LastReading, MonitorNext, SetHome, UpdatePosition, UpdateBattery, Check, monitorVars

LEMMA OnlyMember == ASSUME NEW x PROVE (CHOOSE y \in {x} : TRUE) = x
<1>1. \E y : y \in {x}
  OBVIOUS
<1>2. (CHOOSE y : y \in {x} /\ TRUE) \in {x}
  BY <1>1
<1> QED
  BY <1>2

(* What the worst of the readings asks for.                                *)
WorstVerdict ==
  LET critical == \E b \in battery : b.charge <= LandThreshold
      low == \E b \in battery : b.charge <= RthThreshold \/ (b.volts > 0 /\ b.volts <= MinVoltage)
  IN  IF critical THEN "Land" ELSE IF low \/ FenceBroken THEN "Rth" ELSE "none"

LEMMA CheckFindsWorst == LastReading /\ Check => verdict' = WorstVerdict
<1> SUFFICES ASSUME LastReading, Check PROVE verdict' = WorstVerdict
  OBVIOUS
<1>1. "geofence" \notin enabled => ~FenceBroken
  BY DEF LastReading, FenceBroken
<1>2. CASE battery = {}
  <2>1. BatteryVerdict = {}
    BY <1>2 DEF BatteryVerdict
  <2> QED
    BY <1>1, <1>2, <2>1 DEF Check, WorstVerdict
<1>3. CASE battery # {}
  <2>1. PICK b : battery = {b} /\ "battery" \in enabled
    BY <1>3 DEF LastReading
  <2>2. PICK x : x = IF b.charge <= LandThreshold THEN "Land"
                     ELSE IF \/ b.charge <= RthThreshold
                             \/ b.volts > 0 /\ b.volts <= MinVoltage THEN "Rth"
                     ELSE "none"
    OBVIOUS
  <2>3. BatteryVerdict = {x}
    BY <2>1, <2>2 DEF BatteryVerdict
  <2>4. (CHOOSE v \in BatteryVerdict : TRUE) = x
    BY <2>3, OnlyMember
  <2>5. verdict' = IF x \in {"Rth", "Land"} THEN x
                   ELSE IF "geofence" \in enabled /\ FenceBroken THEN "Rth" ELSE "none"
    BY <2>1, <2>3, <2>4 DEF Check
  <2>6. verdict' = IF x \in {"Rth", "Land"} THEN x
                   ELSE IF FenceBroken THEN "Rth" ELSE "none"
    BY <1>1, <2>5
  <2> QED
    BY <2>1, <2>2, <2>6 DEF WorstVerdict
<1> QED
  BY <1>2, <1>3

\* The answer of the safety monitor is that of its worst reading, in whatever
\* order the readings came and whichever watch is switched off.
THEOREM WorstDecides == MonitorSpec => WorstReadingDecides
<1>1. MonitorInit => LastReading
  BY DEF MonitorInit, LastReading
<1>2. LastReading /\ [MonitorNext]_monitorVars => [Check => verdict' = WorstVerdict]_monitorVars
  BY CheckFindsWorst
<1> QED
  BY <1>1, <1>2, MonitorKeeps, PTL DEF MonitorSpec, WorstReadingDecides, WorstVerdict

-----------------------------------------------------------------------------
(* The anti-loop guard: counting sign changes.                             *)
Changes(h) == {i \in 1..(Len(h) - 1) : h[i] # h[i + 1]}

LEMMA ChangesFinite ==
  ASSUME NEW h \in Seq(BOOLEAN)
  PROVE  /\ IsFiniteSet(Changes(h))
         /\ SignChanges(h) = Cardinality(Changes(h))
         /\ SignChanges(h) \in Nat
<1>1. IsFiniteSet(1..(Len(h) - 1))
  BY FS_Interval, SMT
<1>2. IsFiniteSet(Changes(h))
  BY <1>1, FS_Subset DEF Changes
<1> QED
  BY <1>2, FS_CardinalityType DEF SignChanges, Changes

(* Fewer than two signs never change.                                      *)
LEMMA ShortIsCalm ==
  ASSUME NEW h \in Seq(BOOLEAN), Len(h) <= 1
  PROVE  SignChanges(h) = 0
<1>1. Changes(h) = {}
  BY DEF Changes
<1> QED
  BY <1>1, FS_EmptySet DEF SignChanges, Changes

(* A sign like the last one adds no change.                                *)
LEMMA SameSignAddsNone ==
  ASSUME NEW h \in Seq(BOOLEAN), h # <<>>, NEW b \in BOOLEAN, LastOf(h) = b
  PROVE  SignChanges(Append(h, b)) = SignChanges(h)
<1>1. Changes(Append(h, b)) = Changes(h)
  BY DEF Changes, LastOf
<1> QED
  BY <1>1 DEF SignChanges, Changes

(* Forgetting the oldest sign forgets at most a change.                    *)
LEMMA TailIsCalmer ==
  ASSUME NEW h \in Seq(BOOLEAN), h # <<>>
  PROVE  SignChanges(Tail(h)) <= SignChanges(h)
<1> DEFINE f == [i \in Changes(Tail(h)) |-> i + 1]
<1>1. Tail(h) \in Seq(BOOLEAN) /\ Len(Tail(h)) = Len(h) - 1
  OBVIOUS
<1>2. \A i \in 1..Len(Tail(h)) : Tail(h)[i] = h[i + 1]
  OBVIOUS
<1>3. f \in [Changes(Tail(h)) -> Changes(h)]
  BY <1>1, <1>2, SMTT(30) DEF Changes
<1>4. \A i, j \in Changes(Tail(h)) : f[i] = f[j] => i = j
  BY DEF Changes
<1>5. f \in Injection(Changes(Tail(h)), Changes(h))
  BY <1>3, <1>4 DEF Injection, IsInjective
<1> QED
  BY <1>1, <1>5, ChangesFinite, FS_Injection DEF SignChanges, Changes

-----------------------------------------------------------------------------
(* The inductive invariant: the types, a window no longer than it may be,  *)
(* triggers that count right after a trip, and the calm of the stream.     *)
GTypeOK == /\ now \in Nat /\ freezeUntil \in Nat
           /\ history \in Seq(BOOLEAN) /\ Len(history) <= Window
           /\ triggers \subseteq Nat
           /\ decision \in Contract!Decisions \cup {"none"}
           /\ weakPassed \in BOOLEAN

(* The verdicts, as the guard's contract names them.                       *)
LEMMA Verdicts ==
  /\ Contract!Trips = {"Degrade", "Abort"}
  /\ Contract!Decisions = {"Allow", "Suppress", "Degrade", "Abort"}
BY DEF Contract!Trips, Contract!Decisions

(* A verdict is looked at before time passes, when all triggers kept count. *)
FreshTriggers == decision \in Contract!Trips =>
                   /\ \A t \in triggers : Recent(t)
                   /\ decision = "Abort" <=> Cardinality(triggers) >= AbortCount

GInv == GTypeOK /\ FreshTriggers /\ StreamIsCalm

LEMMA GuardInitInv == Init => GInv
<1> SUFFICES ASSUME Init PROVE GInv
  OBVIOUS
<1>1. GTypeOK
  <2>1. <<>> \in Seq(BOOLEAN) /\ Len(<<>>) = 0
    OBVIOUS
  <2>2. decision \in Contract!Decisions \cup {"none"} /\ triggers \subseteq Nat
    BY DEF Init
  <2>3. weakPassed \in BOOLEAN
    BY Zenon DEF Init
  <2>4. now \in Nat /\ freezeUntil \in Nat
    BY DEF Init
  <2>5. history \in Seq(BOOLEAN) /\ Len(history) <= Window
    BY <2>1, GuardAssumption DEF Init
  <2> QED
    BY <2>2, <2>3, <2>4, <2>5 DEF GTypeOK
<1>2. FreshTriggers
  BY DEF Init, FreshTriggers, Contract!Trips
<1>3. SignChanges(<<>>) = 0
  <2>1. <<>> \in Seq(BOOLEAN) /\ Len(<<>>) <= 1
    OBVIOUS
  <2> QED
    BY <2>1, ShortIsCalm
<1>4. StreamIsCalm
  BY <1>3, GuardAssumption DEF Init, StreamIsCalm
<1> QED
  BY <1>1, <1>2, <1>4 DEF GInv

LEMMA PositiveIsBoolean == \A y \in Yaws : Positive(y) \in BOOLEAN
BY DEF Positive

(* The window after one more sign.                                         *)
LEMMA RememberWindow ==
  ASSUME NEW h \in Seq(BOOLEAN), Len(h) <= Window, NEW b \in BOOLEAN
  PROVE  LET r == Remember(Append(h, b))
         IN  /\ r \in Seq(BOOLEAN) /\ Len(r) <= Window
             /\ h # <<>> => Len(r) >= Len(h)
             /\ SignChanges(r) <= SignChanges(Append(h, b))
<1> DEFINE a == Append(h, b)
<1>1. a \in Seq(BOOLEAN) /\ Len(a) = Len(h) + 1 /\ a # <<>>
  OBVIOUS
<1>2. SignChanges(a) \in Nat
  BY <1>1, ChangesFinite
<1>3. CASE Len(a) > Window
  <2>1. Remember(a) = Tail(a)
    BY <1>3 DEF Remember
  <2> HIDE DEF a
  <2>2. SignChanges(Tail(a)) <= SignChanges(a)
    BY <1>1, TailIsCalmer
  <2>3. Tail(a) \in Seq(BOOLEAN) /\ Len(Tail(a)) = Len(h)
    BY <1>1
  <2> QED
    BY <2>1, <2>2, <2>3, <1>3, <1>1, GuardAssumption DEF a
<1>4. CASE ~(Len(a) > Window)
  <2>1. Remember(a) = a
    BY <1>4 DEF Remember
  <2> QED
    BY <2>1, <1>1, <1>2, <1>4, GuardAssumption
<1> QED
  BY <1>3, <1>4

(* The check bounds the changes that the new sign brings with it, whether  *)
(* or not the new sign is a change.                                        *)
LEMMA CheckedSignIsCalm ==
  ASSUME NEW h \in Seq(BOOLEAN), h # <<>>, NEW y \in Yaws, Strong(y),
         ~Oscillates(h, y),
         ThresholdDen * SignChanges(h) <= ThresholdNum * Len(h)
  PROVE  ThresholdDen * SignChanges(Append(h, Positive(y)))
            <= ThresholdNum * Len(h)
<1>1. CASE LastOf(h) = Positive(y)
  BY <1>1, SameSignAddsNone, PositiveIsBoolean
<1>2. CASE LastOf(h) # Positive(y)
  <2>0. Append(h, Positive(y)) \in Seq(BOOLEAN)
    BY PositiveIsBoolean
  <2>1. SignChanges(Append(h, Positive(y))) \in Nat
    BY <2>0, ChangesFinite
  <2> QED
    BY <1>2, <2>1, GuardAssumption DEF Oscillates
<1> QED
  BY <1>1, <1>2

LEMMA ProductMonotone ==
  ASSUME NEW k \in Nat, NEW a \in Nat, NEW b \in Nat, a <= b
  PROVE  k * a <= k * b
BY SMT

LEMMA PassKeepsCalm ==
  ASSUME GTypeOK, StreamIsCalm, NEW y \in Yaws, Pass(y)
  PROVE  StreamIsCalm'
<1> DEFINE p == Positive(y)
           a == Append(history, p)
<1>1. SUFFICES ASSUME ~weakPassed, Strong(y)
               PROVE  ThresholdDen * SignChanges(history')
                        <= ThresholdNum * Len(history')
  BY DEF Pass, StreamIsCalm, GTypeOK
<1>2. p \in BOOLEAN /\ history \in Seq(BOOLEAN) /\ Len(history) <= Window
  BY PositiveIsBoolean DEF GTypeOK
<1>3. history' = Remember(a)
  BY DEF Pass
<1>4. /\ history' \in Seq(BOOLEAN)
      /\ history # <<>> => Len(history') >= Len(history)
      /\ SignChanges(history') <= SignChanges(a)
  BY <1>2, <1>3, RememberWindow
<1>5. a \in Seq(BOOLEAN) /\ Len(a) = Len(history) + 1
  BY <1>2
<1>6. SignChanges(history') \in Nat /\ SignChanges(a) \in Nat
      /\ Len(history) \in Nat /\ Len(history') \in Nat
  <2> HIDE DEF a
  <2> QED
    BY <1>2, <1>4, <1>5, ChangesFinite
<1>7. CASE history = <<>>
  <2>0. Len(a) <= 1
    BY <1>5, <1>7
  <2> HIDE DEF a
  <2>1. SignChanges(a) = 0
    BY <1>5, <2>0, ShortIsCalm
  <2>2. SignChanges(history') = 0
    BY <2>1, <1>4, <1>6
  <2> QED
    BY <2>2, <1>6, GuardAssumption
<1>8. CASE history # <<>>
  <2> HIDE DEF a, p
  <2>1. ThresholdDen * SignChanges(history) <= ThresholdNum * Len(history)
    BY <1>1 DEF StreamIsCalm
  <2>2. ThresholdDen * SignChanges(a) <= ThresholdNum * Len(history)
    BY <2>1, <1>1, <1>2, <1>8, CheckedSignIsCalm DEF Pass, a, p
  <2>3. ThresholdDen * SignChanges(history') <= ThresholdDen * SignChanges(a)
    BY <1>4, <1>6, ProductMonotone, GuardAssumption
  <2>4. ThresholdNum * Len(history) <= ThresholdNum * Len(history')
    BY <1>4, <1>6, <1>8, ProductMonotone, GuardAssumption
  <2> DEFINE c == ThresholdDen * SignChanges(history')
             d == ThresholdDen * SignChanges(a)
             e == ThresholdNum * Len(history)
             g == ThresholdNum * Len(history')
  <2>5. c \in Nat /\ d \in Nat /\ e \in Nat /\ g \in Nat
    BY <1>6, GuardAssumption
  <2> HIDE DEF c, d, e, g
  <2>6. c <= g
    BY <2>2, <2>3, <2>4, <2>5 DEF c, d, e, g
  <2> QED
    BY <2>6 DEF c, g
<1> QED
  BY <1>7, <1>8

-----------------------------------------------------------------------------
(* What each kind of step keeps.                                           *)
LEMMA TickKeeps == GInv /\ Tick => GInv'
<1> SUFFICES ASSUME GInv, Tick PROVE GInv'
  OBVIOUS
<1>1. GTypeOK'
  BY Verdicts DEF GInv, GTypeOK, Tick
<1>2. FreshTriggers'
  BY Verdicts DEF Tick, FreshTriggers
<1>3. StreamIsCalm'
  BY DEF GInv, Tick, StreamIsCalm
<1> QED
  BY <1>1, <1>2, <1>3 DEF GInv

LEMMA SuppressKeeps == GInv /\ (Frozen \/ InDeadband) => GInv'
<1> SUFFICES ASSUME GInv, Frozen \/ InDeadband PROVE GInv'
  OBVIOUS
<1>0. /\ decision' = "Suppress"
      /\ freezeUntil' \in Nat
      /\ UNCHANGED <<now, history, triggers, weakPassed>>
  BY DEF Frozen, InDeadband, Thaw, GInv, GTypeOK
<1>1. GTypeOK'
  BY <1>0, Verdicts DEF GInv, GTypeOK
<1>2. FreshTriggers'
  BY <1>0, Verdicts DEF FreshTriggers
<1>3. StreamIsCalm'
  BY <1>0 DEF GInv, StreamIsCalm
<1> QED
  BY <1>1, <1>2, <1>3 DEF GInv

LEMMA PassKeeps == GInv /\ (\E y \in Yaws : Pass(y)) => GInv'
<1> SUFFICES ASSUME GInv, NEW y \in Yaws, Pass(y) PROVE GInv'
  OBVIOUS
<1>1. GTypeOK'
  <2>1. history' \in Seq(BOOLEAN) /\ Len(history') <= Window
    BY RememberWindow, PositiveIsBoolean DEF GInv, GTypeOK, Pass
  <2>2. weakPassed' \in BOOLEAN
    BY Zenon DEF GInv, GTypeOK, Pass, Strong
  <2>3. UNCHANGED <<now, triggers>> /\ decision' = "Allow" /\ freezeUntil' = 0
    BY DEF Pass, Thaw
  <2> QED
    BY <2>1, <2>2, <2>3, Verdicts DEF GInv, GTypeOK
<1>2. FreshTriggers'
  BY Verdicts DEF Pass, FreshTriggers
<1>3. StreamIsCalm'
  BY PassKeepsCalm DEF GInv
<1> QED
  BY <1>1, <1>2, <1>3 DEF GInv

(* After a trip the triggers kept are those of the window, this one        *)
(* included, so their number is what the verdict was taken from.           *)
LEMMA TripKeeps == GInv /\ (\E y \in Yaws : Trip(y)) => GInv'
<1> SUFFICES ASSUME GInv, NEW y \in Yaws, Trip(y) PROVE GInv'
  OBVIOUS
<1>0. /\ now \in Nat /\ now' = now /\ triggers \subseteq Nat
      /\ triggers' = {t \in triggers : Recent(t)} \cup {now}
      /\ freezeUntil' = now + Freeze
      /\ history' = <<>> /\ weakPassed' = FALSE
      /\ decision' = IF Cardinality(triggers') >= AbortCount
                     THEN "Abort" ELSE "Degrade"
  BY DEF GInv, GTypeOK, Trip
<1>1. GTypeOK'
  <2>1. history' \in Seq(BOOLEAN) /\ Len(history') = 0
    BY <1>0
  <2>2. triggers' \subseteq Nat
    BY <1>0, Zenon
  <2>3. now' \in Nat /\ freezeUntil' \in Nat
    BY <1>0, GuardAssumption
  <2>4. weakPassed' \in BOOLEAN
    BY <1>0, Zenon
  <2>5. decision' \in Contract!Decisions \cup {"none"}
    BY <1>0, Verdicts, Zenon
  <2>6. Len(history') <= Window
    BY <2>1, GuardAssumption
  <2> QED
    BY <2>1, <2>2, <2>3, <2>4, <2>5, <2>6 DEF GTypeOK
<1>2. FreshTriggers'
  <2>1. \A t \in triggers' : now' - t < TriggerWindow
    BY <1>0, GuardAssumption DEF Recent
  <2>2. decision' = "Abort" <=> Cardinality(triggers') >= AbortCount
    BY <1>0
  <2> QED
    BY <2>1, <2>2 DEF FreshTriggers, Recent
<1>3. StreamIsCalm'
  <2>1. <<>> \in Seq(BOOLEAN) /\ Len(<<>>) = 0
    OBVIOUS
  <2>2. SignChanges(<<>>) = 0
    <3>1. Len(<<>>) <= 1
      OBVIOUS
    <3> QED
      BY <2>1, <3>1, ShortIsCalm
  <2> QED
    BY <1>0, <2>1, <2>2, GuardAssumption DEF StreamIsCalm
<1> QED
  BY <1>1, <1>2, <1>3 DEF GInv

(* The guard's inductive invariant: types, triggers that count after a     *)
(* trip, and a calm window, through every sequence of commands and ticks   *)
(* (process and handle_oscillation of anti_loop.rs).                       *)
THEOREM GuardInvariant == Spec => []GInv
<1>1. GInv /\ [Next]_guardState => GInv'
  <2> SUFFICES ASSUME GInv, [Next]_guardState PROVE GInv'
    OBVIOUS
  <2>1. CASE UNCHANGED guardState
    BY <2>1 DEF guardState, GInv, GTypeOK, FreshTriggers, Recent, StreamIsCalm
  <2> QED
    BY <2>1, TickKeeps, SuppressKeeps, PassKeeps, TripKeeps DEF Next
<1> QED
  BY <1>1, GuardInitInv, PTL DEF Spec

(* What handle_oscillation decides matches the trips of the last five      *)
(* seconds, whatever the limit.                                            *)
THEOREM GuardEscalates == Spec => []EscalatesOnlyIfRepeated
<1>1. GInv => EscalatesOnlyIfRepeated
  <2> SUFFICES ASSUME GInv, decision \in {"Degrade", "Abort"}
               PROVE  decision = "Abort" <=>
                        Cardinality({t \in triggers : Recent(t)}) >= AbortCount
    BY DEF EscalatesOnlyIfRepeated
  <2>1. /\ \A t \in triggers : Recent(t)
        /\ decision = "Abort" <=> Cardinality(triggers) >= AbortCount
    BY Verdicts DEF GInv, FreshTriggers
  <2>2. {t \in triggers : Recent(t)} = triggers
    BY <2>1
  <2> QED
    BY <2>1, <2>2
<1> QED
  BY <1>1, GuardInvariant, PTL

(* The signs kept by process never reverse more often than the threshold,  *)
(* whatever the window, even when old signs leave it.                      *)
THEOREM GuardIsCalm == Spec => []StreamIsCalm
BY GuardInvariant, PTL DEF GInv

-----------------------------------------------------------------------------
(* Every step of the guard is one of the contract's.                       *)
LEMMA GuardStepSimulated ==
  ASSUME GInv, [Next]_guardState
  PROVE  [Contract!GuardNext]_(Contract!guardVars)
<1>0. now \in Nat /\ freezeUntil \in Nat
  BY DEF GInv, GTypeOK
<1>1. CASE Tick
  <2>1. now' < freezeUntil' => now < freezeUntil
    BY <1>0, <1>1 DEF Tick
  <2>2. (now' < freezeUntil') \in {now < freezeUntil, FALSE}
    <3>1. \/ (now' < freezeUntil') = (now < freezeUntil)
          \/ (now' < freezeUntil') = FALSE
      BY <2>1, SMT
    <3> QED
      BY <3>1, Zenon
  <2> QED
    BY <1>1, <2>2 DEF Tick, Contract!GuardNext, Contract!GuardElapse
<1>2. CASE Frozen
  <2>1. Contract!Decide("Suppress")
    BY <1>2, Verdicts DEF Frozen, Contract!Decide
  <2> QED
    BY <2>1, Verdicts DEF Contract!GuardNext
<1>3. CASE InDeadband
  <2>1. ~(now < freezeUntil) /\ ~(now' < freezeUntil') /\ decision' = "Suppress"
    BY <1>0, <1>3 DEF InDeadband, Thaw
  <2>2. Contract!Decide("Suppress")
    BY <2>1, Verdicts DEF Contract!Decide
  <2> QED
    BY <2>2, Verdicts DEF Contract!GuardNext
<1>4. ASSUME NEW y \in Yaws, Pass(y)
      PROVE  Contract!GuardNext
  <2>1. ~(now < freezeUntil) /\ ~(now' < freezeUntil') /\ decision' = "Allow"
    BY <1>0, <1>4 DEF Pass, Thaw
  <2>2. Contract!Decide("Allow")
    BY <2>1, Verdicts DEF Contract!Decide
  <2> QED
    BY <2>2, Verdicts DEF Contract!GuardNext
<1>5. ASSUME NEW y \in Yaws, Trip(y)
      PROVE  Contract!GuardNext
  <2>1. /\ ~(now < freezeUntil)
        /\ now' < freezeUntil'
        /\ decision' \in {"Degrade", "Abort"}
    BY <1>0, <1>5, GuardAssumption DEF Trip
  <2>2. Contract!Decide(decision')
    BY <2>1, Verdicts DEF Contract!Decide
  <2> QED
    BY <2>1, <2>2, Verdicts DEF Contract!GuardNext
<1>6. CASE UNCHANGED guardState
  BY <1>6 DEF guardState, Contract!guardVars
<1> QED
  BY <1>1, <1>2, <1>3, <1>4, <1>5, <1>6 DEF Next

(* The guard keeps the contract that the commander is modelled on, for     *)
(* every window, threshold and freeze.                                     *)
THEOREM GuardKeepsContract == Spec => ImplementsContract
<1>1. Init => Contract!GuardInit
  BY DEF Init, Contract!GuardInit
<1>2. GInv /\ [Next]_guardState => [Contract!GuardNext]_(Contract!guardVars)
  BY GuardStepSimulated
<1> QED
  BY <1>1, <1>2, GuardInvariant, PTL
     DEF Spec, ImplementsContract, Contract!GuardSpec
=============================================================================
